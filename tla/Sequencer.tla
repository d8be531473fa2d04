----------------------------- MODULE Sequencer -----------------------------
(***************************************************************************)
(* The off-chain sequencer: an in-memory replica of every channel behind   *)
(* one tokio RwLock, a Postgres copy of it written row by row, and request *)
(* handlers that run concurrently and suspend at every await.              *)
(*                                                                         *)
(* A request slot p runs one handler at a time; pc[p] is the await it is   *)
(* suspended at:                                                           *)
(*   "idle"    no handler runs in the slot                                 *)
(*   "seed"    seed_channel, before its INSERT INTO channels               *)
(*   "insert"  seed_channel, row saved, waiting for the write lock         *)
(*   "settle"  settle, waiting for the write lock                          *)
(*   "save"    settle, replica updated, before INSERT INTO channels        *)
(*   "rows"    settle, before INSERT INTO recipients number job[p].next    *)
(*   "rpc"     finalize_channel, checks passed, sending the transaction    *)
(* The lock is not a variable: settle holds it in "save" and "rows", and   *)
(* finalize_channel shares it in "rpc".                                    *)
(*                                                                         *)
(* get_channel and validate_pay_in_channel read the replica under the      *)
(* shared lock and change nothing; they appear as guards of the actions of *)
(* the clients that act on what they returned.                             *)
(*                                                                         *)
(* NoWriteLock, StartAtZero, AcceptableUnsigned, AcceptableOverCapacity,   *)
(* SettleRefuseOnlyOld, InsertOrNothing, SettleReplyEarly, FinalizableAny  *)
(* and AbortReloads are plausible mistakes, each next to the definition it *)
(* would replace; nothing uses them but the mutants of PROJECT.json.       *)
(***************************************************************************)
EXTENDS ChannelData, FiniteSets

CONSTANTS
    Channels,       \* channel ids
    Requests,       \* slots for concurrently running handlers
    Setups,         \* the client processes that set channels up
    Payments,       \* the payments clients ask for
    Timestamps,     \* the signature timestamps clients use
    Balance,        \* Balance[c]: the capacity of channel c
    Expiry,         \* Expiry[c]: the expiry timestamp of channel c
    MaxRecipients,  \* MAX_RECIPIENTS of the configuration
    Skew,           \* how far ahead of its clock the sequencer accepts
    Faults,         \* which of the faults below may happen
    None,           \* no channel, no row, no signature, no job
    MaxSeq,         \* bound: clients sign no sequence number above it
    MaxSigned,      \* bound: how many updates are ever signed
    MaxTime         \* bound: the clock stops there

ASSUME PaymentsAssumption == Payments \subseteq Payment
ASSUME TimestampsAssumption == Timestamps \subseteq Nat \ {0}
ASSUME BalanceAssumption == Balance \in [Channels -> Nat]
ASSUME ExpiryAssumption == Expiry \in [Channels -> Nat]
ASSUME LimitsAssumption == MaxRecipients \in Nat /\ Skew \in Nat /\ MaxTime \in Nat
ASSUME FaultsAssumption == Faults \subseteq {"crash", "abort"}

VARIABLES
    channels,       \* the replica: AppState.channels
    dbChannels,     \* table channels: one row per channel, or None
    dbRecipients,   \* table recipients: the rows of each channel
    pc, job,        \* the handler of each request slot and its locals
    missing,        \* who was answered 404 for a channel and is yet to seed it
    signed,         \* the updates owners signed and sent, at any time
    receipts,       \* the views /settle answered with status 200
    closings,       \* the finalCloseBySequencer transactions sent
    now             \* the clock of the sequencer

vars == <<channels, dbChannels, dbRecipients, pc, job, missing, signed,
          receipts, closings, now>>
db == <<dbChannels, dbRecipients>>
clients == <<missing, signed, now>>
outputs == <<receipts, closings>>
-----------------------------------------------------------------------------
Data == Seq(Address \X Nat)
Signature == [chan : Channels, seq : Nat, ts : Nat, data : Data]
Row == [seq : Nat, ts : Nat, sig : Signature \cup {None}, cosig : Signature \cup {None}]
ChannelState ==
    [seq : Nat, ts : Nat, sig : Signature \cup {None},
     cosig : Signature \cup {None}, recipients : Seq(RecipientBalance)]
\* The empty string is no signature, and an absent entry no state.
ASSUME NoneAssumption ==
    None \notin Signature /\ None \notin Row /\ None \notin ChannelState
\* Nor is it an entry of the ledger the replica implements.
ASSUME NoEntryAssumption == None \notin [seq : Nat, owed : [Address -> Nat]]

ChannelView ==
    [chan : Channels, seq : Nat, ts : Nat, sig : Signature \cup {None},
     cosig : Signature \cup {None}, data : Data]
\* A PayInChannelRequest: the signed update and the payment it claims to be.
PayRequest ==
    [chan : Channels, seq : Nat, ts : Nat, sig : Signature, pay : Payment]
\* The message of a seed request stands for the process that sent it.
Job == [chan : Channels, msg : PayRequest \cup Setups \cup {None}, next : Nat \ {0}]

Fresh == [seq |-> 0, ts |-> 0, sig |-> None, cosig |-> None, recipients |-> <<>>]

View(c) ==
    [chan |-> c, seq |-> channels[c].seq, ts |-> channels[c].ts,
     sig |-> channels[c].sig, cosig |-> channels[c].cosig,
     data |-> Content(channels[c].recipients)]
RowOf(s) == [seq |-> s.seq, ts |-> s.ts, sig |-> s.sig, cosig |-> s.cosig]

Idle(p) == pc[p] = "idle"
ReadLockFree == \A p \in Requests : pc[p] \notin {"save", "rows"}
NoWriteLock == TRUE
WriteLockFree == \A p \in Requests : pc[p] \notin {"save", "rows", "rpc"}

StartAtZero(p, step, c, m) ==
    /\ Idle(p)
    /\ pc' = [pc EXCEPT ![p] = step]
    /\ job' = [job EXCEPT ![p] = [chan |-> c, msg |-> m, next |-> 0]]
Start(p, step, c, m) ==
    /\ Idle(p)
    /\ pc' = [pc EXCEPT ![p] = step]
    /\ job' = [job EXCEPT ![p] = [chan |-> c, msg |-> m, next |-> 1]]
Goto(p, step) == pc[p] # "idle" /\ pc' = [pc EXCEPT ![p] = step] /\ UNCHANGED job
Finish(p) == pc' = [pc EXCEPT ![p] = "idle"] /\ job' = [job EXCEPT ![p] = None]
-----------------------------------------------------------------------------
(***************************************************************************)
(* Clients.  An owner signs the update that adds a payment to a state it   *)
(* knows: one it read from the sequencer, or the state of an update it has *)
(* signed before (its cache, or a run of updates signed in advance).  The  *)
(* update may be sent at any later time, to any number of handlers.        *)
(***************************************************************************)
ReadState(c) ==
    IF channels[c] = None \/ ~ReadLockFree THEN {}
    ELSE {[seq |-> channels[c].seq, recipients |-> channels[c].recipients]}

KnownStates(c) ==
    ReadState(c) \cup
    {[seq |-> m.seq, recipients |-> FromContent(m.sig.data)] :
        m \in {n \in signed : n.chan = c}}

Sign(c, pay, ts) ==
    /\ Cardinality(signed) < MaxSigned
    /\ \E known \in KnownStates(c) :
        LET seq == known.seq + 1
            data == Content(ApplyPayment(known.recipients, pay))
        IN  /\ seq <= MaxSeq
            /\ signed' = signed \cup
                {[chan |-> c, seq |-> seq, ts |-> ts, pay |-> pay,
                  sig |-> Digest(c, seq, ts, data)]}
    /\ UNCHANGED <<channels, db, pc, job, missing, outputs, now>>

Tick ==
    /\ now < MaxTime
    /\ now' = now + 1
    /\ UNCHANGED <<channels, db, pc, job, missing, signed, outputs>>
-----------------------------------------------------------------------------
(***************************************************************************)
(* A process of the owner sets channel c up: it asks for the channel, and  *)
(* after a 404 it seeds the channel with a request of its own, whatever    *)
(* happened to the channel in between; nothing in the client or in the     *)
(* sequencer serialises the two processes that got the same answer.  It    *)
(* waits for the answer to its seed before it asks again.                  *)
(***************************************************************************)
Seeding(k, c) ==
    \E p \in Requests : pc[p] \in {"seed", "insert"} /\ job[p].chan = c /\ job[p].msg = k

Lookup(k, c) ==
    /\ ReadLockFree
    /\ channels[c] = None
    /\ ~Seeding(k, c)
    /\ missing' = [missing EXCEPT ![c] = @ \cup {k}]
    /\ UNCHANGED <<channels, db, pc, job, signed, now, outputs>>

SeedStart(p, c) ==
    \E k \in missing[c] :
        /\ missing' = [missing EXCEPT ![c] = @ \ {k}]
        /\ Start(p, "seed", c, k)
        /\ UNCHANGED <<channels, db, signed, now, outputs>>

\* seed_channel saves the fresh channel before it takes the write lock.
SeedSave(p) ==
    /\ pc[p] = "seed"
    /\ dbChannels' = [dbChannels EXCEPT ![job[p].chan] = RowOf(Fresh)]
    /\ Goto(p, "insert")
    /\ UNCHANGED <<channels, dbRecipients, clients, outputs>>

SeedInsert(p) ==
    /\ pc[p] = "insert"
    /\ WriteLockFree
    /\ channels' = [channels EXCEPT ![job[p].chan] = Fresh]
    /\ Finish(p)
    /\ UNCHANGED <<db, clients, outputs>>
-----------------------------------------------------------------------------
ValidTimestamp(ts, c) == ts <= now + Skew /\ ts <= Expiry[c]

\* compute_next_state: the recipients the update leads to, and its checks.
NextRecipients(m) == ApplyPayment(channels[m.chan].recipients, m.pay)
AcceptableUnsigned(m) ==
    /\ m.pay.amount > 0
    /\ ValidTimestamp(m.ts, m.chan)
    /\ Len(NextRecipients(m)) <= MaxRecipients
    /\ Total(Content(NextRecipients(m))) <= Balance[m.chan]
AcceptableOverCapacity(m) ==
    /\ m.pay.amount > 0
    /\ ValidTimestamp(m.ts, m.chan)
    /\ Len(NextRecipients(m)) <= MaxRecipients
    /\ m.sig = Digest(m.chan, m.seq, m.ts, Content(NextRecipients(m)))
Acceptable(m) ==
    /\ m.pay.amount > 0
    /\ ValidTimestamp(m.ts, m.chan)
    /\ Len(NextRecipients(m)) <= MaxRecipients
    /\ Total(Content(NextRecipients(m))) <= Balance[m.chan]
    /\ m.sig = Digest(m.chan, m.seq, m.ts, Content(NextRecipients(m)))

\* The update the replica already holds: settle answers it again.
Replayed(m) ==
    /\ m.seq = channels[m.chan].seq
    /\ m.sig = channels[m.chan].sig
    /\ m.ts = channels[m.chan].ts

Extends(m) == m.seq = channels[m.chan].seq + 1 /\ Acceptable(m)

SettleStart(p, m) ==
    /\ Start(p, "settle", m.chan, m)
    /\ UNCHANGED <<channels, db, clients, outputs>>

SettleRefuseOnlyOld(p) ==
    /\ pc[p] = "settle"
    /\ WriteLockFree
    /\ channels[job[p].chan] # None =>
         job[p].msg.seq <= channels[job[p].chan].seq /\ ~Replayed(job[p].msg)
    /\ Finish(p)
    /\ UNCHANGED <<channels, db, clients, outputs>>

SettleRefuse(p) ==
    /\ pc[p] = "settle"
    /\ WriteLockFree
    /\ channels[job[p].chan] # None => ~Replayed(job[p].msg) /\ ~Extends(job[p].msg)
    /\ Finish(p)
    /\ UNCHANGED <<channels, db, clients, outputs>>

SettleReplay(p) ==
    /\ pc[p] = "settle"
    /\ WriteLockFree
    /\ channels[job[p].chan] # None /\ Replayed(job[p].msg)
    /\ receipts' = receipts \cup {View(job[p].chan)}
    /\ Finish(p)
    /\ UNCHANGED <<channels, db, clients, closings>>

\* The replica takes the update, co-signed, before anything is saved.
SettleApply(p) ==
    LET m == job[p].msg
    IN  /\ pc[p] = "settle"
        /\ WriteLockFree
        /\ channels[job[p].chan] # None /\ Extends(m)
        /\ channels' = [channels EXCEPT ![m.chan] =
                [seq |-> m.seq, ts |-> m.ts, sig |-> m.sig,
                 cosig |-> Digest(m.chan, m.seq, m.ts, Content(NextRecipients(m))),
                 recipients |-> NextRecipients(m)]]
        /\ Goto(p, "save")
        /\ UNCHANGED <<db, clients, outputs>>

\* save_channel: every statement commits on its own.
SaveChannelRow(p) ==
    /\ pc[p] = "save"
    /\ dbChannels' = [dbChannels EXCEPT ![job[p].chan] = RowOf(channels[job[p].chan])]
    /\ Goto(p, "rows")
    /\ UNCHANGED <<channels, dbRecipients, clients, outputs>>

InsertOrNothing(rows, r) ==
    IF \E s \in rows : s.addr = r.addr THEN rows ELSE rows \cup {r}
Upsert(rows, r) == {s \in rows : s.addr # r.addr} \cup {r}

SaveRecipientRow(p) ==
    LET c == job[p].chan
        i == job[p].next
    IN  /\ pc[p] = "rows"
        /\ i <= Len(channels[c].recipients)
        /\ dbRecipients' =
             [dbRecipients EXCEPT ![c] = Upsert(@, channels[c].recipients[i])]
        /\ job' = [job EXCEPT ![p].next = i + 1]
        /\ UNCHANGED <<channels, dbChannels, pc, clients, outputs>>

SettleReplyEarly(p) ==
    /\ pc[p] = "rows"
    /\ job[p].next >= Len(channels[job[p].chan].recipients)
    /\ receipts' = receipts \cup {View(job[p].chan)}
    /\ Finish(p)
    /\ UNCHANGED <<channels, db, clients, closings>>

SettleReply(p) ==
    /\ pc[p] = "rows"
    /\ job[p].next > Len(channels[job[p].chan].recipients)
    /\ receipts' = receipts \cup {View(job[p].chan)}
    /\ Finish(p)
    /\ UNCHANGED <<channels, db, clients, closings>>
-----------------------------------------------------------------------------
(***************************************************************************)
(* finalize_channel checks the replica and sends the closing transaction   *)
(* under the shared lock, held across the call to the node.  A refused     *)
(* finalize changes nothing.                                               *)
(***************************************************************************)
FinalizableAny(c) == channels[c] # None
Finalizable(c) ==
    /\ channels[c] # None
    /\ channels[c].sig # None
    /\ channels[c].ts # 0
    /\ ValidTimestamp(channels[c].ts, c)
    /\ channels[c].sig =
         Digest(c, channels[c].seq, channels[c].ts, Content(channels[c].recipients))

FinalizeStart(p, c) ==
    /\ ReadLockFree
    /\ Finalizable(c)
    /\ Start(p, "rpc", c, None)
    /\ UNCHANGED <<channels, db, clients, outputs>>

FinalizeSend(p) ==
    /\ pc[p] = "rpc"
    /\ closings' = closings \cup {View(job[p].chan)}
    /\ Finish(p)
    /\ UNCHANGED <<channels, db, clients, receipts>>
-----------------------------------------------------------------------------
\* The rows of a channel in an order ORDER BY position may return them in.
OrderedByPosition(rows) ==
    {r \in [1..Cardinality(rows) -> rows] :
        /\ \A row \in rows : \E i \in DOMAIN r : r[i] = row
        /\ \A i, j \in DOMAIN r : i < j => r[i].pos <= r[j].pos}

Loaded(c) ==
    IF dbChannels[c] = None THEN {None}
    ELSE {[seq |-> dbChannels[c].seq, ts |-> dbChannels[c].ts,
           sig |-> dbChannels[c].sig, cosig |-> dbChannels[c].cosig,
           recipients |-> r] : r \in OrderedByPosition(dbRecipients[c])}

(***************************************************************************)
(* A handler ends early, at an await: the database or the node answers     *)
(* with an error, or the connection closes and the server drops the        *)
(* handler.  Its locks are released; the replica keeps what it wrote.      *)
(***************************************************************************)
AbortReloads(p) ==
    /\ "abort" \in Faults
    /\ pc[p] # "idle"
    /\ Finish(p)
    /\ \/ UNCHANGED channels
       \/ /\ pc[p] \in {"save", "rows"}
          /\ \E s \in Loaded(job[p].chan) : channels' = [channels EXCEPT ![job[p].chan] = s]
    /\ UNCHANGED <<db, clients, outputs>>

Abort(p) ==
    /\ "abort" \in Faults
    /\ pc[p] # "idle"
    /\ Finish(p)
    /\ UNCHANGED <<channels, db, clients, outputs>>

\* The process stops at any point and starts again with load_state.
Crash ==
    /\ "crash" \in Faults
    /\ channels' \in [Channels -> UNION {Loaded(c) : c \in Channels}]
    /\ \A c \in Channels : channels'[c] \in Loaded(c)
    /\ pc' = [p \in Requests |-> "idle"]
    /\ job' = [p \in Requests |-> None]
    /\ UNCHANGED <<db, clients, outputs>>
-----------------------------------------------------------------------------
Init ==
    /\ channels = [c \in Channels |-> None]
    /\ dbChannels = [c \in Channels |-> None]
    /\ dbRecipients = [c \in Channels |-> {}]
    /\ pc = [p \in Requests |-> "idle"]
    /\ job = [p \in Requests |-> None]
    /\ missing = [c \in Channels |-> {}]
    /\ signed = {}
    /\ receipts = {}
    /\ closings = {}
    /\ now = 0

Seed(p) == SeedSave(p) \/ SeedInsert(p)
Settle(p) == SettleRefuse(p) \/ SettleReplay(p) \/ SettleApply(p)
Save(p) == SaveChannelRow(p) \/ SaveRecipientRow(p) \/ SettleReply(p)

Next ==
    \/ \E c \in Channels, pay \in Payments, ts \in Timestamps : Sign(c, pay, ts)
    \/ Tick
    \/ \E k \in Setups, c \in Channels : Lookup(k, c)
    \/ \E p \in Requests :
        \/ \E c \in Channels : SeedStart(p, c) \/ FinalizeStart(p, c)
        \/ \E m \in signed : SettleStart(p, m)
        \/ Seed(p) \/ Settle(p) \/ Save(p) \/ FinalizeSend(p)
        \/ Abort(p)
    \/ Crash

Spec == Init /\ [][Next]_vars

(***************************************************************************)
(* Handlers keep running: the database and the node answer, and the lock,  *)
(* which tokio hands out in arrival order, reaches every waiter.           *)
(***************************************************************************)
Fairness ==
    \A p \in Requests :
        /\ WF_vars(SeedSave(p)) /\ SF_vars(SeedInsert(p))
        /\ SF_vars(Settle(p)) /\ WF_vars(Save(p))
        /\ WF_vars(FinalizeSend(p))

LiveSpec == Spec /\ Fairness
-----------------------------------------------------------------------------
\* Every variable has its type.
TypeOK ==
    /\ channels \in [Channels -> ChannelState \cup {None}]
    /\ dbChannels \in [Channels -> Row \cup {None}]
    /\ dbRecipients \in [Channels -> SUBSET RecipientBalance]
    /\ \A c \in Channels : IsFiniteSet(dbRecipients[c])
    /\ pc \in [Requests -> {"idle", "seed", "insert", "settle", "save", "rows", "rpc"}]
    /\ job \in [Requests -> Job \cup {None}]
    /\ \A p \in Requests : pc[p] # "idle" => job[p] \in Job
    /\ \A p \in Requests : pc[p] = "settle" =>
            job[p].msg \in PayRequest /\ job[p].msg.chan = job[p].chan
    /\ \A p \in Requests : pc[p] \in {"seed", "insert"} => job[p].msg \in Setups
    /\ missing \in [Channels -> SUBSET Setups]
    /\ signed \subseteq PayRequest
    /\ receipts \subseteq ChannelView
    /\ closings \subseteq ChannelView
    /\ now \in Nat

(***************************************************************************)
(* Whatever fails, the sequencer's signature in an answer of /settle is on *)
(* an update its owner signed, within the channel's balance, with the      *)
(* sequence number and timestamp the answer shows.                         *)
(***************************************************************************)
Backed(r) ==
    /\ r.cosig = r.sig
    /\ \E m \in signed : m.sig = r.sig
    /\ r.sig.chan = r.chan /\ r.sig.seq = r.seq /\ r.sig.ts = r.ts
    /\ Total(r.sig.data) <= Balance[r.chan]
CosignedBacked == \A r \in receipts : Backed(r)

(***************************************************************************)
(* Two answers of /settle for one sequence number are the same answer:     *)
(* concurrent updates, duplicates and the idempotent replay never get two  *)
(* different states co-signed under a number.  This, and each property     *)
(* below that speaks of one process, rests on a channel being set up by    *)
(* one process only: a second one that was answered 404 too resets the     *)
(* channel when its seed arrives.                                          *)
(***************************************************************************)
OneReceiptPerSequence ==
    \A r, s \in receipts : r.chan = s.chan /\ r.seq = s.seq => r = s

\* State s pays every recipient of the message data d at least as much.
Pays(s, d) == \A a \in Address : BalanceOf(FromContent(d), a) <= BalanceOf(s, a)

(***************************************************************************)
(* What /settle answered is kept: the replica never falls behind a receipt *)
(* in sequence number, nor owes anybody less than a receipt shows, if one  *)
(* process sets a channel up.                                              *)
(***************************************************************************)
ReceiptsKept ==
    \A r \in receipts :
        /\ channels[r.chan] # None
        /\ r.seq <= channels[r.chan].seq
        /\ Pays(channels[r.chan].recipients, r.data)

(***************************************************************************)
(* A closing transaction finalize_channel sends carries a state the owner  *)
(* signed, and pays every receipt with a sequence number up to its own, if *)
(* one process sets a channel up.                                          *)
(***************************************************************************)
ClosingsPayReceipts ==
    \A k \in closings :
        /\ k.sig = Digest(k.chan, k.seq, k.ts, k.data)
        /\ \A r \in receipts :
                r.chan = k.chan /\ r.seq <= k.seq => Pays(FromContent(k.data), r.data)

(***************************************************************************)
(* A receipt can be taken to the contract: both signatures in it are for   *)
(* the sequence number, the timestamp, the recipients and the amounts it   *)
(* shows.  A crash breaks this: load_state may join the signatures of one  *)
(* update to the amounts of the one before, and a retry is answered so.    *)
(***************************************************************************)
ReceiptClosable ==
    \A r \in receipts : r.sig = Digest(r.chan, r.seq, r.ts, r.data) /\ r.cosig = r.sig

(***************************************************************************)
(* When no handler is in the middle of writing channel c, the tables hold  *)
(* exactly what the replica holds, if one process sets a channel up.       *)
(***************************************************************************)
Quiet(c) ==
    \A p \in Requests : pc[p] \in {"insert", "save", "rows"} => job[p].chan # c
StoredIs(c, s) ==
    /\ dbChannels[c] = RowOf(s)
    /\ dbRecipients[c] = {s.recipients[i] : i \in DOMAIN s.recipients}
ReplicaMatchesDb ==
    \A c \in Channels : Quiet(c) =>
        IF channels[c] = None THEN dbChannels[c] = None
        ELSE StoredIs(c, channels[c])

(***************************************************************************)
(* An answer of /settle is persisted: the row of the channel is not behind *)
(* a receipt (the 200 response of /settle is documented as "state          *)
(* persisted").                                                            *)
(***************************************************************************)
ReceiptPersisted ==
    \A r \in receipts : dbChannels[r.chan] # None /\ r.seq <= dbChannels[r.chan].seq

(***************************************************************************)
(* The replica, also one just loaded, never owes more than the channel     *)
(* holds and never lists a recipient twice, if one process sets a channel  *)
(* up.                                                                     *)
(***************************************************************************)
WithinCapacity ==
    \A c \in Channels : channels[c] # None =>
        /\ Total(Content(channels[c].recipients)) <= Balance[c]
        /\ \A i, j \in DOMAIN channels[c].recipients :
              channels[c].recipients[i].addr = channels[c].recipients[j].addr => i = j

(***************************************************************************)
(* As long as the sequencer does not crash and one process sets a channel  *)
(* up, the replica is a ledger: every step opens a channel or adds one     *)
(* payment.                                                                *)
(***************************************************************************)
LedgerOf(s) == [seq |-> s.seq, owed |-> [a \in Address |-> BalanceOf(s.recipients, a)]]
Ledger == INSTANCE ChannelLedger WITH
    ledger <- [c \in Channels |-> IF channels[c] = None THEN None ELSE LedgerOf(channels[c])]
ImplementsLedger == Ledger!Spec

(***************************************************************************)
(* Every request is answered: no handler waits for ever for the lock, for  *)
(* its turn in the sequence, or behind a finalize that holds the lock.     *)
(***************************************************************************)
EveryRequestAnswered == \A p \in Requests : pc[p] # "idle" ~> pc[p] = "idle"
=============================================================================
