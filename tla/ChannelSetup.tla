---------------------------- MODULE ChannelSetup ----------------------------
(***************************************************************************)
(* How the processes of one owner find, open and seed a channel: the demo  *)
(* client (a "single" payment or a "batch") and the benchmark, one step    *)
(* per answer they await, while the owner's channels are opened and closed *)
(* under their hands.  PaidService has the payments of one channel in      *)
(* detail; here a payment is one step of service and sequencer.            *)
(*                                                                         *)
(* A client c is at client[c].pc, before the call of that name: "prepare", *)
(* "length" and "read" (the list of channels, which the sequencer reads    *)
(* from the chain element by element), "chain", "allowance", "approve",    *)
(* "open", "seed", "get", and "ready" to pay.  The list is read three      *)
(* times by a benchmark, so phase says for what: "shake" and "refresh" are *)
(* the service's, for its answer 402; "ensure" is the client's own.        *)
(*                                                                         *)
(* getChannelId hashes owner, expiry and amount, and the owner is fixed: a *)
(* channel is its expiry and amount.  A channel exists on the chain as     *)
(* long as it is in the list (PaymentChannel!IndexConsistent).  All        *)
(* payments are of one unit to one payee.  Mistake operators: ReadShort,   *)
(* SkipChain, UncappedExtends.                                             *)
(***************************************************************************)
EXTENDS Integers, Sequences, FiniteSets

CONSTANTS
    Clients,        \* the processes of the owner
    Mode,           \* Mode[c]: "single", "batch" or "benchmark"
    Supply,         \* the tokens of the owner
    Deposit,        \* Deposit[c]: CHANNEL_AMOUNT of its configuration
    Lifetime,       \* the seconds a new channel is asked for
    None,           \* no channel, no cached value
    MaxFaults,      \* bound: how many runs end early or lose an answer
    MaxTime         \* bound: the clock stops there

ASSUME ModeAssumption == Mode \in [Clients -> {"single", "batch", "benchmark"}]
ASSUME SupplyAssumption == Supply \in Nat /\ Deposit \in [Clients -> 1..Supply]
ASSUME TimeAssumption == Lifetime \in Nat \ {0} /\ MaxTime \in Nat /\ MaxFaults \in Nat

Id == [expiry : 1..(MaxTime + Lifetime), amount : 1..Supply]
ASSUME NoneAssumption == None \notin Id /\ None \notin Nat

VARIABLES
    listed,         \* userChannels[owner]: the open channels
    wallet,         \* the owner's tokens
    allowed,        \* the owner's allowance for the contract
    replica,        \* the last update of each channel the sequencer knows
    cosigned,       \* the highest update it ever took, which the payee keeps
    file,           \* the cache files of the demo client
    client,         \* what each process is doing
    faults, now

chain == <<listed, wallet, allowed>>
sequencer == <<replica, cosigned>>
vars == <<chain, sequencer, file, client, faults, now>>

Idle == [pc |-> "idle", phase |-> "shake", len |-> 0, got |-> <<>>, raced |-> FALSE,
         chan |-> None, seq |-> 0]

Open == {listed[i] : i \in DOMAIN listed}
Fault == faults < MaxFaults /\ faults' = faults + 1
Become(c, state) == client' = [client EXCEPT ![c] = state]
Goto(c, pc) == client' = [client EXCEPT ![c].pc = pc]
LastOf(s) == s[Len(s)]
ButLast(s) == SubSeq(s, 1, Len(s) - 1)
Demo(c) == Mode[c] # "benchmark"
-----------------------------------------------------------------------------
(***************************************************************************)
(* The 402 handshake.  A demo client does not name its owner, so it gets   *)
(* bootstrap requirements, which it caches.  The benchmark names it, and   *)
(* the service looks for the last channel of the list.                     *)
(***************************************************************************)
Required(c, expiry) ==
    [Idle EXCEPT !.pc = "prepare", !.chan = [expiry |-> expiry, amount |-> 0]]

Start(c) ==
    /\ client[c].pc = "idle" /\ Demo(c)
    /\ LET req == IF file.req # None /\ file.req > now THEN file.req ELSE now + Lifetime
       IN  file' = [file EXCEPT !.req = req] /\ Become(c, Required(c, req))
    /\ UNCHANGED <<chain, sequencer, faults, now>>

StartBenchmark(c) ==
    /\ client[c].pc = "idle" /\ ~Demo(c)
    /\ Goto(c, "length")
    /\ UNCHANGED <<chain, sequencer, file, faults, now>>

\* list_channels_by_owner: the length, then one element per call.
ReadLength(c) ==
    /\ client[c].pc = "length"
    /\ Become(c, [client[c] EXCEPT !.pc = "read", !.len = Len(listed), !.got = <<>>])
    /\ UNCHANGED <<chain, sequencer, file, faults, now>>

Reading(c) == client[c].pc = "read" /\ Len(client[c].got) < client[c].len
ReadElement(c) ==
    /\ Reading(c) /\ Len(client[c].got) < Len(listed)
    /\ client' = [client EXCEPT ![c].got = Append(@, listed[Len(@) + 1])]
    /\ UNCHANGED <<chain, sequencer, file, faults, now>>

ReadShort(c) ==
    /\ Reading(c) /\ Len(client[c].got) >= Len(listed)
    /\ client' = [client EXCEPT ![c].len = Len(client[c].got)]
    /\ UNCHANGED <<chain, sequencer, file, faults, now>>
\* The getter of an element beyond the end reverts, and the request with it.
ReadReverts(c) ==
    /\ Reading(c) /\ Len(client[c].got) >= Len(listed)
    /\ Become(c, Idle)
    /\ UNCHANGED <<chain, sequencer, file, faults, now>>

HasList(c, phase) ==
    /\ client[c].pc = "read" /\ client[c].phase = phase
    /\ Len(client[c].got) = client[c].len
Latest(c) == LastOf(client[c].got)
LatestKnown(c) == client[c].got # <<>> /\ replica[Latest(c)] # None

\* The service's answer to the benchmark: its last channel, or a new one.
Resolve(c) ==
    /\ HasList(c, "shake")
    /\ Become(c, Required(c, IF LatestKnown(c) THEN Latest(c).expiry ELSE now + Lifetime))
    /\ UNCHANGED <<chain, sequencer, file, faults, now>>

\* The amount and expiry of a new channel; a demo client may have a cached one.
CachedChannel == IF file.channel # None /\ file.channel.id.expiry > now
                 THEN file.channel ELSE None
Prepare(c) ==
    LET req == client[c].chan.expiry
        plan == [expiry |-> IF req > now THEN req ELSE now + Lifetime,
                 amount |-> IF Deposit[c] > wallet THEN wallet ELSE Deposit[c]]
    IN  /\ client[c].pc = "prepare"
        /\ file' = IF Demo(c) THEN [file EXCEPT !.channel = CachedChannel] ELSE file
        /\ Become(c, IF Demo(c) /\ CachedChannel # None
                     THEN [Idle EXCEPT !.pc = "ready", !.chan = file.channel.id,
                                       !.seq = file.channel.seq]
                     ELSE [Idle EXCEPT !.pc = "length", !.phase = "ensure", !.chan = plan])
        /\ UNCHANGED <<chain, sequencer, faults, now>>
-----------------------------------------------------------------------------
\* ensureChannel.  A channel is found: the benchmark asks the service again.
Use(c, id) ==
    Become(c, IF client[c].phase = "ensure" /\ ~Demo(c)
              THEN [Idle EXCEPT !.pc = "length", !.phase = "refresh"]
              ELSE [Idle EXCEPT !.pc = "ready", !.chan = id, !.seq = replica[id]])

\* From the last channel of the list to the first: the sequencer knows it ...
Known(c) ==
    /\ HasList(c, "ensure") /\ LatestKnown(c)
    /\ Use(c, Latest(c))
    /\ UNCHANGED <<chain, sequencer, file, faults, now>>
Unknown(c) ==
    /\ HasList(c, "ensure") /\ client[c].got # <<>> /\ ~LatestKnown(c)
    /\ Goto(c, "chain")
    /\ UNCHANGED <<chain, sequencer, file, faults, now>>

SkipChain(c) ==
    /\ client[c].pc = "chain"
    /\ Become(c, [client[c] EXCEPT !.pc = "read", !.len = @ - 1, !.got = ButLast(@)])
    /\ UNCHANGED <<chain, sequencer, file, faults, now>>
\* ... or the chain does, and it is seeded; or else the one before it.
ReadChain(c) ==
    /\ client[c].pc = "chain"
    /\ Become(c, IF Latest(c) \in Open
                 THEN [client[c] EXCEPT !.pc = "seed", !.chan = Latest(c)]
                 ELSE [client[c] EXCEPT !.pc = "read", !.len = @ - 1, !.got = ButLast(@)])
    /\ UNCHANGED <<chain, sequencer, file, faults, now>>

\* None is left.  Without tokens the run ends.
NoneFound(c) ==
    /\ HasList(c, "ensure") /\ client[c].got = <<>>
    /\ IF client[c].chan.amount = 0 THEN Become(c, Idle) ELSE Goto(c, "allowance")
    /\ UNCHANGED <<chain, sequencer, file, faults, now>>

ReadAllowance(c) ==
    /\ client[c].pc = "allowance"
    /\ Goto(c, IF allowed < client[c].chan.amount THEN "approve" ELSE "open")
    /\ UNCHANGED <<chain, sequencer, file, faults, now>>

Approve(c) ==
    /\ client[c].pc = "approve"
    /\ allowed' = client[c].chan.amount
    /\ Goto(c, "open")
    /\ UNCHANGED <<listed, wallet, sequencer, file, faults, now>>

\* The openChannel transaction; it notes the channel for the runs at work on
\* an earlier list.
Openable(id) ==
    /\ id \notin Open /\ id.expiry > now
    /\ id.amount <= allowed /\ id.amount <= wallet
Looking(d) == client[d].pc \in {"read", "chain", "allowance", "approve", "open"}
OpenChannel(c) ==
    LET id == client[c].chan
    IN  /\ client[c].pc = "open" /\ Openable(id)
        /\ listed' = Append(listed, id)
        /\ wallet' = wallet - id.amount /\ allowed' = allowed - id.amount
        /\ client' = [d \in Clients |->
                IF d = c THEN [client[c] EXCEPT !.pc = "seed", !.raced = FALSE]
                ELSE IF Looking(d) THEN [client[d] EXCEPT !.raced = TRUE]
                ELSE client[d]]
        /\ UNCHANGED <<sequencer, file, faults, now>>
OpenReverts(c) ==
    /\ client[c].pc = "open" /\ ~Openable(client[c].chan)
    /\ Become(c, Idle)
    /\ UNCHANGED <<chain, sequencer, file, faults, now>>

\* seed_channel replaces what the sequencer knows.
Seed(c) ==
    /\ client[c].pc = "seed"
    /\ replica' = [replica EXCEPT ![client[c].chan] = 0]
    /\ Goto(c, "get")
    /\ UNCHANGED <<chain, cosigned, file, faults, now>>

Get(c) ==
    /\ client[c].pc = "get"
    /\ Use(c, client[c].chan)
    /\ UNCHANGED <<chain, sequencer, file, faults, now>>

\* The benchmark takes the channel the service names.  Bootstrap requirements
\* name channel zero, which is not found.
Refresh(c) ==
    /\ HasList(c, "refresh")
    /\ Become(c, IF LatestKnown(c) THEN [client[c] EXCEPT !.pc = "get", !.chan = Latest(c)]
                 ELSE Idle)
    /\ UNCHANGED <<chain, sequencer, file, faults, now>>
-----------------------------------------------------------------------------
(***************************************************************************)
(* Payments: the next update of the state the client holds, signed now.    *)
(***************************************************************************)
UncappedExtends(c) ==
    /\ replica[client[c].chan] = client[c].seq
    /\ now <= client[c].chan.expiry
Extends(c) ==
    /\ replica[client[c].chan] = client[c].seq
    /\ now <= client[c].chan.expiry
    /\ client[c].seq < client[c].chan.amount
\* The number was used last: by the very same update, if signed in that second.
MaybeReplayed(c) == replica[client[c].chan] = client[c].seq + 1
Take(c) ==
    LET id == client[c].chan
    IN  IF ~Extends(c) THEN UNCHANGED sequencer
        ELSE /\ replica' = [replica EXCEPT ![id] = @ + 1]
             /\ cosigned' = [cosigned EXCEPT ![id] = IF @ = client[c].seq THEN @ + 1 ELSE @]

PayOk(c) ==
    LET paid == client[c].seq + 1
    IN  /\ client[c].pc = "ready" /\ (Extends(c) \/ MaybeReplayed(c))
        /\ Take(c)
        /\ file' = IF Demo(c)
                   THEN [file EXCEPT !.channel = [id |-> client[c].chan, seq |-> paid]]
                   ELSE file
        /\ \/ Become(c, Idle)
           \/ Mode[c] # "single" /\ client' = [client EXCEPT ![c].seq = paid]
        /\ UNCHANGED <<chain, faults, now>>

\* An error, as far as the sequencer's (400, 404) or a later one: a batch
\* clears both files, a single payment would only after a 402.
AfterError(c) ==
    /\ file' = IF Mode[c] = "batch" THEN [channel |-> None, req |-> None] ELSE file
    /\ Become(c, Idle)
PayRefused(c) ==
    /\ client[c].pc = "ready" /\ ~Extends(c)
    /\ AfterError(c)
    /\ UNCHANGED <<chain, sequencer, faults, now>>
PayFails(c) ==
    /\ Fault
    /\ client[c].pc = "ready"
    /\ Take(c) \/ UNCHANGED sequencer
    /\ AfterError(c) \/ (Become(c, Idle) /\ UNCHANGED file)
    /\ UNCHANGED <<chain, now>>

\* A call throws, or the process is killed, between any two steps.
Stop(c) ==
    /\ Fault
    /\ client[c].pc # "idle"
    /\ Become(c, Idle)
    /\ UNCHANGED <<chain, sequencer, file, now>>
-----------------------------------------------------------------------------
(***************************************************************************)
(* Around them: the sequencer closes a channel with its last update, or    *)
(* anyone does after the expiry, with what the payee has published.        *)
(***************************************************************************)
SwapPop(id) ==
    LET i == CHOOSE i \in DOMAIN listed : listed[i] = id
    IN  ButLast([listed EXCEPT ![i] = LastOf(listed)])
Close(id, paid) ==
    /\ listed' = SwapPop(id)
    /\ wallet' = wallet + id.amount - paid
    /\ UNCHANGED <<allowed, sequencer, file, client, faults, now>>

Finalize(id) ==
    id \in Open /\ replica[id] # None /\ replica[id] > 0 /\ Close(id, replica[id])
CloseAfterExpiry(id) ==
    /\ id \in Open /\ now > id.expiry
    /\ \E paid \in 0..cosigned[id] : Close(id, paid)

Tick ==
    /\ now < MaxTime /\ now' = now + 1
    /\ UNCHANGED <<chain, sequencer, file, client, faults>>
-----------------------------------------------------------------------------
Init ==
    /\ listed = <<>> /\ wallet = Supply /\ allowed = 0
    /\ replica = [id \in Id |-> None] /\ cosigned = [id \in Id |-> 0]
    /\ file = [channel |-> None, req |-> None]
    /\ client = [c \in Clients |-> Idle]
    /\ faults = 0 /\ now = 0

Shake(c) == Start(c) \/ StartBenchmark(c) \/ Resolve(c) \/ Prepare(c) \/ Refresh(c)
Read(c) == ReadLength(c) \/ ReadElement(c) \/ ReadReverts(c)
Ensure(c) ==
    \/ Known(c) \/ Unknown(c) \/ ReadChain(c) \/ NoneFound(c)
    \/ ReadAllowance(c) \/ Approve(c) \/ OpenChannel(c) \/ OpenReverts(c)
    \/ Seed(c) \/ Get(c)
Pay(c) == PayOk(c) \/ PayRefused(c)

Next ==
    \/ Tick
    \/ \E id \in Id : Finalize(id) \/ CloseAfterExpiry(id)
    \/ \E c \in Clients : Shake(c) \/ Read(c) \/ Ensure(c) \/ Pay(c) \/ PayFails(c) \/ Stop(c)

Spec == Init /\ [][Next]_vars

\* Calls are answered, and the programs are run again and again.
Fairness ==
    \A c \in Clients : WF_client(Shake(c) \/ Read(c) \/ Ensure(c) \/ Pay(c))
LiveSpec == Spec /\ Fairness
-----------------------------------------------------------------------------
\* Every variable has its type.
TypeOK ==
    /\ listed \in Seq(Id) /\ wallet \in 0..Supply /\ allowed \in 0..Supply
    /\ replica \in [Id -> Nat \cup {None}] /\ cosigned \in [Id -> Nat]
    /\ file \in [channel : [id : Id, seq : Nat] \cup {None}, req : Nat \cup {None}]
    /\ client \in [Clients ->
            [pc : {"idle", "prepare", "length", "read", "chain", "allowance", "approve",
                   "open", "seed", "get", "ready"},
             phase : {"shake", "ensure", "refresh"},
             len : Nat, got : Seq(Id), raced : BOOLEAN,
             chan : [expiry : Nat, amount : Nat] \cup {None}, seq : Nat]]
    /\ faults \in 0..MaxFaults /\ now \in 0..MaxTime

(***************************************************************************)
(* The list of channels is not read at once, but unless a channel was      *)
(* opened meanwhile a list that is answered at all is the owner's list at  *)
(* that moment: a closing in between, which moves ids to indexes already   *)
(* read, never hides an open channel.                                      *)
(***************************************************************************)
ListFaithful ==
    [][\A c \in Clients :
        Reading(c) /\ Len(client'[c].got) = client'[c].len /\ ~client[c].raced
            /\ client'[c].pc = "read"
          => client'[c].got = listed]_vars

(***************************************************************************)
(* Unless another run opened a channel while it was looking, a run opens   *)
(* one only when the owner has none: no deposit is locked beside a channel *)
(* that could have been used, although runs are killed between opening a   *)
(* channel and seeding it, and channels close under their hands.           *)
(***************************************************************************)
OpensOnlyWithout ==
    [][\A c \in Clients :
        client[c].pc = "open" /\ client'[c].pc = "seed" /\ ~client[c].raced
          => listed = <<>>]_vars

(***************************************************************************)
(* A channel to pay from is one whose next update the sequencer takes.  A  *)
(* batch or a benchmark that keeps being run gets there: a channel left    *)
(* unseeded, a plan that reverts, a stale cache or requirements of a       *)
(* closed channel do not stop it for good.  (A single payment never clears *)
(* a stale cache.)  What may stop it is stated: the owner has neither      *)
(* channel nor tokens, or the last channel of the list has expired or is   *)
(* spent, and ensureChannel takes it all the same.                         *)
(***************************************************************************)
CanPay(c) == client[c].pc = "ready" /\ Extends(c)
SpentOrExpired(id) == now > id.expiry \/ (replica[id] # None /\ replica[id] >= id.amount)
Blocked == listed # <<>> /\ SpentOrExpired(LastOf(listed))
EventuallyCanPay ==
    \A c \in {d \in Clients : Mode[d] # "single"} :
        client[c].pc = "idle" ~> CanPay(c) \/ (wallet = 0 /\ Open = {}) \/ Blocked
=============================================================================
