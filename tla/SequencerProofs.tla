-------------------------- MODULE SequencerProofs --------------------------
(***************************************************************************)
(* Theorems about the sequencer, for every set of channels, addresses,     *)
(* request slots, payments and timestamps, and for every set of faults.    *)
(***************************************************************************)
EXTENDS Sequencer, FiniteSetTheorems, TLAPS

LEMMA AddAmountType ==
    ASSUME NEW r \in Seq(RecipientBalance), NEW a \in Address, NEW n \in Nat
    PROVE  AddAmount(r, a, n) \in Seq(RecipientBalance)
<1>1. CASE n = 0
  BY <1>1 DEF AddAmount
<1>2. CASE n # 0 /\ PositionsOf(r, a) # {}
  <2> DEFINE k == FirstPosition(r, a)
             new == [r EXCEPT ![k].bal = @ + n]
  <2>1. AddAmount(r, a, n) = new
    BY <1>2 DEF AddAmount
  <2> HIDE DEF k
  <2>2. ASSUME NEW i \in DOMAIN r
        PROVE  new[i] \in RecipientBalance
    <3>1. r[i] \in RecipientBalance
      OBVIOUS
    <3>2. CASE i = k
      BY <3>1, <3>2 DEF RecipientBalance
    <3>3. CASE i # k
      BY <3>1, <3>3
    <3> QED BY <3>2, <3>3
  <2>3. new \in [DOMAIN r -> RecipientBalance]
    BY <2>2
  <2>4. DOMAIN r = 1..Len(r) /\ Len(r) \in Nat
    OBVIOUS
  <2> QED BY <2>1, <2>3, <2>4
<1>3. CASE n # 0 /\ PositionsOf(r, a) = {}
  <2>1. [addr |-> a, bal |-> n, pos |-> Len(r)] \in RecipientBalance
    BY DEF RecipientBalance
  <2> QED BY <1>3, <2>1 DEF AddAmount
<1> QED BY <1>1, <1>2, <1>3

LEMMA ApplyPaymentType ==
    ASSUME NEW r \in Seq(RecipientBalance), NEW pay \in Payment
    PROVE  ApplyPayment(r, pay) \in Seq(RecipientBalance)
BY AddAmountType DEF ApplyPayment, Payment

LEMMA ContentType ==
    ASSUME NEW r \in Seq(RecipientBalance)
    PROVE  Content(r) \in Data
<1>1. DOMAIN r = 1..Len(r) /\ Len(r) \in Nat
  OBVIOUS
<1>2. \A i \in DOMAIN r : <<r[i].addr, r[i].bal>> \in Address \X Nat
  <2>1. \A i \in DOMAIN r : r[i] \in RecipientBalance
    OBVIOUS
  <2> QED BY <2>1 DEF RecipientBalance
<1>3. Content(r) \in [1..Len(r) -> Address \X Nat]
  BY <1>1, <1>2 DEF Content
<1> QED BY <1>1, <1>3 DEF Data

LEMMA FromContentType ==
    ASSUME NEW d \in Data
    PROVE  FromContent(d) \in Seq(RecipientBalance)
<1>1. DOMAIN d = 1..Len(d) /\ Len(d) \in Nat
  BY DEF Data
<1>2. \A i \in DOMAIN d :
        [addr |-> d[i][1], bal |-> d[i][2], pos |-> i - 1] \in RecipientBalance
  BY <1>1 DEF Data, RecipientBalance
<1>3. FromContent(d) \in [1..Len(d) -> RecipientBalance]
  BY <1>1, <1>2 DEF FromContent
<1> QED BY <1>1, <1>3

LEMMA DigestType ==
    ASSUME NEW c \in Channels, NEW seq \in Nat, NEW ts \in Nat, NEW d \in Data
    PROVE  Digest(c, seq, ts, d) \in Signature
BY DEF Digest, Signature

LEMMA FreshType == Fresh \in ChannelState /\ RowOf(Fresh) \in Row
BY DEF Fresh, RowOf, ChannelState, Row

LEMMA RowOfType ==
    ASSUME NEW s \in ChannelState
    PROVE  RowOf(s) \in Row
BY DEF RowOf, ChannelState, Row

LEMMA ViewType ==
    ASSUME NEW c \in Channels, channels[c] \in ChannelState
    PROVE  View(c) \in ChannelView
BY ContentType DEF View, ChannelState, ChannelView

LEMMA LoadedType ==
    ASSUME TypeOK, NEW c \in Channels, NEW s \in Loaded(c)
    PROVE  s \in ChannelState \cup {None}
<1>1. CASE dbChannels[c] = None
  BY <1>1 DEF Loaded
<1>2. CASE dbChannels[c] # None
  <2>1. PICK r \in OrderedByPosition(dbRecipients[c]) :
          s = [seq |-> dbChannels[c].seq, ts |-> dbChannels[c].ts,
               sig |-> dbChannels[c].sig, cosig |-> dbChannels[c].cosig,
               recipients |-> r]
    BY <1>2 DEF Loaded
  <2>2. dbChannels[c] \in Row
    BY <1>2 DEF TypeOK
  <2>3. Cardinality(dbRecipients[c]) \in Nat
    BY FS_CardinalityType DEF TypeOK
  <2>4. r \in [1..Cardinality(dbRecipients[c]) -> RecipientBalance]
    BY <2>1 DEF OrderedByPosition, TypeOK
  <2>5. r \in Seq(RecipientBalance)
    BY <2>3, <2>4
  <2> QED BY <2>1, <2>2, <2>5 DEF Row, ChannelState
<1> QED BY <1>1, <1>2

LEMMA UpsertType ==
    ASSUME NEW rows \in SUBSET RecipientBalance, IsFiniteSet(rows),
           NEW r \in RecipientBalance
    PROVE  Upsert(rows, r) \in SUBSET RecipientBalance /\ IsFiniteSet(Upsert(rows, r))
<1>1. IsFiniteSet({s \in rows : s.addr # r.addr})
  BY FS_Subset, {s \in rows : s.addr # r.addr} \subseteq rows
<1> QED BY <1>1, FS_AddElement DEF Upsert
-----------------------------------------------------------------------------
(***************************************************************************)
(* Type correctness is inductive together with one fact: a handler that    *)
(* writes or closes a channel works on a channel the replica holds.        *)
(***************************************************************************)
BusyOnKnown ==
    \A p \in Requests :
        pc[p] \in {"save", "rows", "rpc"} => channels[job[p].chan] # None

TypeInv == TypeOK /\ BusyOnKnown

LEMMA InitTypeInv == Init => TypeInv
BY FS_EmptySet DEF Init, TypeInv, TypeOK, BusyOnKnown

\* The update signed from any known state has its type.
LEMMA SignType ==
    ASSUME TypeOK, NEW c \in Channels, NEW pay \in Payments, NEW ts \in Timestamps,
           Sign(c, pay, ts)
    PROVE  signed' \subseteq PayRequest
<1>1. PICK known \in KnownStates(c) :
        LET seq == known.seq + 1
            data == Content(ApplyPayment(known.recipients, pay))
        IN  signed' = signed \cup
              {[chan |-> c, seq |-> seq, ts |-> ts, pay |-> pay,
                sig |-> Digest(c, seq, ts, data)]}
  BY DEF Sign
<1>2. pay \in Payment /\ ts \in Nat
  BY PaymentsAssumption, TimestampsAssumption
<1>3. known.seq \in Nat /\ known.recipients \in Seq(RecipientBalance)
  <2>1. CASE known \in ReadState(c)
    BY <2>1 DEF ReadState, TypeOK, ChannelState
  <2>2. CASE known \notin ReadState(c)
    <3>1. PICK m \in signed :
            known = [seq |-> m.seq, recipients |-> FromContent(m.sig.data)]
      BY <2>2 DEF KnownStates
    <3>2. m.seq \in Nat /\ m.sig.data \in Data
      BY DEF TypeOK, PayRequest, Signature
    <3> QED BY <3>1, <3>2, FromContentType
  <2> QED BY <2>1, <2>2
<1>4. Content(ApplyPayment(known.recipients, pay)) \in Data
  BY <1>2, <1>3, ApplyPaymentType, ContentType
<1>5. Digest(c, known.seq + 1, ts, Content(ApplyPayment(known.recipients, pay)))
        \in Signature
  BY <1>2, <1>3, <1>4, DigestType
<1>6. [chan |-> c, seq |-> known.seq + 1, ts |-> ts, pay |-> pay,
       sig |-> Digest(c, known.seq + 1, ts,
                      Content(ApplyPayment(known.recipients, pay)))] \in PayRequest
  BY <1>2, <1>3, <1>5 DEF PayRequest
<1> QED BY <1>1, <1>6 DEF TypeOK

\* The state settle writes to the replica has its type.
LEMMA AppliedType ==
    ASSUME TypeOK, NEW m \in PayRequest, channels[m.chan] # None
    PROVE  /\ NextRecipients(m) \in Seq(RecipientBalance)
           /\ [seq |-> m.seq, ts |-> m.ts, sig |-> m.sig,
               cosig |-> Digest(m.chan, m.seq, m.ts, Content(NextRecipients(m))),
               recipients |-> NextRecipients(m)] \in ChannelState
<1>1. m.chan \in Channels /\ m.seq \in Nat /\ m.ts \in Nat /\ m.pay \in Payment
      /\ m.sig \in Signature
  BY DEF PayRequest
<1>2. NextRecipients(m) \in Seq(RecipientBalance)
  BY <1>1, ApplyPaymentType DEF NextRecipients, TypeOK, ChannelState
<1>3. Digest(m.chan, m.seq, m.ts, Content(NextRecipients(m))) \in Signature
  BY <1>1, <1>2, ContentType, DigestType
<1> QED BY <1>1, <1>2, <1>3 DEF ChannelState

\* A handler in the middle of its work knows its channel.
LEMMA JobType ==
    ASSUME TypeOK, NEW p \in Requests, pc[p] # "idle"
    PROVE  /\ job[p].chan \in Channels /\ job[p].next \in Nat
           /\ channels[job[p].chan] # None => channels[job[p].chan] \in ChannelState
BY DEF TypeOK, Job

LEMMA NextTypeInv == TypeInv /\ [Next]_vars => TypeInv'
<1> SUFFICES ASSUME TypeInv, [Next]_vars PROVE TypeInv'
  OBVIOUS
<1> USE DEF TypeInv
<1>1. ASSUME NEW c \in Channels, NEW pay \in Payments, NEW ts \in Timestamps,
             Sign(c, pay, ts)
      PROVE  TypeInv'
  BY <1>1, SignType DEF Sign, TypeOK, BusyOnKnown, db, outputs
<1>2. CASE Tick
  BY <1>2 DEF Tick, TypeOK, BusyOnKnown, db, outputs
<1>3. ASSUME NEW p \in Requests, NEW c \in Channels, SeedStart(p, c)
      PROVE  TypeInv'
  <2>1. PICK k \in missing[c] :
          /\ missing' = [missing EXCEPT ![c] = @ \ {k}]
          /\ Start(p, "seed", c, k)
          /\ UNCHANGED <<channels, db, signed, now, outputs>>
    BY <1>3 DEF SeedStart
  <2>2. k \in Setups /\ [chan |-> c, msg |-> k, next |-> 1] \in Job
    BY DEF TypeOK, Job
  <2> QED BY <2>1, <2>2 DEF Start, Idle, TypeOK, BusyOnKnown, db, outputs
<1>4. ASSUME NEW p \in Requests, SeedSave(p)
      PROVE  TypeInv'
  BY <1>4, JobType, FreshType
    DEF SeedSave, Goto, TypeOK, BusyOnKnown, clients, outputs
<1>5. ASSUME NEW p \in Requests, SeedInsert(p)
      PROVE  TypeInv'
  <2>1. Fresh # None
    BY FreshType, NoneAssumption
  <2>2. job[p].chan \in Channels
    BY <1>5, JobType DEF SeedInsert
  <2>3. channels' \in [Channels -> ChannelState \cup {None}]
    BY <1>5, FreshType DEF SeedInsert, TypeOK
  <2>4. BusyOnKnown'
    <3> SUFFICES ASSUME NEW q \in Requests, pc'[q] \in {"save", "rows", "rpc"}
                 PROVE  channels'[job'[q].chan] # None
      BY DEF BusyOnKnown
    <3>1. q # p /\ pc[q] = pc'[q] /\ job'[q] = job[q]
      BY <1>5 DEF SeedInsert, Finish, TypeOK
    <3>2. job[q].chan \in Channels /\ channels[job[q].chan] # None
      BY <3>1, JobType DEF BusyOnKnown
    <3> QED BY <1>5, <2>1, <2>2, <3>1, <3>2 DEF SeedInsert, TypeOK
  <2> QED BY <1>5, <2>3, <2>4 DEF SeedInsert, Finish, TypeOK, db, clients, outputs
<1>6. ASSUME NEW p \in Requests, NEW m \in signed, SettleStart(p, m)
      PROVE  TypeInv'
  <2>1. [chan |-> m.chan, msg |-> m, next |-> 1] \in Job /\ m \in PayRequest
    BY DEF Job, TypeOK, PayRequest
  <2> QED BY <1>6, <2>1 DEF SettleStart, Start, Idle, TypeOK, BusyOnKnown, db, clients, outputs
<1>7. ASSUME NEW p \in Requests, SettleRefuse(p)
      PROVE  TypeInv'
  BY <1>7 DEF SettleRefuse, Finish, TypeOK, BusyOnKnown, db, clients, outputs
<1>8. ASSUME NEW p \in Requests, SettleReplay(p)
      PROVE  TypeInv'
  <2>1. View(job[p].chan) \in ChannelView
    BY <1>8, JobType, ViewType DEF SettleReplay
  <2> QED BY <1>8, <2>1 DEF SettleReplay, Finish, TypeOK, BusyOnKnown, db, clients
<1>9. ASSUME NEW p \in Requests, SettleApply(p)
      PROVE  TypeInv'
  <2> DEFINE m == job[p].msg
  <2>1. m \in PayRequest /\ m.chan = job[p].chan /\ m.chan \in Channels
    BY <1>9 DEF SettleApply, TypeOK, PayRequest
  <2>2. channels'[m.chan] \in ChannelState \ {None}
    BY <1>9, <2>1, AppliedType, NoneAssumption DEF SettleApply, TypeOK
  <2>3. channels' \in [Channels -> ChannelState \cup {None}]
    BY <1>9, <2>1, <2>2 DEF SettleApply, TypeOK
  <2>4. BusyOnKnown'
    BY <1>9, <2>1, <2>2 DEF SettleApply, Goto, TypeOK, BusyOnKnown
  <2> QED BY <1>9, <2>3, <2>4 DEF SettleApply, Goto, TypeOK, db, clients, outputs
<1>10. ASSUME NEW p \in Requests, SaveChannelRow(p)
       PROVE  TypeInv'
  <2>1. RowOf(channels[job[p].chan]) \in Row
    BY <1>10, JobType, RowOfType DEF SaveChannelRow, BusyOnKnown
  <2> QED BY <1>10, <2>1
        DEF SaveChannelRow, Goto, TypeOK, BusyOnKnown, clients, outputs
<1>11. ASSUME NEW p \in Requests, SaveRecipientRow(p)
       PROVE  TypeInv'
  <2> DEFINE c == job[p].chan
             i == job[p].next
             rows == Upsert(dbRecipients[c], channels[c].recipients[i])
  <2>1. c \in Channels /\ i \in Nat /\ channels[c] \in ChannelState /\ pc[p] = "rows"
    BY <1>11, JobType DEF SaveRecipientRow, BusyOnKnown
  <2>2. i # 0
    BY <1>11 DEF SaveRecipientRow, TypeOK, Job
  <2>3. channels[c].recipients[i] \in RecipientBalance
    BY <1>11, <2>1, <2>2 DEF SaveRecipientRow, ChannelState
  <2>4. rows \in SUBSET RecipientBalance /\ IsFiniteSet(rows)
    BY <2>1, <2>3, UpsertType DEF TypeOK
  <2>5. dbRecipients' = [dbRecipients EXCEPT ![c] = rows]
    BY <1>11 DEF SaveRecipientRow
  <2>6. job' \in [Requests -> Job \cup {None}] /\ job'[p] \in Job
        /\ job'[p].chan = c /\ \A q \in Requests : q # p => job'[q] = job[q]
    BY <1>11, <2>1 DEF SaveRecipientRow, TypeOK, Job
  <2> QED BY <1>11, <2>1, <2>4, <2>5, <2>6
        DEF SaveRecipientRow, TypeOK, BusyOnKnown, clients, outputs
<1>12. ASSUME NEW p \in Requests, SettleReply(p)
       PROVE  TypeInv'
  <2>1. View(job[p].chan) \in ChannelView
    BY <1>12, JobType, ViewType DEF SettleReply, BusyOnKnown
  <2> QED BY <1>12, <2>1 DEF SettleReply, Finish, TypeOK, BusyOnKnown, db, clients
<1>13. ASSUME NEW p \in Requests, NEW c \in Channels, FinalizeStart(p, c)
       PROVE  TypeInv'
  <2>1. [chan |-> c, msg |-> None, next |-> 1] \in Job
    BY DEF Job
  <2> QED BY <1>13, <2>1
        DEF FinalizeStart, Finalizable, Start, Idle, TypeOK, BusyOnKnown, db, clients, outputs
<1>14. ASSUME NEW p \in Requests, FinalizeSend(p)
       PROVE  TypeInv'
  <2>1. View(job[p].chan) \in ChannelView
    BY <1>14, JobType, ViewType DEF FinalizeSend, BusyOnKnown
  <2> QED BY <1>14, <2>1 DEF FinalizeSend, Finish, TypeOK, BusyOnKnown, db, clients
<1>15. ASSUME NEW p \in Requests, Abort(p)
       PROVE  TypeInv'
  BY <1>15 DEF Abort, Finish, TypeOK, BusyOnKnown, db, clients, outputs
<1>16. CASE Crash
  <2>1. channels' \in [Channels -> ChannelState \cup {None}]
    BY <1>16, LoadedType DEF Crash
  <2> QED BY <1>16, <2>1 DEF Crash, TypeOK, BusyOnKnown, db, clients, outputs
<1>17. ASSUME NEW k \in Setups, NEW c \in Channels, Lookup(k, c)
       PROVE  TypeInv'
  BY <1>17 DEF Lookup, TypeOK, BusyOnKnown, db, outputs
<1>18. CASE UNCHANGED vars
  BY <1>18 DEF vars, TypeOK, BusyOnKnown
<1> QED
  BY <1>1, <1>2, <1>3, <1>4, <1>5, <1>6, <1>7, <1>8, <1>9, <1>10, <1>11, <1>12,
     <1>13, <1>14, <1>15, <1>16, <1>17, <1>18 DEF Next, Seed, Settle, Save

(***************************************************************************)
(* Type correctness.                                                       *)
(***************************************************************************)
THEOREM TypeCorrect == Spec => []TypeOK
<1>1. Spec => []TypeInv
  BY InitTypeInv, NextTypeInv, PTL DEF Spec
<1>2. TypeInv => TypeOK
  BY DEF TypeInv
<1> QED BY <1>1, <1>2, PTL
-----------------------------------------------------------------------------
(***************************************************************************)
(* What the sequencer co-signs.  The strengthening carries the claim about *)
(* receipts to everything a receipt can be made from: a signed state of    *)
(* the replica and, because a restart loads it, of the tables.             *)
(***************************************************************************)
BackedBy(updates, c, s) ==
    s.sig \in Signature =>
        /\ s.cosig = s.sig
        /\ \E m \in updates : m.sig = s.sig
        /\ s.sig.chan = c /\ s.sig.seq = s.seq /\ s.sig.ts = s.ts
        /\ Total(s.sig.data) <= Balance[c]

ReplicaBacked ==
    \A c \in Channels : channels[c] # None => BackedBy(signed, c, channels[c])
DbBacked ==
    \A c \in Channels : dbChannels[c] # None => BackedBy(signed, c, dbChannels[c])
WritersSigned ==
    \A p \in Requests :
        pc[p] \in {"save", "rows"} => channels[job[p].chan].sig \in Signature
JobsSigned == \A p \in Requests : pc[p] = "settle" => job[p].msg \in signed

BackedInv == ReplicaBacked /\ DbBacked /\ WritersSigned /\ JobsSigned /\ CosignedBacked

LEMMA InitBackedInv == Init => BackedInv
BY DEF Init, BackedInv, ReplicaBacked, DbBacked, WritersSigned, JobsSigned, CosignedBacked

LEMMA BackedByMore ==
    ASSUME NEW S, NEW T, S \subseteq T, NEW c, NEW s, BackedBy(S, c, s)
    PROVE  BackedBy(T, c, s)
BY DEF BackedBy

\* The fresh state of a seeded channel carries no signature to back.
LEMMA FreshBacked ==
    ASSUME NEW S, NEW c
    PROVE  BackedBy(S, c, Fresh) /\ BackedBy(S, c, RowOf(Fresh))
BY NoneAssumption DEF BackedBy, Fresh, RowOf

LEMMA RowOfBacked ==
    ASSUME NEW S, NEW c, NEW s, BackedBy(S, c, s)
    PROVE  BackedBy(S, c, RowOf(s))
BY DEF BackedBy, RowOf

\* A view of a signed and backed state is a backed receipt.
LEMMA ViewBacked ==
    ASSUME NEW c \in Channels, channels[c].sig \in Signature,
           BackedBy(signed, c, channels[c])
    PROVE  Backed(View(c))
BY DEF BackedBy, Backed, View

LEMMA LoadedBacked ==
    ASSUME DbBacked, NEW c \in Channels, NEW s \in Loaded(c), s # None
    PROVE  BackedBy(signed, c, s)
BY DEF DbBacked, Loaded, BackedBy

\* settle checks the signature against the state it is about to co-sign.
LEMMA AppliedBacked ==
    ASSUME NEW m \in signed, m \in PayRequest, Acceptable(m)
    PROVE  BackedBy(signed, m.chan,
             [seq |-> m.seq, ts |-> m.ts, sig |-> m.sig,
              cosig |-> Digest(m.chan, m.seq, m.ts, Content(NextRecipients(m))),
              recipients |-> NextRecipients(m)])
BY DEF Acceptable, BackedBy, Digest

LEMMA NextBackedInv == TypeInv /\ BackedInv /\ [Next]_vars => BackedInv'
<1> SUFFICES ASSUME TypeInv, BackedInv, [Next]_vars PROVE BackedInv'
  OBVIOUS
<1> USE DEF TypeInv, BackedInv
<1>1. ASSUME NEW c \in Channels, NEW pay \in Payments, NEW ts \in Timestamps,
             Sign(c, pay, ts)
      PROVE  BackedInv'
  <2>1. signed \subseteq signed'
    BY <1>1 DEF Sign
  <2>2. ReplicaBacked' /\ DbBacked'
    BY <1>1, <2>1, BackedByMore DEF Sign, ReplicaBacked, DbBacked, db
  <2>3. CosignedBacked'
    BY <1>1, <2>1 DEF Sign, CosignedBacked, Backed, outputs
  <2> QED BY <1>1, <2>1, <2>2, <2>3 DEF Sign, WritersSigned, JobsSigned
<1>2. CASE Tick
  BY <1>2 DEF Tick, ReplicaBacked, DbBacked, WritersSigned, JobsSigned,
              CosignedBacked, Backed, db, outputs
<1>3. ASSUME NEW p \in Requests, NEW c \in Channels, SeedStart(p, c)
      PROVE  BackedInv'
  <2>1. /\ UNCHANGED <<channels, dbChannels, signed, receipts>> /\ pc'[p] = "seed"
        /\ \A q \in Requests : q # p => pc'[q] = pc[q] /\ job'[q] = job[q]
    BY <1>3 DEF SeedStart, Start, TypeOK, db, outputs
  <2> QED BY <2>1 DEF ReplicaBacked, DbBacked, WritersSigned, JobsSigned, CosignedBacked, Backed
<1>4. ASSUME NEW p \in Requests, SeedSave(p)
      PROVE  BackedInv'
  <2>1. DbBacked'
    BY <1>4, JobType, FreshBacked DEF SeedSave, TypeOK, DbBacked, clients
  <2> QED BY <1>4, <2>1
        DEF SeedSave, Goto, TypeOK, ReplicaBacked, WritersSigned, JobsSigned,
            CosignedBacked, Backed, clients, outputs
<1>5. ASSUME NEW p \in Requests, SeedInsert(p)
      PROVE  BackedInv'
  <2>1. ReplicaBacked'
    BY <1>5, JobType, FreshBacked DEF SeedInsert, TypeOK, ReplicaBacked, clients
  <2>2. WritersSigned'
    BY <1>5 DEF SeedInsert, Finish, WriteLockFree, TypeOK, WritersSigned
  <2> QED BY <1>5, <2>1, <2>2
        DEF SeedInsert, Finish, TypeOK, DbBacked, JobsSigned, CosignedBacked, Backed,
            db, clients, outputs
<1>6. ASSUME NEW p \in Requests, NEW m \in signed, SettleStart(p, m)
      PROVE  BackedInv'
  BY <1>6 DEF SettleStart, Start, Idle, TypeOK, ReplicaBacked, DbBacked, WritersSigned,
              JobsSigned, CosignedBacked, Backed, db, clients, outputs
<1>7. ASSUME NEW p \in Requests, SettleRefuse(p)
      PROVE  BackedInv'
  BY <1>7 DEF SettleRefuse, Finish, TypeOK, ReplicaBacked, DbBacked, WritersSigned,
              JobsSigned, CosignedBacked, Backed, db, clients, outputs
<1>8. ASSUME NEW p \in Requests, SettleReplay(p)
      PROVE  BackedInv'
  <2> DEFINE c == job[p].chan
  <2>1. c \in Channels /\ channels[c] # None /\ channels[c].sig \in Signature
    BY <1>8, JobType DEF SettleReplay, Replayed, TypeOK, PayRequest
  <2>2. Backed(View(c))
    BY <2>1, ViewBacked DEF ReplicaBacked
  <2>3. CosignedBacked'
    BY <1>8, <2>2 DEF SettleReplay, CosignedBacked, Backed, clients
  <2> QED BY <1>8, <2>3
        DEF SettleReplay, Finish, TypeOK, ReplicaBacked, DbBacked, WritersSigned,
            JobsSigned, db, clients
<1>9. ASSUME NEW p \in Requests, SettleApply(p)
      PROVE  BackedInv'
  <2> DEFINE m == job[p].msg
  <2>1. m \in PayRequest /\ m \in signed /\ m.chan = job[p].chan /\ m.chan \in Channels
        /\ m.sig \in Signature
    BY <1>9 DEF SettleApply, TypeOK, PayRequest, JobsSigned
  <2>2. ReplicaBacked'
    BY <1>9, <2>1, AppliedBacked DEF SettleApply, Extends, TypeOK, ReplicaBacked, clients
  <2>3. WritersSigned'
    BY <1>9, <2>1 DEF SettleApply, Goto, WriteLockFree, TypeOK, WritersSigned
  <2> QED BY <1>9, <2>2, <2>3
        DEF SettleApply, Goto, TypeOK, DbBacked, JobsSigned, CosignedBacked, Backed,
            db, clients, outputs
<1>10. ASSUME NEW p \in Requests, SaveChannelRow(p)
       PROVE  BackedInv'
  <2>1. DbBacked'
    BY <1>10, JobType, RowOfBacked
      DEF SaveChannelRow, TypeOK, BusyOnKnown, ReplicaBacked, DbBacked, clients
  <2> QED BY <1>10, <2>1
        DEF SaveChannelRow, Goto, TypeOK, ReplicaBacked, WritersSigned, JobsSigned,
            CosignedBacked, Backed, clients, outputs
<1>11. ASSUME NEW p \in Requests, SaveRecipientRow(p)
       PROVE  BackedInv'
  <2>1. \A q \in Requests : pc[q] # "idle" =>
          job'[q].chan = job[q].chan /\ job'[q].msg = job[q].msg
    BY <1>11 DEF SaveRecipientRow, TypeOK, Job
  <2> QED BY <1>11, <2>1
        DEF SaveRecipientRow, TypeOK, ReplicaBacked, DbBacked, WritersSigned, JobsSigned,
            CosignedBacked, Backed, clients, outputs
<1>12. ASSUME NEW p \in Requests, SettleReply(p)
       PROVE  BackedInv'
  <2> DEFINE c == job[p].chan
  <2>1. c \in Channels /\ channels[c] # None /\ channels[c].sig \in Signature
    BY <1>12, JobType DEF SettleReply, BusyOnKnown, WritersSigned
  <2>2. Backed(View(c))
    BY <2>1, ViewBacked DEF ReplicaBacked
  <2>3. CosignedBacked'
    BY <1>12, <2>2 DEF SettleReply, CosignedBacked, Backed, clients
  <2> QED BY <1>12, <2>3
        DEF SettleReply, Finish, TypeOK, ReplicaBacked, DbBacked, WritersSigned,
            JobsSigned, db, clients
<1>13. ASSUME NEW p \in Requests, NEW c \in Channels, FinalizeStart(p, c)
       PROVE  BackedInv'
  BY <1>13 DEF FinalizeStart, Start, Idle, TypeOK, ReplicaBacked, DbBacked, WritersSigned,
               JobsSigned, CosignedBacked, Backed, db, clients, outputs
<1>14. ASSUME NEW p \in Requests, FinalizeSend(p)
       PROVE  BackedInv'
  BY <1>14 DEF FinalizeSend, Finish, TypeOK, ReplicaBacked, DbBacked, WritersSigned,
               JobsSigned, CosignedBacked, Backed, db, clients
<1>15. ASSUME NEW p \in Requests, Abort(p)
       PROVE  BackedInv'
  BY <1>15 DEF Abort, Finish, TypeOK, ReplicaBacked, DbBacked, WritersSigned,
               JobsSigned, CosignedBacked, Backed, db, clients, outputs
<1>16. CASE Crash
  <2>1. ReplicaBacked'
    BY <1>16, LoadedBacked DEF Crash, ReplicaBacked, clients
  <2> QED BY <1>16, <2>1
        DEF Crash, TypeOK, DbBacked, WritersSigned, JobsSigned, CosignedBacked, Backed,
            db, clients, outputs
<1>17. ASSUME NEW k \in Setups, NEW c \in Channels, Lookup(k, c)
       PROVE  BackedInv'
  BY <1>17 DEF Lookup, ReplicaBacked, DbBacked, WritersSigned, JobsSigned, CosignedBacked,
               Backed, db, outputs
<1>18. CASE UNCHANGED vars
  BY <1>18 DEF vars, ReplicaBacked, DbBacked, WritersSigned, JobsSigned,
               CosignedBacked, Backed
<1> QED
  BY <1>1, <1>2, <1>3, <1>4, <1>5, <1>6, <1>7, <1>8, <1>9, <1>10, <1>11, <1>12,
     <1>13, <1>14, <1>15, <1>16, <1>17, <1>18 DEF Next, Seed, Settle, Save

(***************************************************************************)
(* Whatever crashes, aborts and second seeds happen, every receipt is      *)
(* co-signed on an update its owner signed, within the channel's balance.  *)
(***************************************************************************)
THEOREM ReceiptsAreBacked == Spec => []CosignedBacked
<1>1. Spec => []TypeInv
  BY InitTypeInv, NextTypeInv, PTL DEF Spec
<1>2. TypeInv /\ TypeInv' /\ BackedInv /\ [Next]_vars => BackedInv'
  BY NextBackedInv
<1>3. Spec => []BackedInv
  BY <1>1, <1>2, InitBackedInv, PTL DEF Spec
<1>4. BackedInv => CosignedBacked
  BY DEF BackedInv
<1> QED BY <1>3, <1>4, PTL
=============================================================================
