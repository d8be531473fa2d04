------------------------- MODULE ChannelSetupProofs -------------------------
(***************************************************************************)
(* Theorems about channel setup, for any number of processes of an owner,  *)
(* working in any mode, with any deposits, tokens and lifetime, and any    *)
(* number of failures.                                                     *)
(***************************************************************************)
EXTENDS ChannelSetup, FiniteSetTheorems, SequenceTheorems, TLAPS

\* Finite sums.
Sums == INSTANCE ChannelDataProofs WITH Address <- Id

(***************************************************************************)
(* Types, and what a process holds at each of its calls: requirements, the *)
(* plan of a new channel, or a channel.                                    *)
(***************************************************************************)
Expiries == 1..(MaxTime + Lifetime)
Record ==
    [pc : {"idle", "prepare", "length", "read", "chain", "allowance", "approve",
           "open", "seed", "get", "ready"},
     phase : {"shake", "ensure", "refresh"},
     len : Nat, got : Seq(Id), raced : BOOLEAN,
     chan : [expiry : Nat, amount : Nat] \cup {None}, seq : Nat]
Held(s) ==
    /\ s.pc = "idle" => s.phase = "shake"
    /\ s.pc = "prepare" => s.chan \in [expiry : Expiries, amount : Nat]
    /\ s.pc \in {"length", "read", "chain"} /\ s.phase = "ensure"
          => s.chan \in [expiry : Expiries, amount : 0..Supply]
    /\ s.pc = "chain" => s.got # <<>> /\ s.phase = "ensure" /\ Len(s.got) = s.len
    /\ s.pc \in {"allowance", "approve", "open", "seed", "get", "ready"} => s.chan \in Id
State == {s \in Record : Held(s)}

File == [channel : [id : Id, seq : Nat] \cup {None}, req : Expiries \cup {None}]

WorldInv ==
    /\ listed \in Seq(Id) /\ wallet \in Nat /\ allowed \in Nat
    /\ replica \in [Id -> Nat \cup {None}] /\ cosigned \in [Id -> Nat]
    /\ \A id \in Id : cosigned[id] <= id.amount
    /\ \A id \in Id : replica[id] # None => replica[id] <= id.amount
    /\ file \in File
    /\ faults \in Nat /\ now \in 0..MaxTime
ClientInv ==
    /\ client \in [Clients -> State]
    /\ \A c \in Clients : client[c].pc = "get" => replica[client[c].chan] # None
ShapeInv == WorldInv /\ ClientInv

(***************************************************************************)
(* What a process that nobody raced knows of the list.  While it reads, a  *)
(* closing has made the list shorter than the length it works with, or     *)
(* what it has read is a prefix; then every open channel is among the ids  *)
(* it has left; and once it has none left no channel is open.              *)
(***************************************************************************)
ReadInv(s, l) ==
    /\ Len(s.got) <= s.len
    /\ Len(s.got) < s.len =>
          /\ Len(l) <= s.len
          /\ Len(l) = s.len => \A i \in 1..Len(s.got) : s.got[i] = l[i]
    /\ Len(s.got) = s.len =>
          \A i \in 1..Len(l) : \E j \in 1..Len(s.got) : s.got[j] = l[i]
Knows(s, l) ==
    ~s.raced =>
        /\ s.pc \in {"read", "chain"} => ReadInv(s, l)
        /\ s.pc \in {"allowance", "approve", "open"} => l = <<>>
LookInv == \A c \in Clients : Knows(client[c], listed)

SetupInv == ShapeInv /\ LookInv

USE ModeAssumption, SupplyAssumption, TimeAssumption, NoneAssumption
-----------------------------------------------------------------------------
\* What the helpers of sequences return.
LEMMA LastAndRest ==
    ASSUME NEW s \in Seq(Id), s # <<>>
    PROVE  /\ LastOf(s) \in Id
           /\ LastOf(s) = s[Len(s)]
           /\ ButLast(s) \in Seq(Id)
           /\ Len(s) > 0
           /\ Len(ButLast(s)) = Len(s) - 1
           /\ \A i \in 1..(Len(s) - 1) : ButLast(s)[i] = s[i]
<1> DEFINE k == Len(s) - 1
           t == SubSeq(s, 1, k)
<1>1. Len(s) \in Nat /\ Len(s) > 0 /\ \A i \in 1..Len(s) : s[i] \in Id
  BY EmptySeq, LenProperties
<1>2. k \in Nat /\ \A i \in 1..k : s[i] \in Id
  BY <1>1
<1>3. /\ t \in Seq(Id)
      /\ Len(t) = IF 1 <= k THEN k - 1 + 1 ELSE 0
      /\ \A i \in 1..(k - 1 + 1) : t[i] = s[1 + i - 1]
  BY <1>2, SubSeqProperties
<1> HIDE DEF t, k
<1>4. k - 1 + 1 = k /\ \A i \in 1..k : 1 + i - 1 = i
  BY <1>2
<1>5. Len(t) = k
  BY <1>2, <1>3
<1>6. \A i \in 1..k : t[i] = s[i]
  BY <1>3, <1>4, Zenon
<1>7. ButLast(s) = t /\ k = Len(s) - 1
  BY DEF ButLast, t, k
<1> QED BY <1>1, <1>3, <1>5, <1>6, <1>7 DEF LastOf

LEMMA SwapPopShrinks ==
    ASSUME listed \in Seq(Id), NEW id \in Open
    PROVE  /\ SwapPop(id) \in Seq(Id)
           /\ Len(listed) > 0
           /\ Len(SwapPop(id)) = Len(listed) - 1
           /\ \A i \in 1..Len(SwapPop(id)) :
                \E j \in 1..Len(listed) : SwapPop(id)[i] = listed[j]
<1> DEFINE k == CHOOSE i \in DOMAIN listed : listed[i] = id
           swapped == [listed EXCEPT ![k] = LastOf(listed)]
<1>1. /\ Len(listed) \in Nat /\ DOMAIN listed = 1..Len(listed)
      /\ \A i \in 1..Len(listed) : listed[i] \in Id
  BY LenProperties
<1>2. k \in DOMAIN listed /\ listed[k] = id
  BY DEF Open
<1>3. Len(listed) > 0 /\ listed # <<>>
  BY <1>1, <1>2, EmptySeq
<1>4. swapped \in Seq(Id) /\ Len(swapped) = Len(listed)
  <2>1. LastOf(listed) \in Id
    BY <1>3, LastAndRest
  <2> QED BY <1>1, <1>2, <2>1, ExceptSeq
<1>5. swapped # <<>>
  BY <1>3, <1>4, EmptySeq
<1>6. /\ ButLast(swapped) \in Seq(Id)
      /\ Len(ButLast(swapped)) = Len(listed) - 1
      /\ \A i \in 1..(Len(listed) - 1) : ButLast(swapped)[i] = swapped[i]
  BY <1>4, <1>5, LastAndRest
<1>7. \A i \in 1..(Len(listed) - 1) : swapped[i] = IF i = k THEN listed[Len(listed)] ELSE listed[i]
  BY <1>1, <1>3, LastAndRest
<1>8. SwapPop(id) = ButLast(swapped)
  BY DEF SwapPop
<1>9. \A i \in 1..(Len(listed) - 1) : \E j \in 1..Len(listed) : swapped[i] = listed[j]
  BY <1>1, <1>7
<1> HIDE DEF swapped
<1> QED BY <1>3, <1>6, <1>8, <1>9
-----------------------------------------------------------------------------
(***************************************************************************)
(* Types: each step of a process leads it to a state of State.             *)
(***************************************************************************)
LEMMA IdleState == Idle \in State
BY EmptySeq DEF Idle, State, Record, Held

LEMMA ClientStep ==
    ASSUME ClientInv, NEW c \in Clients, NEW st \in State,
           client' = [client EXCEPT ![c] = st],
           st.pc = "get" => replica'[st.chan] # None,
           \A id \in Id : replica[id] # None => replica'[id] # None
    PROVE  ClientInv'
<1>1. \A d \in Clients : client[d].pc = "get" => client[d].chan \in Id
  BY DEF ClientInv, State, Held
<1> QED BY <1>1 DEF ClientInv

\* A step that only moves the process, and may write its cache files.
LEMMA ShapeStep ==
    ASSUME ShapeInv, NEW c \in Clients, NEW st \in State,
           client' = [client EXCEPT ![c] = st],
           st.pc = "get" => replica[st.chan] # None,
           UNCHANGED <<chain, sequencer, now>>, file' \in File, faults' \in Nat
    PROVE  ShapeInv'
<1>1. ClientInv'
  BY ClientStep DEF ShapeInv, sequencer
<1> QED BY <1>1 DEF ShapeInv, WorldInv, chain, sequencer

\* The list a process has read to its end.
LEMMA LatestType ==
    ASSUME ShapeInv, NEW c \in Clients, client[c].got # <<>>
    PROVE  /\ Latest(c) \in Id
           /\ ButLast(client[c].got) \in Seq(Id)
           /\ Len(ButLast(client[c].got)) = Len(client[c].got) - 1
           /\ Len(client[c].got) \in Nat \ {0}
<1>1. client[c].got \in Seq(Id)
  BY DEF ShapeInv, ClientInv, State, Record
<1> QED BY <1>1, LastAndRest, EmptySeq DEF Latest

LEMMA RequiredState ==
    ASSUME NEW c \in Clients, NEW e \in Expiries
    PROVE  Required(c, e) \in State
<1>1. e \in Nat
  BY DEF Expiries
<1> QED BY <1>1, EmptySeq DEF Required, Idle, State, Record, Held

\* The lifetime of a new channel, from whenever it is asked for.
LEMMA NewExpiry == ShapeInv => now + Lifetime \in Expiries
BY DEF ShapeInv, WorldInv, Expiries

LEMMA IdExpiry == \A id \in Id : id.expiry \in Expiries /\ id.amount \in 1..Supply
BY DEF Id, Expiries

LEMMA ShakeShape ==
    ASSUME ShapeInv, NEW c \in Clients, Shake(c)
    PROVE  ShapeInv'
<1> USE DEF ShapeInv, ClientInv, WorldInv
<1>0. client[c] \in State /\ file \in File /\ faults \in Nat /\ now \in Nat
  OBVIOUS
<1>1. CASE Start(c)
  <2> DEFINE req == IF file.req # None /\ file.req > now THEN file.req ELSE now + Lifetime
  <2>1. req \in Expiries
    BY NewExpiry DEF File
  <2>2. Required(c, req) \in State /\ Required(c, req).pc = "prepare"
    BY <2>1, RequiredState DEF Required, Idle
  <2>3. file' \in File
    BY <1>1, <2>1 DEF Start, File
  <2> QED BY <1>1, <2>2, <2>3, ShapeStep DEF Start, Become
<1>2. CASE StartBenchmark(c)
  <2> DEFINE st == [client[c] EXCEPT !.pc = "length"]
  <2>1. client' = [client EXCEPT ![c] = st]
    BY <1>2 DEF StartBenchmark, Goto
  <2>2. st \in State /\ st.pc = "length"
    BY <1>2 DEF StartBenchmark, State, Record, Held
  <2> QED BY <1>0, <1>2, <2>1, <2>2, ShapeStep DEF StartBenchmark
<1>3. CASE Resolve(c)
  <2> DEFINE e == IF LatestKnown(c) THEN Latest(c).expiry ELSE now + Lifetime
  <2>1. e \in Expiries
    BY NewExpiry, LatestType, IdExpiry DEF LatestKnown
  <2>2. Required(c, e) \in State /\ Required(c, e).pc = "prepare"
    BY <2>1, RequiredState DEF Required, Idle
  <2> QED BY <1>0, <1>3, <2>2, ShapeStep DEF Resolve, Become
<1>4. CASE Prepare(c)
  <2> DEFINE plan == [expiry |-> IF client[c].chan.expiry > now
                                 THEN client[c].chan.expiry ELSE now + Lifetime,
                      amount |-> IF Deposit[c] > wallet THEN wallet ELSE Deposit[c]]
             cached == [Idle EXCEPT !.pc = "ready", !.chan = file.channel.id,
                                    !.seq = file.channel.seq]
             look == [Idle EXCEPT !.pc = "length", !.phase = "ensure", !.chan = plan]
  <2>1. plan \in [expiry : Expiries, amount : 0..Supply]
    <3>1. client[c].chan \in [expiry : Expiries, amount : Nat]
      BY <1>0, <1>4 DEF Prepare, State, Held
    <3>2. plan.expiry \in Expiries
      BY <3>1, NewExpiry
    <3>3. plan.amount \in 0..Supply
      BY DEF ShapeInv
    <3> QED BY <3>2, <3>3
  <2>2. look \in State /\ look.pc = "length"
    <3>1. plan \in [expiry : Nat, amount : Nat]
      BY <2>1 DEF Expiries
    <3> HIDE DEF plan
    <3> QED BY <2>1, <3>1, EmptySeq DEF Idle, State, Record, Held
  <2>3. ASSUME CachedChannel # None PROVE cached \in State /\ cached.pc = "ready"
    <3>1. file.channel.id \in Id /\ file.channel.seq \in Nat
      BY <1>0, <2>3 DEF CachedChannel, File
    <3>2. file.channel.id \in [expiry : Nat, amount : Nat]
      BY <3>1 DEF Id
    <3> QED BY <3>1, <3>2, EmptySeq DEF Idle, State, Record, Held
  <2>4. file' \in File
    BY <1>0, <1>4 DEF Prepare, CachedChannel, File
  <2>5. client' = [client EXCEPT ![c] = IF Demo(c) /\ CachedChannel # None
                                        THEN cached ELSE look]
    BY <1>4 DEF Prepare, Become
  <2> HIDE DEF plan, cached, look
  <2>6. UNCHANGED <<chain, sequencer, now>> /\ faults' \in Nat
    BY <1>0, <1>4 DEF Prepare
  <2>7. CASE Demo(c) /\ CachedChannel # None
    BY <2>3, <2>4, <2>5, <2>6, <2>7, ShapeStep
  <2>8. CASE ~(Demo(c) /\ CachedChannel # None)
    BY <2>2, <2>4, <2>5, <2>6, <2>8, ShapeStep
  <2> QED BY <2>7, <2>8
<1>5. CASE Refresh(c)
  <2> DEFINE st == [client[c] EXCEPT !.pc = "get", !.chan = Latest(c)]
  <2>1. ASSUME LatestKnown(c)
        PROVE  st \in State /\ st.pc = "get" /\ replica[st.chan] # None
    <3>1. Latest(c) \in Id /\ replica[Latest(c)] # None
      BY <2>1, LatestType DEF LatestKnown
    <3>2. Latest(c) \in [expiry : Nat, amount : Nat]
      BY <3>1 DEF Id
    <3> QED BY <1>0, <3>1, <3>2 DEF State, Record, Held
  <2>2. Idle \in State /\ Idle.pc # "get"
    BY IdleState DEF Idle
  <2>3. client' = [client EXCEPT ![c] = IF LatestKnown(c) THEN st ELSE Idle]
    BY <1>5 DEF Refresh, Become
  <2> HIDE DEF st
  <2>4. UNCHANGED <<chain, sequencer, now>> /\ faults' \in Nat /\ file' \in File
    BY <1>0, <1>5 DEF Refresh
  <2>5. CASE LatestKnown(c)
    BY <2>1, <2>3, <2>4, <2>5, ShapeStep
  <2>6. CASE ~LatestKnown(c)
    BY <2>2, <2>3, <2>4, <2>6, ShapeStep
  <2> QED BY <2>5, <2>6
<1> QED BY <1>1, <1>2, <1>3, <1>4, <1>5 DEF Shake

LEMMA ReadShape ==
    ASSUME ShapeInv, NEW c \in Clients, Read(c)
    PROVE  ShapeInv'
<1> USE DEF ShapeInv, ClientInv, WorldInv
<1>0. client[c] \in State /\ file \in File /\ faults \in Nat
  OBVIOUS
<1>1. CASE ReadLength(c)
  <2> DEFINE st == [client[c] EXCEPT !.pc = "read", !.len = Len(listed), !.got = <<>>]
  <2>1. st \in State /\ st.pc = "read"
    BY <1>0, <1>1, EmptySeq, LenProperties DEF ReadLength, State, Record, Held
  <2> QED BY <1>0, <1>1, <2>1, ShapeStep DEF ReadLength, Become
<1>2. CASE ReadElement(c)
  <2> DEFINE new == Append(client[c].got, listed[Len(client[c].got) + 1])
             st == [client[c] EXCEPT !.got = new]
  <2>1. client[c].got \in Seq(Id) /\ Len(client[c].got) < Len(listed)
    BY <1>0, <1>2 DEF ReadElement, State, Record
  <2>2. Len(client[c].got) \in Nat /\ Len(listed) \in Nat
    BY <2>1, LenProperties
  <2>3. listed[Len(client[c].got) + 1] \in Id
    BY <2>1, <2>2, LenProperties
  <2>4. new \in Seq(Id)
    BY <2>1, <2>3, AppendProperties
  <2>5. client' = [client EXCEPT ![c] = st]
    BY <1>2 DEF ReadElement
  <2> HIDE DEF new
  <2>6. st \in State /\ st.pc = "read"
    BY <1>0, <1>2, <2>4 DEF ReadElement, Reading, State, Record, Held
  <2> QED BY <1>0, <1>2, <2>5, <2>6, ShapeStep DEF ReadElement
<1>3. CASE ReadReverts(c)
  BY <1>0, <1>3, IdleState, ShapeStep DEF ReadReverts, Become, Idle
<1> QED BY <1>1, <1>2, <1>3 DEF Read

\* Use leads to the next round of requirements, or to a channel in the replica.
LEMMA UseShape ==
    ASSUME ShapeInv, NEW c \in Clients, NEW id \in Id, replica[id] # None,
           Use(c, id), UNCHANGED <<chain, sequencer, file, faults, now>>
    PROVE  ShapeInv'
<1> DEFINE again == [Idle EXCEPT !.pc = "length", !.phase = "refresh"]
           ready == [Idle EXCEPT !.pc = "ready", !.chan = id, !.seq = replica[id]]
<1>1. again \in State /\ again.pc = "length"
  BY EmptySeq DEF Idle, State, Record, Held
<1>2. ready \in State /\ ready.pc = "ready"
  <2>1. id \in [expiry : Nat, amount : Nat]
    BY DEF Id
  <2>2. replica[id] \in Nat
    BY DEF ShapeInv, WorldInv
  <2> QED BY <2>1, <2>2, EmptySeq DEF Idle, State, Record, Held
<1>3. file' \in File /\ faults' \in Nat
  BY DEF ShapeInv, WorldInv
<1>4. client' = [client EXCEPT ![c] = IF client[c].phase = "ensure" /\ ~Demo(c)
                                      THEN again ELSE ready]
  BY DEF Use, Become
<1> HIDE DEF again, ready
<1>5. CASE client[c].phase = "ensure" /\ ~Demo(c)
  BY <1>1, <1>3, <1>4, <1>5, ShapeStep
<1>6. CASE ~(client[c].phase = "ensure" /\ ~Demo(c))
  BY <1>2, <1>3, <1>4, <1>6, ShapeStep
<1> QED BY <1>5, <1>6

\* A step to another call with what the process holds.
LEMMA GotoShape ==
    ASSUME ShapeInv, NEW c \in Clients, NEW pc, [client[c] EXCEPT !.pc = pc] \in State,
           pc # "get", Goto(c, pc), UNCHANGED <<chain, sequencer, file, faults, now>>
    PROVE  ShapeInv'
<1> DEFINE st == [client[c] EXCEPT !.pc = pc]
<1>1. st.pc = pc
  BY DEF ShapeInv, ClientInv, State, Record
<1>2. client' = [client EXCEPT ![c] = st]
  BY DEF Goto
<1>3. file' \in File /\ faults' \in Nat
  BY DEF ShapeInv, WorldInv
<1> HIDE DEF st
<1>4. st \in State
  BY DEF st
<1> QED BY <1>1, <1>2, <1>3, <1>4, ShapeStep

LEMMA LookShape ==
    ASSUME ShapeInv, NEW c \in Clients,
           Known(c) \/ Unknown(c) \/ ReadChain(c) \/ NoneFound(c) \/ ReadAllowance(c)
    PROVE  ShapeInv'
<1>0. /\ client[c] \in State /\ client[c].got \in Seq(Id)
      /\ file \in File /\ faults \in Nat
  BY DEF ShapeInv, ClientInv, WorldInv, State, Record
<1>1. CASE Known(c)
  BY <1>1, LatestType, UseShape DEF Known, LatestKnown
<1>2. CASE Unknown(c)
  <2>1. [client[c] EXCEPT !.pc = "chain"] \in State
    BY <1>0, <1>2 DEF Unknown, HasList, State, Record, Held
  <2> QED BY <1>2, <2>1, GotoShape DEF Unknown
<1>3. CASE ReadChain(c)
  <2> DEFINE seed == [client[c] EXCEPT !.pc = "seed", !.chan = Latest(c)]
             back == [client[c] EXCEPT !.pc = "read", !.len = @ - 1, !.got = ButLast(@)]
  <2>1. client[c].got # <<>> /\ Len(client[c].got) = client[c].len
        /\ client[c].pc = "chain" /\ client[c].phase = "ensure"
    BY <1>0, <1>3 DEF ReadChain, State, Held
  <2>2. seed \in State /\ seed.pc = "seed"
    <3>1. Latest(c) \in Id /\ Latest(c) \in [expiry : Nat, amount : Nat]
      BY <2>1, LatestType DEF Id
    <3> QED BY <1>0, <3>1 DEF State, Record, Held
  <2>3. back \in State /\ back.pc = "read"
    <3>1. client[c].len - 1 \in Nat /\ ButLast(client[c].got) \in Seq(Id)
      BY <2>1, LatestType
    <3> QED BY <1>0, <2>1, <3>1 DEF State, Record, Held
  <2>4. client' = [client EXCEPT ![c] = IF Latest(c) \in Open THEN seed ELSE back]
    BY <1>3 DEF ReadChain, Become
  <2>5. UNCHANGED <<chain, sequencer, now>> /\ file' \in File /\ faults' \in Nat
    BY <1>0, <1>3 DEF ReadChain
  <2> HIDE DEF seed, back
  <2>6. CASE Latest(c) \in Open
    BY <2>2, <2>4, <2>5, <2>6, ShapeStep
  <2>7. CASE Latest(c) \notin Open
    BY <2>3, <2>4, <2>5, <2>7, ShapeStep
  <2> QED BY <2>6, <2>7
<1>4. CASE NoneFound(c)
  <2>1. CASE client[c].chan.amount = 0
    BY <1>0, <1>4, <2>1, IdleState, ShapeStep DEF NoneFound, Become, Idle
  <2>2. CASE client[c].chan.amount # 0
    <3>1. client[c].chan \in Id
      BY <1>0, <1>4, <2>2 DEF NoneFound, HasList, State, Held, Id, Expiries
    <3>2. [client[c] EXCEPT !.pc = "allowance"] \in State
      BY <1>0, <3>1 DEF State, Record, Held
    <3> QED BY <1>4, <2>2, <3>2, GotoShape DEF NoneFound
  <2> QED BY <2>1, <2>2
<1>5. CASE ReadAllowance(c)
  <2>1. \A pc \in {"approve", "open"} : [client[c] EXCEPT !.pc = pc] \in State
    BY <1>0, <1>5 DEF ReadAllowance, State, Record, Held
  <2> QED BY <1>5, <2>1, GotoShape DEF ReadAllowance
<1> QED BY <1>1, <1>2, <1>3, <1>4, <1>5

LEMMA DepositShape ==
    ASSUME ShapeInv, NEW c \in Clients, Approve(c) \/ OpenChannel(c) \/ OpenReverts(c)
    PROVE  ShapeInv'
<1>0. client[c] \in State /\ client \in [Clients -> State]
  BY DEF ShapeInv, ClientInv
<1>1. CASE Approve(c)
  <2> DEFINE st == [client[c] EXCEPT !.pc = "open"]
  <2>1. st \in State /\ st.pc = "open"
    BY <1>0, <1>1 DEF Approve, State, Record, Held
  <2>2. client' = [client EXCEPT ![c] = st]
    BY <1>1 DEF Approve, Goto
  <2> HIDE DEF st
  <2>3. ClientInv'
    BY <1>1, <2>1, <2>2, ClientStep DEF Approve, ShapeInv, sequencer
  <2>4. client[c].chan \in Id
    BY <1>0, <1>1 DEF Approve, State, Held
  <2>5. allowed' \in Nat
    BY <1>1, <2>4, IdExpiry DEF Approve
  <2> QED BY <1>1, <2>3, <2>5 DEF Approve, sequencer, ShapeInv, WorldInv
<1>2. CASE OpenChannel(c)
  <2>1. client[c].chan \in Id
    BY <1>0, <1>2 DEF OpenChannel, State, Held
  <2>2. listed' \in Seq(Id)
    BY <1>2, <2>1, AppendProperties DEF OpenChannel, ShapeInv, WorldInv
  <2>3. wallet' \in Nat /\ allowed' \in Nat
    <3>1. wallet \in Nat /\ allowed \in Nat /\ client[c].chan.amount \in Nat
      BY <2>1, IdExpiry DEF ShapeInv, WorldInv
    <3>2. client[c].chan.amount <= wallet /\ client[c].chan.amount <= allowed
      BY <1>2 DEF OpenChannel, Openable
    <3>3. /\ wallet' = wallet - client[c].chan.amount
          /\ allowed' = allowed - client[c].chan.amount
      BY <1>2 DEF OpenChannel
    <3> QED BY <3>1, <3>2, <3>3
  <2>4. \A d \in Clients : /\ client'[d] \in State
                           /\ client'[d].chan = client[d].chan
                           /\ client'[d].pc = "get" => client[d].pc = "get"
    <3>1. SUFFICES ASSUME NEW d \in Clients
                   PROVE  /\ client'[d] \in State
                          /\ client'[d].chan = client[d].chan
                          /\ client'[d].pc = "get" => client[d].pc = "get"
      OBVIOUS
    <3>2. client[d] \in State
      BY <1>0
    <3>3. CASE d = c
      BY <1>2, <2>1, <3>2, <3>3 DEF OpenChannel, State, Record, Held
    <3>4. CASE d # c /\ Looking(d)
      BY <1>2, <3>2, <3>4 DEF OpenChannel, State, Record, Held
    <3>5. CASE d # c /\ ~Looking(d)
      BY <1>2, <3>2, <3>5 DEF OpenChannel
    <3> QED BY <3>3, <3>4, <3>5
  <2>5. client' \in [Clients -> State]
    BY <1>2, <2>4 DEF OpenChannel
  <2>6. ClientInv'
    BY <1>2, <2>4, <2>5 DEF OpenChannel, sequencer, ShapeInv, ClientInv
  <2> QED BY <1>2, <2>2, <2>3, <2>6 DEF OpenChannel, sequencer, ShapeInv, WorldInv
<1>3. CASE OpenReverts(c)
  <2>1. file' \in File /\ faults' \in Nat
    BY <1>3 DEF OpenReverts, ShapeInv, WorldInv
  <2> QED BY <1>3, <2>1, IdleState, ShapeStep DEF OpenReverts, Become, Idle
<1> QED BY <1>1, <1>2, <1>3

LEMMA SeedShape ==
    ASSUME ShapeInv, NEW c \in Clients, Seed(c) \/ Get(c)
    PROVE  ShapeInv'
<1>0. client[c] \in State
  BY DEF ShapeInv, ClientInv
<1>1. CASE Seed(c)
  <2> DEFINE st == [client[c] EXCEPT !.pc = "get"]
  <2>1. st \in State /\ st.chan = client[c].chan /\ st.chan \in Id
    BY <1>0, <1>1 DEF Seed, State, Record, Held
  <2>2. client' = [client EXCEPT ![c] = st]
    BY <1>1 DEF Seed, Goto
  <2> HIDE DEF st
  <2>3. /\ replica' \in [Id -> Nat \cup {None}] /\ replica'[st.chan] # None
        /\ \A id \in Id : replica'[id] = IF id = st.chan THEN 0 ELSE replica[id]
    BY <1>1, <2>1 DEF Seed, ShapeInv, WorldInv
  <2>4. ClientInv'
    BY <2>1, <2>2, <2>3, ClientStep DEF ShapeInv
  <2>5. \A id \in Id : replica'[id] # None => replica'[id] <= id.amount
    BY <2>3, IdExpiry DEF ShapeInv, WorldInv
  <2> QED BY <1>1, <2>3, <2>4, <2>5 DEF Seed, chain, ShapeInv, WorldInv
<1>2. CASE Get(c)
  <2>1. client[c].chan \in Id /\ replica[client[c].chan] # None
    BY <1>0, <1>2 DEF Get, ShapeInv, ClientInv, State, Held
  <2> QED BY <1>2, <2>1, UseShape DEF Get
<1> QED BY <1>1, <1>2
-----------------------------------------------------------------------------
(***************************************************************************)
(* Types: payments, and the steps that are not a process's own.            *)
(***************************************************************************)
LEMMA ExtendsRoom ==
    ASSUME ShapeInv, NEW c \in Clients, client[c].pc = "ready", Extends(c)
    PROVE  /\ client[c].chan \in Id
           /\ replica[client[c].chan] = client[c].seq
           /\ client[c].seq \in Nat
           /\ client[c].seq + 1 <= client[c].chan.amount
<1>1. client[c] \in State
  BY DEF ShapeInv, ClientInv
<1>2. client[c].chan \in Id /\ client[c].seq \in Nat
  BY <1>1 DEF State, Record, Held
<1>3. client[c].chan.amount \in Nat
  BY <1>2, IdExpiry
<1> QED BY <1>2, <1>3 DEF Extends

LEMMA TakeShape ==
    ASSUME ShapeInv, NEW c \in Clients, client[c].pc = "ready", Take(c)
    PROVE  /\ replica' \in [Id -> Nat \cup {None}] /\ cosigned' \in [Id -> Nat]
           /\ \A id \in Id : cosigned'[id] <= id.amount
           /\ \A id \in Id : replica'[id] # None => replica'[id] <= id.amount
           /\ \A id \in Id : replica[id] # None => replica'[id] # None
<1>1. CASE Extends(c)
  <2> DEFINE id == client[c].chan
             seq == client[c].seq
  <2>1. id \in Id /\ replica[id] = seq /\ seq \in Nat /\ seq + 1 <= id.amount
    BY <1>1, ExtendsRoom
  <2>2. /\ replica' = [replica EXCEPT ![id] = seq + 1]
        /\ cosigned' = [cosigned EXCEPT ![id] = IF @ = seq THEN seq + 1 ELSE @]
    BY <1>1, <2>1 DEF Take
  <2> HIDE DEF id, seq
  <2>3. seq + 1 \in Nat /\ seq + 1 # None
    BY <2>1
  <2> QED BY <2>1, <2>2, <2>3 DEF ShapeInv, WorldInv
<1>2. CASE ~Extends(c)
  BY <1>2 DEF Take, sequencer, ShapeInv, WorldInv
<1> QED BY <1>1, <1>2

LEMMA PayShape ==
    ASSUME ShapeInv, NEW c \in Clients, Pay(c) \/ PayFails(c)
    PROVE  ShapeInv'
<1>0. /\ client[c] \in State /\ file \in File /\ faults \in Nat
      /\ client[c].pc = "ready" /\ client[c].chan \in Id /\ client[c].seq \in Nat
  BY DEF Pay, PayOk, PayRefused, PayFails, ShapeInv, ClientInv, WorldInv,
         State, Record, Held
<1>1. Idle \in State /\ Idle.pc # "get"
  BY IdleState DEF Idle
<1>2. ASSUME Take(c) \/ UNCHANGED sequencer, NEW st \in State, st.pc # "get",
             client' = [client EXCEPT ![c] = st],
             file' \in File, faults' \in Nat, UNCHANGED <<chain, now>>
      PROVE  ShapeInv'
  <2>1. /\ replica' \in [Id -> Nat \cup {None}] /\ cosigned' \in [Id -> Nat]
        /\ \A id \in Id : cosigned'[id] <= id.amount
        /\ \A id \in Id : replica'[id] # None => replica'[id] <= id.amount
        /\ \A id \in Id : replica[id] # None => replica'[id] # None
    <3>1. CASE Take(c)
      BY <1>0, <3>1, TakeShape
    <3>2. CASE UNCHANGED sequencer
      BY <3>2 DEF sequencer, ShapeInv, WorldInv
    <3> QED BY <1>2, <3>1, <3>2
  <2>2. ClientInv'
    BY <1>2, <2>1, ClientStep DEF ShapeInv
  <2> QED BY <1>2, <2>1, <2>2 DEF chain, ShapeInv, WorldInv
<1>3. CASE PayOk(c)
  <2> DEFINE st == [client[c] EXCEPT !.seq = client[c].seq + 1]
  <2>1. st \in State /\ st.pc # "get"
    <3>1. client[c].seq + 1 \in Nat
      BY <1>0
    <3>2. st.pc = "ready"
      BY <1>0 DEF State, Record
    <3> QED BY <1>0, <3>1, <3>2 DEF State, Record, Held
  <2>2. file' \in File
    BY <1>0, <1>3 DEF PayOk, File
  <2>3. \/ client' = [client EXCEPT ![c] = Idle]
        \/ client' = [client EXCEPT ![c] = st]
    BY <1>3 DEF PayOk, Become
  <2> HIDE DEF st
  <2>4. Take(c) /\ faults' \in Nat /\ UNCHANGED <<chain, now>>
    BY <1>0, <1>3 DEF PayOk
  <2>5. CASE client' = [client EXCEPT ![c] = Idle]
    BY <1>1, <1>2, <2>2, <2>4, <2>5
  <2>6. CASE client' = [client EXCEPT ![c] = st]
    BY <1>2, <2>1, <2>2, <2>4, <2>6
  <2> QED BY <2>3, <2>5, <2>6
<1>4. CASE PayRefused(c)
  <2>1. file' \in File
    BY <1>0, <1>4 DEF PayRefused, AfterError, File
  <2> QED BY <1>0, <1>1, <1>2, <1>4, <2>1 DEF PayRefused, AfterError, Become
<1>5. CASE PayFails(c)
  <2>1. file' \in File /\ faults' \in Nat
    BY <1>0, <1>5 DEF PayFails, AfterError, Fault, File
  <2> QED BY <1>0, <1>1, <1>2, <1>5, <2>1 DEF PayFails, AfterError, Become
<1> QED BY <1>3, <1>4, <1>5 DEF Pay

LEMMA StopShape ==
    ASSUME ShapeInv, NEW c \in Clients, Stop(c)
    PROVE  ShapeInv'
<1>1. file' \in File /\ faults' \in Nat
  BY DEF Stop, Fault, ShapeInv, WorldInv
<1> QED BY <1>1, IdleState, ShapeStep DEF Stop, Become, Idle

LEMMA CloseShape ==
    ASSUME ShapeInv, NEW id \in Id, Finalize(id) \/ CloseAfterExpiry(id)
    PROVE  ShapeInv'
<1>1. PICK paid \in Nat : id \in Open /\ paid <= id.amount /\ Close(id, paid)
  <2>0. cosigned[id] \in Nat /\ cosigned[id] <= id.amount /\ id.amount \in Nat
    BY IdExpiry DEF ShapeInv, WorldInv
  <2>1. CASE Finalize(id)
    BY <2>1 DEF Finalize, ShapeInv, WorldInv
  <2>2. CASE CloseAfterExpiry(id)
    BY <2>0, <2>2 DEF CloseAfterExpiry
  <2> QED BY <2>1, <2>2
<1>2. listed' \in Seq(Id)
  BY <1>1, SwapPopShrinks DEF Close, ShapeInv, WorldInv
<1>3. wallet' \in Nat
  BY <1>1, IdExpiry DEF Close, ShapeInv, WorldInv
<1> QED BY <1>1, <1>2, <1>3 DEF Close, sequencer, ShapeInv, WorldInv, ClientInv

LEMMA ShapeInit == Init => ShapeInv
<1> SUFFICES ASSUME Init PROVE ShapeInv
  OBVIOUS
<1>1. listed \in Seq(Id)
  BY EmptySeq DEF Init
<1>2. ClientInv
  BY IdleState DEF Init, ClientInv, Idle
<1>3. \A id \in Id : 0 <= id.amount
  BY IdExpiry
<1> QED BY <1>1, <1>2, <1>3 DEF Init, ShapeInv, WorldInv, File

LEMMA ShapeNext == ShapeInv /\ [Next]_vars => ShapeInv'
<1> SUFFICES ASSUME ShapeInv, [Next]_vars PROVE ShapeInv'
  OBVIOUS
<1>1. CASE UNCHANGED vars
  BY <1>1 DEF vars, chain, sequencer, ShapeInv, WorldInv, ClientInv
<1>2. CASE Tick
  <2>1. now' \in 0..MaxTime
    BY <1>2 DEF Tick, ShapeInv, WorldInv
  <2> QED BY <1>2, <2>1 DEF Tick, chain, sequencer, ShapeInv, WorldInv, ClientInv
<1>3. ASSUME NEW id \in Id, Finalize(id) \/ CloseAfterExpiry(id) PROVE ShapeInv'
  BY <1>3, CloseShape
<1>4. ASSUME NEW c \in Clients, Ensure(c) PROVE ShapeInv'
  BY <1>4, LookShape, DepositShape, SeedShape DEF Ensure
<1>5. ASSUME NEW c \in Clients, Shake(c) \/ Read(c) \/ Pay(c) \/ PayFails(c) \/ Stop(c)
      PROVE  ShapeInv'
  BY <1>5, ShakeShape, ReadShape, PayShape, StopShape
<1> QED BY <1>1, <1>2, <1>3, <1>4, <1>5 DEF Next
-----------------------------------------------------------------------------
(***************************************************************************)
(* What the processes know of the list.                                    *)
(***************************************************************************)
LEMMA NotLooking ==
    ASSUME NEW s, NEW l, s.pc \notin {"read", "chain", "allowance", "approve", "open"}
    PROVE  Knows(s, l)
BY DEF Knows

LEMMA LookStep ==
    ASSUME ShapeInv, LookInv, NEW c \in Clients, NEW st, Knows(st, listed),
           client' = [client EXCEPT ![c] = st], UNCHANGED listed
    PROVE  LookInv'
<1>1. \A d \in Clients : client'[d] = IF d = c THEN st ELSE client[d]
  BY DEF ShapeInv, ClientInv
<1>2. \A d \in Clients : Knows(client'[d], listed)
  BY <1>1 DEF LookInv
<1> QED BY <1>2 DEF LookInv

\* A process that changes its pc only, and does not look at the list.
LEMMA GotoLook ==
    ASSUME ShapeInv, LookInv, NEW c \in Clients, NEW pc, Goto(c, pc),
           pc \notin {"read", "chain", "allowance", "approve", "open"},
           UNCHANGED listed
    PROVE  LookInv'
<1> DEFINE st == [client[c] EXCEPT !.pc = pc]
<1>1. st.pc = pc
  BY DEF ShapeInv, ClientInv, State, Record
<1>2. client' = [client EXCEPT ![c] = st]
  BY DEF Goto
<1> HIDE DEF st
<1>3. Knows(st, listed)
  BY <1>1, NotLooking
<1> QED BY <1>2, <1>3, LookStep

LEMMA BecomeLook ==
    ASSUME ShapeInv, LookInv, NEW c \in Clients, NEW st, Become(c, st),
           st.pc \notin {"read", "chain", "allowance", "approve", "open"},
           UNCHANGED listed
    PROVE  LookInv'
BY NotLooking, LookStep DEF Become

LEMMA ShakeLook ==
    ASSUME ShapeInv, LookInv, NEW c \in Clients, Shake(c)
    PROVE  LookInv'
<1>1. CASE StartBenchmark(c)
  BY <1>1, GotoLook DEF StartBenchmark, chain
<1>2. UNCHANGED listed
  BY DEF Shake, Start, StartBenchmark, Resolve, Prepare, Refresh, chain
<1>3. ASSUME ~StartBenchmark(c)
      PROVE  \E st : /\ Become(c, st)
                     /\ st.pc \notin {"read", "chain", "allowance", "approve", "open"}
  <2>0. client[c] \in Record /\ Idle \in Record
    BY IdleState DEF ShapeInv, ClientInv, State
  <2>1. CASE Start(c)
    <3> DEFINE req == IF file.req # None /\ file.req > now THEN file.req ELSE now + Lifetime
    <3>1. Become(c, Required(c, req)) /\ Required(c, req).pc = "prepare"
      BY <2>1 DEF Start, Required, Idle
    <3> QED BY <3>1
  <2>2. CASE Resolve(c)
    <3> DEFINE e == IF LatestKnown(c) THEN Latest(c).expiry ELSE now + Lifetime
    <3>1. Become(c, Required(c, e)) /\ Required(c, e).pc = "prepare"
      BY <2>2 DEF Resolve, Required, Idle
    <3> QED BY <3>1
  <2>3. CASE Prepare(c)
    <3> DEFINE req == client[c].chan.expiry
               plan == [expiry |-> IF req > now THEN req ELSE now + Lifetime,
                        amount |-> IF Deposit[c] > wallet THEN wallet ELSE Deposit[c]]
               st == IF Demo(c) /\ CachedChannel # None
                     THEN [Idle EXCEPT !.pc = "ready", !.chan = file.channel.id,
                                       !.seq = file.channel.seq]
                     ELSE [Idle EXCEPT !.pc = "length", !.phase = "ensure", !.chan = plan]
    <3>1. Become(c, st)
      BY <2>3 DEF Prepare
    <3>2. st.pc \in {"ready", "length"}
      BY DEF Idle
    <3> HIDE DEF st
    <3> QED BY <3>1, <3>2
  <2>4. CASE Refresh(c) /\ LatestKnown(c)
    <3> DEFINE st == [client[c] EXCEPT !.pc = "get", !.chan = Latest(c)]
    <3>1. st.pc = "get" /\ Become(c, st)
      BY <2>0, <2>4 DEF Refresh, Record
    <3> QED BY <3>1
  <2>5. CASE Refresh(c) /\ ~LatestKnown(c)
    BY <2>5 DEF Refresh, Idle
  <2> QED BY <1>3, <2>1, <2>2, <2>3, <2>4, <2>5 DEF Shake
<1> QED BY <1>1, <1>2, <1>3, BecomeLook

\* A reader that nobody raced and that is not done has a prefix of the list,
\* or the list has become shorter than the length it works with.
LEMMA ReadLook ==
    ASSUME ShapeInv, LookInv, NEW c \in Clients, Read(c)
    PROVE  LookInv'
<1>0. /\ client[c] \in Record /\ client[c].got \in Seq(Id) /\ client[c].len \in Nat
      /\ Len(client[c].got) \in Nat /\ listed \in Seq(Id) /\ Len(listed) \in Nat
      /\ Knows(client[c], listed)
  BY LenProperties DEF ShapeInv, WorldInv, ClientInv, LookInv, State, Record
<1>1. CASE ReadLength(c)
  <2> DEFINE st == [client[c] EXCEPT !.pc = "read", !.len = Len(listed), !.got = <<>>]
  <2>1. st.pc = "read" /\ st.len = Len(listed) /\ st.got = <<>>
    BY <1>0 DEF Record
  <2>2. client' = [client EXCEPT ![c] = st] /\ UNCHANGED listed
    BY <1>1 DEF ReadLength, Become, chain
  <2> HIDE DEF st
  <2>3. ReadInv(st, listed)
    BY <1>0, <2>1, EmptySeq DEF ReadInv
  <2>4. Knows(st, listed)
    BY <2>1, <2>3 DEF Knows
  <2> QED BY <2>2, <2>4, LookStep
<1>2. CASE ReadElement(c)
  <2> DEFINE got == client[c].got
             new == Append(got, listed[Len(got) + 1])
             st == [client[c] EXCEPT !.got = new]
  <2>1. /\ st.pc = "read" /\ st.len = client[c].len /\ st.got = new
        /\ st.raced = client[c].raced
    BY <1>0, <1>2 DEF ReadElement, Reading, Record
  <2>2. client' = [client EXCEPT ![c] = st] /\ UNCHANGED listed
    BY <1>2 DEF ReadElement, chain
  <2>3. Len(got) < client[c].len /\ Len(got) < Len(listed)
    BY <1>2 DEF ReadElement, Reading
  <2>4. listed[Len(got) + 1] \in Id
    BY <1>0, <2>3, LenProperties
  <2>5. /\ Len(new) = Len(got) + 1
        /\ \A i \in 1..Len(got) : new[i] = got[i]
        /\ new[Len(got) + 1] = listed[Len(got) + 1]
    BY <1>0, <2>4, AppendProperties
  <2> HIDE DEF st, new
  <2>6. ASSUME ~client[c].raced PROVE ReadInv(st, listed)
    <3>1. ReadInv(client[c], listed)
      BY <1>0, <1>2, <2>6 DEF Knows, ReadElement, Reading
    <3>2. /\ Len(listed) <= client[c].len
          /\ Len(listed) = client[c].len => \A i \in 1..Len(got) : got[i] = listed[i]
      BY <1>0, <2>3, <3>1 DEF ReadInv
    <3>3. Len(listed) = client[c].len => \A i \in 1..Len(new) : new[i] = listed[i]
      <4>1. Len(got) \in Nat
        BY <1>0
      <4> HIDE DEF got
      <4>2. \A i \in 1..Len(new) : i \in 1..Len(got) \/ i = Len(got) + 1
        BY <2>5, <4>1
      <4> QED BY <2>5, <3>2, <4>2
    <3>4. Len(new) = client[c].len => Len(listed) = client[c].len
      BY <1>0, <2>3, <2>5, <3>2
    <3> QED BY <1>0, <2>1, <2>3, <2>5, <3>2, <3>3, <3>4 DEF ReadInv
  <2>7. Knows(st, listed)
    BY <2>1, <2>6 DEF Knows
  <2> QED BY <2>2, <2>7, LookStep
<1>3. CASE ReadReverts(c)
  BY <1>3, BecomeLook DEF ReadReverts, Idle, chain
<1> QED BY <1>1, <1>2, <1>3 DEF Read

\* Going back over the list it has read, a process only drops ids of
\* channels that are closed.
LEMMA EnsureLook ==
    ASSUME ShapeInv, LookInv, NEW c \in Clients,
           Unknown(c) \/ ReadChain(c) \/ NoneFound(c) \/ ReadAllowance(c) \/ Approve(c)
    PROVE  LookInv'
<1>0. /\ client[c] \in Record /\ Held(client[c]) /\ client[c].got \in Seq(Id)
      /\ client[c].len \in Nat /\ Len(client[c].got) \in Nat
      /\ listed \in Seq(Id) /\ Len(listed) \in Nat /\ Knows(client[c], listed)
  BY LenProperties DEF ShapeInv, WorldInv, ClientInv, LookInv, State, Record
<1>1. ASSUME NEW pc,
             pc \notin {"read", "chain"} /\ (~client[c].raced => listed = <<>>),
             Goto(c, pc), UNCHANGED listed
      PROVE  LookInv'
  <2> DEFINE st == [client[c] EXCEPT !.pc = pc]
  <2>1. st.pc = pc /\ st.raced = client[c].raced
    BY <1>0 DEF Record
  <2>2. client' = [client EXCEPT ![c] = st]
    BY <1>1 DEF Goto
  <2> HIDE DEF st
  <2>3. Knows(st, listed)
    BY <1>1, <2>1 DEF Knows
  <2> QED BY <1>1, <2>2, <2>3, LookStep
<1>2. CASE Unknown(c)
  <2> DEFINE st == [client[c] EXCEPT !.pc = "chain"]
  <2>1. /\ st.pc = "chain" /\ st.len = client[c].len /\ st.got = client[c].got
        /\ st.raced = client[c].raced
    BY <1>0 DEF Record
  <2>2. client' = [client EXCEPT ![c] = st] /\ UNCHANGED listed
    BY <1>2 DEF Unknown, Goto, chain
  <2> HIDE DEF st
  <2>3. Knows(st, listed)
    BY <1>0, <1>2, <2>1 DEF Unknown, HasList, Knows, ReadInv
  <2> QED BY <2>2, <2>3, LookStep
<1>3. CASE ReadChain(c) /\ Latest(c) \in Open
  <2> DEFINE st == [client[c] EXCEPT !.pc = "seed", !.chan = Latest(c)]
  <2>1. st.pc = "seed"
    BY <1>0 DEF Record
  <2>2. Become(c, st) /\ UNCHANGED listed
    BY <1>3 DEF ReadChain, chain
  <2> HIDE DEF st
  <2> QED BY <2>1, <2>2, BecomeLook
<1>4. CASE ReadChain(c) /\ Latest(c) \notin Open
  <2> DEFINE got == client[c].got
             st == [client[c] EXCEPT !.pc = "read", !.len = @ - 1, !.got = ButLast(@)]
  <2>1. client[c].pc = "chain" /\ got # <<>> /\ Len(got) = client[c].len
    BY <1>0, <1>4 DEF ReadChain, Held
  <2>2. /\ st.pc = "read" /\ st.len = client[c].len - 1 /\ st.got = ButLast(got)
        /\ st.raced = client[c].raced
    BY <1>0 DEF Record
  <2>3. client' = [client EXCEPT ![c] = st] /\ UNCHANGED listed
    BY <1>4 DEF ReadChain, Become, chain
  <2>4. /\ Len(ButLast(got)) = Len(got) - 1 /\ Len(got) > 0
        /\ \A i \in 1..(Len(got) - 1) : ButLast(got)[i] = got[i]
        /\ Latest(c) = got[Len(got)]
    BY <1>0, <2>1, LastAndRest DEF Latest
  <2>5. \A i \in 1..Len(listed) : listed[i] # Latest(c)
    BY <1>0, <1>4, LenProperties DEF Open
  <2> HIDE DEF st
  <2>6. ASSUME ~client[c].raced PROVE ReadInv(st, listed)
    <3>1. \A i \in 1..Len(listed) : \E j \in 1..Len(got) : got[j] = listed[i]
      BY <1>0, <2>1, <2>6 DEF Knows, ReadInv
    <3>2. Len(got) \in Nat
      BY <1>0
    <3> HIDE DEF got
    <3>3. \A i \in 1..Len(listed) :
             \E j \in 1..(Len(got) - 1) : ButLast(got)[j] = listed[i]
      <4>1. TAKE i \in 1..Len(listed)
      <4>2. PICK j \in 1..Len(got) : got[j] = listed[i]
        BY <3>1
      <4>3. j # Len(got)
        BY <2>4, <2>5, <4>2
      <4>4. j \in 1..(Len(got) - 1)
        BY <3>2, <4>3
      <4> QED BY <2>4, <4>2, <4>4
    <3> QED BY <2>1, <2>2, <2>4, <3>2, <3>3 DEF ReadInv
  <2>7. Knows(st, listed)
    BY <2>2, <2>6 DEF Knows
  <2> QED BY <2>3, <2>7, LookStep
<1>5. CASE NoneFound(c)
  <2>1. ~client[c].raced => listed = <<>>
    <3>1. client[c].pc = "read" /\ client[c].got = <<>> /\ Len(client[c].got) = client[c].len
      BY <1>5 DEF NoneFound, HasList
    <3>2. ASSUME ~client[c].raced PROVE Len(listed) = 0
      BY <1>0, <3>1, <3>2, EmptySeq DEF Knows, ReadInv
    <3> QED BY <1>0, <3>2, EmptySeq
  <2>2. UNCHANGED listed
    BY <1>5 DEF NoneFound, chain
  <2>3. CASE client[c].chan.amount = 0
    BY <1>5, <2>2, <2>3, BecomeLook DEF NoneFound, Idle
  <2>4. CASE client[c].chan.amount # 0
    <3>1. Goto(c, "allowance")
      BY <1>5, <2>4 DEF NoneFound
    <3> QED BY <1>1, <2>1, <2>2, <3>1
  <2> QED BY <2>3, <2>4
<1>6. CASE ReadAllowance(c) \/ Approve(c)
  <2>1. ~client[c].raced => listed = <<>>
    BY <1>0, <1>6 DEF ReadAllowance, Approve, Knows
  <2>2. UNCHANGED listed
    BY <1>6 DEF ReadAllowance, Approve, chain
  <2>3. Goto(c, "approve") \/ Goto(c, "open")
    BY <1>6 DEF ReadAllowance, Approve
  <2> QED BY <1>1, <2>1, <2>2, <2>3
<1> QED BY <1>2, <1>3, <1>4, <1>5, <1>6

\* A new channel is noted by all who look, and who opened it looks no more.
LEMMA OpenLook ==
    ASSUME ShapeInv, LookInv, NEW c \in Clients, OpenChannel(c)
    PROVE  LookInv'
<1>1. ASSUME NEW d \in Clients PROVE Knows(client'[d], listed')
  <2>1. client[d] \in Record
    BY DEF ShapeInv, ClientInv, State
  <2>2. CASE d = c
    <3>1. client'[d].pc = "seed"
      BY <2>1, <2>2 DEF OpenChannel, Record
    <3> QED BY <3>1, NotLooking
  <2>3. CASE d # c /\ Looking(d)
    <3>1. client'[d] = [client[d] EXCEPT !.raced = TRUE]
      BY <2>3 DEF OpenChannel
    <3>2. client'[d].raced
      BY <2>1, <3>1 DEF Record
    <3> QED BY <3>2 DEF Knows
  <2>4. CASE d # c /\ ~Looking(d)
    BY <2>4, NotLooking DEF OpenChannel, Looking
  <2> QED BY <2>2, <2>3, <2>4
<1> QED BY <1>1 DEF LookInv

LEMMA UseLook ==
    ASSUME ShapeInv, LookInv, NEW c \in Clients, NEW id, Use(c, id), UNCHANGED listed
    PROVE  LookInv'
<1> DEFINE st == IF client[c].phase = "ensure" /\ ~Demo(c)
                 THEN [Idle EXCEPT !.pc = "length", !.phase = "refresh"]
                 ELSE [Idle EXCEPT !.pc = "ready", !.chan = id, !.seq = replica[id]]
<1>1. Become(c, st)
  BY DEF Use
<1>2. st.pc \in {"length", "ready"}
  BY DEF Idle
<1> HIDE DEF st
<1> QED BY <1>1, <1>2, BecomeLook

LEMMA PayLook ==
    ASSUME ShapeInv, LookInv, NEW c \in Clients,
           Pay(c) \/ PayFails(c) \/ Stop(c) \/ OpenReverts(c)
    PROVE  LookInv'
<1>1. UNCHANGED listed
  BY DEF Pay, PayOk, PayRefused, PayFails, Stop, OpenReverts, chain
<1>2. CASE Become(c, Idle)
  BY <1>1, <1>2, BecomeLook DEF Idle
<1>3. CASE PayOk(c) /\ ~Become(c, Idle)
  <2> DEFINE st == [client[c] EXCEPT !.seq = client[c].seq + 1]
  <2>1. client[c].pc = "ready" /\ client[c] \in Record
    BY <1>3 DEF PayOk, ShapeInv, ClientInv, State
  <2>2. st.pc = "ready"
    BY <2>1 DEF Record
  <2>3. Become(c, st)
    BY <1>3 DEF PayOk, Become
  <2> HIDE DEF st
  <2> QED BY <1>1, <2>2, <2>3, BecomeLook
<1> QED
  BY <1>2, <1>3 DEF Pay, PayRefused, PayFails, Stop, OpenReverts, AfterError

\* A closing leaves fewer ids, and no new ones.
LEMMA CloseLook ==
    ASSUME ShapeInv, LookInv, NEW id \in Id, Finalize(id) \/ CloseAfterExpiry(id)
    PROVE  LookInv'
<1>1. id \in Open /\ listed' = SwapPop(id) /\ client' = client
  BY DEF Finalize, CloseAfterExpiry, Close
<1>2. listed \in Seq(Id) /\ Len(listed) \in Nat
  BY LenProperties DEF ShapeInv, WorldInv
<1>3. /\ Len(listed) > 0 /\ Len(listed') = Len(listed) - 1
      /\ \A i \in 1..Len(listed') : \E j \in 1..Len(listed) : listed'[i] = listed[j]
  BY <1>1, <1>2, SwapPopShrinks
<1>4. ASSUME NEW c \in Clients, ~client[c].raced
      PROVE  /\ client[c].pc \in {"read", "chain"} => ReadInv(client[c], listed')
             /\ client[c].pc \in {"allowance", "approve", "open"} => listed' = <<>>
  <2>1. Knows(client[c], listed)
    BY DEF LookInv
  <2>2. listed # <<>>
    BY <1>3, EmptySeq
  <2>3. client[c].pc \notin {"allowance", "approve", "open"}
    BY <1>4, <2>1, <2>2 DEF Knows
  <2>4. ASSUME ReadInv(client[c], listed) PROVE ReadInv(client[c], listed')
    <3>1. client[c].len \in Nat /\ Len(client[c].got) \in Nat
      BY LenProperties DEF ShapeInv, ClientInv, State, Record
    <3>2. Len(client[c].got) < client[c].len => Len(listed') < client[c].len
      BY <1>2, <1>3, <2>4, <3>1 DEF ReadInv
    <3>3. Len(client[c].got) = client[c].len =>
             \A i \in 1..Len(listed') : \E j \in 1..Len(client[c].got) :
                client[c].got[j] = listed'[i]
      BY <1>3, <2>4 DEF ReadInv
    <3>4. Len(listed') \in Nat
      BY <1>2, <1>3
    <3> QED BY <2>4, <3>1, <3>2, <3>3, <3>4 DEF ReadInv
  <2> QED BY <1>4, <2>1, <2>3, <2>4 DEF Knows
<1>5. \A c \in Clients : Knows(client'[c], listed')
  BY <1>1, <1>4 DEF Knows
<1> QED BY <1>5 DEF LookInv

LEMMA LookNext == ShapeInv /\ LookInv /\ [Next]_vars => LookInv'
<1> SUFFICES ASSUME ShapeInv, LookInv, [Next]_vars PROVE LookInv'
  OBVIOUS
<1>1. CASE UNCHANGED vars \/ Tick
  BY <1>1 DEF vars, Tick, chain, LookInv
<1>2. ASSUME NEW id \in Id, Finalize(id) \/ CloseAfterExpiry(id) PROVE LookInv'
  BY <1>2, CloseLook
<1>3. ASSUME NEW c \in Clients, Known(c) \/ Get(c) PROVE LookInv'
  BY <1>3, UseLook DEF Known, Get, chain
<1>4. ASSUME NEW c \in Clients, Seed(c) PROVE LookInv'
  BY <1>4, GotoLook DEF Seed, chain
<1>5. ASSUME NEW c \in Clients, Ensure(c) PROVE LookInv'
  BY <1>3, <1>4, <1>5, EnsureLook, OpenLook, PayLook DEF Ensure
<1>6. ASSUME NEW c \in Clients, Shake(c) \/ Read(c) \/ Pay(c) \/ PayFails(c) \/ Stop(c)
      PROVE  LookInv'
  BY <1>6, ShakeLook, ReadLook, PayLook
<1> QED BY <1>1, <1>2, <1>5, <1>6 DEF Next

LEMMA SetupInvHolds == Spec => []SetupInv
<1>1. Init => SetupInv
  BY ShapeInit DEF Init, SetupInv, LookInv, Knows, Idle
<1>2. SetupInv /\ [Next]_vars => SetupInv'
  BY ShapeNext, LookNext DEF SetupInv
<1> QED BY <1>1, <1>2, PTL DEF Spec
-----------------------------------------------------------------------------
\* A process with a new state took a step of its own, or noted an opening.
LEMMA WhoMoved ==
    ASSUME ShapeInv, [Next]_vars, NEW c \in Clients, client'[c] # client[c]
    PROVE  \/ Shake(c) \/ Read(c) \/ Ensure(c) \/ Pay(c) \/ PayFails(c) \/ Stop(c)
           \/ Looking(c) /\ client'[c] = [client[c] EXCEPT !.raced = TRUE]
<1>0. client \in [Clients -> State]
  BY DEF ShapeInv, ClientInv
<1>1. ~(UNCHANGED vars \/ Tick \/ \E id \in Id : Finalize(id) \/ CloseAfterExpiry(id))
  BY DEF vars, Tick, Finalize, CloseAfterExpiry, Close
<1>2. PICK d \in Clients :
        Shake(d) \/ Read(d) \/ Ensure(d) \/ Pay(d) \/ PayFails(d) \/ Stop(d)
  BY <1>1 DEF Next
<1>3. CASE d = c
  BY <1>2, <1>3
<1>4. CASE OpenChannel(d) /\ d # c
  BY <1>4 DEF OpenChannel
<1>5. CASE ~OpenChannel(d) /\ d # c
  <2>1. \E st : client' = [client EXCEPT ![d] = st]
    <3>1. CASE Shake(d)
      BY <3>1 DEF Shake, Start, StartBenchmark, Resolve, Prepare, Refresh, Become, Goto
    <3>2. CASE Read(d)
      BY <3>2 DEF Read, ReadLength, ReadElement, ReadReverts, Become
    <3>3. CASE Ensure(d)
      BY <1>5, <3>3 DEF Ensure, Known, Unknown, ReadChain, NoneFound, ReadAllowance,
                        Approve, OpenReverts, Seed, Get, Use, Become, Goto
    <3>4. CASE Pay(d) \/ PayFails(d) \/ Stop(d)
      BY <3>4 DEF Pay, PayOk, PayRefused, PayFails, Stop, AfterError, Become
    <3> QED BY <1>2, <3>1, <3>2, <3>3, <3>4
  <2>2. client'[c] = client[c]
    BY <1>0, <1>5, <2>1
  <2> QED BY <2>2
<1> QED BY <1>3, <1>4, <1>5

(***************************************************************************)
(* However many closings happen while it is read element by element, a     *)
(* list that is answered without an opening in between is the owner's list *)
(* at that moment.                                                         *)
(***************************************************************************)
THEOREM ListIsFaithful == Spec => ListFaithful
<1> DEFINE Finishes(c) ==
        /\ Reading(c) /\ Len(client'[c].got) = client'[c].len
        /\ ~client[c].raced /\ client'[c].pc = "read"
<1>1. ASSUME SetupInv, [Next]_vars, NEW c \in Clients, Finishes(c)
      PROVE  client'[c].got = listed
  <2>0. /\ client[c] \in Record /\ client[c].got \in Seq(Id) /\ client[c].len \in Nat
        /\ Len(client[c].got) \in Nat /\ listed \in Seq(Id) /\ Len(listed) \in Nat
        /\ client \in [Clients -> State]
    BY <1>1, LenProperties DEF SetupInv, ShapeInv, WorldInv, ClientInv, State, Record
  <2>1. client[c].pc = "read" /\ Len(client[c].got) < client[c].len
    BY <1>1 DEF Reading
  <2>2. ReadElement(c)
    <3>1. ~(client'[c].got = client[c].got /\ client'[c].len = client[c].len)
      BY <1>1, <2>0, <2>1
    <3>2. client'[c] # [client[c] EXCEPT !.raced = TRUE]
      BY <2>0, <3>1 DEF Record
    <3>3. Shake(c) \/ Read(c) \/ Ensure(c) \/ Pay(c) \/ PayFails(c) \/ Stop(c)
      BY <1>1, <3>1, <3>2, WhoMoved DEF SetupInv
    <3>4. ~HasList(c, "shake") /\ ~HasList(c, "ensure") /\ ~HasList(c, "refresh")
      BY <2>0, <2>1 DEF HasList
    <3>5. ~(Shake(c) \/ Ensure(c) \/ Pay(c) \/ PayFails(c))
      BY <2>1, <3>4
         DEF Shake, Start, StartBenchmark, Resolve, Prepare, Refresh, Ensure, Known,
             Unknown, ReadChain, NoneFound, ReadAllowance, Approve, OpenChannel,
             OpenReverts, Seed, Get, Pay, PayOk, PayRefused, PayFails
    <3>6. ~(ReadReverts(c) \/ Stop(c))
      BY <1>1, <2>0 DEF ReadReverts, Stop, Become, Idle
    <3>7. ~ReadLength(c)
      BY <2>1 DEF ReadLength
    <3> QED BY <3>3, <3>5, <3>6, <3>7 DEF Read
  <2> DEFINE got == client[c].got
             new == Append(got, listed[Len(got) + 1])
  <2>3. client'[c].got = new /\ client'[c].len = client[c].len /\ Len(got) < Len(listed)
    BY <2>0, <2>2 DEF ReadElement, Record
  <2>4. /\ Len(listed) <= client[c].len
        /\ Len(listed) = client[c].len => \A i \in 1..Len(got) : got[i] = listed[i]
    BY <1>1, <2>1 DEF SetupInv, LookInv, Knows, ReadInv
  <2>5. listed[Len(got) + 1] \in Id
    BY <2>0, <2>3, LenProperties
  <2>6. /\ new \in Seq(Id) /\ Len(new) = Len(got) + 1
        /\ \A i \in 1..Len(got) : new[i] = got[i]
        /\ new[Len(got) + 1] = listed[Len(got) + 1]
    BY <2>0, <2>5, AppendProperties
  <2>7. Len(new) = Len(listed) /\ Len(listed) = client[c].len
    BY <1>1, <2>0, <2>3, <2>4, <2>6
  <2>8. Len(got) \in Nat
    BY <2>0
  <2> HIDE DEF got, new
  <2>9. \A i \in 1..Len(new) : i \in 1..Len(got) \/ i = Len(got) + 1
    BY <2>6, <2>8
  <2>10. \A i \in 1..Len(new) : new[i] = listed[i]
    BY <2>4, <2>6, <2>7, <2>9
  <2> QED BY <2>0, <2>3, <2>6, <2>7, <2>10, SeqEqual
<1>2. SetupInv /\ [Next]_vars =>
        [\A c \in Clients :
            Reading(c) /\ Len(client'[c].got) = client'[c].len /\ ~client[c].raced
                /\ client'[c].pc = "read"
              => client'[c].got = listed]_vars
  BY <1>1
<1> QED BY <1>2, SetupInvHolds, PTL DEF Spec, ListFaithful

(***************************************************************************)
(* Wherever runs are killed and channels are closed, a run that no other   *)
(* opening raced opens a channel only when its owner has none.             *)
(***************************************************************************)
THEOREM NeverOpensASecond == Spec => OpensOnlyWithout
<1>1. SetupInv /\ [Next]_vars =>
        [\A c \in Clients :
            client[c].pc = "open" /\ client'[c].pc = "seed" /\ ~client[c].raced
              => listed = <<>>]_vars
  BY DEF SetupInv, LookInv, Knows
<1> QED BY <1>1, SetupInvHolds, PTL DEF Spec, OpensOnlyWithout
-----------------------------------------------------------------------------
(***************************************************************************)
(* The tokens of the owner.  That they are never more than the supply is   *)
(* not inductive: a closing returns a deposit.  What stays below it is the *)
(* wallet with the deposits of the open channels, each of them listed once.*)
(***************************************************************************)
Locked(S) == Sums!SumFunction([id \in S |-> id.amount])
ListedOnce == \A i, j \in 1..Len(listed) : listed[i] = listed[j] => i = j
TokenInv ==
    /\ ListedOnce
    /\ wallet + Locked(Open) <= Supply
    /\ allowed <= Supply
    /\ faults <= MaxFaults

LEMMA LockedParts ==
    ASSUME NEW S, S \subseteq Id, IsFiniteSet(S)
    PROVE  /\ Locked(S) \in Nat
           /\ \A id \in S : Locked(S) = id.amount + Locked(S \ {id})
<1> DEFINE f == [id \in S |-> id.amount]
<1>0. Sums!IsFiniteSet(S)
  BY Zenon DEF IsFiniteSet, Sums!IsFiniteSet
<1>1. f \in [S -> Nat]
  BY IdExpiry
<1>2. Sums!SumFunction(f) \in Nat
  <2> HIDE DEF f
  <2> QED BY <1>0, <1>1, Sums!SumType
<1>3. ASSUME NEW id \in S PROVE Locked(S) = id.amount + Locked(S \ {id})
  <2>1. Sums!SumFunction(f) = f[id] + Sums!SumFunction([y \in S \ {id} |-> f[y]])
    <3> HIDE DEF f
    <3> QED BY <1>0, <1>1, Sums!SumRemove
  <2>2. [y \in S \ {id} |-> f[y]] = [y \in S \ {id} |-> y.amount] /\ f[id] = id.amount
    OBVIOUS
  <2> QED BY <2>1, <2>2 DEF Locked
<1> QED BY <1>2, <1>3 DEF Locked

LEMMA OpenFinite == ShapeInv => Open \subseteq Id /\ IsFiniteSet(Open)
<1> SUFFICES ASSUME ShapeInv PROVE Open \subseteq Id /\ IsFiniteSet(Open)
  OBVIOUS
<1>1. /\ Len(listed) \in Nat /\ DOMAIN listed = 1..Len(listed)
      /\ \A i \in 1..Len(listed) : listed[i] \in Id
  BY LenProperties DEF ShapeInv, WorldInv
<1>2. IsFiniteSet(1..Len(listed))
  BY <1>1, FS_Interval
<1>3. Open \subseteq Id /\ \A id \in Open : \E i \in 1..Len(listed) : listed[i] = id
  BY <1>1 DEF Open
<1>4. [i \in 1..Len(listed) |-> listed[i]] \in Surjection(1..Len(listed), Open)
  BY <1>1, <1>3 DEF Surjection, Open
<1>5. IsFiniteSet(Open)
  BY <1>2, <1>4, FS_Surjection
<1> QED BY <1>3, <1>5

LEMMA TokenInit == Init => TokenInv
<1> SUFFICES ASSUME Init PROVE TokenInv
  OBVIOUS
<1>1. Len(listed) = 0 /\ DOMAIN listed = {}
  BY DEF Init
<1>2. Open = {}
  BY <1>1 DEF Open
<1>3. Locked({}) = 0
  <2>1. DOMAIN [id \in {} |-> id.amount] = {}
    OBVIOUS
  <2> DEFINE f == [id \in {} |-> id.amount]
  <2>2. DOMAIN f = {} /\ f = [x \in DOMAIN f |-> f[x]]
    OBVIOUS
  <2>3. Sums!SumFunction(f) = 0
    <3> HIDE DEF f
    <3> QED BY <2>2, Sums!SumEmpty
  <2> QED BY <2>3 DEF Locked
<1>4. ListedOnce
  BY <1>1 DEF ListedOnce
<1> QED BY <1>2, <1>3, <1>4 DEF Init, TokenInv

\* Opening moves a deposit from the wallet to a channel not listed before.
LEMMA OpenTokens ==
    ASSUME ShapeInv, ShapeInv', TokenInv, NEW c \in Clients, OpenChannel(c)
    PROVE  TokenInv'
<1> DEFINE id == client[c].chan
           n == Len(listed)
<1>1. id \in Id
  BY DEF OpenChannel, ShapeInv, ClientInv, State, Held
<1>2. /\ id \notin Open /\ listed' = Append(listed, id)
      /\ wallet' = wallet - id.amount /\ allowed' = allowed - id.amount
      /\ faults' = faults
  BY DEF OpenChannel, Openable
<1>3. listed \in Seq(Id) /\ wallet \in Nat /\ allowed \in Nat /\ id.amount \in Nat
  BY <1>1, IdExpiry DEF ShapeInv, WorldInv
<1> HIDE DEF id
<1>4. /\ n \in Nat /\ DOMAIN listed = 1..n
      /\ Len(listed') = n + 1 /\ DOMAIN listed' = 1..(n + 1)
      /\ listed'[n + 1] = id
      /\ \A i \in 1..n : listed'[i] = listed[i]
  BY <1>1, <1>2, <1>3
<1> HIDE DEF n
<1>5. \A i \in 1..n : listed[i] # id
  BY <1>2, <1>4 DEF Open
<1>6. \A i \in 1..(n + 1) : i \in 1..n \/ i = n + 1
  BY <1>4
<1>7. ListedOnce'
  BY <1>4, <1>5, <1>6 DEF TokenInv, ListedOnce, n
<1>8. Open' = Open \cup {id}
  <2>1. \A i \in 1..n : i \in 1..(n + 1)
    BY <1>4
  <2>2. n + 1 \in 1..(n + 1)
    BY <1>4
  <2> QED BY <1>4, <1>6, <2>1, <2>2 DEF Open
<1>9. Locked(Open \cup {id}) = id.amount + Locked(Open)
  <2>1. Open \cup {id} \subseteq Id /\ IsFiniteSet(Open \cup {id})
    BY <1>1, OpenFinite, FS_AddElement
  <2>2. (Open \cup {id}) \ {id} = Open
    BY <1>2
  <2> QED BY <2>1, <2>2, LockedParts
<1>10. Locked(Open) \in Nat
  BY OpenFinite, LockedParts
<1>11. Locked(Open') = Locked(Open \cup {id})
  BY <1>8
<1>12. wallet' + Locked(Open') <= Supply
  BY <1>2, <1>3, <1>9, <1>10, <1>11 DEF TokenInv
<1>13. allowed' <= Supply
  BY <1>2, <1>3 DEF TokenInv
<1> QED BY <1>2, <1>7, <1>12, <1>13 DEF TokenInv, Locked

\* A closing takes exactly its channel from the list.
LEMMA SwapPopTakes ==
    ASSUME ShapeInv, ListedOnce, NEW id \in Open, listed' = SwapPop(id)
    PROVE  ListedOnce' /\ Open' = Open \ {id}
<1> DEFINE n == Len(listed)
           k == CHOOSE i \in DOMAIN listed : listed[i] = id
           moved == [listed EXCEPT ![k] = LastOf(listed)]
<1>1. listed \in Seq(Id) /\ n \in Nat /\ DOMAIN listed = 1..n
  BY LenProperties DEF ShapeInv, WorldInv
<1>2. k \in 1..n /\ listed[k] = id
  BY <1>1 DEF Open
<1>3. n > 0 /\ listed # <<>>
  BY <1>1, <1>2, EmptySeq
<1>4. LastOf(listed) \in Id /\ LastOf(listed) = listed[n]
  BY <1>1, <1>3, LastAndRest
<1>5. moved \in Seq(Id) /\ Len(moved) = n
  BY <1>1, <1>2, <1>4, ExceptSeq
<1>6. moved # <<>>
  BY <1>3, <1>5, EmptySeq
<1>7. /\ ButLast(moved) \in Seq(Id) /\ Len(ButLast(moved)) = n - 1
      /\ \A i \in 1..(n - 1) : ButLast(moved)[i] = moved[i]
  BY <1>5, <1>6, LastAndRest
<1>8. listed' = ButLast(moved)
  BY DEF SwapPop
<1>9. \A i \in 1..(n - 1) : moved[i] = IF i = k THEN listed[n] ELSE listed[i]
  BY <1>1, <1>4
<1> HIDE DEF moved, k
<1>10. /\ Len(listed') = n - 1 /\ DOMAIN listed' = 1..(n - 1)
       /\ \A i \in 1..(n - 1) : listed'[i] = IF i = k THEN listed[n] ELSE listed[i]
  BY <1>7, <1>8, <1>9, LenProperties
<1>11. \A i, j \in 1..n : listed[i] = listed[j] => i = j
  BY DEF ListedOnce
<1> HIDE DEF n
<1>12. ListedOnce'
  <2>1. ASSUME NEW i \in 1..(n - 1), NEW j \in 1..(n - 1), listed'[i] = listed'[j]
        PROVE  i = j
    BY <1>1, <1>2, <1>10, <1>11, <2>1
  <2> QED BY <1>10, <2>1 DEF ListedOnce
<1>13. ASSUME NEW i \in 1..(n - 1)
       PROVE  listed'[i] # id /\ \E j \in 1..n : listed'[i] = listed[j]
  BY <1>1, <1>2, <1>10, <1>11
<1>14. ASSUME NEW j \in 1..n, listed[j] # id
       PROVE  \E i \in 1..(n - 1) : listed'[i] = listed[j]
  <2>1. CASE j = n
    <3>1. k \in 1..(n - 1) /\ listed'[k] = listed[n]
      BY <1>1, <1>2, <1>10, <1>14, <2>1
    <3> QED BY <2>1, <3>1
  <2>2. CASE j # n
    <3>1. j \in 1..(n - 1) /\ j # k
      BY <1>1, <1>2, <1>14, <2>2
    <3> QED BY <1>10, <3>1
  <2> QED BY <2>1, <2>2
<1>15. Open' = Open \ {id}
  <2>1. \A x : x \in Open <=> \E j \in 1..n : x = listed[j]
    BY <1>1 DEF Open
  <2>2. \A x : x \in Open' <=> \E i \in 1..(n - 1) : x = listed'[i]
    BY <1>10 DEF Open
  <2>3. \A x : x \in Open' => x \in Open /\ x # id
    BY <1>13, <2>1, <2>2
  <2>4. \A x : x \in Open /\ x # id => x \in Open'
    BY <1>14, <2>1, <2>2
  <2> QED BY <2>3, <2>4
<1> QED BY <1>12, <1>15

LEMMA CloseTokens ==
    ASSUME ShapeInv, TokenInv, NEW id \in Id, Finalize(id) \/ CloseAfterExpiry(id)
    PROVE  TokenInv'
<1>1. PICK paid \in Nat : id \in Open /\ Close(id, paid)
  <2>1. CASE Finalize(id)
    BY <2>1 DEF Finalize, ShapeInv, WorldInv
  <2>2. CASE CloseAfterExpiry(id)
    BY <2>2 DEF CloseAfterExpiry, ShapeInv, WorldInv
  <2> QED BY <2>1, <2>2
<1>2. ListedOnce' /\ Open' = Open \ {id}
  BY <1>1, SwapPopTakes DEF TokenInv, Close
<1>3. Locked(Open) = id.amount + Locked(Open \ {id})
  BY <1>1, OpenFinite, LockedParts
<1>4. Locked(Open \ {id}) \in Nat
  BY OpenFinite, FS_Subset, LockedParts
<1>5. wallet \in Nat /\ id.amount \in Nat /\ wallet' = wallet + id.amount - paid
  BY <1>1, IdExpiry DEF Close, ShapeInv, WorldInv
<1>6. Locked(Open') = Locked(Open \ {id})
  BY <1>2
<1>7. wallet' + Locked(Open') <= Supply
  BY <1>3, <1>4, <1>5, <1>6 DEF TokenInv
<1> QED BY <1>1, <1>2, <1>7 DEF TokenInv, Close, Locked

LEMMA TokenNext == ShapeInv /\ ShapeInv' /\ TokenInv /\ [Next]_vars => TokenInv'
<1> SUFFICES ASSUME ShapeInv, ShapeInv', TokenInv, [Next]_vars PROVE TokenInv'
  OBVIOUS
<1>1. ASSUME UNCHANGED <<listed, wallet>>, allowed' <= Supply, faults' <= MaxFaults
      PROVE  TokenInv'
  BY <1>1 DEF TokenInv, ListedOnce, Open, Locked
<1>2. ASSUME UNCHANGED chain, UNCHANGED faults \/ Fault PROVE TokenInv'
  <2>1. faults' <= MaxFaults
    BY <1>2 DEF Fault, TokenInv, ShapeInv, WorldInv
  <2> QED BY <1>1, <1>2, <2>1 DEF chain, TokenInv
<1>3. CASE UNCHANGED vars
  BY <1>2, <1>3 DEF vars
<1>4. CASE Tick
  BY <1>2, <1>4 DEF Tick
<1>5. ASSUME NEW id \in Id, Finalize(id) \/ CloseAfterExpiry(id) PROVE TokenInv'
  BY <1>5, CloseTokens
<1>6. ASSUME NEW c \in Clients, Approve(c) PROVE TokenInv'
  <2>1. client[c].chan \in Id
    BY <1>6 DEF Approve, ShapeInv, ClientInv, State, Held
  <2>2. allowed' <= Supply
    BY <1>6, <2>1, IdExpiry DEF Approve
  <2> QED BY <1>1, <1>6, <2>2 DEF Approve, TokenInv
<1>7. ASSUME NEW c \in Clients, OpenChannel(c) PROVE TokenInv'
  BY <1>7, OpenTokens
<1>8. ASSUME NEW c \in Clients,
             \/ Shake(c) \/ Read(c) \/ Pay(c) \/ PayFails(c) \/ Stop(c)
             \/ Known(c) \/ Unknown(c) \/ ReadChain(c) \/ NoneFound(c) \/ ReadAllowance(c)
             \/ OpenReverts(c) \/ Seed(c) \/ Get(c)
      PROVE  UNCHANGED chain /\ (UNCHANGED faults \/ Fault)
  BY <1>8 DEF Shake, Start, StartBenchmark, Resolve, Prepare, Refresh, Read, ReadLength,
              ReadElement, ReadReverts, Pay, PayOk, PayRefused, PayFails, Stop, Known, Unknown,
              ReadChain, NoneFound, ReadAllowance, OpenReverts, Seed, Get, chain
<1> QED BY <1>2, <1>3, <1>4, <1>5, <1>6, <1>7, <1>8 DEF Next, Ensure

(***************************************************************************)
(* Every state has its type: what each process holds at each of its calls, *)
(* and the tokens of the owner, which are never more than there are, for   *)
(* opening and closing only move them.                                     *)
(***************************************************************************)
THEOREM SetupTypeCorrect == Spec => []TypeOK
<1>1. ShapeInv /\ TokenInv => TypeOK
  <2> SUFFICES ASSUME ShapeInv, TokenInv PROVE TypeOK
    OBVIOUS
  <2>1. Locked(Open) \in Nat
    BY OpenFinite, LockedParts
  <2>2. wallet \in 0..Supply /\ allowed \in 0..Supply /\ faults \in 0..MaxFaults
    BY <2>1 DEF TokenInv, ShapeInv, WorldInv
  <2>3. file \in [channel : [id : Id, seq : Nat] \cup {None}, req : Nat \cup {None}]
    BY DEF ShapeInv, WorldInv, File, Expiries
  <2>4. client \in [Clients -> Record]
    BY DEF ShapeInv, ClientInv, State
  <2> QED BY <2>2, <2>3, <2>4 DEF TypeOK, ShapeInv, WorldInv, Record
<1>2. ShapeInv /\ ShapeInv' /\ TokenInv /\ [Next]_vars => TokenInv'
  BY TokenNext
<1> QED BY <1>1, <1>2, ShapeInit, ShapeNext, TokenInit, PTL DEF Spec
=============================================================================
