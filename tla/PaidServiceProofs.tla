------------------------- MODULE PaidServiceProofs -------------------------
(***************************************************************************)
(* Theorems about the paid service, for any number of clients and of       *)
(* concurrent requests, every price, balance and expiry, and any number of *)
(* failures.                                                               *)
(***************************************************************************)
EXTENDS PaidService, FiniteSetTheorems, TLAPS

(***************************************************************************)
(* A request in the service carries an update, and a client that waits for *)
(* a request is the only one to, and waits for the update it sent.         *)
(***************************************************************************)
RequestsMatch ==
    /\ \A h \in Handlers : handler[h].pc # "idle" =>
            handler[h].update \in Update /\ channel # None
    /\ \A c \in Clients : client[c].pc # "idle" =>
            client[c].state \in State /\ channel # None
    /\ \A c \in Clients :
            IF client[c].pc = "waiting"
            THEN /\ client[c].sent \in Update
                 /\ client[c].via \in Handlers
                 /\ handler[client[c].via].pc # "idle"
                 /\ handler[client[c].via].update = client[c].sent
            ELSE client[c].via = None
    /\ \A c, d \in Clients :
            client[c].pc = "waiting" /\ client[c].via = client[d].via => c = d

TypeInv == TypeOK /\ RequestsMatch

USE ModeAssumption, PriceAssumption, TimeAssumption, NoneAssumption

LEMMA TypeInvInit == Init => TypeInv
BY DEF Init, TypeInv, TypeOK, RequestsMatch, IdleClient, IdleHandler

\* What taking an update does to the channel.
LEMMA TakeType ==
    ASSUME TypeInv, NEW u \in Update, channel # None, Take(u)
    PROVE  /\ channel' \in Replica
           /\ channel' # None
           /\ settled' \subseteq Update
BY DEF Take, TypeInv, TypeOK, Replica, Update

\* A step of a request that goes on to another await or to its answer.
LEMMA MoveType ==
    ASSUME TypeInv, NEW h \in Handlers, handler[h].pc # "idle",
           NEW pc \in {"settle", "work", "ok", "refused", "failed"}, Move(h, pc),
           channel' # None, UNCHANGED ClientSide
    PROVE  /\ RequestsMatch'
           /\ handler' \in [Handlers ->
                [pc : {"idle", "verify", "settle", "work", "ok", "refused", "failed"},
                 update : Update \cup {None}]]
<1>1. /\ handler' = [handler EXCEPT ![h].pc = pc]
      /\ handler \in [Handlers ->
                [pc : {"idle", "verify", "settle", "work", "ok", "refused", "failed"},
                 update : Update \cup {None}]]
  BY DEF Move, TypeInv, TypeOK
<1>2. \A g \in Handlers : /\ handler'[g].update = handler[g].update
                          /\ handler'[g].pc # "idle" <=> handler[g].pc # "idle"
  BY <1>1
<1> QED BY <1>1, <1>2 DEF TypeInv, RequestsMatch, ClientSide

LEMMA TypeInvNext == TypeInv /\ [Next]_vars => TypeInv'
<1> SUFFICES ASSUME TypeInv, [Next]_vars PROVE TypeInv'
  OBVIOUS
<1>1. ASSUME NEW h \in Handlers, Verify(h) PROVE TypeInv'
  <2>1. handler[h].pc # "idle" /\ channel # None
    BY <1>1 DEF Verify, TypeInv, RequestsMatch
  <2>2. RequestsMatch'
    BY <1>1, <2>1, MoveType DEF Verify
  <2> QED BY <1>1, <2>1, <2>2, MoveType
           DEF Verify, TypeInv, TypeOK, ClientSide, history, served
<1>2. ASSUME NEW h \in Handlers, Settle(h) PROVE TypeInv'
  <2>1. handler[h].pc # "idle" /\ channel # None /\ handler[h].update \in Update
    BY <1>2 DEF Settle, TypeInv, RequestsMatch
  <2>2. channel' \in Replica /\ channel' # None /\ settled' \subseteq Update
    BY <1>2, <2>1, TakeType DEF Settle
  <2>3. RequestsMatch'
    BY <1>2, <2>1, <2>2, MoveType DEF Settle
  <2> QED BY <1>2, <2>1, <2>2, <2>3, MoveType
           DEF Settle, TypeInv, TypeOK, ClientSide, served
<1>3. ASSUME NEW h \in Handlers, Refuse(h) PROVE TypeInv'
  <2>1. handler[h].pc # "idle" /\ channel # None
    BY <1>3 DEF Refuse, TypeInv, RequestsMatch
  <2>2. RequestsMatch'
    BY <1>3, <2>1, MoveType DEF Refuse
  <2> QED BY <1>3, <2>1, <2>2, MoveType
           DEF Refuse, TypeInv, TypeOK, ClientSide, history, served
<1>4. ASSUME NEW h \in Handlers, Work(h) PROVE TypeInv'
  <2>1. handler[h].pc # "idle" /\ channel # None /\ handler[h].update \in Update
    BY <1>4 DEF Work, TypeInv, RequestsMatch
  <2>2. RequestsMatch'
    BY <1>4, <2>1, MoveType DEF Work
  <2> QED BY <1>4, <2>1, <2>2, MoveType DEF Work, TypeInv, TypeOK, ClientSide
<1>5. ASSUME NEW h \in Handlers, CallFails(h) PROVE TypeInv'
  <2>1. handler[h].pc # "idle" /\ channel # None /\ handler[h].update \in Update
    BY <1>5 DEF CallFails, TypeInv, RequestsMatch
  <2>2. channel' \in Replica /\ channel' # None /\ settled' \subseteq Update
    BY <1>5, <2>1, TakeType DEF CallFails, TypeInv, TypeOK
  <2>3. RequestsMatch'
    BY <1>5, <2>1, <2>2, MoveType DEF CallFails
  <2>4. faults' \in 0..MaxFaults
    BY <1>5 DEF CallFails, Fault, TypeInv, TypeOK
  <2> QED
    BY <1>5, <2>1, <2>2, <2>3, <2>4, MoveType
       DEF CallFails, TypeInv, TypeOK, ClientSide, served
<1>6. ASSUME NEW h \in Handlers, Outage(h) PROVE TypeInv'
  <2>1. TypeOK'
    BY <1>6 DEF Outage, Fault, TypeInv, TypeOK, history, served, IdleClient, IdleHandler
  <2>2. RequestsMatch'
    BY <1>6 DEF Outage, TypeInv, TypeOK, RequestsMatch, IdleClient, IdleHandler
  <2> QED BY <2>1, <2>2 DEF TypeInv
<1>7. ASSUME NEW h \in Handlers, Drop(h) PROVE TypeInv'
  BY <1>7 DEF Drop, TypeInv, TypeOK, RequestsMatch, ClientSide, history, served, IdleHandler
<1>8. ASSUME NEW c \in Clients, OpenAndSeed(c) PROVE TypeInv'
  <2>1. channel' \in Replica /\ channel' # None
    BY <1>8 DEF OpenAndSeed, Replica
  <2> QED
    BY <1>8, <2>1 DEF OpenAndSeed, TypeInv, TypeOK, RequestsMatch, history, served
<1>9. ASSUME NEW c \in Clients, Begin(c) \/ BeginBenchmark(c) PROVE TypeInv'
  <2>1. Known(channel) \in State
    BY <1>9 DEF Begin, BeginBenchmark, Known, TypeInv, TypeOK, Replica, State
  <2>2. /\ \E x \in State : client' = [client EXCEPT ![c].pc = "ready", ![c].state = x]
        /\ cache' \in State \cup {None}
        /\ UNCHANGED <<service, faults, now>>
    BY <1>9, <2>1 DEF Begin, BeginBenchmark, Ready, ValidCache, TypeInv, TypeOK
  <2> PICK x \in State : client' = [client EXCEPT ![c].pc = "ready", ![c].state = x]
    BY <2>2
  <2>3. \A d \in Clients : d # c => client'[d] = client[d]
    BY DEF TypeInv, TypeOK
  <2>4. /\ client'[c].pc = "ready" /\ client'[c].via = None /\ client'[c].state = x
        /\ client[c].pc = "idle"
    BY <1>9 DEF Begin, BeginBenchmark, TypeInv, TypeOK, RequestsMatch
  <2>5. TypeOK'
    <3> DEFINE ClientRec == [pc : {"idle", "ready", "waiting"}, state : State \cup {None},
                             sent : Update \cup {None}, via : Handlers \cup {None}]
    <3>1. client[c] \in ClientRec
      BY DEF TypeInv, TypeOK
    <3>2. [client[c] EXCEPT !.pc = "ready", !.state = x] \in ClientRec
      BY <3>1
    <3>3. client' = [client EXCEPT ![c] = [client[c] EXCEPT !.pc = "ready", !.state = x]]
      BY DEF TypeInv, TypeOK
    <3>4. client' \in [Clients -> ClientRec]
      BY <3>2, <3>3 DEF TypeInv, TypeOK
    <3> QED BY <2>2, <3>4 DEF TypeInv, TypeOK, service, history, served
  <2>6. RequestsMatch'
    <3>1. handler' = handler /\ channel' = channel /\ channel # None
      BY <1>9 DEF Begin, BeginBenchmark, service
    <3>2. \A d \in Clients : client'[d].via = client[d].via
                            /\ (client'[d].pc = "waiting" <=> client[d].pc = "waiting")
                            /\ (client'[d].pc = "waiting" => client'[d] = client[d])
      BY <2>3, <2>4 DEF TypeInv, RequestsMatch
    <3>3. \A d \in Clients : client'[d].pc # "idle" => client'[d].state \in State
      BY <2>3, <2>4 DEF TypeInv, RequestsMatch
    <3>4. \A g \in Handlers : handler'[g].pc # "idle" =>
              handler'[g].update \in Update /\ channel' # None
      BY <3>1 DEF TypeInv, RequestsMatch
    <3>5. ASSUME NEW d \in Clients
          PROVE  IF client'[d].pc = "waiting"
                 THEN /\ client'[d].sent \in Update
                      /\ client'[d].via \in Handlers
                      /\ handler'[client'[d].via].pc # "idle"
                      /\ handler'[client'[d].via].update = client'[d].sent
                 ELSE client'[d].via = None
      <4>1. CASE client'[d].pc = "waiting"
        <5>1. client'[d] = client[d] /\ client[d].pc = "waiting"
          BY <3>2, <4>1
        <5>2. /\ client[d].sent \in Update
              /\ client[d].via \in Handlers
              /\ handler[client[d].via].pc # "idle"
              /\ handler[client[d].via].update = client[d].sent
          BY <5>1 DEF TypeInv, RequestsMatch
        <5> QED BY <3>1, <4>1, <5>1, <5>2
      <4>2. CASE client'[d].pc # "waiting"
        <5>1. client[d].via = None
          BY <3>2, <4>2 DEF TypeInv, RequestsMatch
        <5> QED BY <3>2, <4>2, <5>1
      <4> QED BY <4>1, <4>2
    <3>6. \A d, b \in Clients :
            client'[d].pc = "waiting" /\ client'[d].via = client'[b].via => d = b
      BY <3>2 DEF TypeInv, RequestsMatch
    <3>7. \A d \in Clients : client'[d].pc # "idle" =>
            client'[d].state \in State /\ channel' # None
      BY <3>1, <3>3
    <3> QED BY <3>4, <3>5, <3>6, <3>7 DEF RequestsMatch
  <2> QED BY <2>5, <2>6 DEF TypeInv
<1>10. ASSUME NEW c \in Clients, NEW h \in Handlers, Pay(c, h) PROVE TypeInv'
  <2> DEFINE u == Signed(client[c].state)
  <2>1. client[c].state \in State /\ channel # None
    BY <1>10 DEF Pay, TypeInv, RequestsMatch
  <2>2. u \in Update
    BY <2>1 DEF Signed, State, Update, TypeInv, TypeOK
  <2>3. /\ client[c].pc = "ready" /\ handler[h].pc = "idle"
        /\ handler' = [handler EXCEPT ![h] = [pc |-> "verify", update |-> u]]
        /\ client' = [client EXCEPT ![c].pc = "waiting", ![c].sent = u, ![c].via = h]
        /\ UNCHANGED <<channel, history, cache, faults, now>>
    BY <1>10 DEF Pay
  <2> HIDE DEF u
  <2>4. TypeOK'
    <3> DEFINE ClientRec == [pc : {"idle", "ready", "waiting"}, state : State \cup {None},
                             sent : Update \cup {None}, via : Handlers \cup {None}]
    <3>1. client[c] \in ClientRec
      BY DEF TypeInv, TypeOK
    <3>2. [client[c] EXCEPT !.pc = "waiting", !.sent = u, !.via = h] \in ClientRec
      BY <2>2, <3>1
    <3>3. client' = [client EXCEPT
                       ![c] = [client[c] EXCEPT !.pc = "waiting", !.sent = u, !.via = h]]
      BY <2>3 DEF TypeInv, TypeOK
    <3>4. client' \in [Clients -> ClientRec]
      BY <3>2, <3>3 DEF TypeInv, TypeOK
    <3>5. [pc |-> "verify", update |-> u] \in
            [pc : {"idle", "verify", "settle", "work", "ok", "refused", "failed"},
             update : Update \cup {None}]
      BY <2>2
    <3>6. handler' \in [Handlers ->
            [pc : {"idle", "verify", "settle", "work", "ok", "refused", "failed"},
             update : Update \cup {None}]]
      BY <2>3, <3>5 DEF TypeInv, TypeOK
    <3> QED BY <2>3, <3>4, <3>6 DEF TypeInv, TypeOK, history, served
  <2>5. \A d \in Clients : client[d].pc = "waiting" => client[d].via # h
    BY <2>3 DEF TypeInv, RequestsMatch
  <2>6. RequestsMatch'
    BY <2>1, <2>2, <2>3, <2>5 DEF TypeInv, TypeOK, RequestsMatch
  <2> QED BY <2>4, <2>6 DEF TypeInv
<1>11. ASSUME NEW c \in Clients, Receive(c) PROVE TypeInv'
  <2>1. /\ client[c].pc = "waiting" /\ client[c].via \in Handlers
        /\ client[c].sent \in Update /\ channel # None
        /\ Freed(c) /\ UNCHANGED <<channel, history, faults, now>>
    BY <1>11 DEF Receive, ReceiveOk, ReceiveError, Answered, TypeInv, RequestsMatch
  <2>2. Known(client[c].sent) \in State
    BY <2>1 DEF Known, Update, State
  <2>3. cache' \in State \cup {None}
    BY <1>11, <2>2 DEF Receive, ReceiveOk, ReceiveError, TypeInv, TypeOK
  <2>4. PICK r : /\ client' = [client EXCEPT ![c] = r]
                 /\ \/ r = IdleClient
                    \/ r = [IdleClient EXCEPT !.pc = "ready",
                                              !.state = Known(client[c].sent)]
    BY <1>11 DEF Receive, ReceiveOk, ReceiveError, Next1
  <2>5. /\ r.pc \in {"idle", "ready"} /\ r.via = None
        /\ r \in [pc : {"idle", "ready", "waiting"}, state : State \cup {None},
                  sent : Update \cup {None}, via : Handlers \cup {None}]
        /\ r.pc # "idle" => r.state \in State
    <3>1. CASE r = IdleClient
      BY <3>1 DEF IdleClient
    <3>2. CASE r = [IdleClient EXCEPT !.pc = "ready", !.state = Known(client[c].sent)]
      <4>1. r = [pc |-> "ready", state |-> Known(client[c].sent), sent |-> None, via |-> None]
        BY <3>2 DEF IdleClient
      <4> QED BY <2>2, <4>1
    <3> QED BY <2>4, <3>1, <3>2
  <2>6. handler' = [handler EXCEPT ![client[c].via] = IdleHandler]
    BY <2>1 DEF Freed
  <2>7. TypeOK'
    BY <2>1, <2>3, <2>4, <2>5, <2>6 DEF TypeInv, TypeOK, history, served, IdleHandler
  <2>8. \A d \in Clients : d # c =>
          client'[d] = client[d] /\ (client[d].pc = "waiting" => client[d].via # client[c].via)
    BY <2>1, <2>4 DEF TypeInv, TypeOK, RequestsMatch
  <2>9. RequestsMatch'
    BY <2>1, <2>4, <2>5, <2>6, <2>8 DEF TypeInv, TypeOK, RequestsMatch, IdleHandler
  <2> QED BY <2>7, <2>9 DEF TypeInv
<1>12. ASSUME NEW c \in Clients, GiveUp(c) PROVE TypeInv'
  BY <1>12 DEF GiveUp, Fault, TypeInv, TypeOK, RequestsMatch, service, history, served,
               IdleClient
<1>13. ASSUME Tick PROVE TypeInv'
  BY <1>13 DEF Tick, TypeInv, TypeOK, RequestsMatch, service, history, served
<1>14. ASSUME UNCHANGED vars PROVE TypeInv'
  BY <1>14 DEF vars, TypeInv, TypeOK, RequestsMatch
<1> QED
  BY <1>1, <1>2, <1>3, <1>4, <1>5, <1>6, <1>7, <1>8, <1>9, <1>10, <1>11, <1>12,
     <1>13, <1>14 DEF Next, Run

(***************************************************************************)
(* Every reachable state of clients, service and channel has its type, and *)
(* each waiting client is matched with the request that holds its update.  *)
(***************************************************************************)
THEOREM PaidTypeCorrect == Spec => []TypeOK
<1>1. TypeInv => TypeOK
  BY DEF TypeInv
<1> QED BY <1>1, TypeInvInit, TypeInvNext, PTL DEF Spec
-----------------------------------------------------------------------------
(***************************************************************************)
(* What the channel owes is what it settled: the settled updates are as    *)
(* many as its sequence number, one price each, and everything served,     *)
(* being served or remembered by the cache is one of them.                 *)
(***************************************************************************)
Settlement ==
    /\ IsFiniteSet(settled)
    /\ channel = None => settled = {}
    /\ ChargedOnce
    /\ channel # None =>
            /\ \A u \in settled : u.seq <= channel.seq
            /\ channel.last \in settled \cup {None}
    /\ delivered \subseteq settled
    /\ \A h \in Handlers : handler[h].pc \in {"work", "ok"} => handler[h].update \in settled
    /\ CacheSettled

LEMMA SettlementInit == Init => Settlement
BY FS_EmptySet DEF Init, Settlement, ChargedOnce, CacheSettled, IdleHandler

\* A replay changes nothing; an update that extends the channel is a new one,
\* and its price is the whole difference.
LEMMA TakeSettles ==
    ASSUME TypeInv, Settlement, NEW u \in Update, channel # None, Take(u)
    PROVE  /\ IsFiniteSet(settled')
           /\ channel' # None
           /\ ChargedOnce'
           /\ \A w \in settled' : w.seq <= channel'.seq
           /\ channel'.last \in settled' \cup {None}
           /\ u \in settled'
           /\ settled \subseteq settled'
<1>1. CASE Replayed(u)
  <2>1. UNCHANGED <<channel, settled>>
    BY <1>1 DEF Take
  <2>2. u \in settled
    BY <1>1 DEF Replayed, Settlement, TypeInv, TypeOK
  <2> QED BY <2>1, <2>2 DEF Settlement, ChargedOnce
<1>2. CASE ~Replayed(u)
  <2>1. /\ u.seq = channel.seq + 1
        /\ channel' = [seq |-> u.seq, owed |-> channel.owed + Price, last |-> u]
        /\ settled' = settled \cup {u}
    BY <1>2 DEF Take, Extends
  <2>2. /\ channel \in Replica /\ channel.seq \in Nat /\ channel.owed \in Nat
        /\ \A w \in settled : w \in Update /\ w.seq \in Nat
    BY DEF TypeInv, TypeOK, Replica, Update
  <2>3. u \notin settled
    BY <2>1, <2>2 DEF Settlement
  <2>4. /\ IsFiniteSet(settled')
        /\ Cardinality(settled') = Cardinality(settled) + 1
    BY <2>1, <2>3, FS_AddElement DEF Settlement
  <2>5. Cardinality(settled) \in Nat
    BY FS_CardinalityType DEF Settlement
  <2>6. channel.owed = Price * Cardinality(settled) /\ channel.seq = Cardinality(settled)
    BY DEF Settlement, ChargedOnce
  <2>7. Price * (Cardinality(settled) + 1) = Price * Cardinality(settled) + Price
    BY <2>5
  <2>8. channel'.owed = channel.owed + Price /\ channel'.seq = channel.seq + 1
    BY <2>1
  <2>9. ChargedOnce'
    BY <2>4, <2>6, <2>7, <2>8 DEF ChargedOnce
  <2>10. \A w \in settled' : w.seq <= channel'.seq
    BY <2>1, <2>2, <2>8 DEF Settlement
  <2>11. channel' # None
    BY TakeType
  <2>12. channel'.last = u
    BY <2>1
  <2> QED BY <2>1, <2>4, <2>9, <2>10, <2>11, <2>12
<1> QED BY <1>1, <1>2

LEMMA SettlementNext == TypeInv /\ Settlement /\ [Next]_vars => Settlement'
<1> SUFFICES ASSUME TypeInv, Settlement, [Next]_vars PROVE Settlement'
  OBVIOUS
<1>1. ASSUME NEW h \in Handlers, handler[h].pc = "settle", Take(handler[h].update),
             NEW pc, Move(h, pc), UNCHANGED <<delivered, cache>>
      PROVE  Settlement'
  <2>1. channel # None /\ handler[h].update \in Update
    BY <1>1 DEF TypeInv, RequestsMatch
  <2>2. /\ IsFiniteSet(settled') /\ channel' # None /\ ChargedOnce'
        /\ \A w \in settled' : w.seq <= channel'.seq
        /\ channel'.last \in settled' \cup {None}
        /\ handler[h].update \in settled' /\ settled \subseteq settled'
    BY <1>1, <2>1, TakeSettles
  <2>3. \A g \in Handlers : /\ handler'[g].update = handler[g].update
                            /\ g # h => handler'[g].pc = handler[g].pc
    BY <1>1 DEF Move, TypeInv, TypeOK
  <2>4. \A g \in Handlers :
          handler'[g].pc \in {"work", "ok"} => handler'[g].update \in settled'
    BY <2>2, <2>3 DEF Settlement
  <2>5. CacheSettled'
    BY <1>1, <2>2 DEF Settlement, CacheSettled
  <2>6. delivered' \subseteq settled'
    BY <1>1, <2>2 DEF Settlement
  <2> QED BY <2>2, <2>4, <2>5, <2>6 DEF Settlement
<1>2. ASSUME NEW h \in Handlers, NEW pc, Move(h, pc),
             pc \in {"work", "ok"} => handler[h].update \in settled,
             UNCHANGED <<channel, settled, cache>>,
             delivered' \subseteq delivered \cup (IF pc = "ok" THEN {handler[h].update} ELSE {})
      PROVE  Settlement'
  <2>1. \A g \in Handlers : /\ handler'[g].update = handler[g].update
                            /\ g # h => handler'[g].pc = handler[g].pc
                            /\ handler'[h].pc = pc
    BY <1>2 DEF Move, TypeInv, TypeOK
  <2>2. \A g \in Handlers :
          handler'[g].pc \in {"work", "ok"} => handler'[g].update \in settled'
    BY <1>2, <2>1 DEF Settlement
  <2>3. delivered' \subseteq settled'
    BY <1>2 DEF Settlement
  <2> QED BY <1>2, <2>2, <2>3 DEF Settlement, ChargedOnce, CacheSettled
<1>3. ASSUME NEW h \in Handlers, Run(h) PROVE Settlement'
  <2>1. CASE Verify(h)
    BY <1>2, <2>1 DEF Verify, ClientSide, history, served
  <2>2. CASE Settle(h)
    BY <1>1, <2>2 DEF Settle, ClientSide, served
  <2>3. CASE Refuse(h)
    BY <1>2, <2>3 DEF Refuse, ClientSide, history, served
  <2>4. CASE Work(h)
    <3>1. handler[h].update \in settled
      BY <2>4 DEF Work, Settlement
    <3> QED BY <1>2, <2>4, <3>1 DEF Work, ClientSide
  <2> QED BY <1>3, <2>1, <2>2, <2>3, <2>4 DEF Run
<1>4. ASSUME NEW h \in Handlers, CallFails(h) PROVE Settlement'
  <2>1. Move(h, "failed") /\ UNCHANGED <<delivered, cache>>
    BY <1>4 DEF CallFails, ClientSide, served
  <2>2. CASE UNCHANGED <<channel, settled>>
    BY <1>2, <2>1, <2>2
  <2>3. CASE handler[h].pc = "settle" /\ Take(handler[h].update)
    BY <1>1, <2>1, <2>3
  <2> QED BY <1>4, <2>2, <2>3 DEF CallFails
<1>5. ASSUME UNCHANGED <<channel, settled, delivered>>,
             \A g \in Handlers : handler'[g].pc \in {"work", "ok"} => handler'[g] = handler[g],
             cache' \in {cache, None} \/ \E u \in settled : cache' = Known(u)
      PROVE  Settlement'
  <2>1. CacheSettled'
    BY <1>5 DEF Settlement, CacheSettled
  <2>2. \A g \in Handlers :
          handler'[g].pc \in {"work", "ok"} => handler'[g].update \in settled'
    BY <1>5 DEF Settlement
  <2> QED BY <1>5, <2>1, <2>2 DEF Settlement, ChargedOnce
<1>6. ASSUME NEW h \in Handlers, Outage(h) \/ Drop(h) PROVE Settlement'
  <2>1. \A g \in Handlers : handler'[g] = handler[g] \/ handler'[g] = IdleHandler
    BY <1>6 DEF Outage, Drop, TypeInv, TypeOK
  <2>2. \A g \in Handlers : handler'[g].pc \in {"work", "ok"} => handler'[g] = handler[g]
    BY <2>1 DEF IdleHandler
  <2> QED BY <1>5, <1>6, <2>2 DEF Outage, Drop, history, served, ClientSide
<1>7. ASSUME NEW c \in Clients, OpenAndSeed(c) PROVE Settlement'
  <2>1. /\ channel = None /\ channel' = [seq |-> 0, owed |-> 0, last |-> None]
        /\ UNCHANGED <<cache, handler, settled, delivered>>
    BY <1>7 DEF OpenAndSeed, history, served
  <2>2. settled = {} /\ Cardinality(settled) = 0
    BY <2>1, FS_EmptySet DEF Settlement
  <2>3. channel'.seq = 0 /\ channel'.owed = 0 /\ channel'.last = None
    BY <2>1
  <2>4. ChargedOnce'
    BY <2>1, <2>2, <2>3, PriceAssumption DEF ChargedOnce
  <2> QED BY <2>1, <2>2, <2>3, <2>4 DEF Settlement, CacheSettled, OpenAndSeed, TypeInv, TypeOK
<1>8. ASSUME NEW c \in Clients, Begin(c) \/ BeginBenchmark(c) PROVE Settlement'
  BY <1>5, <1>8 DEF Begin, BeginBenchmark, ValidCache, service, history, served
<1>9. ASSUME NEW c \in Clients, NEW h \in Handlers, Pay(c, h) PROVE Settlement'
  <2>1. \A g \in Handlers : handler'[g].pc \in {"work", "ok"} => handler'[g] = handler[g]
    BY <1>9 DEF Pay, TypeInv, TypeOK
  <2> QED BY <1>5, <1>9, <2>1 DEF Pay, history, served
<1>10. ASSUME NEW c \in Clients, Receive(c) PROVE Settlement'
  <2>1. /\ client[c].via \in Handlers
        /\ handler[client[c].via].update = client[c].sent
        /\ Freed(c) /\ UNCHANGED <<channel, settled, delivered>>
    BY <1>10 DEF Receive, ReceiveOk, ReceiveError, Answered, TypeInv, RequestsMatch,
                 history, served
  <2>2. \A g \in Handlers : handler'[g] = handler[g] \/ handler'[g] = IdleHandler
    BY <2>1 DEF Freed, TypeInv, TypeOK
  <2>3. \A g \in Handlers : handler'[g].pc \in {"work", "ok"} => handler'[g] = handler[g]
    BY <2>2 DEF IdleHandler
  <2>4. cache' \in {cache, None} \/ \E u \in settled : cache' = Known(u)
    <3>1. CASE ReceiveOk(c)
      <4>1. client[c].sent \in settled
        BY <2>1, <3>1 DEF ReceiveOk, Answered, Settlement
      <4> QED BY <3>1, <4>1 DEF ReceiveOk
    <3>2. CASE ReceiveError(c)
      BY <3>2 DEF ReceiveError
    <3> QED BY <1>10, <3>1, <3>2 DEF Receive
  <2> QED BY <1>5, <2>1, <2>3, <2>4
<1>11. ASSUME NEW c \in Clients, GiveUp(c) PROVE Settlement'
  BY <1>5, <1>11 DEF GiveUp, service, history, served
<1>12. ASSUME Tick PROVE Settlement'
  BY <1>5, <1>12 DEF Tick, service, history, served
<1>13. ASSUME UNCHANGED vars PROVE Settlement'
  BY <1>5, <1>13 DEF vars
<1> QED
  BY <1>3, <1>4, <1>6, <1>7, <1>8, <1>9, <1>10, <1>11, <1>12, <1>13 DEF Next

LEMMA SettlementHolds == Spec => [](TypeInv /\ Settlement)
BY TypeInvInit, TypeInvNext, SettlementInit, SettlementNext, PTL DEF Spec

(***************************************************************************)
(* A client is charged once for an update: with any number of rival        *)
(* requests, replays and failures, the channel owes one price for each     *)
(* update the sequencer took, and counts them.                             *)
(***************************************************************************)
THEOREM PaidChargedOnce == Spec => []ChargedOnce
<1>1. Settlement => ChargedOnce
  BY DEF Settlement
<1> QED BY <1>1, SettlementHolds, PTL

(***************************************************************************)
(* Requests with different updates are each paid for: the updates served   *)
(* are among those the sequencer took, so the channel owes at least one    *)
(* price for each.  A repeat of the last update is served on that price.   *)
(***************************************************************************)
THEOREM DistinctWorkIsPaid == Spec => []DistinctWorkPaid
<1>1. TypeInv /\ Settlement => DistinctWorkPaid
  <2> SUFFICES ASSUME TypeInv, Settlement, delivered # {}
               PROVE  channel # None /\ Cardinality(delivered) * Price <= channel.owed
    BY DEF DistinctWorkPaid
  <2>1. channel # None
    BY DEF Settlement
  <2>2. /\ IsFiniteSet(delivered)
        /\ Cardinality(delivered) <= Cardinality(settled)
    BY FS_Subset DEF Settlement
  <2>3. Cardinality(delivered) \in Nat /\ Cardinality(settled) \in Nat
    BY <2>2, FS_CardinalityType DEF Settlement
  <2>4. channel.owed = Price * Cardinality(settled)
    BY <2>1 DEF Settlement, ChargedOnce
  <2>5. \A m, n \in Nat : m <= n => m * Price <= Price * n
    BY PriceAssumption
  <2> QED BY <2>1, <2>2, <2>3, <2>4, <2>5
<1> QED BY <1>1, SettlementHolds, PTL

(***************************************************************************)
(* The cache file never holds a state the sequencer was not in.            *)
(***************************************************************************)
THEOREM CacheNeverAhead == Spec => []CacheSettled
<1>1. Settlement => CacheSettled
  BY DEF Settlement
<1> QED BY <1>1, SettlementHolds, PTL
-----------------------------------------------------------------------------
(***************************************************************************)
(* One client and no failure so far: every request in the service is the   *)
(* one that client waits for, and state, cache and channel differ only     *)
(* from the moment the sequencer took the update until the answer is read. *)
(***************************************************************************)
OneClient == \A c, d \in Clients : c = d

CacheCurrent == cache # None => cache = Known(channel)

InStep ==
    faults = 0 =>
        /\ \A h \in Handlers : handler[h].pc # "idle" =>
                \E c \in Clients : client[c].pc = "waiting" /\ client[c].via = h
        /\ \A c \in Clients : Mode[c] = "benchmark" => cache = None
        /\ (\A c \in Clients : client[c].pc # "waiting") => CacheCurrent
        /\ \A c \in Clients : client[c].pc = "ready" => client[c].state = Known(channel)
        /\ \A h \in Handlers :
            /\ handler[h].pc # "failed"
            /\ handler[h].pc \in {"verify", "settle", "refused"} => CacheCurrent
            /\ handler[h].pc \in {"verify", "settle"} =>
                    handler[h].update.seq = channel.seq + 1
            /\ handler[h].pc \in {"work", "ok"} => Known(handler[h].update) = Known(channel)

LEMMA InStepInit == Init => InStep
BY DEF Init, InStep, CacheCurrent, IdleClient, IdleHandler

\* No failure: a request goes on, and cache and clients stay as they are.
LEMMA InStepMove ==
    ASSUME OneClient, TypeInv, InStep, NEW h \in Handlers, handler[h].pc # "idle",
           NEW pc \in {"settle", "work", "ok", "refused"}, Move(h, pc),
           UNCHANGED <<client, cache, faults>>,
           faults = 0 =>
             /\ pc \in {"settle", "refused"} =>
                    handler[h].pc \in {"verify", "settle"} /\ UNCHANGED channel
             /\ pc \in {"work", "ok"} => Known(handler[h].update) = Known(channel')
    PROVE  InStep'
<1> SUFFICES ASSUME faults = 0 PROVE InStep'
  BY DEF InStep
<1>1. PICK c \in Clients : client[c].pc = "waiting" /\ client[c].via = h
  BY DEF InStep
<1>2. \A g \in Handlers : g # h => handler[g].pc = "idle" /\ handler'[g] = handler[g]
  BY <1>1 DEF OneClient, InStep, Move, TypeInv, TypeOK
<1>3. handler'[h].pc = pc /\ handler'[h].update = handler[h].update
  BY DEF Move, TypeInv, TypeOK
<1>4. \A d \in Clients : client'[d] = client[d] /\ client[d].pc = "waiting"
  BY <1>1 DEF OneClient
<1>5. pc \in {"settle", "refused"} =>
        CacheCurrent' /\ (pc = "settle" => handler'[h].update.seq = channel'.seq + 1)
  BY <1>3 DEF InStep, CacheCurrent
<1>6. pc \in {"work", "ok"} => Known(handler'[h].update) = Known(channel')
  BY <1>3
<1>7. \A g \in Handlers : handler'[g].pc # "idle" =>
                \E d \in Clients : client'[d].pc = "waiting" /\ client'[d].via = g
  BY <1>1, <1>2, <1>4
<1>8. \A g \in Handlers :
            /\ handler'[g].pc # "failed"
            /\ handler'[g].pc \in {"verify", "settle", "refused"} => CacheCurrent'
            /\ handler'[g].pc \in {"verify", "settle"} =>
                    handler'[g].update.seq = channel'.seq + 1
            /\ handler'[g].pc \in {"work", "ok"} => Known(handler'[g].update) = Known(channel')
  BY <1>2, <1>3, <1>5, <1>6
<1>9. cache' = cache
  OBVIOUS
<1>10. \A d \in Clients : Mode[d] = "benchmark" => cache' = None
  BY <1>9 DEF InStep
<1> QED BY <1>1, <1>4, <1>7, <1>8, <1>10 DEF InStep

\* What the sequencer takes from the only client is a new update.
LEMMA TakeInStep ==
    ASSUME TypeInv, Settlement, NEW u \in Update, channel # None,
           u.seq = channel.seq + 1, Take(u)
    PROVE  Known(u) = Known(channel')
<1>1. \A w \in settled : w.seq <= channel.seq /\ w \in Update
  BY DEF Settlement, TypeInv, TypeOK
<1>2. channel.seq \in Nat /\ channel.last \in settled \cup {None}
  BY DEF TypeInv, TypeOK, Replica, Settlement
<1>3. ~Replayed(u)
  BY <1>1, <1>2 DEF Replayed
<1>4. /\ u.owed = channel.owed + Price
      /\ channel' = [seq |-> u.seq, owed |-> channel.owed + Price, last |-> u]
  BY <1>3 DEF Take, Extends
<1> QED BY <1>4 DEF Known

LEMMA InStepNext ==
    ASSUME OneClient
    PROVE  TypeInv /\ Settlement /\ InStep /\ [Next]_vars => InStep'
<1> SUFFICES ASSUME TypeInv, Settlement, InStep, [Next]_vars PROVE InStep'
  OBVIOUS
<1>0. faults \in Nat
  BY DEF TypeInv, TypeOK
<1>1. ASSUME NEW h \in Handlers, Run(h) PROVE InStep'
  <2>1. CASE Verify(h)
    BY <2>1, InStepMove DEF Verify, ClientSide
  <2>2. CASE Settle(h)
    <3>1. channel # None /\ handler[h].update \in Update
      BY <2>2 DEF Settle, TypeInv, RequestsMatch
    <3>2. faults = 0 => Known(handler[h].update) = Known(channel')
      BY <2>2, <3>1, TakeInStep DEF Settle, InStep
    <3> QED BY <2>2, <3>2, InStepMove DEF Settle, ClientSide
  <2>3. CASE Refuse(h)
    BY <2>3, InStepMove DEF Refuse, ClientSide
  <2>4. CASE Work(h)
    <3>1. faults = 0 => Known(handler[h].update) = Known(channel')
      BY <2>4 DEF Work, InStep
    <3> QED BY <2>4, <3>1, InStepMove DEF Work, ClientSide
  <2> QED BY <1>1, <2>1, <2>2, <2>3, <2>4 DEF Run
<1>2. ASSUME faults' = faults + 1 PROVE InStep'
  BY <1>0, <1>2 DEF InStep
<1>3. ASSUME NEW h \in Handlers, CallFails(h) \/ Outage(h) PROVE InStep'
  BY <1>2, <1>3 DEF CallFails, Outage, Fault
<1>4. ASSUME NEW h \in Handlers, Drop(h) PROVE InStep'
  <2>1. faults # 0
    BY <1>4 DEF Drop, InStep
  <2> QED BY <1>4, <2>1 DEF Drop, InStep
<1>5. ASSUME NEW c \in Clients, OpenAndSeed(c) PROVE InStep'
  <2>1. /\ channel = None /\ cache = None
        /\ UNCHANGED <<client, cache, handler, faults>>
    BY <1>5 DEF OpenAndSeed, Settlement, CacheSettled
  <2>2. \A d \in Clients : client[d].pc = "idle"
    BY <2>1 DEF TypeInv, RequestsMatch
  <2>3. \A h \in Handlers : handler[h].pc = "idle"
    BY <2>1 DEF TypeInv, RequestsMatch
  <2> QED BY <2>1, <2>2, <2>3 DEF InStep, CacheCurrent
<1>6. ASSUME NEW c \in Clients, client[c].pc # "waiting", handler' = handler,
             channel' = channel, faults' = faults, cache' \in {cache, None},
             NEW s, client' = [client EXCEPT ![c].pc = "ready", ![c].state = s],
             s \in {Known(channel), cache}, s # None
      PROVE  InStep'
  <2> SUFFICES ASSUME faults = 0 PROVE InStep'
    BY <1>6 DEF InStep
  <2>1. \A d \in Clients : client[d].pc # "waiting"
    BY <1>6 DEF OneClient
  <2>2. CacheCurrent
    BY <2>1 DEF InStep
  <2>3. \A h \in Handlers : handler[h].pc = "idle"
    BY <2>1 DEF InStep
  <2>4. s = Known(channel)
    BY <1>6, <2>2 DEF CacheCurrent
  <2>5. \A d \in Clients : client'[d].pc = "ready" /\ client'[d].state = s
    BY <1>6 DEF OneClient, TypeInv, TypeOK
  <2>6. /\ \A h \in Handlers : handler'[h].pc = "idle"
        /\ \A d \in Clients : client'[d].pc = "ready" => client'[d].state = Known(channel')
    BY <1>6, <2>3, <2>4, <2>5
  <2>7. CacheCurrent'
    BY <1>6, <2>2 DEF CacheCurrent
  <2>8. \A d \in Clients : Mode[d] = "benchmark" => cache' = None
    BY <1>6 DEF InStep
  <2> QED BY <2>6, <2>7, <2>8 DEF InStep
<1>7. ASSUME NEW c \in Clients, Begin(c) \/ BeginBenchmark(c) PROVE InStep'
  <2>1. Known(channel) # None
    BY <1>7 DEF Begin, BeginBenchmark, Known, TypeInv, TypeOK, Replica, State
  <2> QED BY <1>6, <1>7, <2>1 DEF Begin, BeginBenchmark, Ready, ValidCache, service
<1>8. ASSUME NEW c \in Clients, NEW h \in Handlers, Pay(c, h) PROVE InStep'
  <2> SUFFICES ASSUME faults = 0 PROVE InStep'
    BY <1>8 DEF InStep, Pay
  <2>1. PICK u : u = Signed(client[c].state)
    OBVIOUS
  <2>2. /\ client[c].pc = "ready" /\ handler[h].pc = "idle"
        /\ handler' = [handler EXCEPT ![h] = [pc |-> "verify", update |-> u]]
        /\ client' = [client EXCEPT ![c].pc = "waiting", ![c].sent = u, ![c].via = h]
        /\ UNCHANGED <<channel, history, cache, faults, now>>
    BY <1>8, <2>1 DEF Pay
  <2>3. \A d \in Clients : d = c
    BY DEF OneClient
  <2>4. \A g \in Handlers : handler[g].pc = "idle"
    BY <2>2, <2>3 DEF InStep
  <2>5. CacheCurrent
    BY <2>2, <2>3 DEF InStep
  <2>6. u.seq = channel.seq + 1
    <3>1. client[c].state = Known(channel)
      BY <2>2 DEF InStep
    <3> QED BY <2>1, <3>1 DEF Signed, Known
  <2>7. client'[c].pc = "waiting" /\ client'[c].via = h
    BY <2>2 DEF TypeInv, TypeOK
  <2>8. /\ handler'[h].pc = "verify" /\ handler'[h].update = u
        /\ \A g \in Handlers : g # h => handler'[g] = handler[g]
    BY <2>2 DEF TypeInv, TypeOK
  <2>9. CacheCurrent'
    BY <2>2, <2>5 DEF CacheCurrent
  <2>10. \A d \in Clients : client'[d].pc = "waiting" /\ (Mode[d] = "benchmark" => cache' = None)
    BY <2>2, <2>3, <2>7 DEF InStep
  <2>11. \A g \in Handlers : g # h => handler'[g].pc = "idle"
    BY <2>4, <2>8
  <2>12. handler'[h].update.seq = channel'.seq + 1
    BY <2>2, <2>6, <2>8
  <2> QED BY <2>7, <2>8, <2>9, <2>10, <2>11, <2>12 DEF InStep
<1>9. ASSUME NEW c \in Clients, Receive(c) PROVE InStep'
  <2> SUFFICES ASSUME faults = 0 PROVE InStep'
    BY <1>9 DEF InStep, Receive, ReceiveOk, ReceiveError
  <2>1. /\ client[c].pc = "waiting" /\ client[c].via \in Handlers
        /\ handler[client[c].via].update = client[c].sent
        /\ Freed(c) /\ UNCHANGED <<channel, faults>>
    BY <1>9 DEF Receive, ReceiveOk, ReceiveError, Answered, TypeInv, RequestsMatch
  <2>2. \A d \in Clients : d = c
    BY DEF OneClient
  <2>3. \A g \in Handlers : g # client[c].via => handler[g].pc = "idle"
    BY <2>2 DEF InStep
  <2>4. \A g \in Handlers : handler'[g].pc = "idle"
    BY <2>1, <2>3 DEF Freed, IdleHandler, TypeInv, TypeOK
  <2>5. CASE ReceiveOk(c)
    <3>1. Known(client[c].sent) = Known(channel)
      BY <2>1, <2>5 DEF ReceiveOk, Answered, InStep
    <3>2. /\ Mode[c] = "benchmark" => cache' = None
          /\ CacheCurrent'
      BY <2>1, <2>5, <3>1 DEF ReceiveOk, InStep, CacheCurrent
    <3>3. \/ client' = [client EXCEPT ![c] = IdleClient]
          \/ client' = [client EXCEPT ![c] =
                 [IdleClient EXCEPT !.pc = "ready", !.state = Known(client[c].sent)]]
      BY <2>5 DEF ReceiveOk, Next1
    <3>4. PICK r : /\ client' = [client EXCEPT ![c] = r]
                   /\ \/ r = IdleClient
                      \/ r = [IdleClient EXCEPT !.pc = "ready",
                                                !.state = Known(client[c].sent)]
      BY <3>3
    <3>5. \/ r = IdleClient
          \/ r = [pc |-> "ready", state |-> Known(client[c].sent), sent |-> None, via |-> None]
      BY <3>4 DEF IdleClient
    <3>6. client'[c] = r
      BY <3>4 DEF TypeInv, TypeOK
    <3>7. client'[c].pc # "waiting"
          /\ (client'[c].pc = "ready" => client'[c].state = Known(channel'))
      BY <2>1, <3>1, <3>5, <3>6 DEF IdleClient
    <3> QED BY <2>1, <2>2, <2>4, <3>2, <3>7 DEF InStep
  <2>6. CASE ReceiveError(c)
    <3>1. handler[client[c].via].pc = "refused"
      BY <2>1, <2>6 DEF ReceiveError, Answered, InStep
    <3>2. CacheCurrent
      BY <2>1, <3>1 DEF InStep
    <3>3. CacheCurrent' /\ (Mode[c] = "benchmark" => cache' = None)
      BY <2>1, <2>6, <3>2 DEF ReceiveError, CacheCurrent, InStep
    <3>4. client'[c] = IdleClient
      BY <2>6 DEF ReceiveError, TypeInv, TypeOK
    <3>5. client'[c].pc = "idle"
      BY <3>4 DEF IdleClient
    <3> QED BY <2>1, <2>2, <2>4, <3>3, <3>5 DEF InStep
  <2> QED BY <1>9, <2>5, <2>6 DEF Receive
<1>10. ASSUME NEW c \in Clients, GiveUp(c) PROVE InStep'
  BY <1>2, <1>10 DEF GiveUp, Fault
<1>11. ASSUME Tick PROVE InStep'
  BY <1>11 DEF Tick, InStep, CacheCurrent, service
<1>12. ASSUME UNCHANGED vars PROVE InStep'
  BY <1>12 DEF vars, InStep, CacheCurrent
<1> QED
  BY <1>1, <1>3, <1>4, <1>5, <1>7, <1>8, <1>9, <1>10, <1>11, <1>12 DEF Next

(***************************************************************************)
(* An owner with one client, whatever its mode, needs no preflight call:   *)
(* until something fails, whenever it does not wait for an answer its      *)
(* cache is empty or the sequencer's state.                                *)
(***************************************************************************)
THEOREM CacheKeepsStep == ASSUME OneClient PROVE Spec => []CacheInStep
<1>1. InStep => CacheInStep
  BY DEF InStep, CacheInStep, CacheCurrent
<1>2. TypeInv /\ Settlement /\ InStep /\ [Next]_vars => InStep'
  BY InStepNext
<1> QED BY <1>1, <1>2, InStepInit, SettlementHolds, PTL DEF Spec

(***************************************************************************)
(* One client and no failure so far: what a request is about to be served  *)
(* for has not been served before.                                         *)
(***************************************************************************)
Steady ==
    faults = 0 =>
        /\ repeated = {}
        /\ \A h \in Handlers : handler[h].pc = "work" => handler[h].update \notin delivered

LEMMA SteadyInit == Init => Steady
BY DEF Init, Steady, IdleHandler

LEMMA SteadyNext ==
    ASSUME OneClient
    PROVE  TypeInv /\ Settlement /\ InStep /\ Steady /\ [Next]_vars => Steady'
<1> SUFFICES ASSUME TypeInv, Settlement, InStep, Steady, [Next]_vars, faults' = 0
             PROVE  /\ repeated' = {}
                    /\ \A h \in Handlers :
                            handler'[h].pc = "work" => handler'[h].update \notin delivered'
  BY DEF Steady
<1>0. faults \in Nat
  BY DEF TypeInv, TypeOK
<1>1. ASSUME NEW h \in Handlers, Settle(h), faults = 0
      PROVE  /\ repeated' = {}
             /\ \A g \in Handlers :
                    handler'[g].pc = "work" => handler'[g].update \notin delivered'
  <2>1. handler[h].update.seq = channel.seq + 1
    BY <1>1 DEF Settle, InStep
  <2>2. channel # None /\ channel.seq \in Nat
    BY <1>1 DEF Settle, TypeInv, TypeOK, RequestsMatch, Replica
  <2>3. handler[h].update \notin settled
    BY <2>1, <2>2 DEF Settlement
  <2>4. handler[h].update \notin delivered
    BY <2>3 DEF Settlement
  <2>5. delivered' = delivered /\ repeated' = repeated
    BY <1>1 DEF Settle, served
  <2>6. \A g \in Handlers : /\ handler'[g].update = handler[g].update
                            /\ g # h => handler'[g].pc = handler[g].pc
    BY <1>1 DEF Settle, Move, TypeInv, TypeOK
  <2>7. /\ repeated = {}
        /\ \A g \in Handlers : handler[g].pc = "work" => handler[g].update \notin delivered
    BY <1>1 DEF Steady
  <2> QED BY <2>4, <2>5, <2>6, <2>7
<1>2. ASSUME NEW h \in Handlers, Work(h), faults = 0
      PROVE  /\ repeated' = {}
             /\ \A g \in Handlers :
                    handler'[g].pc = "work" => handler'[g].update \notin delivered'
  <2>1. /\ handler[h].pc = "work"
        /\ repeated' = repeated \cup (delivered \cap {handler[h].update})
        /\ Move(h, "ok")
    BY <1>2 DEF Work
  <2>2. repeated' = {}
    BY <1>2, <2>1 DEF Steady
  <2>3. \A g \in Handlers : g # h => handler[g].pc = "idle"
    BY <1>2, <2>1 DEF InStep, OneClient
  <2>4. \A g \in Handlers : handler'[g].pc # "work"
    BY <2>1, <2>3 DEF Move, TypeInv, TypeOK
  <2> QED BY <2>2, <2>4
<1>3. ASSUME UNCHANGED <<delivered, repeated>>, faults = 0,
             \A g \in Handlers : handler'[g].pc = "work" => handler'[g] = handler[g]
      PROVE  /\ repeated' = {}
             /\ \A g \in Handlers :
                    handler'[g].pc = "work" => handler'[g].update \notin delivered'
  BY <1>3 DEF Steady
<1>4. ASSUME NEW h \in Handlers, Verify(h) \/ Refuse(h)
      PROVE  /\ \A g \in Handlers : handler'[g].pc = "work" => handler'[g] = handler[g]
             /\ UNCHANGED <<delivered, repeated, faults>>
  BY <1>4 DEF Verify, Refuse, Move, history, served, TypeInv, TypeOK
<1>5. ASSUME NEW h \in Handlers, CallFails(h) \/ Outage(h) PROVE FALSE
  BY <1>0, <1>5 DEF CallFails, Outage, Fault
<1>6. ASSUME NEW h \in Handlers, Drop(h)
      PROVE  /\ \A g \in Handlers : handler'[g].pc = "work" => handler'[g] = handler[g]
             /\ UNCHANGED <<delivered, repeated, faults>>
  BY <1>6 DEF Drop, IdleHandler, history, served, TypeInv, TypeOK
<1>7. ASSUME NEW c \in Clients, OpenAndSeed(c) \/ Begin(c) \/ BeginBenchmark(c)
      PROVE  UNCHANGED <<handler, delivered, repeated, faults>>
  BY <1>7 DEF OpenAndSeed, Begin, BeginBenchmark, service, history, served
<1>8. ASSUME NEW c \in Clients, NEW h \in Handlers, Pay(c, h)
      PROVE  /\ \A g \in Handlers : handler'[g].pc = "work" => handler'[g] = handler[g]
             /\ UNCHANGED <<delivered, repeated, faults>>
  BY <1>8 DEF Pay, history, served, TypeInv, TypeOK
<1>9. ASSUME NEW c \in Clients, Receive(c)
      PROVE  /\ \A g \in Handlers : handler'[g].pc = "work" => handler'[g] = handler[g]
             /\ UNCHANGED <<delivered, repeated, faults>>
  <2>1. Freed(c) /\ UNCHANGED <<delivered, repeated, faults>>
    BY <1>9 DEF Receive, ReceiveOk, ReceiveError, history, served
  <2> QED BY <2>1 DEF Freed, IdleHandler, TypeInv, TypeOK
<1>10. ASSUME NEW c \in Clients, GiveUp(c) PROVE FALSE
  BY <1>0, <1>10 DEF GiveUp, Fault
<1>11. ASSUME Tick \/ UNCHANGED vars
       PROVE  UNCHANGED <<handler, delivered, repeated, faults>>
  BY <1>11 DEF Tick, vars, service, history, served
<1>12. ASSUME NEW h \in Handlers, Settle(h) \/ Work(h) PROVE faults' = faults
  BY <1>12 DEF Settle, Work
<1> QED
  BY <1>1, <1>2, <1>3, <1>4, <1>5, <1>6, <1>7, <1>8, <1>9, <1>10, <1>11, <1>12
     DEF Next, Run

(***************************************************************************)
(* With one client, whatever its mode, every request served is paid for    *)
(* until something fails: it is not served twice for one update.           *)
(***************************************************************************)
THEOREM SteadyWorkIsPaid == ASSUME OneClient PROVE Spec => []SteadyWorkPaid
<1>1. Settlement /\ Steady /\ DistinctWorkPaid => SteadyWorkPaid
  <2> SUFFICES ASSUME faults = 0, Settlement, Steady, DistinctWorkPaid, delivered # {}
               PROVE  /\ channel # None
                      /\ (Cardinality(delivered) + Cardinality(repeated)) * Price
                            <= channel.owed
    BY DEF SteadyWorkPaid
  <2>1. Cardinality(repeated) = 0
    BY FS_EmptySet DEF Steady
  <2>2. channel # None /\ Cardinality(delivered) * Price <= channel.owed
    BY DEF DistinctWorkPaid
  <2>3. Cardinality(delivered) \in Nat
    BY FS_Subset, FS_CardinalityType DEF Settlement
  <2>4. Cardinality(delivered) + Cardinality(repeated) = Cardinality(delivered)
    BY <2>1, <2>3
  <2> QED BY <2>2, <2>4
<1>2. TypeInv /\ Settlement /\ InStep /\ [Next]_vars => InStep'
  BY InStepNext
<1>3. TypeInv /\ Settlement /\ InStep /\ Steady /\ [Next]_vars => Steady'
  BY SteadyNext
<1> QED
  BY <1>1, <1>2, <1>3, InStepInit, SteadyInit, SettlementHolds, DistinctWorkIsPaid, PTL
     DEF Spec
-----------------------------------------------------------------------------
(***************************************************************************)
(* The ledger of the one channel, which owes the service alone.            *)
(***************************************************************************)
LedgerOf(chan) ==
    IF chan = None THEN None ELSE [seq |-> chan.seq, owed |-> [a \in {Payee} |-> chan.owed]]

\* The sum of a function with one argument is its value.
LEMMA OneSum == ASSUME NEW f \in [{Payee} -> Nat] PROVE Ledger!SumFunction(f) = f[Payee]
<1> DEFINE S == {Payee}
           Folds(h) ==
               h = [s \in SUBSET S |->
                       IF s = {} THEN 0
                       ELSE f[CHOOSE x \in s : TRUE] + h[s \ {CHOOSE x \in s : TRUE}]]
           iter == CHOOSE h : Folds(h)
           g == [s \in SUBSET S |-> IF s = {} THEN 0 ELSE f[Payee]]
<1>1. \A s \in SUBSET S : s # {} => (CHOOSE x \in s : TRUE) = Payee /\ s \ {Payee} = {}
  <2> SUFFICES ASSUME NEW s \in SUBSET S, s # {}
               PROVE  (CHOOSE x \in s : TRUE) = Payee /\ s \ {Payee} = {}
    OBVIOUS
  <2>1. (CHOOSE x \in s : TRUE) \in s
    OBVIOUS
  <2> QED BY <2>1
<1>2. f[Payee] \in Nat
  OBVIOUS
<1>3. Folds(g)
  <2>1. {} \in SUBSET S /\ g[{}] = 0
    OBVIOUS
  <2>2. \A s \in SUBSET S :
            g[s] = IF s = {} THEN 0
                   ELSE f[CHOOSE x \in s : TRUE] + g[s \ {CHOOSE x \in s : TRUE}]
    BY <1>1, <1>2, <2>1
  <2> HIDE DEF S
  <2> QED BY <2>2
<1>4. Folds(iter)
  BY <1>3
<1> HIDE DEF iter
<1>5. iter[{}] = 0
  BY <1>4
<1>6. iter[S] = f[Payee] + iter[{}]
  <2>1. S \in SUBSET S /\ S # {}
    OBVIOUS
  <2>2. iter[S] = f[CHOOSE x \in S : TRUE] + iter[S \ {CHOOSE x \in S : TRUE}]
    <3> HIDE DEF S
    <3> QED BY <1>4, <2>1
  <2>3. (CHOOSE x \in S : TRUE) = Payee /\ S \ {Payee} = {}
    BY <1>1, <2>1
  <2> QED BY <2>2, <2>3
<1>7. DOMAIN f = S
  OBVIOUS
<1>8. Ledger!SumFunction(f) = iter[S]
  BY <1>7 DEF Ledger!SumFunction, Ledger!SumFunctionOnSet, Ledger!FoldFunctionOnSet,
              Ledger!MapThenFoldSet, iter
<1> QED BY <1>2, <1>5, <1>6, <1>8

\* Opening and seeding the channel is the opening of the ledger.
LEMMA OpenAndSeedOpens ==
    ASSUME NEW c \in Clients, OpenAndSeed(c)
    PROVE  Ledger!Next
<1>1. channel = None /\ channel' = [seq |-> 0, owed |-> 0, last |-> None]
  BY DEF OpenAndSeed
<1>2. channel' # None
  BY <1>1 DEF Replica
<1>3. LedgerOf(channel) = None
      /\ LedgerOf(channel') = [seq |-> 0, owed |-> [a \in {Payee} |-> 0]]
  BY <1>1, <1>2 DEF LedgerOf
<1>4. Ledger!Open("channel")
  BY <1>3 DEF Ledger!Open, LedgerOf
<1> QED BY <1>4 DEF Ledger!Next

\* Taking an update is a payment of one price, or a replay.
LEMMA TakePays ==
    ASSUME TypeInv, NEW u \in Update, channel # None, Take(u)
    PROVE  Ledger!Next \/ UNCHANGED channel
<1> SUFFICES ASSUME ~Replayed(u) PROVE Ledger!Next
  BY DEF Take
<1>1. /\ u.seq = channel.seq + 1
      /\ channel.owed + Price <= Balance
      /\ channel' = [seq |-> u.seq, owed |-> channel.owed + Price, last |-> u]
  BY DEF Take, Extends
<1>2. channel.seq \in Nat /\ channel.owed \in Nat /\ channel' # None
  BY TakeType DEF TypeInv, TypeOK, Replica
<1> DEFINE pay == [to |-> Payee, amount |-> Price, feeTo |-> Payee, fee |-> 0]
           now1 == [seq |-> channel.seq, owed |-> [a \in {Payee} |-> channel.owed]]
           owed == [a \in {Payee} |-> now1.owed[a] + Ledger!Share(pay, a)]
<1>3. Ledger!Share(pay, Payee) = Price
  BY DEF Ledger!Share
<1>4. owed = [a \in {Payee} |-> channel.owed + Price]
  BY <1>3
<1>5. Ledger!SumFunction(owed) <= Balance
  <2>1. owed \in [{Payee} -> Nat] /\ owed[Payee] = channel.owed + Price
    BY <1>2, <1>4
  <2> HIDE DEF owed
  <2>2. Ledger!SumFunction(owed) = channel.owed + Price
    BY <2>1, OneSum
  <2> QED BY <1>1, <2>2
<1>6. LedgerOf(channel) = now1 /\ now1 # None
  <2>1. now1 \in [seq : Nat, owed : [{Payee} -> Nat]]
    BY <1>2
  <2> QED BY <2>1 DEF LedgerOf
<1>7. LedgerOf(channel') = [seq |-> channel.seq + 1, owed |-> owed]
  <2>1. channel'.seq = channel.seq + 1 /\ channel'.owed = channel.owed + Price
    BY <1>1
  <2> QED BY <1>2, <1>4, <2>1 DEF LedgerOf
<1>8. Ledger!Pay("channel", pay)
  <2> DEFINE l == [d \in {"channel"} |-> LedgerOf(channel)]
             m == [d \in {"channel"} |-> LedgerOf(channel')]
  <2>1. l["channel"] = now1 /\ pay.amount > 0
    BY <1>6
  <2>2. m = [l EXCEPT !["channel"] = [seq |-> @.seq + 1, owed |-> owed]]
    BY <1>6, <1>7
  <2> QED BY <1>5, <1>6, <2>1, <2>2 DEF Ledger!Pay, LedgerOf
<1> QED BY <1>8 DEF Ledger!Next

LEMMA StepsLedger ==
    TypeInv /\ [Next]_vars
      => [Ledger!Next]_([c \in {"channel"} |-> IF channel = None THEN None
              ELSE [seq |-> channel.seq, owed |-> [a \in {Payee} |-> channel.owed]]])
<1> SUFFICES ASSUME TypeInv, [Next]_vars PROVE Ledger!Next \/ UNCHANGED channel
  OBVIOUS
<1>1. ASSUME NEW h \in Handlers, Run(h) \/ CallFails(h) PROVE Ledger!Next \/ UNCHANGED channel
  <2> SUFFICES ASSUME handler[h].pc = "settle", Take(handler[h].update)
               PROVE  Ledger!Next \/ UNCHANGED channel
    BY <1>1 DEF Run, Verify, Settle, Refuse, Work, CallFails
  <2>1. channel # None /\ handler[h].update \in Update
    BY DEF TypeInv, RequestsMatch
  <2> QED BY <2>1, TakePays
<1>2. ASSUME NEW h \in Handlers, Outage(h) \/ Drop(h) PROVE UNCHANGED channel
  BY <1>2 DEF Outage, Drop
<1>3. ASSUME NEW c \in Clients, OpenAndSeed(c) PROVE Ledger!Next
  BY <1>3, OpenAndSeedOpens
<1>4. ASSUME NEW c \in Clients,
             \/ Begin(c) \/ BeginBenchmark(c) \/ Receive(c) \/ GiveUp(c)
             \/ \E h \in Handlers : Pay(c, h)
      PROVE  UNCHANGED channel
  BY <1>4 DEF Begin, BeginBenchmark, Receive, ReceiveOk, ReceiveError, GiveUp, Pay, service
<1>5. Tick \/ UNCHANGED vars => UNCHANGED channel
  BY DEF Tick, vars, service
<1> QED BY <1>1, <1>2, <1>3, <1>4, <1>5 DEF Next

(***************************************************************************)
(* Seen from the channel, clients, requests, replays and failures only     *)
(* ever open it with nothing owed and add one price at a time, within the  *)
(* capacity: the service and the sequencer keep the same promise.          *)
(***************************************************************************)
THEOREM PaymentsAreLedger == Spec => ImplementsLedger
<1>1. Init => Ledger!Init
  BY DEF Init, Ledger!Init
<1>2. TypeInv /\ [Next]_vars
        => [Ledger!Next]_([c \in {"channel"} |-> IF channel = None THEN None
                ELSE [seq |-> channel.seq, owed |-> [a \in {Payee} |-> channel.owed]]])
  BY StepsLedger
<1> QED
  BY <1>1, <1>2, TypeInvInit, TypeInvNext, PTL DEF Spec, ImplementsLedger, Ledger!Spec
=============================================================================
