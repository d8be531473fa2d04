---------------------------- MODULE PaidService ----------------------------
(***************************************************************************)
(* One owner's clients, the paid service and the sequencer's side of one   *)
(* channel.  A request of the service runs requirePayment (resolve the     *)
(* channel, verify, settle) and then the work, with an await at each, and  *)
(* any number run at once.  The facilitator relays /verify and /settle and *)
(* the status of the sequencer's answer.  The sequencer is what            *)
(* ChannelLedger promises, with the last update it took; the lock and the  *)
(* tables behind it are in module Sequencer.                               *)
(*                                                                         *)
(* A handler h is at handler[h].pc: "idle", "verify", "settle" or "work"   *)
(* (before that call), or has an answer for its client: "ok", "refused"    *)
(* (the sequencer's answer was an error) or "failed" (a 500, a 502, or the *)
(* error of the geocoder).                                                 *)
(*                                                                         *)
(* All payments are one price to one payee, so the amounts an update is    *)
(* signed for are one number.  Mistake operators as in Sequencer:          *)
(* WholeState, UnsettledVerify, ExtendsAny, UncappedExtends, KeepCache,    *)
(* OptimisticReceive, StaleReceive, RefuseOnlyOld.                         *)
(***************************************************************************)
EXTENDS Integers, FiniteSets

CONSTANTS
    Clients,        \* the processes that pay from the owner's channel
    Mode,           \* Mode[c]: "single", "batch" (index.ts) or "benchmark"
    Handlers,       \* slots for concurrently running requests
    Price,          \* the price of a request
    Balance,        \* the capacity of the channel
    Expiry,         \* the channel's expiry
    RefusalStatus,  \* the status a refusal reaches the client with
    Payee,          \* the service's address
    None,           \* no channel, no cache, no update, no client
    MaxFaults,      \* bound: how many calls or answers fail
    MaxTime         \* bound: the clock stops there

ASSUME ModeAssumption == Mode \in [Clients -> {"single", "batch", "benchmark"}]
ASSUME PriceAssumption == Price \in Nat \ {0} /\ Balance \in Nat
ASSUME TimeAssumption == Expiry \in Nat /\ MaxTime \in Nat /\ MaxFaults \in Nat
\* AppError answers 400 and 404; 402 is the only status index.ts looks for.
ASSUME StatusAssumption == RefusalStatus \in {400, 402, 404}

VARIABLES
    channel,        \* the sequencer's replica of the channel, or None
    client,         \* what each client process is doing
    cache,          \* the owner's cache file, or None
    handler,        \* the requests running in the service
    settled,        \* the updates the sequencer took
    delivered,      \* the updates whose request got the geocoder's answer
    repeated,       \* those of them that got it in more than one request
    faults, now

vars == <<channel, client, cache, handler, settled, delivered, repeated, faults, now>>
served == <<delivered, repeated>>
history == <<settled, served>>
service == <<channel, handler, history>>

Update == [seq : Nat, ts : Nat, owed : Nat]
State == [seq : Nat, owed : Nat]
Replica == [seq : Nat, owed : Nat, last : Update \cup {None}]
\* None is neither a state, nor an update, nor a request.
ASSUME NoneAssumption ==
    /\ None \notin Update /\ None \notin Replica /\ None \notin State /\ None \notin Handlers
    /\ None \notin [seq : Nat, owed : [{Payee} -> Nat]]

WholeState(s) == s
Known(s) == [seq |-> s.seq, owed |-> s.owed]

IdleClient == [pc |-> "idle", state |-> None, sent |-> None, via |-> None]
IdleHandler == [pc |-> "idle", update |-> None]

Fault == faults < MaxFaults /\ faults' = faults + 1
-----------------------------------------------------------------------------
\* The sequencer: what settle and validate_pay_in_channel ask of an update.
Replayed(u) == u = channel.last
ExtendsAny(u) ==
    /\ u.seq > channel.seq \/ (u.seq = channel.seq /\ u # channel.last)
    /\ u.ts <= Expiry
    /\ channel.owed + Price <= Balance
UncappedExtends(u) ==
    /\ u.seq = channel.seq + 1
    /\ u.ts <= Expiry
    /\ u.owed = channel.owed + Price
Extends(u) ==
    /\ u.seq = channel.seq + 1
    /\ u.ts <= Expiry
    /\ channel.owed + Price <= Balance
    /\ u.owed = channel.owed + Price

Take(u) ==
    IF Replayed(u) THEN UNCHANGED <<channel, settled>>
    ELSE /\ Extends(u)
         /\ channel' = [seq |-> u.seq, owed |-> channel.owed + Price, last |-> u]
         /\ settled' = settled \cup {u}
-----------------------------------------------------------------------------
\* The requests of the service.
Move(h, pc) == handler' = [handler EXCEPT ![h].pc = pc]
ClientSide == <<client, cache, now>>

UnsettledVerify(h) ==
    /\ handler[h].pc = "verify"
    /\ Replayed(handler[h].update) \/ Extends(handler[h].update)
    /\ Move(h, "work")
    /\ UNCHANGED <<channel, history, ClientSide, faults>>
Verify(h) ==
    /\ handler[h].pc = "verify"
    /\ Replayed(handler[h].update) \/ Extends(handler[h].update)
    /\ Move(h, "settle")
    /\ UNCHANGED <<channel, history, ClientSide, faults>>

Settle(h) ==
    /\ handler[h].pc = "settle"
    /\ Take(handler[h].update)
    /\ Move(h, "work")
    /\ UNCHANGED <<served, ClientSide, faults>>

RefuseOnlyOld(h) ==
    /\ handler[h].pc \in {"verify", "settle"}
    /\ handler[h].update.seq <= channel.seq /\ ~Replayed(handler[h].update)
    /\ Move(h, "refused")
    /\ UNCHANGED <<channel, history, ClientSide, faults>>
Refuse(h) ==
    /\ handler[h].pc \in {"verify", "settle"}
    /\ ~Replayed(handler[h].update) /\ ~Extends(handler[h].update)
    /\ Move(h, "refused")
    /\ UNCHANGED <<channel, history, ClientSide, faults>>

Work(h) ==
    /\ handler[h].pc = "work"
    /\ delivered' = delivered \cup {handler[h].update}
    /\ repeated' = repeated \cup (delivered \cap {handler[h].update})
    /\ Move(h, "ok")
    /\ UNCHANGED <<channel, settled, ClientSide, faults>>

\* A call fails: verify, settle (before the sequencer took the update, or
\* after, when its save or its answer is lost), or the geocoder, whose error
\* status is the answer.
CallFails(h) ==
    /\ Fault
    /\ \/ handler[h].pc \in {"verify", "settle", "work"} /\ UNCHANGED <<channel, settled>>
       \/ handler[h].pc = "settle" /\ Take(handler[h].update)
    /\ Move(h, "failed")
    /\ UNCHANGED <<served, ClientSide>>

\* The geocoder cannot be reached: fetch throws in an async route of Express 4,
\* the rejection is unhandled and the process exits with every request in it.
\* It is started again; the waiting clients' calls throw and end their runs.
Outage(h) ==
    /\ Fault
    /\ handler[h].pc = "work"
    /\ handler' = [g \in Handlers |-> IdleHandler]
    /\ client' = [c \in Clients |->
            IF client[c].pc = "waiting" THEN IdleClient ELSE client[c]]
    /\ UNCHANGED <<channel, history, cache, now>>

\* An answer nobody waits for any more.
Drop(h) ==
    /\ handler[h].pc \in {"ok", "refused", "failed"}
    /\ \A c \in Clients : client[c].via # h
    /\ handler' = [handler EXCEPT ![h] = IdleHandler]
    /\ UNCHANGED <<channel, history, ClientSide, faults>>
-----------------------------------------------------------------------------
(***************************************************************************)
(* The clients.  ensureChannel: a cached state that has not expired, else  *)
(* the sequencer's; when it has none the channel is opened and seeded.     *)
(***************************************************************************)
ValidCache == IF cache # None /\ now < Expiry THEN cache ELSE None

OpenAndSeed(c) ==
    /\ client[c].pc = "idle"
    /\ channel = None
    /\ channel' = [seq |-> 0, owed |-> 0, last |-> None]
    /\ UNCHANGED <<client, cache, handler, history, faults, now>>

Ready(c, state) == client' = [client EXCEPT ![c].pc = "ready", ![c].state = state]

Begin(c) ==
    /\ client[c].pc = "idle" /\ Mode[c] # "benchmark"
    /\ channel # None
    /\ Ready(c, IF ValidCache # None THEN cache ELSE Known(channel))
    /\ cache' = ValidCache
    /\ UNCHANGED <<service, faults, now>>

\* The benchmark has no cache: it asks the sequencer.
BeginBenchmark(c) ==
    /\ client[c].pc = "idle" /\ Mode[c] = "benchmark"
    /\ channel # None
    /\ Ready(c, Known(channel))
    /\ UNCHANGED <<service, cache, faults, now>>

\* Sign the next update of the known state and send it; the service resolves
\* the channel, which the sequencer knows.
Signed(s) == [seq |-> s.seq + 1, ts |-> now, owed |-> s.owed + Price]

Pay(c, h) ==
    LET u == Signed(client[c].state)
    IN  /\ client[c].pc = "ready"
        /\ handler[h].pc = "idle"
        /\ handler' = [handler EXCEPT ![h] = [pc |-> "verify", update |-> u]]
        /\ client' = [client EXCEPT ![c].pc = "waiting", ![c].sent = u, ![c].via = h]
        /\ UNCHANGED <<channel, history, cache, faults, now>>

\* A batch or a benchmark may go on from the state it just paid for.
Next1(c, state) ==
    \/ client' = [client EXCEPT ![c] = IdleClient]
    \/ /\ Mode[c] # "single"
       /\ client' = [client EXCEPT ![c] = [IdleClient EXCEPT !.pc = "ready", !.state = state]]

Answered(c, pcs) == client[c].pc = "waiting" /\ handler[client[c].via].pc \in pcs
Freed(c) == handler' = [handler EXCEPT ![client[c].via] = IdleHandler]

StaleReceive(c) ==
    /\ Answered(c, {"ok"})
    /\ Freed(c)
    /\ cache' = IF Mode[c] = "benchmark" THEN cache ELSE client[c].state
    /\ Next1(c, Known(client[c].sent))
    /\ UNCHANGED <<channel, history, faults, now>>
OptimisticReceive(c) ==
    /\ Answered(c, {"ok", "refused", "failed"})
    /\ Freed(c)
    /\ cache' = IF Mode[c] = "benchmark" THEN cache ELSE Known(client[c].sent)
    /\ Next1(c, Known(client[c].sent))
    /\ UNCHANGED <<channel, history, faults, now>>
ReceiveOk(c) ==
    /\ Answered(c, {"ok"})
    /\ Freed(c)
    /\ cache' = IF Mode[c] = "benchmark" THEN cache ELSE Known(client[c].sent)
    /\ Next1(c, Known(client[c].sent))
    /\ UNCHANGED <<channel, history, faults, now>>

\* Which answers make a client forget its cache.
KeepCache(c) == FALSE
ClearsCache(c) ==
    \/ Mode[c] = "batch"
    \/ Mode[c] = "single" /\ handler[client[c].via].pc = "refused" /\ RefusalStatus = 402

ReceiveError(c) ==
    /\ Answered(c, {"refused", "failed"})
    /\ Freed(c)
    /\ cache' = IF ClearsCache(c) THEN None ELSE cache
    /\ client' = [client EXCEPT ![c] = IdleClient]
    /\ UNCHANGED <<channel, history, faults, now>>

\* The client is killed, or its connection breaks, while it waits.
GiveUp(c) ==
    /\ Fault
    /\ client[c].pc = "waiting"
    /\ client' = [client EXCEPT ![c] = IdleClient]
    /\ UNCHANGED <<service, cache, now>>

Tick == now < MaxTime /\ now' = now + 1 /\ UNCHANGED <<service, client, cache, faults>>
-----------------------------------------------------------------------------
Init ==
    /\ channel = None
    /\ client = [c \in Clients |-> IdleClient]
    /\ cache = None
    /\ handler = [h \in Handlers |-> IdleHandler]
    /\ settled = {} /\ delivered = {} /\ repeated = {}
    /\ faults = 0 /\ now = 0

Run(h) == Verify(h) \/ Settle(h) \/ Refuse(h) \/ Work(h)
Receive(c) == ReceiveOk(c) \/ ReceiveError(c)

Next ==
    \/ Tick
    \/ \E h \in Handlers : Run(h) \/ CallFails(h) \/ Outage(h) \/ Drop(h)
    \/ \E c \in Clients :
        \/ OpenAndSeed(c) \/ Begin(c) \/ BeginBenchmark(c) \/ Receive(c) \/ GiveUp(c)
        \/ \E h \in Handlers : Pay(c, h)

Spec == Init /\ [][Next]_vars

\* Requests run on, answers arrive, and clients are run again and again.
Fairness ==
    /\ \A h \in Handlers : WF_vars(Run(h)) /\ WF_vars(Drop(h))
    /\ \A c \in Clients :
        /\ WF_vars(OpenAndSeed(c)) /\ WF_vars(Begin(c) \/ BeginBenchmark(c))
        /\ WF_vars(Receive(c))
        /\ WF_vars(\E h \in Handlers : Pay(c, h))

LiveSpec == Spec /\ Fairness
-----------------------------------------------------------------------------
\* Every variable has its type.
TypeOK ==
    /\ channel \in Replica \cup {None}
    /\ client \in [Clients -> [pc : {"idle", "ready", "waiting"},
            state : State \cup {None}, sent : Update \cup {None},
            via : Handlers \cup {None}]]
    /\ cache \in State \cup {None}
    /\ handler \in [Handlers ->
            [pc : {"idle", "verify", "settle", "work", "ok", "refused", "failed"},
             update : Update \cup {None}]]
    /\ settled \subseteq Update /\ delivered \subseteq Update /\ repeated \subseteq Update
    /\ faults \in 0..MaxFaults /\ now \in 0..MaxTime

(***************************************************************************)
(* Requests with different updates are each paid for, also when they were  *)
(* verified against the same state: the updates served are all in what the *)
(* channel owes the payee.  The updates are counted, not the requests: a   *)
(* repeat of the last update is served without a new charge.               *)
(***************************************************************************)
DistinctWorkPaid ==
    delivered # {} =>
        channel # None /\ Cardinality(delivered) * Price <= channel.owed

(***************************************************************************)
(* With one client and while nothing fails every request served is paid    *)
(* for, a repeated update once more: from one request to the next the      *)
(* client never signs an update it has already been served for.  Beyond    *)
(* that it does not hold.  settle answers a replay like a payment, and     *)
(* requirePayment goes on to the work: two processes of one owner that     *)
(* sign the same update in the same second are both served for one charge. *)
(***************************************************************************)
SteadyWorkPaid ==
    faults = 0 /\ delivered # {} =>
        /\ channel # None
        /\ (Cardinality(delivered) + Cardinality(repeated)) * Price <= channel.owed

(***************************************************************************)
(* A client is charged once for an update, however often it is sent,       *)
(* replayed or answered with an error after it was taken.                  *)
(***************************************************************************)
ChargedOnce ==
    channel # None =>
        /\ channel.owed = Price * Cardinality(settled)
        /\ channel.seq = Cardinality(settled)

(***************************************************************************)
(* The cache never runs ahead of the sequencer: it holds a state the       *)
(* sequencer was in.                                                       *)
(***************************************************************************)
CacheSettled ==
    cache # None =>
        \E u \in settled : cache = Known(u)

(***************************************************************************)
(* While nothing has failed, the cache of an owner with one client is the  *)
(* sequencer's state whenever that client is between two requests: no      *)
(* preflight call is needed.                                               *)
(***************************************************************************)
CacheInStep ==
    faults = 0 /\ cache # None /\ (\A c \in Clients : client[c].pc # "waiting") =>
        cache = Known(channel)

(***************************************************************************)
(* A client refused because its cache is behind the sequencer re-syncs: it *)
(* does not keep the cache the refused update was signed from.             *)
(***************************************************************************)
Behind == cache # None /\ cache.seq < channel.seq
RefusedWhileBehind(c) ==
    Mode[c] # "benchmark" /\ Answered(c, {"refused"}) /\ client[c].state = cache /\ Behind
RefusalResyncs ==
    [][\A c \in Clients :
        RefusedWhileBehind(c) /\ client'[c].via # client[c].via /\ faults' = faults
            => cache' = None]_vars

\* A cache left behind by a lost answer or a failed request recovers.
StaleCacheRecovers == Behind ~> ~Behind

\* A client that waits gets an answer.
EveryPaymentAnswered == \A c \in Clients : client[c].pc = "waiting" ~> client[c].pc # "waiting"

(***************************************************************************)
(* Seen from the channel, the clients and the service only ever open it    *)
(* and add one price at a time, within the balance.                        *)
(***************************************************************************)
Ledger == INSTANCE ChannelLedger WITH
    Address <- {Payee}, Channels <- {"channel"},
    Payments <- {[to |-> Payee, amount |-> Price, feeTo |-> Payee, fee |-> 0]},
    Balance <- [c \in {"channel"} |-> Balance],
    ledger <- [c \in {"channel"} |-> IF channel = None THEN None
                 ELSE [seq |-> channel.seq, owed |-> [a \in {Payee} |-> channel.owed]]]
ImplementsLedger == Ledger!Spec
=============================================================================
