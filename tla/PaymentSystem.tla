--------------------------- MODULE PaymentSystem ---------------------------
(***************************************************************************)
(* The contract and the sequencer together: channels are opened, seeded    *)
(* and paid from, the sequencer sends closing transactions that are mined  *)
(* later, receipts are published, anyone closes after the expiry, and a    *)
(* closed channel is opened again under its id.  The sequencer never asks  *)
(* the chain about a channel it settles on.                                *)
(*                                                                         *)
(* Sequencer has the insides of settle, ChannelSetup those of opening; a   *)
(* settle or a seed is one step here.  Every payment is one unit to one    *)
(* payee, an account the token pays, so an update is its number and its    *)
(* timestamp, and the amount it signs for is its number.  Clients,         *)
(* sequencer and chain share a clock.                                      *)
(* Mistake operators: SettleUncapped, FinalizeUnsigned, FinalizeAny.       *)
(***************************************************************************)
EXTENDS PaymentChannel, FiniteSets

CONSTANTS
    Payee,          \* the service's address
    MaxSent         \* bound: closing transactions waiting to be mined

ASSUME PayeeAssumption ==
    Payee \in Address \ (Owners \cup {Zero, Escrow}) /\ MaxSent \in Nat

VARIABLES
    replica,        \* what the sequencer holds of each channel, or None
    receipts,       \* the updates it co-signed, which clients and payee keep
    sent,           \* its closing transactions, in the order of their nonces
    unseeded,       \* channels whose opener has yet to seed them
    due             \* due[c]: what was accepted when a closing was first sent

sequencer == <<replica, receipts>>
contract == <<chain, log>>
system == <<contract, sequencer, sent, unseeded, due, now>>

Fresh == [seq |-> 0, ts |-> 0]
Amount(seq) == << <<Payee, seq>> >>
Receipt(c, s) ==
    LET signature == IF s.seq = 0 THEN None ELSE Digest(c, s.seq, s.ts, Amount(s.seq))
    IN  [chan |-> c, seq |-> s.seq, ts |-> s.ts, data |-> Amount(s.seq),
         sig |-> signature, cosig |-> signature]
-----------------------------------------------------------------------------
\* The client: approve if the allowance is short, open, seed.
ClientApproves(c) ==
    /\ chain.allowance[c.owner] < c.amount
    /\ Approve(c.owner, c.amount)
    /\ UNCHANGED <<sequencer, sent, unseeded, due>>

ClientOpens(c) ==
    /\ OpenChannel(c)
    /\ unseeded' = unseeded \cup {c}
    /\ due' = [due EXCEPT ![c] = 0]
    /\ UNCHANGED <<sequencer, sent>>

\* By its opener, or by a later run that finds it unknown to the sequencer.
Seed(c) ==
    /\ c \in unseeded \/ (replica[c] = None /\ IsOpen(chain, c))
    /\ replica' = [replica EXCEPT ![c] = Fresh]
    /\ unseeded' = unseeded \ {c}
    /\ UNCHANGED <<contract, receipts, sent, due, now>>

\* The opener is killed before it seeds.
Killed(c) ==
    /\ c \in unseeded
    /\ unseeded' = unseeded \ {c}
    /\ UNCHANGED <<contract, sequencer, sent, due, now>>

\* The next update is signed now, or one that the sequencer took in an
\* earlier life of the channel is sent again.
NextUpdates(c) ==
    {u \in {Receipt(c, [seq |-> replica[c].seq + 1, ts |-> now])} \cup receipts :
        u.chan = c /\ u.seq = replica[c].seq + 1}

SettleUncapped(c) ==
    /\ replica[c] # None /\ replica[c].seq <= c.amount
    /\ \E u \in NextUpdates(c) :
        /\ u.ts <= c.expiry
        /\ replica' = [replica EXCEPT ![c] = [seq |-> u.seq, ts |-> u.ts]]
        /\ receipts' = receipts \cup {u}
    /\ UNCHANGED <<contract, sent, unseeded, due, now>>
Settle(c) ==
    /\ replica[c] # None
    /\ \E u \in NextUpdates(c) :
        /\ u.ts <= c.expiry /\ u.seq <= c.amount
        /\ replica' = [replica EXCEPT ![c] = [seq |-> u.seq, ts |-> u.ts]]
        /\ receipts' = receipts \cup {u}
    /\ UNCHANGED <<contract, sent, unseeded, due, now>>

\* The closing with state s is sent; the node estimates its gas, so it has
\* to be valid on the chain as it is.
Send(c, k) ==
    /\ Len(sent) < MaxSent
    /\ sent' = Append(sent, k)
    /\ due' = [due EXCEPT ![c] = IF @ = 0 THEN replica[c].seq ELSE @]
    /\ UNCHANGED <<contract, sequencer, unseeded, now>>

FinalizeUnsigned(c) ==
    /\ replica[c] # None /\ IsOpen(chain, c)
    /\ Send(c, Receipt(c, replica[c]))
FinalizeAny(c) ==
    \E k \in receipts :
        /\ k.chan = c /\ replica[c].seq > 0
        /\ Closable(chain, k)
        /\ Send(c, k)
\* A channel that was only seeded has no signature to close with.
Finalize(c) ==
    /\ replica[c] # None /\ replica[c].seq > 0
    /\ Closable(chain, Receipt(c, replica[c]))
    /\ Send(c, Receipt(c, replica[c]))

Mine ==
    /\ sent # <<>>
    /\ chain' = IF Closable(chain, Head(sent)) THEN Closed(chain, Head(sent)) ELSE chain
    /\ sent' = Tail(sent)
    /\ UNCHANGED <<log, sequencer, unseeded, due, now>>

OffChain == <<sequencer, sent, unseeded, due>>
Publish(k) == PublishIntermediateState(k) /\ UNCHANGED OffChain
Expire(c) == CloseAfterExpiry(c) /\ UNCHANGED OffChain
Advance == Tick /\ UNCHANGED OffChain
-----------------------------------------------------------------------------
SystemInit ==
    /\ Init
    /\ replica = [c \in Id |-> None] /\ receipts = {}
    /\ sent = <<>> /\ unseeded = {}
    /\ due = [c \in Id |-> 0]

SystemNext ==
    \/ Advance \/ Mine
    \/ \E c \in Id :
        \/ ClientApproves(c) \/ ClientOpens(c) \/ Seed(c) \/ Killed(c)
        \/ Settle(c) \/ Finalize(c) \/ Expire(c)
    \/ \E k \in receipts : Publish(k)

\* Time passes, sent transactions are mined, and someone closes what expired.
SystemFairness ==
    WF_system(Advance) /\ WF_system(Mine) /\ \A c \in Id : WF_system(Expire(c))

SystemSpec == SystemInit /\ [][SystemNext]_system /\ SystemFairness
-----------------------------------------------------------------------------
\* Every variable has its type.
SystemTypeOK ==
    /\ TypeOK
    /\ replica \in [Id -> [seq : Nat, ts : Nat] \cup {None}]
    /\ \A k \in receipts : k.chan \in Id /\ k = Receipt(k.chan, [seq |-> k.seq, ts |-> k.ts])
    /\ \A i \in DOMAIN sent : sent[i] \in receipts
    /\ Len(sent) <= MaxSent
    /\ unseeded \subseteq Id
    /\ due \in [Id -> Nat]

OpenedOnce(c) == Cardinality({i \in DOMAIN log : log[i] = c}) = 1
Paid == chain'.token[Payee] - chain.token[Payee]

(***************************************************************************)
(* What the payee was promised before the sequencer sent a closing of the  *)
(* channel is paid when the sequencer closes it, whatever is settled,      *)
(* published or sent again in between.  Only for a channel opened once: a  *)
(* second closing of a former life may close a channel opened again.       *)
(***************************************************************************)
ClosingPaysAccepted ==
    [][\A c \in Id :
        sent' # sent /\ IsOpen(chain, c) /\ ~IsOpen(chain', c) /\ OpenedOnce(c)
          => Paid >= due[c]]_system

(***************************************************************************)
(* A closing the sequencer sent takes effect, unless the channel was       *)
(* closed or a newer state published before it was mined; also when the    *)
(* channel has expired or has been opened again meanwhile.                 *)
(***************************************************************************)
SentClosingLands ==
    [][sent # <<>> /\ sent' = Tail(sent) =>
        LET k == Head(sent)
        IN  \/ ~IsOpen(chain', k.chan)
            \/ chain.channels[k.chan].seq > k.seq]_system

(***************************************************************************)
(* Every deposit is released in the end, by whatever closing, when the     *)
(* payee is an account the token pays; PaymentChannel's ExpiredClosable    *)
(* says what a recipient it refuses does to a published channel.           *)
(***************************************************************************)
DepositReleased == \A c \in Id : IsOpen(chain, c) ~> ~IsOpen(chain, c)

(***************************************************************************)
(* Contract and sequencer keep the promise of PaymentPromise: what is      *)
(* promised are the receipts, what is secured is the published state.      *)
(***************************************************************************)
Promised(c) ==
    LET seqs == {0} \cup {k.seq : k \in {r \in receipts : r.chan = c}}
    IN  CHOOSE n \in seqs : \A m \in seqs : m <= n
Promise == INSTANCE PaymentPromise WITH
    Channels <- Id, Owner <- [c \in Id |-> c.owner],
    Deposit <- [c \in Id |-> c.amount],
    Tokens <- [a \in Address \ {Escrow} |-> Supply[a]],
    account <- [a \in Address \ {Escrow} |-> chain.token[a]],
    locked <- [c \in Id |-> IF IsOpen(chain, c) THEN chain.channels[c].balance ELSE 0],
    promised <- [c \in Id |-> Promised(c)],
    secured <- [c \in Id |-> IF IsOpen(chain, c) THEN Total(Published(chain, c)) ELSE 0]
ImplementsPromise == Promise!Spec
=============================================================================
