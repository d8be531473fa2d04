-------------------------- MODULE PaymentChannel --------------------------
(***************************************************************************)
(* The channel manager contract X402CheddrPaymentChannel and the USDC      *)
(* token it escrows.  A transaction reads the storage of both contracts    *)
(* and either reverts or replaces it as a whole, so the storage is one     *)
(* record, chain, and a closing is a function from one storage to the      *)
(* next, which a batch composes.                                           *)
(*                                                                         *)
(* DistributedNotDeleted, AnySequencerSignature, PopOnly, ClosableOld and  *)
(* OpenChannelUnapproved are plausible mistakes, each next to the          *)
(* definition it would replace; nothing uses them but the mutants of       *)
(* PROJECT.json.                                                           *)
(*                                                                         *)
(* A channel id is the triple getChannelId hashes.  A closed channel may   *)
(* be opened again under its id.  block.timestamp is now; timestamps are   *)
(* Unix times, far above the fifteen minutes the contract subtracts.       *)
(*                                                                         *)
(* Any address may be a recipient.  The token (OpenZeppelin's ERC20)       *)
(* refuses a transfer to address(0), whatever the amount, and with it      *)
(* reverts the closing; a transfer to the contract itself moves nothing.   *)
(***************************************************************************)
EXTENDS ChannelData

CONSTANTS
    Owners,         \* the accounts that open channels
    Amounts,        \* the amounts deposited or approved
    Expiries,       \* the expiry times asked for
    Supply,         \* Supply[a]: the tokens account a starts with
    Escrow,         \* the token account of the contract
    Zero,           \* address(0)
    Calls,          \* the signed updates sent to the contract
    Skew,           \* fifteen minutes
    Lifetime,       \* one year
    None,           \* a channel that does not exist, a missing signature
    MaxOpens,       \* bound: how many channels are ever opened
    MaxTime         \* bound: the clock stops there

Id == [owner : Owners, expiry : Expiries, amount : Amounts]

VARIABLES chain, log, now
vars == <<chain, log, now>>

Updates ==
    [chan : Id, seq : Nat, ts : Nat, data : Seq(Address \X Nat),
     sig : [chan : Id, seq : Nat, ts : Nat, data : Seq(Address \X Nat)] \cup {None},
     cosig : [chan : Id, seq : Nat, ts : Nat, data : Seq(Address \X Nat)] \cup {None}]

ASSUME OwnersAssumption ==
    Owners \subseteq Address \ {Zero, Escrow} /\ Escrow \in Address
ASSUME AmountsAssumption == Amounts \subseteq Nat /\ Expiries \subseteq Nat
ASSUME SupplyAssumption == Supply \in [Address -> Nat] /\ Supply[Escrow] = 0
ASSUME ClockAssumption == Skew \in Nat /\ Lifetime \in Nat /\ MaxTime \in Nat
ASSUME CallsAssumption == Calls \subseteq Updates
-----------------------------------------------------------------------------
Channel == [balance : Nat, seq : Nat, recipients : Seq(Address)]
ASSUME NoneAssumption == None \notin Channel

\* The storage of both contracts.  delete channels[id] leaves balances[id].
Storage ==
    [channels : [Id -> Channel \cup {None}],
     balances : [Id -> [Address -> Nat]],
     userChannels : [Owners -> Seq(Id)],
     token : [Address -> Nat],
     allowance : [Owners -> Nat]]

IsOpen(s, c) == s.channels[c] # None

TimestampOk(c, ts) == now >= ts - Skew /\ ts <= c.expiry
SignedByOwner(k) == k.sig = Digest(k.chan, k.seq, k.ts, k.data)
AnySequencerSignature(k) == TRUE
SignedBySequencer(k) == k.cosig = Digest(k.chan, k.seq, k.ts, k.data)

Lists(d, a) == \E i \in DOMAIN d : d[i][1] = a

\* What address a receives when the amounts d are transferred one by one.
Received(d, a) ==
    SumFunction([i \in {j \in DOMAIN d : d[j][1] = a} |-> d[i][2]])

PopOnly(list, c) ==
    IF list = <<>> THEN list ELSE SubSeq(list, 1, Len(list) - 1)

\* _removeChannelFromUser: the last id takes the place of the removed one.
SwapPop(list, c) ==
    IF \A i \in DOMAIN list : list[i] # c THEN list
    ELSE LET i == CHOOSE i \in DOMAIN list :
                    list[i] = c /\ \A j \in DOMAIN list : list[j] = c => i <= j
         IN  SubSeq([list EXCEPT ![i] = list[Len(list)]], 1, Len(list) - 1)

\* Pay the recipients out of the escrow, return what remains to the owner.
Transferred(s, c, d) ==
    LET rest == s.channels[c].balance - Total(d)
    IN  [a \in DOMAIN s.token |->
            s.token[a] + Received(d, a) + (IF a = c.owner THEN rest ELSE 0)
                - (IF a = Escrow THEN Total(d) + rest ELSE 0)]

Distributable(s, c, d) == Total(d) <= s.channels[c].balance /\ ~Lists(d, Zero)
DistributedNotDeleted(s, c, d) ==
    [s EXCEPT !.token = Transferred(s, c, d),
              !.userChannels[c.owner] = SwapPop(@, c)]
Distributed(s, c, d) ==
    [s EXCEPT !.token = Transferred(s, c, d),
              !.userChannels[c.owner] = SwapPop(@, c),
              !.channels[c] = None]

ClosableOld(s, k) ==
    /\ IsOpen(s, k.chan)
    /\ TimestampOk(k.chan, k.ts)
    /\ SignedByOwner(k)
    /\ Distributable(s, k.chan, k.data)

\* _validateAndCloseChannel
Closable(s, k) ==
    /\ IsOpen(s, k.chan)
    /\ TimestampOk(k.chan, k.ts)
    /\ SignedByOwner(k)
    /\ k.seq >= s.channels[k.chan].seq
    /\ Distributable(s, k.chan, k.data)
Closed(s, k) == Distributed(s, k.chan, k.data)

\* What a published state owes: the stored balance of each listed recipient.
Published(s, c) ==
    [i \in DOMAIN s.channels[c].recipients |->
        <<s.channels[c].recipients[i], s.balances[c][s.channels[c].recipients[i]]>>]
-----------------------------------------------------------------------------
Init ==
    /\ chain = [channels |-> [c \in Id |-> None],
                balances |-> [c \in Id |-> [a \in Address |-> 0]],
                userChannels |-> [o \in Owners |-> <<>>],
                token |-> Supply,
                allowance |-> [o \in Owners |-> 0]]
    /\ log = <<>>
    /\ now = 0

Tick == now < MaxTime /\ now' = now + 1 /\ UNCHANGED <<chain, log>>

Approve(o, amount) ==
    /\ chain' = [chain EXCEPT !.allowance[o] = amount]
    /\ UNCHANGED <<log, now>>

OpenChannelUnapproved(c) ==
    /\ Len(log) < MaxOpens
    /\ c.amount > 0
    /\ now < c.expiry /\ c.expiry <= now + Lifetime
    /\ ~IsOpen(chain, c)
    /\ chain' = [chain EXCEPT
            !.allowance[c.owner] = @ - c.amount,
            !.token[c.owner] = @ - c.amount,
            !.token[Escrow] = @ + c.amount,
            !.channels[c] = [balance |-> c.amount, seq |-> 0, recipients |-> <<>>],
            !.userChannels[c.owner] = Append(@, c)]
    /\ log' = Append(log, c)
    /\ UNCHANGED now
\* The owner signs the empty update of the new channel with its own clock.
OpenChannel(c) ==
    /\ Len(log) < MaxOpens
    /\ c.amount > 0
    /\ now < c.expiry /\ c.expiry <= now + Lifetime
    /\ ~IsOpen(chain, c)
    /\ c.amount <= chain.allowance[c.owner] /\ c.amount <= chain.token[c.owner]
    /\ chain' = [chain EXCEPT
            !.allowance[c.owner] = @ - c.amount,
            !.token[c.owner] = @ - c.amount,
            !.token[Escrow] = @ + c.amount,
            !.channels[c] = [balance |-> c.amount, seq |-> 0, recipients |-> <<>>],
            !.userChannels[c.owner] = Append(@, c)]
    /\ log' = Append(log, c)
    /\ UNCHANGED now

\* _updateChannelBalances
Updated(s, k) ==
    LET Listed(a) == {i \in DOMAIN k.data : k.data[i][1] = a}
        Last(a) == CHOOSE i \in Listed(a) : \A j \in Listed(a) : j <= i
    IN  [s EXCEPT
            !.channels[k.chan].seq = k.seq,
            !.channels[k.chan].recipients = [i \in DOMAIN k.data |-> k.data[i][1]],
            !.balances[k.chan] = [a \in Address |->
                IF Listed(a) = {} THEN @[a] ELSE k.data[Last(a)][2]]]

PublishIntermediateState(k) ==
    /\ IsOpen(chain, k.chan)
    /\ now <= k.chan.expiry
    /\ k.seq > chain.channels[k.chan].seq
    /\ TimestampOk(k.chan, k.ts)
    /\ SignedByOwner(k) /\ SignedBySequencer(k)
    /\ chain' = Updated(chain, k)
    /\ UNCHANGED <<log, now>>

FinalClose(k) ==
    /\ Closable(chain, k)
    /\ chain' = Closed(chain, k)
    /\ UNCHANGED <<log, now>>

\* One closure that reverts reverts the whole batch.
FinalCloseBatch(k, l) ==
    /\ Closable(chain, k) /\ Closable(Closed(chain, k), l)
    /\ chain' = Closed(Closed(chain, k), l)
    /\ UNCHANGED <<log, now>>

CloseAfterExpiry(c) ==
    /\ IsOpen(chain, c)
    /\ now > c.expiry
    /\ Distributable(chain, c, Published(chain, c))
    /\ chain' = Distributed(chain, c, Published(chain, c))
    /\ UNCHANGED <<log, now>>

Next ==
    \/ Tick
    \/ \E o \in Owners, amount \in Amounts : Approve(o, amount)
    \/ \E c \in Id : OpenChannel(c) \/ CloseAfterExpiry(c)
    \/ \E k \in Calls :
        \/ PublishIntermediateState(k)
        \/ FinalClose(k)
        \/ \E l \in Calls : FinalCloseBatch(k, l)

Spec == Init /\ [][Next]_vars
-----------------------------------------------------------------------------
\* The storage, the log of FundsBlocked events and the clock have their type.
TypeOK == chain \in Storage /\ log \in Seq(Id) /\ now \in Nat

(***************************************************************************)
(* The escrow always holds the deposits of the open channels, and nothing  *)
(* else unless an update names the contract itself as a recipient: no      *)
(* closing, batch, re-opening or expiry pays out more than one deposit.    *)
(***************************************************************************)
Opened(s) == {c \in Id : IsOpen(s, c)}
Deposits(s) == SumFunction([c \in Opened(s) |-> s.channels[c].balance])
PaysContract == \E k \in Calls : Lists(k.data, Escrow)
Solvent ==
    /\ Deposits(chain) <= chain.token[Escrow]
    /\ ~PaysContract => Deposits(chain) = chain.token[Escrow]

(***************************************************************************)
(* userChannels of an owner lists every open channel of that owner, once,  *)
(* and no other, whatever order channels are opened and closed in.         *)
(***************************************************************************)
IndexConsistent ==
    \A o \in Owners :
        LET list == chain.userChannels[o]
        IN  /\ {list[i] : i \in DOMAIN list} = {c \in Opened(chain) : c.owner = o}
            /\ \A i, j \in DOMAIN list : list[i] = list[j] => i = j

(***************************************************************************)
(* Two properties depend on which updates are signed.  The sequencer       *)
(* co-signs none beyond the deposit, nor one that lists an address twice   *)
(* (Sequencer has CosignedBacked and WithinCapacity).  An owner takes back *)
(* nothing it had co-signed: payments only add up.                         *)
(***************************************************************************)
Cosigned(k) == SignedByOwner(k) /\ SignedBySequencer(k)
ListsOnce(d) == \A i, j \in DOMAIN d : d[i][1] = d[j][1] => i = j
CosignedWithinDeposit ==
    \A k \in Calls : Cosigned(k) => Total(k.data) <= k.chan.amount /\ ListsOnce(k.data)

OwnerOnlyAdds ==
    \A k, l \in Calls :
        /\ SignedByOwner(k) /\ Cosigned(l)
        /\ k.chan = l.chan /\ l.seq <= k.seq
        => \A a \in Address : Received(l.data, a) <= Received(k.data, a)

(***************************************************************************)
(* What the published state of an open channel owes, read through the      *)
(* balances left by every earlier publication and opening, fits in its     *)
(* balance.  So one thing alone makes closeAfterExpiry revert: address(0)  *)
(* among the published recipients.  The sequencer co-signs such an update  *)
(* (compute_next_state looks at no receiver), and once it is published     *)
(* the deposit leaves the contract only by a closing at its number or      *)
(* above.                                                                  *)
(***************************************************************************)
ExpiredClosable ==
    \A c \in Opened(chain) :
        \/ Distributable(chain, c, Published(chain, c))
        \/ Lists(Published(chain, c), Zero)

(***************************************************************************)
(* Publication protects the recipients: when a channel closes, by whatever *)
(* transaction, each of them (the contract itself aside) receives at least *)
(* what was published.                                                     *)
(***************************************************************************)
PublishedIsFloor ==
    [][\A c \in Opened(chain) : ~IsOpen(chain', c) =>
        \A a \in Address \ {Escrow} :
            chain'.token[a] - chain.token[a] >= Received(Published(chain, c), a)]_vars
=============================================================================
