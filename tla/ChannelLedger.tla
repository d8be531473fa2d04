--------------------------- MODULE ChannelLedger ---------------------------
(***************************************************************************)
(* What the sequencer promises of its channels, with no lock, table,       *)
(* request or signature in sight: a channel is opened once with nothing    *)
(* owed, and from then on every step adds one whole payment, fee included, *)
(* to what the channel owes, numbers it, and stays within the balance.     *)
(***************************************************************************)
EXTENDS Integers, Functions

CONSTANTS Address, Channels, Payments, Balance, None

VARIABLE ledger     \* ledger[c]: None, or the last number and what c owes

Ledgers == [Channels -> [seq : Nat, owed : [Address -> Nat]] \cup {None}]

\* What address a gets from a payment.
Share(pay, a) ==
    (IF a = pay.to THEN pay.amount ELSE 0) + (IF a = pay.feeTo THEN pay.fee ELSE 0)

Init == ledger = [c \in Channels |-> None]

Open(c) ==
    /\ ledger[c] = None
    /\ ledger' = [ledger EXCEPT ![c] = [seq |-> 0, owed |-> [a \in Address |-> 0]]]

Pay(c, pay) ==
    LET owed == [a \in Address |-> ledger[c].owed[a] + Share(pay, a)]
    IN  /\ ledger[c] # None
        /\ pay.amount > 0
        /\ SumFunction(owed) <= Balance[c]
        /\ ledger' = [ledger EXCEPT ![c] = [seq |-> @.seq + 1, owed |-> owed]]

Next == \E c \in Channels : Open(c) \/ \E pay \in Payments : Pay(c, pay)

Spec == Init /\ [][Next]_ledger
=============================================================================
