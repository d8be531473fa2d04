--------------------------- MODULE PaymentPromise ---------------------------
(***************************************************************************)
(* What the sequencer and the contract together promise an owner and the   *)
(* payee of its channels, with no message, transaction or signature in     *)
(* sight.  A channel locks a deposit.  What the payee is promised grows    *)
(* one price at a time within the deposit, and part of it may be secured.  *)
(* A closing pays the payee no less than what is secured, no more than     *)
(* what was promised, and returns the rest to the owner.  The promise      *)
(* outlives the closing: a channel may lock its deposit again.             *)
(***************************************************************************)
EXTENDS Integers

CONSTANTS Channels, Owner, Payee, Deposit, Tokens

VARIABLES account, locked, promised, secured

Accounts == {Owner[c] : c \in Channels} \cup {Payee}

Init ==
    /\ account = Tokens
    /\ locked = [c \in Channels |-> 0]
    /\ promised = [c \in Channels |-> 0]
    /\ secured = [c \in Channels |-> 0]

Lock(c) ==
    /\ locked[c] = 0 /\ account[Owner[c]] >= Deposit[c]
    /\ account' = [account EXCEPT ![Owner[c]] = @ - Deposit[c]]
    /\ locked' = [locked EXCEPT ![c] = Deposit[c]]
    /\ UNCHANGED <<promised, secured>>

Promise(c) ==
    /\ promised[c] < Deposit[c]
    /\ promised' = [promised EXCEPT ![c] = @ + 1]
    /\ UNCHANGED <<account, locked, secured>>

Secure(c) ==
    /\ locked[c] > 0
    /\ \E amount \in secured[c]..promised[c] : secured' = [secured EXCEPT ![c] = amount]
    /\ UNCHANGED <<account, locked, promised>>

Close(c) ==
    /\ locked[c] > 0
    /\ \E paid \in secured[c]..promised[c] :
        account' = [account EXCEPT ![Payee] = @ + paid, ![Owner[c]] = @ + locked[c] - paid]
    /\ locked' = [locked EXCEPT ![c] = 0]
    /\ secured' = [secured EXCEPT ![c] = 0]
    /\ UNCHANGED promised

Next == \E c \in Channels : Lock(c) \/ Promise(c) \/ Secure(c) \/ Close(c)

Spec == Init /\ [][Next]_<<account, locked, promised, secured>>
=============================================================================
