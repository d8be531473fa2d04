---------------------------- MODULE ChannelData ----------------------------
(***************************************************************************)
(* The data every part of the payment-channel system agrees on: the list   *)
(* of recipient balances of a channel, the rule that adds a payment to it, *)
(* and the message whose EIP-712 digest the owner and the sequencer sign.  *)
(*                                                                         *)
(* Addresses and channel ids are opaque.  A digest is the tuple of fields  *)
(* it hashes (keccak256 is taken to be collision free, and the packed      *)
(* encodings of fixed-width items are injective), and a signature is the   *)
(* digest it was made for: recovering the signer of a signature over       *)
(* another digest yields an address that is not the owner's.               *)
(***************************************************************************)
EXTENDS Integers, Sequences, Functions

CONSTANT
    Address     \* the accounts that may be paid from a channel

(***************************************************************************)
(* One entry of a channel's recipients.  Amounts are naturals: uint256     *)
(* overflow is out of range of any channel that passes the capacity check. *)
(***************************************************************************)
RecipientBalance == [addr : Address, bal : Nat, pos : Nat]

PositionsOf(r, a) == {i \in DOMAIN r : r[i].addr = a}

FirstPosition(r, a) ==
    CHOOSE i \in PositionsOf(r, a) : \A j \in PositionsOf(r, a) : i <= j

\* What the list owes to address a.
BalanceOf(r, a) ==
    IF PositionsOf(r, a) = {} THEN 0 ELSE r[FirstPosition(r, a)].bal

(***************************************************************************)
(* Add an amount to the entry of an address, appending an entry when the   *)
(* address has none; a zero amount leaves the list alone.                  *)
(***************************************************************************)
AddAmount(r, a, amount) ==
    CASE amount = 0 -> r
      [] amount # 0 /\ PositionsOf(r, a) # {} ->
            [r EXCEPT ![FirstPosition(r, a)].bal = @ + amount]
      [] amount # 0 /\ PositionsOf(r, a) = {} ->
            Append(r, [addr |-> a, bal |-> amount, pos |-> Len(r)])

(***************************************************************************)
(* A payment: an amount to a receiver and a fee.  A request without        *)
(* feeForPayment is a payment whose fee is zero.                           *)
(***************************************************************************)
Payment == [to : Address, amount : Nat, feeTo : Address, fee : Nat]

ApplyPayment(r, pay) ==
    AddAmount(AddAmount(r, pay.to, pay.amount), pay.feeTo, pay.fee)

\* The recipients[] and amounts[] arrays of the signed message.
Content(r) == [i \in DOMAIN r |-> <<r[i].addr, r[i].bal>>]

\* The recipient list a client rebuilds from the arrays it signed.
FromContent(d) ==
    [i \in DOMAIN d |-> [addr |-> d[i][1], bal |-> d[i][2], pos |-> i - 1]]

\* The sum of the amounts of a message.
Total(d) == SumFunction([i \in DOMAIN d |-> d[i][2]])

\* The EIP-712 ChannelData message, in the fixed domain of one deployment.
Digest(c, seq, ts, d) == [chan |-> c, seq |-> seq, ts |-> ts, data |-> d]

=============================================================================
