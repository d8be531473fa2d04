---------------------------- MODULE MCSequencer ----------------------------
(***************************************************************************)
(* Small instances of the sequencer for TLC.                               *)
(***************************************************************************)
EXTENDS Sequencer, TLC

CONSTANTS a1, a2,       \* the receiver of the payments, and of the fees
          MCBalance, MCExpiry   \* the balance and expiry of every channel

\* A price of one unit, with and without a fee of one unit.
MCPayments ==
    {[to |-> a1, amount |-> 1, feeTo |-> a2, fee |-> 0],
     [to |-> a1, amount |-> 1, feeTo |-> a2, fee |-> 1]}
MCPaymentWithFee == {[to |-> a1, amount |-> 1, feeTo |-> a2, fee |-> 1]}

MCChannelBalance == [c \in Channels |-> MCBalance]
MCChannelExpiry == [c \in Channels |-> MCExpiry]

\* Request slots are interchangeable.
RequestSymmetry == Permutations(Requests)
=============================================================================
