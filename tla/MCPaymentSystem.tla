-------------------------- MODULE MCPaymentSystem --------------------------
(***************************************************************************)
(* Small instances of contract and sequencer for TLC.                      *)
(***************************************************************************)
EXTENDS PaymentSystem

CONSTANTS o1, r1,       \* the owner and the payee
          Tokens        \* what it starts with

MCSupply == [a \in Address |-> IF a = o1 THEN Tokens ELSE 0]
=============================================================================
