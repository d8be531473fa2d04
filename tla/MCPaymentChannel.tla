-------------------------- MODULE MCPaymentChannel --------------------------
(***************************************************************************)
(* Small instances of the contract for TLC.                                *)
(***************************************************************************)
EXTENDS PaymentChannel, TLC

CONSTANTS o1, r1, r2    \* an owner and two recipients, of whom one may be the owner

MCSupply == [a \in Address |-> IF a = o1 THEN 9 ELSE 0]

MCUpdate(c, seq, ts, data, cosigned) ==
    [chan |-> c, seq |-> seq, ts |-> ts, data |-> data,
     sig |-> Digest(c, seq, ts, data),
     cosig |-> IF cosigned THEN Digest(c, seq, ts, data) ELSE None]

(***************************************************************************)
(* The updates of a channel: a payment to each recipient, the second with  *)
(* a timestamp ahead of the first blocks; an update beyond the deposit,    *)
(* which the sequencer never co-signs; and one whose signature is for      *)
(* other amounts.  On the longest channel the second recipient is          *)
(* address(0).                                                             *)
(***************************************************************************)
Second(c) == IF c.expiry = 3 THEN Zero ELSE r2
MCCalls ==
    UNION {{MCUpdate(c, 1, 1, << <<r1, 1>> >>, TRUE),
            MCUpdate(c, 2, 2, << <<r1, 2>>, <<Second(c), 1>> >>, TRUE),
            MCUpdate(c, 3, 1, << <<r1, 2>>, <<Second(c), 2>> >>, FALSE),
            [MCUpdate(c, 4, 1, << <<r1, 2>> >>, TRUE) EXCEPT
                !.sig = Digest(c, 4, 1, << <<r1, 1>> >>)]} : c \in Id}
=============================================================================
