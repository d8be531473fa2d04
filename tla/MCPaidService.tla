--------------------------- MODULE MCPaidService ---------------------------
(***************************************************************************)
(* Small instances of the paid service for TLC.                            *)
(***************************************************************************)
EXTENDS PaidService, TLC

CONSTANTS k1, k2,       \* two client processes of one owner
          Mode1, Mode2  \* how each of them works

MCMode == [c \in Clients |-> IF c = k1 THEN Mode1 ELSE Mode2]

\* Request slots are interchangeable.
HandlerSymmetry == Permutations(Handlers)
=============================================================================
