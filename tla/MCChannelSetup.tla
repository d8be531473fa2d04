--------------------------- MODULE MCChannelSetup ---------------------------
(***************************************************************************)
(* Small instances of channel setup for TLC.                               *)
(***************************************************************************)
EXTENDS ChannelSetup

CONSTANTS k1, k2,       \* two processes of the owner
          Mode1, Mode2, \* how each of them works
          Amount        \* the CHANNEL_AMOUNT of both

MCMode == [c \in Clients |-> IF c = k1 THEN Mode1 ELSE Mode2]
MCDeposit == [c \in Clients |-> Amount]
=============================================================================
