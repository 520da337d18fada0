---------------------------- MODULE MCReceiverV1 ----------------------------
(***************************************************************************)
(* ReceiverV1 for TLC: frames of one, two and three packets.               *)
(***************************************************************************)
EXTENDS ReceiverV1

MCTotal == <<2, 3, 1, 2>>
=============================================================================
