--------------------------- MODULE MCPathReceiver ---------------------------
(***************************************************************************)
(* PathReceiver for TLC: five packets of three frames.  The first frame    *)
(* began on another path (its packets here have index 1 and 2), the other  *)
(* two lie wholly on this one.                                             *)
(***************************************************************************)
EXTENDS PathReceiver

MCIndex == <<1, 2, 0, 1, 0>>
=============================================================================
