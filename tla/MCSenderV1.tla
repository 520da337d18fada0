----------------------------- MODULE MCSenderV1 -----------------------------
(***************************************************************************)
(* SenderV1 for TLC.  No path is special, so the paths are symmetric.      *)
(***************************************************************************)
EXTENDS SenderV1, TLC

CONSTANTS p1, p2, p3

MCTwoPaths == {p1, p2}
MCThreePaths == {p1, p2, p3}
MCSymmetry == Permutations(Paths)
=============================================================================
