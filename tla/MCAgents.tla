------------------------------ MODULE MCAgents ------------------------------
(***************************************************************************)
(* Agents for TLC: bytes hold 0 and 1, pairs of bytes 0 to 2, so that the  *)
(* third frame and frames of two segments need the wide fields and the     *)
(* transport numbers wrap around.                                          *)
(***************************************************************************)
EXTENDS Agents

=============================================================================
