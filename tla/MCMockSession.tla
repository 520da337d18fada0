--------------------------- MODULE MCMockSession ---------------------------
(***************************************************************************)
(* MockSession for TLC.  Version 1 needs seven packets to back off twice,  *)
(* version 3 six for a packet in flight over a back-off to matter.         *)
(***************************************************************************)
EXTENDS MockSession

MCVersions == 1 .. 5
MCMaxSeq == <<7, 5, 6, 5, 5>>
=============================================================================
