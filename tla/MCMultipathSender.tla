------------------------- MODULE MCMultipathSender --------------------------
(***************************************************************************)
(* MultipathSender for TLC: path 1 is paced by webrtc, under congestion    *)
(* control with its padding or, for the liveness run, without; path 2      *)
(* paces itself.                                                           *)
(***************************************************************************)
EXTENDS MultipathSender

MCPaceMode == <<"with_congestion", "no_webrtc">>
MCProgressMode == <<"no_congestion", "no_webrtc">>
=============================================================================
