--------------------------- MODULE MCSchedulers ---------------------------
(***************************************************************************)
(* Schedulers for TLC: three paths.  A full packet has two units, the last *)
(* of a frame one or two.  The rate 3 is more than a full packet in one    *)
(* unit of time, so that the step of the water filling can be zero.        *)
(***************************************************************************)
EXTENDS Schedulers

MCKinds == {"rr", "wrr", "minq", "bc", "scale", "water", "sfl", "edcld",
            "bcV1", "sflV1", "edcldV1", "ideal"}
MCFrames == {<<2>>, <<2, 1>>, <<2, 2, 1>>, <<2, 2, 2, 2>>}
MCDelays == {<<0, 1, 3>>, <<2, 0, 0>>}
=============================================================================
