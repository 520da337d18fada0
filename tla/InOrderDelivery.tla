--------------------------- MODULE InOrderDelivery --------------------------
(***************************************************************************)
(* What the receiving side of a session promises the decoder above it,     *)
(* whatever the paths do.  Frames leave in the order of their numbers, each*)
(* at most once.  No frame of which something arrived is jumped over.  An  *)
(* ordinary frame may leave with packets missing once its deadline has     *)
(* passed, a key frame leaves complete or not at all.                      *)
(***************************************************************************)
EXTENDS Integers, Sequences, SequencesExt

CONSTANTS
    NumFrames,  \* frames are numbered 1..NumFrames
    Total,      \* Total[f] is the number of packets of frame f
    Key         \* the frames that must leave complete

VARIABLES
    have,       \* have[f] packets of frame f arrived and are held back
    out,        \* what left: a sequence of [fid, recv] records
    late,       \* the frames whose deadline has passed
    sink        \* somebody listens; what leaves before that is lost

vars == <<have, out, late, sink>>

Frames == 1..NumFrames
LastOut == IF out = <<>> THEN 0 ELSE Last(out).fid

Init ==
    /\ have = [f \in Frames |-> 0]
    /\ out = <<>>
    /\ late = {}
    /\ sink \in BOOLEAN

\* S written in ascending order.
Ascending(S) ==
    {q \in [1..Cardinality(S) -> S] : \A i, j \in DOMAIN q : i < j => q[i] < q[j]}

MayLeave(h, f) == h[f] = Total[f] \/ f \in late

\* The holdings after at most one packet arrived, for a frame still awaited.
Arrivals ==
    {have} \cup {[have EXCEPT ![f] = @ + 1] :
                     f \in {g \in Frames : g > LastOut /\ have[g] < Total[g]}}

\* Deadlines are the receiver's affair, but a key frame has none.
Deadlines == late' \in SUBSET (Frames \ Key)

\* At most one packet arrives and any number of frames leave, none of them
\* ahead of a lower one that is held.
Advance ==
    \E h \in Arrivals, leaving \in SUBSET Frames :
        /\ \A f \in leaving : h[f] > 0 /\ MayLeave(h, f)
        /\ \A f \in leaving, g \in Frames : g < f /\ h[g] > 0 => g \in leaving
        /\ have' = [f \in Frames |-> IF f \in leaving THEN 0 ELSE h[f]]
        /\ \E run \in Ascending(leaving) :
              out' = IF sink
                     THEN out \o [k \in DOMAIN run |-> [fid |-> run[k], recv |-> h[run[k]]]]
                     ELSE out
        /\ Deadlines
        /\ UNCHANGED sink

Listen == sink' = TRUE /\ UNCHANGED <<have, out, late>>

Next == Advance \/ Listen

Spec == Init /\ [][Next]_vars
=============================================================================
