----------------------------- MODULE ReceiverV1 -----------------------------
(***************************************************************************)
(* The receiving end of the second generation: MpReceiverV1 and its        *)
(* VideoFrameBuffers.  A PathReceiverV1 hands over whatever arrives, with  *)
(* no filter of its own, so that a retransmission whose original was only  *)
(* late reaches the buffer as a second copy.  Frames leave from the        *)
(* heartbeat only, in order; an incomplete frame leaves when nothing new   *)
(* of it arrived for max_frame_wait.                                       *)
(*                                                                         *)
(* The clock is abstract: recent has the frames in the order in which they *)
(* last grew, without those for which max_frame_wait has passed since.     *)
(***************************************************************************)
EXTENDS Integers, FiniteSets, Sequences, SequencesExt

CONSTANTS
    NumFrames,  \* the sender numbers its frames 1..NumFrames
    Total       \* Total[f] is the number of packets frame f was split into

Frames == 1..NumFrames
Indexes(f) == 0..(Total[f] - 1)

ASSUME ReceiverV1Assumption ==
    /\ NumFrames \in Nat
    /\ Total \in [Frames -> 1..255]

VARIABLES
    frames,        \* frames_: fid to a VideoFrameBuffer, a partial function
    delivered_fid, \* delivered_fid_
    first_packet,  \* first_packet_: the heartbeat does not run yet
    runing,        \* runing_
    recent,        \* the frames of frames_ that have not expired
    out            \* history: the calls of DeliverFrame

vars == <<frames, delivered_fid, first_packet, runing, recent, out>>

Init ==
    /\ frames = <<>>
    /\ delivered_fid = 0
    /\ first_packet = TRUE
    /\ runing = TRUE
    /\ recent = <<>>
    /\ out = <<>>

Without(q, fs) == SelectSeq(q, LAMBDA f : f \notin fs)
-----------------------------------------------------------------------------
\* A new VideoFrameBuffer.
NoPackets == [packets |-> {}, received |-> 0, is_completed |-> FALSE]

\* Faulty variant: a second copy of a packet is counted.
OnNewPacketCounting(frame, i, total) ==
    [packets |-> frame.packets \cup {i},
     received |-> frame.received + 1,
     is_completed |-> frame.is_completed \/ frame.received + 1 = total]

\* OnNewPacket of a VideoFrameBuffer: what is there already is ignored, and
\* does not move max_recv_ts_ either.
OnNewPacket(frame, i, total) ==
    IF i \in frame.packets THEN frame
    ELSE OnNewPacketCounting(frame, i, total)

BufferOf(f) == IF f \in DOMAIN frames THEN frames[f] ELSE NoPackets

\* Faulty variant: the frame delivered last is not taken for delivered.
DeliveredBelow(f) == f < delivered_fid

Delivered(f) == f <= delivered_fid

\* OnVideoPacket for a packet of a frame that was delivered or jumped over: the
\* heartbeat is started all the same.
RecvLate(f) ==
    /\ runing
    /\ Delivered(f)
    /\ first_packet' = FALSE
    /\ UNCHANGED <<frames, delivered_fid, runing, recent, out>>

\* OnVideoPacket for any other packet.
OnVideoPacket(f, i) ==
    LET old == BufferOf(f)
        new == OnNewPacket(old, i, Total[f])
    IN  /\ runing
        /\ ~Delivered(f)
        /\ first_packet' = FALSE
        /\ frames' = [g \in DOMAIN frames \cup {f} |-> IF g = f THEN new ELSE frames[g]]
        /\ recent' = IF new = old THEN recent ELSE Append(Without(recent, {f}), f)
        /\ UNCHANGED <<delivered_fid, runing, out>>

Expired(f) == f \notin ToSet(recent)

\* Faulty variant: an incomplete frame waits without a limit.
DeliverableComplete(f) == frames[f].is_completed

\* The two conditions of CheckDeliverable: completed, or expired.
Deliverable(f) == frames[f].is_completed \/ Expired(f)

\* Faulty variant: a frame that waits does not hold back the later ones.
LeavingAny == {f \in DOMAIN frames : Deliverable(f)}

\* The loop of CheckDeliverable stops at the first frame that must wait.
Leaving ==
    {f \in DOMAIN frames : \A g \in DOMAIN frames : g <= f => Deliverable(g)}

\* The map is walked in the order of its keys.
Ascending(S) ==
    {q \in [1..Cardinality(S) -> S] : \A i, j \in DOMAIN q : i < j => q[i] < q[j]}

\* HeartBeat with CheckDeliverable, every heart_beat_t_ from the first packet on.
HeartBeat ==
    /\ runing
    /\ ~first_packet
    /\ frames' = [f \in DOMAIN frames \ Leaving |-> frames[f]]
    /\ delivered_fid' = IF Leaving = {} THEN delivered_fid ELSE Max(Leaving)
    /\ recent' = Without(recent, Leaving)
    /\ \E run \in Ascending(Leaving) :
          out' = out \o [k \in DOMAIN run |->
                            [fid |-> run[k], recv |-> frames[run[k]].received]]
    /\ UNCHANGED <<first_packet, runing>>

\* max_frame_wait has passed since the frame that grew longest ago did.
Expire ==
    /\ recent # <<>>
    /\ recent' = Tail(recent)
    /\ UNCHANGED <<frames, delivered_fid, first_packet, runing, out>>

\* StopApplication of any path receiver stops the receiver of all.
StopReceiver ==
    /\ runing' = FALSE
    /\ UNCHANGED <<frames, delivered_fid, first_packet, recent, out>>

Next ==
    \/ \E f \in Frames : RecvLate(f) \/ (\E i \in Indexes(f) : OnVideoPacket(f, i))
    \/ HeartBeat
    \/ Expire
    \/ StopReceiver

Spec == Init /\ [][Next]_vars

\* The heartbeat event fires and time passes.  Packets need not arrive.
FairSpec == Spec /\ WF_vars(HeartBeat) /\ WF_vars(Expire)
-----------------------------------------------------------------------------
Buffered == DOMAIN frames

\* A buffered frame is marked complete exactly when every one of its packets is
\* there, however often copies arrive on different paths, and its counter is the
\* number of different packets (OnNewPacket, the equality received_ == total_).
CompletionIsExact ==
    \A f \in Buffered :
        /\ frames[f].received = Cardinality(frames[f].packets)
        /\ frames[f].is_completed <=> frames[f].packets = Indexes(f)

\* A frame that left or was jumped over is never buffered again by the copies
\* still on their way (delivered_fid_ against OnVideoPacket).
BufferIsAhead == \A f \in Buffered : f > delivered_fid

\* The receiver implements the promise of InOrderDelivery, with a decoder that
\* listens from the start and no frame that has to be complete.
Promise == INSTANCE InOrderDelivery WITH
    Key <- {},
    have <- [f \in Frames |-> IF f \in Buffered THEN frames[f].received ELSE 0],
    late <- {f \in Buffered : Expired(f)},
    sink <- TRUE
KeepsPromise == Promise!Spec

\* Every buffered frame leaves in the end, whatever was lost of it or of the
\* frames before it, unless the receiver is stopped: a frame has finitely many
\* packets, and max_frame_wait passes after the last that arrives (is_expired).
FramesLeave == \A f \in Frames : f \in Buffered ~> (f \notin Buffered \/ ~runing)
=============================================================================
