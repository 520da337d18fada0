-------------------------- MODULE MultipathReceiver -------------------------
(***************************************************************************)
(* The receiving end of a session: several PathReceivers share one         *)
(* MultipathReceiver, which puts the packets of each video frame together  *)
(* in frame_cache_ and forwards the frames in order.  OnReceiveSegment of  *)
(* a path, DeliverToCache, CheckDeliverFrame and the Consume calls back    *)
(* into the paths are one synchronous chain, and one action here.          *)
(*                                                                         *)
(* Time is abstract: clock = n says that the first n frames are older than *)
(* max_frame_waitting (timestamps grow with the frame number).  Sizes are  *)
(* counted in packets.                                                     *)
(***************************************************************************)
EXTENDS PathTables, Sequences, SequencesExt

CONSTANTS
    Paths,      \* the registered paths
    NumFrames,  \* the sender numbers its frames 1..NumFrames
    Total,      \* Total[f] is the number of packets frame f was split into
    Key,        \* the frames sent with ftype 1, whose waitting_ts is -1
    Layout,     \* Layout[p][s] is the [fid, index] of packet s of path p
    MaxBufLen   \* bound of the model: no packet is stored above this count

Frames == 1..NumFrames
PathPackets == UNION {{<<p, s>> : s \in 1..Len(Layout[p])} : p \in Paths}
Fid(pk) == Layout[pk[1]][pk[2]].fid
Idx(pk) == Layout[pk[1]][pk[2]].index

\* Each packet of each frame goes over one path, and a path carries its packets
\* in the order of frames and, within a frame, of indexes.
ASSUME LayoutAssumption ==
    /\ NumFrames \in Nat
    /\ MaxBufLen \in Nat
    /\ Total \in [Frames -> Nat \ {0}]
    /\ Key \subseteq Frames
    /\ Layout \in [Paths -> Seq([fid : Frames, index : Nat])]
    /\ \A f \in Frames : \A i \in 0..(Total[f] - 1) :
          \E pk \in PathPackets : Fid(pk) = f /\ Idx(pk) = i
    /\ \A a, b \in PathPackets :
          /\ Idx(a) < Total[Fid(a)]
          /\ Fid(a) = Fid(b) /\ Idx(a) = Idx(b) => a = b
          /\ a[1] = b[1] /\ a[2] < b[2] =>
                Fid(a) < Fid(b) \/ (Fid(a) = Fid(b) /\ Idx(a) < Idx(b))

VARIABLES
    tables,        \* the tables of each path
    frame_cache,   \* frame_cache_: fid to [recv, packets], a partial function
    min_fid,       \* min_fid_, the highest frame forwarded
    recv_buf_len,  \* recv_buf_len_
    first_packet,  \* first_packet_: the heartbeat runs
    deliver,       \* deliver_ is set
    stop,          \* stop_
    clock,         \* the deadlines of frames 1..clock have passed
    got,           \* history: got[p], the ids path p handed over
    begun,         \* history: the frame of the first segment of each path, 0 before
    forwarded,     \* history: the frames given to ForwardUp, in order
    discarded,     \* history: the packets erased while deliver_ was NULL
    released,      \* history: the highest frame taken out of frame_cache_
    collided       \* history: a packet found its slot filled ("fatal error")

tableVars == <<tables, got, begun>>
cacheVars == <<frame_cache, min_fid, recv_buf_len, forwarded, discarded, released>>
vars == <<tableVars, cacheVars, first_packet, deliver, stop, clock, collided>>

Init ==
    /\ tables = [p \in Paths |-> NoTables]
    /\ frame_cache = <<>>
    /\ min_fid = 0
    /\ recv_buf_len = 0
    /\ first_packet = FALSE
    /\ deliver = FALSE
    /\ stop = FALSE
    /\ clock = 0
    /\ got = [p \in Paths |-> {}]
    /\ begun = [p \in Paths |-> 0]
    /\ forwarded = <<>>
    /\ discarded = 0
    /\ released = 0
    /\ collided = FALSE
-----------------------------------------------------------------------------
\* Faulty variants: a key frame times out like any other; no frame does.
ReadyKeyTimesOut(cache, f) == cache[f].recv = Total[f] \/ f <= clock
ReadyOnlyComplete(cache, f) == cache[f].recv = Total[f]

\* The branches of CheckDeliverFrame: a complete frame leaves, an incomplete one
\* leaves when it is not a key frame and max_frame_waitting has passed.
Ready(cache, f) ==
    \/ cache[f].recv = Total[f]
    \/ f \notin Key /\ f <= clock

\* The loop of CheckDeliverFrame stops at the first frame that is not ready.
Leaving(cache) ==
    {f \in DOMAIN cache : \A g \in DOMAIN cache : g <= f => Ready(cache, g)}

\* Faulty variant: the path gives up everything up to its highest packet.
PacketConsumedToMax(tabs, consumed) ==
    [p \in Paths |-> IF \E c \in consumed : c[1] = p
                     THEN Consume(tabs[p], tabs[p].max) ELSE tabs[p]]

\* PacketConsumed: Consume is called for the packets of the frame in the order
\* of their indexes.  On one path that is the order of their ids, and the last
\* call alone does what all of them do.
PacketConsumed(tabs, consumed) ==
    [p \in Paths |->
        LET ids == {pk[2] : pk \in {c \in consumed : c[1] = p}}
        IN  IF ids = {} THEN tabs[p] ELSE Consume(tabs[p], Max(ids))]

\* S written in ascending order.
Ascending(S) ==
    {q \in [1..Cardinality(S) -> S] : \A i, j \in DOMAIN q : i < j => q[i] < q[j]}

\* DeliverFrame, PacketConsumed and BuffCollection for every frame that leaves:
\* frame_cache_ and the path tables go from cache and tabs to their new values.
\* Without a sink a frame is erased all the same, but neither recv_buf_len_ nor
\* min_fid_ takes note of it.
CheckDeliverFrame(cache, tabs, buflen) ==
    LET leaving == Leaving(cache)
        consumed == UNION {cache[f].packets : f \in leaving}
    IN  /\ frame_cache' = [f \in DOMAIN cache \ leaving |-> cache[f]]
        /\ tables' = PacketConsumed(tabs, consumed)
        /\ released' = Max(leaving \cup {released})
        /\ IF deliver
           THEN /\ \E run \in Ascending(leaving) :
                      forwarded' = forwarded \o
                        [k \in DOMAIN run |-> [fid |-> run[k], recv |-> cache[run[k]].recv]]
                /\ recv_buf_len' = buflen - Cardinality(consumed)
                /\ min_fid' = Max(leaving \cup {min_fid})
                /\ UNCHANGED discarded
           ELSE /\ recv_buf_len' = buflen
                /\ discarded' = discarded + Cardinality(consumed)
                /\ UNCHANGED <<forwarded, min_fid>>

\* Faulty variant: the frame forwarded last does not count as late.
CheckLateFrameStrict(fid) == fid < min_fid

\* CheckLateFrame
CheckLateFrame(fid) == fid <= min_fid

\* Faulty variant: DeliverToCache overwrites a filled slot.
CollidesNever(pk) == FALSE

\* The slot of the packet in its frame is taken, by an earlier copy of it.
Collides(pk) ==
    /\ Fid(pk) \in DOMAIN frame_cache
    /\ \E q \in frame_cache[Fid(pk)].packets : Idx(q) = Idx(pk)

\* frame_cache_ with the packet in its slot; a frame is created by its first.
StorePacket(pk) ==
    LET f == Fid(pk)
        old == IF f \in DOMAIN frame_cache THEN frame_cache[f]
                                           ELSE [recv |-> 0, packets |-> {}]
        new == [recv |-> old.recv + 1, packets |-> old.packets \cup {pk}]
    IN  [g \in DOMAIN frame_cache \cup {f} |-> IF g = f THEN new ELSE frame_cache[g]]

\* OnReceiveSegment of path p for packet s, up to DeliverToCache.
PathAccepts(p, s) ==
    /\ ~stop
    /\ ~Refused(tables[p], s)
    /\ got' = [got EXCEPT ![p] = @ \cup {s}]
    /\ begun' = [begun EXCEPT ![p] = IF tables[p].max = 0 THEN Fid(<<p, s>>) ELSE @]
    /\ first_packet' = TRUE

TablesAfter(p, s) == [tables EXCEPT ![p] = Accept(@, s, Idx(<<p, s>>))]

\* DeliverToCache for a packet whose frame has been forwarded already.
RecvLate(p, s) ==
    /\ PathAccepts(p, s)
    /\ CheckLateFrame(Fid(<<p, s>>))
    /\ tables' = TablesAfter(p, s)
    /\ UNCHANGED <<cacheVars, deliver, stop, clock, collided>>

\* DeliverToCache for a packet that is in its slot already.
RecvCollision(p, s) ==
    /\ PathAccepts(p, s)
    /\ ~CheckLateFrame(Fid(<<p, s>>))
    /\ Collides(<<p, s>>)
    /\ tables' = TablesAfter(p, s)
    /\ collided' = TRUE
    /\ UNCHANGED <<cacheVars, deliver, stop, clock>>

\* DeliverToCache for any other packet.
RecvStored(p, s) ==
    /\ recv_buf_len < MaxBufLen
    /\ PathAccepts(p, s)
    /\ ~CheckLateFrame(Fid(<<p, s>>))
    /\ ~Collides(<<p, s>>)
    /\ CheckDeliverFrame(StorePacket(<<p, s>>), TablesAfter(p, s), recv_buf_len + 1)
    /\ UNCHANGED <<deliver, stop, clock, collided>>

\* HeartBeat and Process, every HBTIME once the first packet has arrived.
HeartBeat ==
    /\ first_packet
    /\ ~stop
    /\ CheckDeliverFrame(frame_cache, tables, recv_buf_len)
    /\ UNCHANGED <<got, begun, first_packet, deliver, stop, clock, collided>>

\* RegisterDataSink takes the first sink and refuses any other.
RegisterDataSink ==
    /\ ~deliver
    /\ deliver' = TRUE
    /\ UNCHANGED <<tableVars, cacheVars, first_packet, stop, clock, collided>>

\* Stop: every path stops too, and the heartbeat is cancelled.
Stop ==
    /\ stop' = TRUE
    /\ UNCHANGED <<tableVars, cacheVars, first_packet, deliver, clock, collided>>

\* A second after frame clock + 1 was captured.
Tick ==
    /\ clock < NumFrames
    /\ clock' = clock + 1
    /\ UNCHANGED <<tableVars, cacheVars, first_packet, deliver, stop, collided>>

RecvPacket(p, s) == RecvLate(p, s) \/ RecvCollision(p, s) \/ RecvStored(p, s)

Next ==
    \/ \E p \in Paths : \E s \in 1..Len(Layout[p]) : RecvPacket(p, s)
    \/ HeartBeat
    \/ RegisterDataSink
    \/ Stop
    \/ Tick

Spec == Init /\ [][Next]_vars

\* The timer event of the heartbeat fires and time passes; no packet need ever
\* arrive, and nobody need listen or stop.
FairSpec == Spec /\ WF_vars(HeartBeat) /\ WF_vars(Tick)
-----------------------------------------------------------------------------
Cached == DOMAIN frame_cache
Held == UNION {frame_cache[f].packets : f \in Cached}

TypeOK ==
    /\ \A p \in Paths : LET ids == 1..Len(Layout[p]) IN
          /\ tables[p] \in [base : {0} \cup ids, max : {0} \cup ids,
                            loss : SUBSET ids, recv : SUBSET ids]
          /\ got[p] \subseteq ids
          /\ begun[p] \in 0..NumFrames
    /\ Cached \subseteq Frames
    /\ \A f \in Cached : frame_cache[f] \in [recv : Nat, packets : SUBSET PathPackets]
    /\ {min_fid, released, clock} \subseteq 0..NumFrames
    /\ {recv_buf_len, discarded} \subseteq Nat
    /\ {first_packet, deliver, stop, collided} \subseteq BOOLEAN
    /\ forwarded \in Seq([fid : Frames, recv : Nat])

\* The counter recv of a cached frame counts its filled slots, each filled once,
\* and never exceeds total, so recv = total means that every packet is there
\* even when the network duplicates (DeliverToCache).
CountsAreExact ==
    \A f \in Cached : LET fr == frame_cache[f] IN
        /\ fr.recv = Cardinality({Idx(pk) : pk \in fr.packets})
        /\ fr.recv = Cardinality(fr.packets)
        /\ fr.recv \in 1..Total[f]
        /\ \A pk \in fr.packets : Fid(pk) = f

\* recv_buf_len_ is what the cache holds; only packets erased while nobody
\* listened stay in the count (DeliverFrame returns before it subtracts).
BufLenIsExact == recv_buf_len = Cardinality(Held) + discarded

\* All counters of the buffer are right at once.
CountersOK == TypeOK /\ CountsAreExact /\ BufLenIsExact

\* A frame that was passed over or forwarded never comes back into the cache,
\* so everything cached is still to be forwarded (CheckLateFrame, min_fid_).
\* Without a sink min_fid_ does not move, and a frame that was erased may be
\* cached again.
CacheIsAhead == \A f \in Cached : f > min_fid

\* The cumulative point of a path, below which everything is refused, passes
\* over a packet that never came for one of two reasons only: the frame of the
\* packet has left the buffer, or it is older than the frame of the segment that
\* came first on the path (OnReceiveSegment takes it that the path begins there).
\* In the second case the frame may still be waited for: see KeyFrameKept.
SkippedIsGone ==
    /\ CacheIsAhead
    /\ \A p \in Paths : \A s \in 1..tables[p].base :
          s \in got[p] \/ Fid(<<p, s>>) < begun[p] \/ Fid(<<p, s>>) <= released

\* Claimed by the comment above GetWaittingDuration (mpreceiver.cc 233): a key
\* frame has no deadline because the receiver "must to get the full frame".
\* Then no path refuses a packet of it that never came while the frame has not
\* left.
KeyFrameKept ==
    \A p \in Paths : \A s \in 1..Len(Layout[p]) :
        Fid(<<p, s>>) \in Key /\ Refused(tables[p], s) =>
            s \in got[p] \/ Fid(<<p, s>>) <= released

\* The receiver implements the promise of InOrderDelivery.
Promise == INSTANCE InOrderDelivery WITH
    have <- [f \in Frames |-> IF f \in Cached THEN frame_cache[f].recv ELSE 0],
    out <- forwarded,
    late <- (1..clock) \ Key,
    sink <- deliver
KeepsPromise == Promise!Spec

\* An incomplete key frame at or below f, which CheckDeliverFrame waits for
\* without a time limit.
BehindKeyFrame(f) == \E k \in Key \cap Cached : k <= f

\* Every cached frame leaves the buffer in the end, whatever is lost, unless an
\* incomplete key frame is before it or the receiver is stopped (the heartbeat
\* and max_frame_waitting).
FramesLeave ==
    \A f \in Frames : f \in Cached ~> (f \notin Cached \/ stop \/ BehindKeyFrame(f))

\* DeliverToCache calls a filled slot a "fatal error": the path receivers are
\* taken to let every packet through once.
NoCollision == ~collided
=============================================================================
