--------------------------- MODULE MultipathSender --------------------------
(***************************************************************************)
(* The sending end of a session: a MultipathSender and its PathSenders.    *)
(* A path is registered, connects (CONNECT is repeated until its ack gets  *)
(* through), becomes usable and is made known to the scheduler; the first  *)
(* usable path starts the video source.  A frame is split into segments,   *)
(* the scheduler gives each of them to a path, the path numbers it and     *)
(* buffers it until its pacer asks for it.                                 *)
(*                                                                         *)
(* The scheduler is any function from the segments of a frame to the paths *)
(* it was told of: all of them hand the segments out in ascending order.   *)
(* Sizes are counted in segments, pacing and retry timers fire at will.    *)
(***************************************************************************)
EXTENDS Integers, FiniteSets, Sequences, SequencesExt

CONSTANTS
    Paths,      \* the registered paths
    PaceMode,   \* PaceMode[p]: with_congestion, no_congestion or no_webrtc
    MaxSplit,   \* a frame is split into at most this many segments
    SeqSpace,   \* trans_seq_ counts modulo this (2^16 in the code)
    MaxFrames   \* bound of the model: the source offers this many frames

ASSUME MultipathSenderAssumption ==
    /\ PaceMode \in [Paths -> {"with_congestion", "no_congestion", "no_webrtc"}]
    /\ MaxSplit \in Nat \ {0}
    /\ SeqSpace \in Nat /\ SeqSpace > MaxSplit
    /\ MaxFrames \in Nat

VARIABLES
    state,        \* state[p]: path_ini, path_conning or path_conned
    rx_timer,     \* the paths whose rxTimer_ is running
    connects,     \* the paths with a CONNECT in the network
    acks,         \* the paths with a CONNECT_ACK in the network
    syn_path,     \* syn_path_
    usable_path,  \* usable_path_
    pids,         \* pids_ of the scheduler
    stop,         \* stop_ of the MultipathSender
    running,      \* running_ of the video source
    frame_seed,   \* frame_seed_
    path_stop,    \* path_stop[p]: stop_ of the path
    trans_seq,    \* trans_seq[p]: trans_seq_
    buf,          \* buf[p]: buf_, transport seq to packet_id, a partial function
    pacer,        \* pacer[p]: the transport seqs queued in the webrtc pacer
    pacing,       \* the paths whose m_pacing_ is running
    len,          \* len[p]: len_
    pending_len,  \* pending_len[p]: pending_len_
    log,          \* history: log[p][k] is the [fid, index] of packet_id k
    sent,         \* history: sent[p], the packet ids in the order of sending
    overflow,     \* history: overflow[p] segments found their slot in buf_ taken
    freed,        \* history: freed[p] segments were deleted by Stop
    lost,         \* history: segments given to no path, or refused by it
    late          \* history: a path became usable after Stop

connVars == <<state, rx_timer, connects, acks, syn_path, usable_path, pids, late>>
pathVars == <<trans_seq, buf, pacer, pacing, len, pending_len, log, sent, overflow>>
stopVars == <<stop, path_stop, freed>>
vars == <<connVars, pathVars, stopVars, running, frame_seed, lost>>

\* packet_seed_: the packets of a path are numbered from 1.
packet_seed(p) == Len(log[p]) + 1

Init ==
    /\ state = [p \in Paths |-> "path_ini"]
    /\ rx_timer = {} /\ connects = {} /\ acks = {}
    /\ syn_path = Paths /\ usable_path = {} /\ pids = {}
    /\ stop = FALSE /\ running = FALSE /\ late = FALSE
    /\ frame_seed = 1
    /\ path_stop = [p \in Paths |-> FALSE]
    /\ trans_seq = [p \in Paths |-> 1 % SeqSpace]
    /\ buf = [p \in Paths |-> <<>>]
    /\ pacer = [p \in Paths |-> <<>>]
    /\ pacing = {}
    /\ len = [p \in Paths |-> 0] /\ pending_len = [p \in Paths |-> 0]
    /\ log = [p \in Paths |-> <<>>] /\ sent = [p \in Paths |-> <<>>]
    /\ overflow = [p \in Paths |-> 0] /\ freed = [p \in Paths |-> 0]
    /\ lost = 0
-----------------------------------------------------------------------------
\* Faulty variant: rxTimer_ is not started again.
SendConnectOnce(ps) ==
    LET unconnected == {p \in ps : state[p] # "path_conned"}
    IN  /\ state' = [p \in Paths |-> IF p \in unconnected THEN "path_conning" ELSE state[p]]
        /\ connects' = connects \cup unconnected
        /\ rx_timer' = rx_timer \ ps
        /\ UNCHANGED <<acks, syn_path, usable_path, pids, late, pathVars, stopVars,
                       running, frame_seed, lost>>

\* SendConnect, first from Connect and then from rxTimer_: it sends while the
\* path is not connected, and otherwise leaves the timer off.  Stop does not
\* keep it from sending.
SendConnect(ps) ==
    LET unconnected == {p \in ps : state[p] # "path_conned"}
    IN  /\ state' = [p \in Paths |-> IF p \in unconnected THEN "path_conning" ELSE state[p]]
        /\ connects' = connects \cup unconnected
        /\ rx_timer' = (rx_timer \ ps) \cup unconnected
        /\ UNCHANGED <<acks, syn_path, usable_path, pids, late, pathVars, stopVars,
                       running, frame_seed, lost>>

\* Connect, with the addresses of one or more paths.  The application calls it
\* once for each.
Connect == \E ps \in SUBSET {p \in syn_path : state[p] = "path_ini"} :
              ps # {} /\ SendConnect(ps)

\* rxTimer_ expires.
RetryConnect(p) == p \in rx_timer /\ SendConnect({p})

\* The peer answers each CONNECT it gets.  Both kinds of message may be lost,
\* and may stay in the network as a copy.
RecvConnect(p) ==
    /\ p \in connects
    /\ acks' = acks \cup {p}
    /\ connects' \in {connects, connects \ {p}}
    /\ UNCHANGED <<state, rx_timer, syn_path, usable_path, pids, late, pathVars, stopVars,
                   running, frame_seed, lost>>

Lose(p) ==
    /\ \/ p \in connects /\ connects' = connects \ {p} /\ acks' = acks
       \/ p \in acks /\ acks' = acks \ {p} /\ connects' = connects
    /\ UNCHANGED <<state, rx_timer, syn_path, usable_path, pids, late, pathVars, stopVars,
                   running, frame_seed, lost>>

\* Faulty variant: the scheduler is not told of the path.
NotifyPathUnscheduled(p) ==
    /\ syn_path' = syn_path \ {p}
    /\ usable_path' = usable_path \cup {p}
    /\ running' = TRUE
    /\ late' = (late \/ stop)
    /\ UNCHANGED pids

\* NotifyPathUsable tells the scheduler of the path and starts the source,
\* whether or not the MultipathSender was stopped meanwhile.
NotifyPathUsable(p) ==
    /\ syn_path' = syn_path \ {p}
    /\ pids' = pids \cup {p}
    /\ usable_path' = usable_path \cup {p}
    /\ running' = TRUE
    /\ late' = (late \/ stop)

\* ProcessingMsg for SIM_CONNECT_ACK: the first one calls NotifyPathUsable, any
\* other one changes only rtt_.
RecvConnectAck(p) ==
    /\ p \in acks
    /\ ~path_stop[p]
    /\ acks' \in {acks, acks \ {p}}
    /\ state' = [state EXCEPT ![p] = "path_conned"]
    /\ IF state[p] # "path_conned" /\ p \in syn_path
       THEN NotifyPathUsable(p)
       ELSE UNCHANGED <<syn_path, pids, usable_path, running, late>>
    /\ UNCHANGED <<rx_timer, connects, pathVars, stopVars, frame_seed, lost>>

\* ProcessingMsg drops what reaches a stopped path.
DropConnectAck(p) ==
    /\ p \in acks
    /\ path_stop[p]
    /\ acks' = acks \ {p}
    /\ UNCHANGED <<state, rx_timer, connects, syn_path, usable_path, pids, late, pathVars,
                   stopVars, running, frame_seed, lost>>
-----------------------------------------------------------------------------
\* The value of trans_seq_ after k more segments.
TransSeq(p, k) == (trans_seq[p] + k) % SeqSpace

\* Faulty variant: a burst of segments is queued once.
InsertFirst(p, ids) ==
    IF PaceMode[p] = "no_webrtc" \/ ids = <<>> THEN pacer[p] ELSE Append(pacer[p], ids[1])

\* InsertPacket of the webrtc pacer; a path that paces itself has none.
InsertPackets(p, ids) ==
    IF PaceMode[p] = "no_webrtc" THEN pacer[p] ELSE pacer[p] \o ids

\* What put, called for the segments of one frame with these indexes, makes of
\* the buffers of path p.  A slot of buf_ that is still taken keeps its old
\* segment (std::map::insert), the new one is counted but never sent.
PutAll(p, indexes) ==
    LET k == Len(indexes)
        id == [i \in 1..k |-> TransSeq(p, i - 1)]
        fresh == {i \in 1..k : id[i] \notin DOMAIN buf[p]}
        slots == {id[i] : i \in fresh}
    IN  [trans_seq |-> TransSeq(p, k),
         buf |-> [q \in DOMAIN buf[p] \cup slots |->
                     IF q \in DOMAIN buf[p] THEN buf[p][q]
                     ELSE packet_seed(p) + (CHOOSE i \in fresh : id[i] = q) - 1],
         pacer |-> InsertPackets(p, id),
         log |-> log[p] \o [i \in 1..k |-> [fid |-> frame_seed, index |-> indexes[i]]],
         overflow |-> overflow[p] + k - Cardinality(fresh)]

\* PacketSchedule and put accept a segment for path p.
Takes(p) == p \in usable_path /\ ~path_stop[p]

\* S written in ascending order.
Ascending(S) ==
    {q \in [1..Cardinality(S) -> S] :
        ToSet(q) = S /\ \A i, j \in DOMAIN q : i < j => q[i] < q[j]}

\* The segments that the schedule to gives to path p, by their index.
Share(p, n, to) == {i \in 0..(n - 1) : to[i] = p /\ Takes(p)}

\* What the schedule to of n segments gives to each path, in the order of the
\* PacketSchedule calls.
Given(n, to) ==
    {g \in [Paths -> UNION {Ascending(S) : S \in SUBSET (0..(n - 1))}] :
        \A p \in Paths : g[p] \in Ascending(Share(p, n, to))}

\* SendVideo: FrameSplit into n segments, SchedulePendingBuf, and for each of
\* them PacketSchedule and put, in the order of the schedule ids.  A segment
\* for a path that is not usable, or has stopped, is lost.
SendVideo(n, to) ==
    /\ running
    /\ ~stop
    /\ frame_seed <= MaxFrames
    /\ \E given \in Given(n, to) :
          LET after == [p \in Paths |-> PutAll(p, given[p])]
          IN  /\ trans_seq' = [p \in Paths |-> after[p].trans_seq]
              /\ buf' = [p \in Paths |-> after[p].buf]
              /\ pacer' = [p \in Paths |-> after[p].pacer]
              /\ pacing' = pacing \cup
                    {p \in Paths : PaceMode[p] = "no_webrtc" /\ given[p] # <<>>}
              /\ len' = [p \in Paths |-> len[p] + Len(given[p])]
              /\ pending_len' = [p \in Paths |-> pending_len[p] + Len(given[p])]
              /\ log' = [p \in Paths |-> after[p].log]
              /\ overflow' = [p \in Paths |-> after[p].overflow]
    /\ lost' = lost + Cardinality({i \in 0..(n - 1) : ~Takes(to[i])})
    /\ frame_seed' = frame_seed + 1
    /\ UNCHANGED <<sent, connVars, stopVars, running>>

\* Faulty variant: a segment that was sent stays in buf_.
TransmitAndKeep(p, id) ==
    /\ sent' = [sent EXCEPT ![p] = Append(@, buf[p][id])]
    /\ UNCHANGED <<buf, len, pending_len>>

\* SendSegment for the segment at id, and its removal by get_segment.
Transmit(p, id) ==
    /\ buf' = [buf EXCEPT ![p] = [q \in DOMAIN @ \ {id} |-> @[q]]]
    /\ sent' = [sent EXCEPT ![p] = Append(@, buf[p][id])]
    /\ len' = [len EXCEPT ![p] = @ - 1]
    /\ pending_len' = [pending_len EXCEPT ![p] = @ - 1]

\* TimeToSendPacket, called by the webrtc pacer for the head of its queue.
TimeToSendPacket(p) ==
    /\ ~path_stop[p]
    /\ pacer[p] # <<>>
    /\ pacer' = [pacer EXCEPT ![p] = Tail(@)]
    /\ IF Head(pacer[p]) \in DOMAIN buf[p]
       THEN Transmit(p, Head(pacer[p]))
       ELSE UNCHANGED <<buf, sent, len, pending_len>>
    /\ UNCHANGED <<trans_seq, pacing, log, overflow, connVars, stopVars, running, frame_seed, lost>>

\* Faulty variant: get_segment takes the last key of buf_.
LastKey(p) == Max(DOMAIN buf[p])

\* buf_.begin(), the segment get_segment takes.
FirstKey(p) == Min(DOMAIN buf[p])

\* PacingSendSegment, the timer of a path without the webrtc pacer: the
\* segment with the least transport seq goes first.  Stop does not cancel it.
PacingSendSegment(p) ==
    /\ p \in pacing
    /\ IF buf[p] # <<>>
       THEN Transmit(p, FirstKey(p)) /\ UNCHANGED pacing
       ELSE pacing' = pacing \ {p} /\ UNCHANGED <<buf, sent, len, pending_len>>
    /\ UNCHANGED <<trans_seq, pacer, log, overflow, connVars, stopVars, running, frame_seed, lost>>

\* TimeToSendPadding: padding has transport seqs but no packet ids.
SendPadding(p) ==
    /\ PaceMode[p] = "with_congestion"
    /\ p \in usable_path /\ ~path_stop[p]
    /\ trans_seq' = [trans_seq EXCEPT ![p] = TransSeq(p, 1)]
    /\ UNCHANGED <<buf, pacer, pacing, len, pending_len, log, sent, overflow, connVars, stopVars,
                   running, frame_seed, lost>>

\* Faulty variant: the paths keep what they have buffered.
StopKeepsBuffers ==
    /\ stop' = TRUE
    /\ running' = FALSE
    /\ path_stop' = [p \in Paths |-> path_stop[p] \/ p \in usable_path]
    /\ UNCHANGED <<connVars, pathVars, freed, frame_seed, lost>>

\* Stop, called by StopApplication of any path: the usable paths stop and free
\* buf_ (which takes the segments off len_ but not off pending_len_), then the
\* source stops.  Paths still connecting are not touched.
Stop ==
    LET stopping == {p \in usable_path : ~path_stop[p]}
        gone == [p \in Paths |-> IF p \in stopping THEN Cardinality(DOMAIN buf[p]) ELSE 0]
    IN  /\ stop' = TRUE
        /\ running' = FALSE
        /\ path_stop' = [p \in Paths |-> path_stop[p] \/ p \in stopping]
        /\ buf' = [p \in Paths |-> IF p \in stopping THEN <<>> ELSE buf[p]]
        /\ len' = [p \in Paths |-> len[p] - gone[p]]
        /\ freed' = [p \in Paths |-> freed[p] + gone[p]]
        /\ UNCHANGED <<trans_seq, pacer, pacing, pending_len, log, sent, overflow, connVars,
                       frame_seed, lost>>

Next ==
    \/ Connect
    \/ \E p \in Paths :
          \/ RetryConnect(p) \/ RecvConnect(p) \/ Lose(p)
          \/ RecvConnectAck(p) \/ DropConnectAck(p)
          \/ TimeToSendPacket(p) \/ PacingSendSegment(p) \/ SendPadding(p)
    \/ \E n \in 1..MaxSplit : \E to \in [0..(n - 1) -> pids] : SendVideo(n, to)
    \/ Stop

Spec == Init /\ [][Next]_vars

\* Timers fire, the pacer serves its queue, and a message sent again and again
\* is not lost every time.
FairSpec ==
    /\ Spec
    /\ \A p \in Paths :
          /\ WF_vars(RetryConnect(p)) /\ WF_vars(TimeToSendPacket(p))
          /\ WF_vars(PacingSendSegment(p))
          /\ SF_vars(RecvConnect(p)) /\ SF_vars(RecvConnectAck(p))
-----------------------------------------------------------------------------
PathState == {"path_ini", "path_conning", "path_conned"}
TransSeqs == 0..(SeqSpace - 1)

TypeOK ==
    /\ state \in [Paths -> PathState]
    /\ rx_timer \cup connects \cup acks \cup syn_path \cup usable_path
          \cup pids \cup pacing \subseteq Paths
    /\ {stop, running, late} \subseteq BOOLEAN
    /\ path_stop \in [Paths -> BOOLEAN]
    /\ frame_seed \in 1..(MaxFrames + 1)
    /\ trans_seq \in [Paths -> TransSeqs]
    /\ \A p \in Paths :
          /\ DOMAIN buf[p] \subseteq TransSeqs
          /\ \A q \in DOMAIN buf[p] : buf[p][q] \in DOMAIN log[p]
          /\ pacer[p] \in Seq(TransSeqs)
          /\ \A k \in DOMAIN log[p] :
                log[p][k] \in [fid : 1..(frame_seed - 1), index : 0..(MaxSplit - 1)]
          /\ sent[p] \in Seq(DOMAIN log[p])
          /\ {len[p], pending_len[p], overflow[p], freed[p]} \subseteq Nat
    /\ lost \in Nat

\* No segment is lost between SendVideo and the buffer of a path: the "fatal
\* packet schedule error" of PacketSchedule does not occur, and no path refuses
\* a segment it is given, even when Stop and connects interleave with frames.
\* And the source runs only while the scheduler has a path to choose: round
\* robin divides by the number of paths.
NothingLost ==
    /\ TypeOK
    /\ lost = 0
    /\ pids = usable_path
    /\ running => pids # {}
    /\ \A p \in pids : state[p] = "path_conned"

\* Each segment a path took is buffered, was sent, was freed by Stop or found
\* its slot taken: it is in one of these places and was sent at most once.
\* len_ counts the buffer and, for good, the segments whose slot was taken, and
\* pending_len_ counts the same until Stop, which corrects len_ only.
Buffered(p) == {buf[p][q] : q \in DOMAIN buf[p]}
SegmentsAccounted ==
    \A p \in Paths :
        /\ Len(log[p]) = Cardinality(DOMAIN buf[p]) + Len(sent[p]) + freed[p] + overflow[p]
        /\ Cardinality(Buffered(p)) = Cardinality(DOMAIN buf[p])
        /\ IsInjective(sent[p])
        /\ Buffered(p) \cap ToSet(sent[p]) = {}
        /\ len[p] = Cardinality(DOMAIN buf[p]) + overflow[p]
        /\ ~path_stop[p] => pending_len[p] = len[p]

\* A segment overtakes an earlier one of its path only where the sixteen-bit
\* transport seq wraps around within the buffer: on a path that paces itself,
\* where the least seq goes first, or after a slot was found taken.
Wrapped(p) == \E q, r \in DOMAIN buf[p] : q < r /\ buf[p][q] > buf[p][r]
Overtakes(p) == \E k \in Buffered(p) : k < Last(sent'[p])
OrderKept ==
    [][\A p \in Paths :
          sent'[p] # sent[p] /\ Overtakes(p) =>
              overflow[p] > 0 \/ (PaceMode[p] = "no_webrtc" /\ Wrapped(p))]_vars

\* After Stop no path has, or sends, a segment, not even one that connects
\* afterwards; the source runs only if such a path has started it again.
QuietAfterStop ==
    stop => /\ \A p \in Paths : buf[p] = <<>>
            /\ running => late

\* A path that sent CONNECT becomes usable in the end, whatever single messages
\* are lost, and even after Stop (rxTimer_).
PathsConnect == \A p \in Paths : state[p] = "path_conning" ~> p \in usable_path

\* A path that has segments buffered gets rid of them and of all that is put
\* behind them meanwhile, whichever numbers that got, unless it stops (the pacer's
\* queue, TimeToSendPacket and m_pacing_); that they leave by being sent,
\* SegmentsAccounted says.  It needs the frames to end: were they to come for ever
\* and faster than a path sends, its buffer need never be empty, and on a path that
\* paces itself a segment left behind by the wrap of its transport seq could wait
\* for ever, since get_segment takes the least key.
SegmentsLeave ==
    \A p \in Paths : Buffered(p) # {} ~> Buffered(p) = {} \/ path_stop[p]
=============================================================================
