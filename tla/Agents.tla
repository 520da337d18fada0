------------------------------- MODULE Agents -------------------------------
(***************************************************************************)
(* The agents of fun_test: a TSendAgent numbers the segments of its frames *)
(* and puts them into a TPacedSender, which asks for them at its pacing    *)
(* rate; a TRecvAgent notes their arrival and its webrtc proxy reports the *)
(* arrivals back.  The messages are encoded and decoded as in Wire.        *)
(*                                                                         *)
(* Time is counted in intervals of kMinPacketLimitMs, rates in bytes per   *)
(* interval.  External, and modelled from how the agents use it: webrtc's  *)
(* IntervalBudget, PacketQueue, RemoteEstimatorProxy and                   *)
(* TransportFeedbackAdapter, and the network, which loses packets.         *)
(***************************************************************************)
EXTENDS Wire, FiniteSets, FiniteSetsExt, Functions

CONSTANTS
    Lengths,      \* bytes of a frame the generator may offer
    MaxFrames,    \* bound of the model: frames offered
    MaxSegments,  \* bound of the model: segments made
    HeaderSize,   \* SIM_SEGMENT_HEADER_SIZE
    Rates,        \* the pacing rates
    StartRate,    \* the one at first (rate_)
    MaxInterval,  \* kMaxIntervalTimeMs
    Elapses,      \* intervals between two calls of Process
    Window,       \* intervals a budget reaches back (500 ms)
    FeedbackSize, \* SIM_FEEDBACK_SIZE, in arrivals
    HasObserver,  \* an observer is registered
    MaxSwitches   \* bound of the model: calls of Pause, Resume and UpdateRate

ASSUME AgentsAssumption ==
    /\ Lengths \subseteq Nat /\ HeaderSize \in Nat \ {0}
    /\ Rates \subseteq Nat \ {0} /\ IsFiniteSet(Rates) /\ StartRate \in Rates
    /\ Elapses \subseteq Nat /\ MaxInterval \in Nat /\ Window \in Nat
    /\ MaxFrames \in Nat /\ HasObserver \in BOOLEAN

\* A budget reaches back further than one packet.
ASSUME WindowAssumption == \A r \in Rates : r * Window >= HeaderSize + SIM_VIDEO_SIZE

\* The assertion of OnFrame keeps a frame below MAX_SPLIT_NUMBER segments, and
\* SIM_FEEDBACK_SIZE is a number of two bytes.
ASSUME WidthAssumption ==
    /\ \A length \in Lengths : length \div SIM_VIDEO_SIZE < U16_MAX
    /\ FeedbackSize \in 0..U16_MAX

VARIABLES
    sender,        \* running_ of the TSendAgent: created, running or stopped
    receiver,      \* the same of the TRecvAgent
    pm,            \* the process thread of the pacer: none, on or off
    made,          \* history: the segments in the order of their making
    frame_seed,    \* frame_seed_
    buf,           \* buf_, transport seq to the number of the segment in made
    packets,       \* packets_ of the pacer: the queued [seq, bytes]
    rate,          \* pacing_bitrate_kbps_
    target,        \* the target rate of media_budget_
    budget,        \* bytes_remaining_ of media_budget_
    paused,        \* paused_
    pending_len,   \* pending_len_
    sent,          \* history: the number of the segment of each transmission
    sent_ts_map,   \* sent_ts_map_, transport seq to the transmission
    history,       \* the transmissions the adapter still waits for
    first_packet,  \* first_packet_
    arrived,       \* the transmissions the proxy has not reported
    seg_net,       \* encoded segments in the network
    fb_net,        \* encoded feedback in the network
    received,      \* history: the decoded segments
    reports,       \* history: each call of owd_cb_, [seq, tx, sent_ts]
    skipped,       \* history: segments popped while the agent was not running
    leaked,        \* history: segments that found their slot in buf_ taken
    stale,         \* history: transmissions that found theirs in sent_ts_map_ taken
    ahead,         \* history: bytes sent ahead of the pacing rate
    switches       \* counts Pause, Resume and UpdateRate

pacerVars == <<packets, rate, target, budget, paused>>
netVars == <<seg_net, fb_net>>
recvVars == <<receiver, first_packet, arrived, received>>
sentVars == <<sent, sent_ts_map, history, stale, skipped, ahead>>
frameVars == <<made, frame_seed, buf, pending_len, leaked>>
vars == <<sender, pm, pacerVars, netVars, recvVars, sentVars, frameVars,
          reports, switches>>

packet_counter == Len(made)
uid == 1234
pid == 1 % W8

Init ==
    /\ sender = "created" /\ receiver = "created"
    /\ pm = "none" /\ made = <<>> /\ frame_seed = 1 /\ buf = <<>> /\ packets = <<>>
    /\ rate = StartRate /\ target = 0 /\ budget = 0 /\ paused = FALSE /\ pending_len = 0
    /\ sent = <<>> /\ sent_ts_map = <<>> /\ history = {}
    /\ first_packet = TRUE /\ arrived = {} /\ seg_net = <<>> /\ fb_net = <<>>
    /\ received = {} /\ reports = <<>> /\ skipped = {} /\ leaked = {} /\ stale = {}
    /\ ahead = 0 /\ switches = 0
-----------------------------------------------------------------------------
(***************************************************************************)
(* Making segments.                                                        *)
(***************************************************************************)
Overhead(seg) == seg.data_size + HeaderSize

\* FrameSplit: full segments, then the rest if there is one.
FrameSplit(size) ==
    IF size <= SIM_VIDEO_SIZE THEN <<size>>
    ELSE [i \in 1..(size \div SIM_VIDEO_SIZE) |-> SIM_VIDEO_SIZE]
           \o (IF size % SIM_VIDEO_SIZE > 0 THEN <<size % SIM_VIDEO_SIZE>> ELSE <<>>)

\* The i-th segment of the frame.  data stands for the bytes: it is the number
\* of the segment.
Segment(splits, i) ==
    [fid |-> frame_seed, timestamp |-> frame_seed, index |-> i - 1, total |-> Len(splits),
     payload_type |-> 0, remb |-> 1, packet_id |-> 0, send_ts |-> 0,
     transport_seq |-> (Len(made) + i) % W16,
     data_size |-> splits[i], data |-> Len(made) + i]

\* The sum of a sequence of numbers.
Sum(s) ==
    LET upto[k \in 0..Len(s)] == IF k = 0 THEN 0 ELSE upto[k - 1] + s[k]
    IN  upto[Len(s)]

\* buf_.insert leaves a taken slot as it is, while the pacer gets the number
\* in any case.
Buffer(segs) ==
    LET with(q) == {i \in 1..Len(segs) : segs[i].transport_seq = q}
    IN  [q \in DOMAIN buf \cup {segs[i].transport_seq : i \in 1..Len(segs)} |->
            IF q \in DOMAIN buf THEN buf[q] ELSE segs[Min(with(q))].data]

\* OnFrame, from SendFrame of the generator: the first frame makes the pacer
\* and starts its process thread, whether or not the agent is running.
OnFrame(length) ==
    LET splits == FrameSplit(length)
        segs == [i \in 1..Len(splits) |-> Segment(splits, i)]
    IN  /\ frame_seed <= MaxFrames /\ Len(made) + Len(splits) <= MaxSegments
        /\ pm' = IF pm = "none" THEN "on" ELSE pm
        /\ made' = made \o segs
        /\ frame_seed' = frame_seed + 1
        /\ buf' = Buffer(segs)
        /\ leaked' = leaked \cup ({segs[i].data : i \in 1..Len(segs)} \ Range(Buffer(segs)))
        /\ packets' = packets \o [i \in 1..Len(segs) |->
                          [seq |-> segs[i].transport_seq, bytes |-> Overhead(segs[i])]]
        /\ pending_len' = pending_len + Sum([i \in 1..Len(segs) |-> Overhead(segs[i])])
        /\ UNCHANGED <<sender, rate, target, budget, paused, netVars, recvVars, sentVars,
                       reports, switches>>
-----------------------------------------------------------------------------
(***************************************************************************)
(* The pacer.                                                              *)
(***************************************************************************)
Bytes(k) == Sum([j \in 1..k |-> packets[j].bytes])
Least(a, b) == IF a < b THEN a ELSE b
Greatest(a, b) == IF a > b THEN a ELSE b

\* IncreaseBudget for e intervals at rate r: what was used too much is paid
\* back, what was not used is not kept.
IncreaseBudget(r, e) ==
    IF e = 0 THEN budget
    ELSE LET owed == Greatest(budget, -(r * Window))
         IN  Least(r * Window, IF owed < 0 THEN owed + r * e ELSE r * e)

\* A debt reaches back as far as the target rate of the last increase allows.
UseBudget(r, b, n) == Greatest(b - n, -(r * Window))

\* How many packets Process takes from the queue: a packet goes while any byte
\* of the budget is left, however large the packet.
Popped(b) == Min({k \in 0..Len(packets) : k = Len(packets) \/ Bytes(k) >= b})

\* Faulty variant: the segment stays in buf_.
TimeToSendPacketKeep(s, packet) ==
    IF sender # "running" \/ packet.seq \notin DOMAIN s.buf THEN s
    ELSE [s EXCEPT !.sent = Append(@, s.buf[packet.seq]),
                   !.pending = IF HasObserver THEN @ - Overhead(made[s.buf[packet.seq]]) ELSE @,
                   !.ahead = @ + Overhead(made[s.buf[packet.seq]])]

\* TimeToSendPacket: the segment of that number, if there is one, goes out.
\* sent_ts_map_.insert leaves a taken slot as it is.  An agent that is not
\* running says true all the same, and the segment stays in buf_.
TimeToSendPacket(s, packet) ==
    IF sender # "running" \/ packet.seq \notin DOMAIN s.buf THEN s
    ELSE LET seg == made[s.buf[packet.seq]]
             t == Len(s.sent) + 1
             taken == packet.seq \in DOMAIN s.ts
         IN  [buf |-> Restrict(s.buf, DOMAIN s.buf \ {packet.seq}),
              sent |-> Append(s.sent, s.buf[packet.seq]),
              pending |-> IF HasObserver THEN s.pending - Overhead(seg) ELSE s.pending,
              ts |-> [q \in DOMAIN s.ts \cup {packet.seq} |-> IF q \in DOMAIN s.ts THEN s.ts[q] ELSE t],
              stale |-> IF taken THEN s.stale \cup {t} ELSE s.stale,
              ahead |-> s.ahead + Overhead(seg)]

SendToNetwork(i) ==
    EncodeMsg([ver |-> pid, mid |-> "SIM_SEG", uid |-> uid], SegmentEncode(made[i]))

\* Process, when not paused: the budget grows by the time since the last call,
\* then packets are popped while some of it is left.
Pace(interval, e) ==
    LET b == IncreaseBudget(rate, interval)
        n == Popped(b)
        before == [buf |-> buf, sent |-> sent, pending |-> pending_len, ts |-> sent_ts_map,
                   stale |-> stale, ahead |-> Greatest(0, ahead - rate * e)]
        after[k \in 0..n] == IF k = 0 THEN before ELSE TimeToSendPacket(after[k - 1], packets[k])
        s == after[n]
        new == (Len(sent) + 1)..Len(s.sent)
    IN  /\ packets' = SubSeq(packets, n + 1, Len(packets))
        /\ target' = IF interval = 0 THEN target ELSE rate
        /\ budget' = IF n = 0 THEN b ELSE UseBudget(target', b, Bytes(n))
        /\ buf' = s.buf /\ sent' = s.sent /\ pending_len' = s.pending /\ sent_ts_map' = s.ts
        /\ stale' = s.stale /\ ahead' = s.ahead
        /\ history' = history \cup new
        /\ seg_net' = seg_net \o [k \in 1..Cardinality(new) |-> SendToNetwork(s.sent[Len(sent) + k])]
        /\ skipped' = IF sender = "running" THEN skipped
                      ELSE skipped \cup {buf[q] : q \in DOMAIN buf \cap {packets[k].seq : k \in 1..n}}

\* Process, when paused: one byte of padding is asked for.  TimeToSendPadding
\* sends nothing but returns the byte, so that it is charged.
Pad(e) ==
    /\ budget' = IF packet_counter > 0 THEN UseBudget(target, budget, 1) ELSE budget
    /\ ahead' = Greatest(0, ahead - rate * e)
    /\ UNCHANGED <<packets, target, buf, sent, pending_len, sent_ts_map, stale, history,
                   seg_net, skipped>>

\* Faulty variant: the interval is not capped.
ProcessUncapped(e) ==
    /\ pm = "on"
    /\ IF paused THEN Pad(e) ELSE Pace(e, e)
    /\ UNCHANGED <<sender, pm, rate, paused, fb_net, recvVars, made, frame_seed, leaked,
                   reports, switches>>

\* Process, e intervals after the last call.
Process(e) ==
    /\ pm = "on"
    /\ IF paused THEN Pad(e) ELSE Pace(Least(e, MaxInterval), e)
    /\ UNCHANGED <<sender, pm, rate, paused, fb_net, recvVars, made, frame_seed, leaked,
                   reports, switches>>

\* Pause and Resume, and UpdateRate, which reaches the budget with the next
\* Process only.
Switch ==
    /\ switches < MaxSwitches /\ switches' = switches + 1
    /\ \/ pm # "none" /\ paused' = ~paused /\ UNCHANGED rate
       \/ rate' \in Rates \ {rate} /\ UNCHANGED paused
    /\ UNCHANGED <<sender, pm, packets, target, budget, netVars, recvVars, sentVars, frameVars,
                   reports>>

StartSender ==
    /\ sender = "created" /\ sender' = "running"
    /\ UNCHANGED <<pm, pacerVars, netVars, recvVars, sentVars, frameVars, reports,
                   switches>>

\* StopApplication stops the process thread if there is one.  A first frame that
\* comes later makes one all the same.
StopSender ==
    /\ sender = "running" /\ sender' = "stopped"
    /\ pm' = IF pm = "none" THEN "none" ELSE "off"
    /\ UNCHANGED <<pacerVars, netVars, recvVars, sentVars, frameVars, reports, switches>>
-----------------------------------------------------------------------------
(***************************************************************************)
(* The receiver and the way back.                                          *)
(***************************************************************************)
\* The transmission that an encoded segment is: with the adapter, which unwraps
\* the sixteen bits, it is known by its number.
Transmission(i) == CHOOSE t \in 1..Len(sent) : sent[t] = i

\* RecvPacket and ProcessingMsg of the TRecvAgent: the first packet makes the
\* proxy; a segment is noted by a running agent only.
RecvSegment ==
    /\ seg_net # <<>>
    /\ seg_net' = Tail(seg_net)
    /\ first_packet' = FALSE
    /\ LET strm == Head(seg_net)
           header == DecodeHeader(strm)
           seg == SegmentDecode(Rest(strm))
       IN  IF receiver = "running" /\ CrcOK(strm) /\ header.mid = "SIM_SEG"
           THEN /\ received' = received \cup {seg}
                /\ arrived' = arrived \cup {Transmission(seg.data)}
           ELSE UNCHANGED <<received, arrived>>
    /\ UNCHANGED <<sender, receiver, pm, pacerVars, fb_net, sentVars, frameVars, reports,
                   switches>>

\* The network loses a segment.
LoseSegment ==
    /\ seg_net # <<>>
    /\ seg_net' = Tail(seg_net)
    /\ UNCHANGED <<sender, pm, pacerVars, fb_net, recvVars, sentVars, frameVars, reports,
                   switches>>

\* SendTransportFeedback, from the proxy: feedback that is too large is not
\* sent, or it is lost on the way, and what it reports is not reported again.
SendTransportFeedback ==
    /\ ~first_packet /\ receiver # "stopped"
    /\ arrived # {}
    /\ arrived' = {}
    /\ \/ UNCHANGED fb_net
       \/ /\ Cardinality(arrived) <= FeedbackSize
          /\ fb_net' = Append(fb_net,
                 EncodeMsg([ver |-> pid, mid |-> "SIM_FEEDBACK", uid |-> 4321],
                           FeedbackEncode([base_packet_id |-> 0, feedback |-> arrived,
                                           feedback_size |-> Cardinality(arrived)])))
    /\ UNCHANGED <<sender, receiver, pm, pacerVars, seg_net, first_packet, received,
                   sentVars, frameVars, reports, switches>>

StartReceiver ==
    /\ receiver = "created" /\ receiver' = "running"
    /\ UNCHANGED <<sender, pm, pacerVars, netVars, first_packet, arrived, received,
                   sentVars, frameVars, reports, switches>>

\* StopApplication deregisters the proxy.
StopReceiver ==
    /\ receiver = "running" /\ receiver' = "stopped"
    /\ UNCHANGED <<sender, pm, pacerVars, netVars, first_packet, arrived, received,
                   sentVars, frameVars, reports, switches>>

\* One packet of a report: the entry of its number in sent_ts_map_ is used up;
\* without one the time is 0.
Report(s, t) ==
    LET seq == made[sent[t]].transport_seq
    IN  [ts |-> Restrict(s.ts, DOMAIN s.ts \ {seq}),
         reports |-> Append(s.reports, [seq |-> seq, tx |-> t,
                      sent_ts |-> IF seq \in DOMAIN s.ts THEN s.ts[seq] ELSE 0])]

\* The elements of a set of numbers in increasing order.
Ascending(S) ==
    {s \in [1..Cardinality(S) -> S] : \A i, j \in 1..Cardinality(S) : i < j => s[i] < s[j]}

\* IncomingFeedBack: the adapter knows the packets it still waits for, and
\* those that arrived are reported in their order.
IncomingFeedBack ==
    /\ fb_net # <<>>
    /\ fb_net' = Tail(fb_net)
    /\ LET strm == Head(fb_net)
           header == DecodeHeader(strm)
           fb == FeedbackDecode(Rest(strm), FeedbackSize)
       IN  IF sender = "running" /\ CrcOK(strm) /\ header.ver = pid /\ header.mid = "SIM_FEEDBACK"
           THEN \E known \in Ascending(fb.feedback \cap history) :
                   LET after[k \in 0..Len(known)] ==
                           IF k = 0 THEN [ts |-> sent_ts_map, reports |-> reports]
                           ELSE Report(after[k - 1], known[k])
                   IN  /\ sent_ts_map' = after[Len(known)].ts
                       /\ reports' = after[Len(known)].reports
                       /\ history' = history \ fb.feedback
           ELSE UNCHANGED <<sent_ts_map, reports, history>>
    /\ UNCHANGED <<sender, pm, pacerVars, seg_net, recvVars, sent, stale, skipped, ahead,
                   frameVars, switches>>

-----------------------------------------------------------------------------
Next ==
    \/ \E length \in Lengths : OnFrame(length)
    \/ \E e \in Elapses : Process(e)
    \/ Switch
    \/ StartSender \/ StopSender \/ StartReceiver \/ StopReceiver
    \/ RecvSegment \/ LoseSegment \/ SendTransportFeedback \/ IncomingFeedBack

Spec == Init /\ [][Next]_vars
-----------------------------------------------------------------------------
(***************************************************************************)
(* Properties.                                                             *)
(***************************************************************************)
\* Every segment of OnFrame is in one place: sent, once, waiting in buf_, or
\* lost to a slot that was taken, which needs more segments than numbers.  What
\* waits is queued in the pacer, unless the pacer asked for it while the agent
\* was not running; as long as nothing is lost, segments leave in their order;
\* and pending_len_ counts, if someone observes, exactly the bytes not sent.
Queued == {packets[k].seq : k \in DOMAIN packets}
Total(ids) == Sum([k \in 1..Len(ids) |-> Overhead(made[ids[k]])])
SegmentsInPlace ==
    /\ IsInjective(sent)
    /\ UNION {Range(sent), Range(buf), leaked} = DOMAIN made
    /\ Len(sent) + Cardinality(DOMAIN buf) + Cardinality(leaked) = Len(made)
    /\ leaked # {} => Len(made) > W16
    /\ leaked = {} => \A j, k \in DOMAIN sent : j < k => sent[j] < sent[k]
    /\ \A q \in DOMAIN buf : q \in Queued \/ buf[q] \in skipped
    /\ pending_len = Total([i \in 1..Len(made) |-> i]) - (IF HasObserver THEN Total(sent) ELSE 0)

\* However Process is called, and whatever is paused and switched between its
\* calls, the agent never gets further ahead of its pacing rate than the one
\* capped interval and the one packet that Process allows.  Once a segment has
\* lost its slot its packet asks for another segment, which may be larger than
\* what the pacer charges.
MaxRate == Max(Rates)
PacedRate ==
    leaked = {} => ahead <= MaxRate * MaxInterval + HeaderSize + SIM_VIDEO_SIZE - 1

\* What the receiver decodes is the segment that was made, whatever the widths
\* of its numbers; each transmission is reported at most once, only if it
\* arrived, and with its own time, unless a transmission of the same number
\* found it taken in sent_ts_map_, which needs more segments than numbers.
Same(seg, orig) == \A f \in DOMAIN seg \ {"remb"} : seg[f] = orig[f]
NumberOf(t) == made[sent[t]].transport_seq
ReportsAreTrue ==
    /\ \A seg \in received : seg.data \in Range(sent) /\ Same(seg, made[seg.data])
    /\ \A k \in DOMAIN reports :
          /\ \A j \in DOMAIN reports : reports[j].tx = reports[k].tx => j = k
          /\ reports[k].tx \in DOMAIN sent /\ reports[k].seq = NumberOf(reports[k].tx)
          /\ \E seg \in received : seg.data = sent[reports[k].tx]
          /\ \/ reports[k].sent_ts = reports[k].tx
             \/ \E t \in stale : NumberOf(t) = reports[k].seq
    /\ stale # {} => Len(made) > W16
    /\ \A q \in DOMAIN sent_ts_map : sent_ts_map[q] \in history
=============================================================================
