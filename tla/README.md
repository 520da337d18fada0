# Specifications of mp-video-simulation

TLA+ models of the multipath video transport in `ns3/mp-video/model`, checked
with TLC and, where it matters most, proved with TLAPS.

The program is a set of ns-3 applications. A sender splits each video frame
into packets and spreads them over several UDP paths; a receiver puts the
frames together again and delivers them in order. ns-3 is a discrete-event
simulator with one thread: every handler (a packet arrives, a timer fires, an
application starts or stops) runs to its end before the next one. Concurrency
is therefore the order of events: packets are lost, reordered by paths of
different delay and sometimes duplicated, and timers fire between them. Each
handler is one action of a model, with every synchronous call it makes.

The code has two generations. **v0** (`PathSender`, `MultipathSender`,
`PathReceiver`, `MultipathReceiver`) has a connection handshake, a binary wire
format (`sim_proto`) and WebRTC congestion control. **v1** (`PathSenderV1`,
`MpSenderV1`, `PathReceiverV1`, `MpReceiverV1`) uses QUIC-style headers,
retransmits, and is paced by variants of BBR.

## Inventory

| part | state | operations | interacts with | hard behaviour | what makes it correct |
|---|---|---|---|---|---|
| v0 `PathReceiver` | `base_seq_`, `max_seq_`, `loss_`, `recv_table_`, `stop_`, `ack_ts_` | CONNECT, SEG, PAD, PING/PONG, `Consume`, `Stop` | answers the path sender; calls `DeliverToCache`, is called back by `Consume` | loss, reordering, duplicates; the tables are trimmed from two sides | tables exact, base honest, acks true, filter sound |
| v0 `MultipathReceiver` | `frame_cache_`, `min_fid_`, `recv_buf_len_`, `deliver_` | `DeliverToCache`, `HeartBeat`, `RegisterDataSink`, `Stop` | its paths, the decoder | frames of several paths interleave; deadlines; key frames that wait | order, no frame twice, counters exact, nothing waits needlessly |
| v0 `PathSender` | `state`, `rxTimer_`, `buf_`, `len_`, `pending_len_`, `trans_seq_`, `packet_seed_` | `SendConnect`, CONNECT_ACK, `put`, `get_segment`, pacing, padding, `Stop` | peer, `MultipathSender`, WebRTC pacer | retries against late acks, sequence wrap, stop during either | every segment accounted, order kept, quiet after stop |
| v0 `MultipathSender` | `syn_path_`, `usable_path_`, `pending_buf_`, `stop_` | `Connect`, `NotifyPathUsable`, `SendVideo`, `PacketSchedule`, `Stop` | scheduler, paths, source | a path becomes usable or stops while frames flow | no segment without a path, quiet after stop |
| schedulers, v0 and v1 | `pids_`, `last_index_`, `cost_table_`, `psi_table_`, weights | `RegisterPath`, `UnregisterPath`, `IncomingPackets` | `GetPathInfo`, `PacketSchedule` | rounding, zero rates, stale tables, loops that end only if a level rises | each packet of a frame placed once, on a known path with a rate; ratios conserved |
| video source | `running_`, `m_timer` | `Start`, `Stop`, `Generate` | `SendVideo` | started by each path that connects | runs only with a path |
| v1 sender | `pend_buf_`, `sent_buf_`, queues, `seq_id_map_`, `recv_seq_` | `OnVideoFrame`, `OnAck`, `DetectLoss`, `PacketRetrans`, `CheckStalePacket`, `OnNetworkStop` | BBR, scheduler | loss inferred from reordered or missing acks | each loss reported once, accounting of bytes |
| v1 receiver | `frames_`, `delivered_fid_` | `OnVideoPacket`, `CheckDeliverable`, `StopReceiver` | acks every packet | expiry against late packets | order, bounded waiting |
| mock sender and receiver | `seq_`, `recv_seq_`, `seq_delay_map_` | `HeartBeat`, `OnAck`, `DetectLoss` | a BBR controller, the pacer | losses inferred from gaps; three classes forget the same packets by three loops | tables agree, each loss reported once, one report more at the end |
| BBR versions 1 to 5, sampler | mode, gain cycle, round counters, `sent_packets_map_`, `packet_infos_`, clusters | `OnPacketSent`, `OnAck` | the v1 path sender and the mock sender | mode machines driven by several counters; requests carried out later; pointers into a map that others trim | in-flight accounting, a round lasts a round trip, measurements after a back-off are fresh |
| `fun_test` agents and pacer | `buf_`, `sent_ts_map_`, `pending_len_`, queue, budget, `paused_` | `OnFrame`, `Process`, `TimeToSendPacket`, `IncomingFeedBack`, start and stop | each other over the wire format; WebRTC's adapter and proxy | sixteen-bit numbers as keys, feedback lost, the pacer running without its agent | each segment in one place, the pace kept, reports true |
| wire formats | the stream and its cursor | encode and decode of each message, checksum | every agent | field widths chosen by value and read by a mark | what is decoded is what was encoded |
| traces, portability, ideal encoder and pacer | | | | | not modelled |

`PROJECT.json` lists the hazards of this code one by one, each at its line.

## Modules

| module | models |
|---|---|
| `PathTables` | the four tables of a path receiver as one record and each member function on them as an operator |
| `PathReceiver` | one path receiver (`pathreceiver.cc`) against an arbitrary network and an arbitrary consumer |
| `PathReceiverProofs` | lemmas about the operators of `PathTables`, which the proofs about both modules that use them cite, and theorems about `PathReceiver` |
| `InOrderDelivery` | abstract specification: what the receiving side promises the decoder |
| `MultipathReceiver` | `mpreceiver.cc` composed with the tables of all its paths; implements `InOrderDelivery` |
| `MultipathReceiverProofs` | theorems about it, the refinement among them |
| `MultipathSender` | `mpsender.cc` and `pathsender.cc`: handshake, scheduling, buffers, pacing, stop |
| `MultipathSenderProofs` | theorems about it |
| `SenderV1` | `mp_sender_v1.cc`, `path_sender_v1.cc`, `interface_v1.cc`: queues, transmissions, acks, loss detection, retransmission, ageing |
| `ReceiverV1` | `mp_receiver_v1.cc`, `video_proto.cc`: the frame buffer; implements `InOrderDelivery` too |
| `SenderV1Proofs` | theorems about `SenderV1`: the sequence numbers, the queues and losses, the places of a packet |
| `ReceiverV1Proofs` | theorems about `ReceiverV1` |
| `WeightedRoundRobin`, `WaterFilling` | the two algorithms several schedulers share (`wrr.cc`, the table of `waterfillingschedule.cc` and `sflschedule.cc`), as operators |
| `Schedulers` | every scheduler of both generations over paths that come, go, change their rate and drain |
| `SchedulersProofs` | theorems about `Schedulers`, with what the sums, the folds and the two algorithms return |
| `MySampler` | `congestion/sampler.cc` as a record and its member functions |
| `BbrSender` | versions 2 to 5 of the BBR controller (`bbr_sender_v2.cc` to `bbr_sender_v5.cc`), in the same way |
| `BbrSenderV1` | version 1 (`bbr_sender_v1.cc`) |
| `MockSession` | `mock_sender.cc`, `mock_receiver.cc` and any one of the controllers, over a network that loses and reorders |
| `MockSessionProofs` | theorems about it |
| `Wire` | `sim_proto`, `cf_stream`: streams, field widths, checksum |
| `Agents` | the agents and the paced sender of `fun_test`, with every message encoded and decoded by `Wire` |
| `AgentsProofs` | theorems about them, with what the sums, the recursions and the decoder return |
| `MC...` | instances for TLC |

Definitions whose comment says *Faulty variant* stand next to the definition
they are a wrong version of. No specification uses them: they show that each
property fails when the code is wrong.

### PathTables and PathReceiver

`table` is `[base, max, loss, recv]`. `Accept` is the middle of
`OnReceiveSegment` (origin, `UpdataLoss`, `max_seq_`, `UpdataRecvTable`),
`Consume` is `LossTableRemoveUntil` then `RecvTableRemoveUntil`. The loops of
the code walk ordered sets; the operators say what they compute without
recursion, e.g. `AdvanceBase` moves the base to just before the first id not in
`recv_table_`. The network is the existential choice of the segment: any id,
in any order, any number of times. `VideoRealAck` sends or holds back (its
time test is a choice). The MultipathReceiver is a consumer that may release
any packet it got, in increasing order; `MultipathReceiver` shows that it does.
`crashed` records that padding before the first segment dereferences a null
`controller_`.

### MultipathReceiver

Reception, `DeliverToCache`, `CheckDeliverFrame`, and the `Consume` calls back
into every path are one action, split by outcome: `RecvLate`, `RecvCollision`,
`RecvStored` (a refused packet changes nothing). `Layout[p][s]` says which
packet of which frame is packet `s` of path `p`; it is a constant, because the
sender fixes it before anything can arrive. That a path carries its packets in the
order of frames and indexes (`LayoutAssumption`) is read from the sender and not a
property of a run: every `IncomingPackets` walks the frame's packets, a map by their
index, in ascending order, and `put` numbers them as they come. `begun` is the frame
of the segment that came first on each path, from which the path takes its origin.
Time is the number of frames older than `max_frame_waitting`;
capture times grow with frame numbers, so that is one counter. (Without the
frame-info trace callback the code measures ages from zero and all deadlines
have passed from the second second on; those behaviours are the ones where
`Tick` runs ahead.) Without a sink, frames that leave are erased but
`min_fid_` and `recv_buf_len_` do not move; the model keeps that.

`InOrderDelivery` is the promise: in order, once, no held frame jumped over, an
incomplete frame only past its deadline and a key frame never. When deadlines
pass is left to the receiver. `KeepsPromise` is the refinement, with `have`
mapped to the `recv` counters, `out` to the frames forwarded and `late` to the
ordinary frames among the first `clock`.

### MultipathSender

Connecting: `SendConnect` (from `Connect` and from `rxTimer_`), the peer's
answer, the ack. CONNECT and CONNECT_ACK may be lost or stay as copies.
`NotifyPathUsable` tells the scheduler and starts the source. `SendVideo` is
the whole chain `FrameSplit`, `SchedulePendingBuf`, `IncomingPackets`,
`PacketSchedule`, `put`; `pending_buf_` is empty again at its end and needs no
variable. `buf` maps transport numbers, which wrap at `SeqSpace`, to packet
ids; `pacer` is the queue of the WebRTC pacer (external: FIFO of numbers), and
`pacing` the own timer of `no_webrtc` paths, which takes the least number first.
`Stop` frees the buffers of usable paths and leaves connecting ones alone.
`con_c`, round-trip times, costs and `sent_buf_` (which nothing fills) are left out.

### SenderV1

Video packets have ids of the session; every transmission of a path has a
sequence number of the path. `Transmit` is the part `SendStreamPacket` and
`SendPaddingPacket` share: it takes the next number and remembers in
`seq_id_map` what it carried (0 is padding). The network, the path receivers and
the way back are one: `flight[p]` has the numbers an ack may still come for, in
any order or never (`PathReceiverV1` acks each arrival and keeps no state about it).
`OnAck` is the whole chain `DetectLoss`, `OnPacketLost`, `RetransPackets`,
`PacketRetrans`, `OnVideoPacket`; the target of a retransmission is any other
registered path, since round-trip times are not modelled, but the same for
all losses of one ack. `stale` counts the packets past
`max_packet_delay_threshold`, in the order of their creation. `pend_buf_` is
empty at the end of `OnVideoFrame` and needs no variable, and the scheduler is
any assignment to registered paths. The permission of the pacer and of
`ShouldSendProbePacket` is a choice. Two things this code does are kept as they are:
`OnNetworkStop` of one path ends the scheduling for all, and
a path that has stopped stays in `usable_paths_` and gets acks and even, when one
path is left, retransmissions that it will never send. `MaxSends` bounds the
transmissions of all paths together, so that three paths remain within reach.

### ReceiverV1

`frames` is the partial function `frames_`, with the counter and the flag of each
`VideoFrameBuffer`. Any packet may arrive at any time and again, since a
retransmission is a second copy. `recent` replaces the
clock: the frames in the order in which `max_recv_ts_` moved last, without those for
which `max_frame_wait` has passed. `Expire` takes the first off.
Unlike in v0 frames leave from the heartbeat only. `KeepsPromise` maps to
`InOrderDelivery` with no key frames, `late` as the expired frames, and a sink from
the start.

### Schedulers

`kind` picks the scheduler; each `IncomingPackets` is an action of its own and
`SingleFrame` their common early returns. What a scheduler reads of a path (rate,
delay, pending bytes) is the environment; pending bytes grow while a frame is being
placed, because `PacketSchedule` puts each packet on its path at once, and that is
what `Greedy` computes. Where the code runs past an iterator, divides by zero or
loops for ever the result says `undefined` or `endless` and nothing follows;
`GoesWrongOnlyWhen` names the situations in which it does, and shows that there are
no others: no path with a rate, shares that all round to nothing, a water level
whose step is zero, the first path's share taken for every path (`scale`), and a path
that registers with a running EDCLD of v0, whose sender answers NULL for it because
`NotifyPathUsable` registers the path before it inserts it into `usable_path_`.
`psi_table` is in parts of `Unit`, so that it is exact where the code has doubles;
the root of EDCLD's equation is any of a set of values, which covers what rounding
makes of it. `ResetPsi` keeps the ratios that are there, as `map.insert` does.
`RandomSchedule` is not modelled: `randomschedule.cc` has the interface of an earlier
version and nothing builds it in.

### BBR and the mock session

A controller is a record and each member function an operator on it; where versions
differ the operator's name ends in the version. Rates, times and gains are
abstract: `Findings` and `FindingsV1` say what one acknowledgement may find (the
bandwidth grew, the flight has drained, the estimate of a cluster is complete ...) and
leave everything after that to the code, in its order. Kept exactly are packet
numbers, tables, byte counts, round counters, modes, gain offsets, back-off marks and
clusters. `SentClusterInfo` and the pacer are not part of the repository and are
modelled from how they are used: a cluster reports once, in the order of the cluster
numbers, and the pacer lets a packet go or not.
`MockSession` adds the sender's own table (`seq_delay_map_`), its loss detection and a
network that keeps no order and loses both ways. `losses` is everything
`trace_loss_cb_` gets, in order. `StopApplication` calls it too, with `recv_seq_`, which
marks the end of the trace and is no loss; `closing` is the place of that report, and
`LossesAreExact` says that it names a number that was acknowledged (or 0) and stands
between the losses detected below it and those an ack finds after the stop.

### Agents and Wire

A stream of `Wire` is the sequence of its fields with their widths; a read of the
wrong width gives garbage, and what is written to one or two bytes is taken modulo the
width. The checksum is the content. `W8` and `W16` shrink the widths so that TLC
crosses their bounds. Messages other than segment and feedback have fields of fixed
width only and are not modelled, nor is the resizing of the stream. (`RecvPacket`
of `TRecvAgent`, `t_recvagent.cc` 70-73, copies each packet into the stream's 1024 bytes
as it is, and a full segment encodes to 1028. The copy and its bound are below what
`Wire` describes, where a stream has fields and no capacity; nothing is claimed of it.)
In `Agents` time is counted in intervals of the pacer's minimal packet limit.
`Process` asks for packets while any byte of the budget is left, and `ahead` measures
what left ahead of the rate. `target` is the rate the budget was last given: a new rate
reaches it with the next `Process` that finds time passed and the pacer not paused, so
that the padding of a paused pacer is charged against the old one. `TPace` runs the same calls as `TSendAgent` without a
network. The generator is any choice of frame lengths. External, modelled from use:
`IntervalBudget`, `PacketQueue`, `RemoteEstimatorProxy` and the feedback adapter, which
is taken to unwrap sixteen-bit numbers rightly, so that it knows transmissions. The
network loses (`LoseSegment`) and keeps order. Three things the
code does are kept: when the pacer is paused the byte of padding is charged though
nothing is sent; an agent that is not running answers that it has sent, so that its
segment stays in `buf_` and blocks its slot when the number comes round again; and
`StopApplication` before the first frame does not keep that frame from starting the
pacer. Probing is off, as the agents set it; `send_ts` stands in the message and is
not a number anything depends on.
`leaked`, `stale` and `ahead` are history: the segments that found their slot in `buf_`
taken, the transmissions that found theirs in `sent_ts_map_` taken, and the bytes sent ahead
of the rate. Two of the properties hold only with an exception that larger bounds and the
proofs made plain. Once a segment has lost its slot, its packet in the pacer's queue
names another segment, which may be larger than what is charged (a small frame
wrapping onto a large segment that waits), so `PacedRate` is stated for as long as nothing is lost.
And a transmission without an entry of its own uses up, when it is reported, the entry of a later
one of the same number, so the exception of `ReportsAreTrue` is about the number and not
about one transmission. Both need more segments than there are numbers of two bytes, which
the properties say too.

## Runs

| run | what it shows | bounds and why they are enough |
|---|---|---|
| `path_receiver` | tables exact, base honest, acks true, filter sound under any arrivals | 5 packets, 3 frames, one begun on another path, acks with 2 slots: gaps of more than the slots, origins 0 and above, duplicates on both sides of the base |
| `multipath_receiver` | buffer counters, what a path passes over under real `Consume` orders, refinement of `InOrderDelivery`, progress | 2 paths, 3 frames of 2 packets, a split key frame, a split and an unsplit ordinary frame; `MaxBufLen` 7 is one more than all packets, so copies of erased frames occur |
| `slot_collision` | finding: the duplicate filter lets the base through | as above |
| `origin_refuses` | finding: the origin of a path refuses packets of a key frame that are on their way | as above |
| `multipath_sender` | nothing lost or sent twice, no segment overtaken but for the wrap and a taken slot, silence after stop | 2 paths (WebRTC-paced and self-paced), 2 frames of up to 2 segments, 3 transport numbers so that wrap and a taken slot occur |
| `sender_progress` | retries beat loss; buffered segments leave whatever is put behind them | 2 paths (paced by their own timer and not by time at all), 2 frames of up to 2 segments, 3 transport numbers: a second frame is put behind a buffered one, numbers wrap and a slot is taken |
| `sender_v1` | one place per packet, none forgotten or given up early, byte counts, losses go to a path that still sends | 3 paths, so that two remain after one has stopped; 3 packets, 3 transmissions per path and 4 in all: two losses in one ack, a loss of a retransmission, acks that overtake, loss after a stop |
| `path_bug_v1` | finding: a loss after the last stop goes to path 0 | 2 paths, 6 transmissions in all |
| `receiver_v1` | exact completion, refinement of `InOrderDelivery`, progress | 4 frames of 1 to 3 packets: gaps of whole frames, incomplete frames before and behind complete ones |
| `mock_session` | tables agree, counters never wrap, losses exact, rounds and measurements sound, mode machine of version 1 | versions 1 to 5 with 7, 5, 6, 5, 5 packets, 2 in the network at a time; windows and cycles of 2 and 3. Seven packets are the least with which version 1 backs off twice, six the least for a packet in flight over a back-off of version 3 |
| `schedulers` | each packet placed once on a known path, what goes wrong and when, ratios conserved | 12 kinds, 3 paths, rates 1 and 3, frames of 1 to 4 packets, 1 pending unit when a frame comes, 3 frames of EDCLD: ties, zero shares, a step of zero and a path that joins late occur |
| `agents` | segments in one place, pace kept, reports true | bytes of 2 and pairs of 3 values, 3 frames, 4 segments, so that numbers wrap and the wide fields are used; intervals of 1 and 3 with a cap of 1; 2 switches, so that a pause ends and rates go up and down |

In `mock_session`, `FreshBaseline` says something of versions 3 to 5 only, since versions 1 and 2
keep no base line, and with seven packets the round numbers hardly start again after
PROBE_RTT, so that this case of `BackoffsApart` rests on the theorem `BackoffsStayApart`.

Deadlock checking is off in `path_receiver`, `receiver_v1`, the sender runs,
`mock_session`, `schedulers` and `agents`: a crashed receiver, a session that has
stopped with nothing in the network, a scheduler that does not return, and an instance
at its bounds do stop. The paths of `SenderV1` are interchangeable, so its runs use symmetry
(they check no liveness).

**Fairness.** `MultipathReceiver`: weak fairness of `HeartBeat` (a timer event
of the simulator always fires) and `Tick` (simulated time advances). Nothing is
assumed of packets, the sink or `Stop`. `MultipathSender`: weak fairness of the
retry and pacing timers and of the pacer's process thread, and strong fairness
of the two receptions of the handshake: a message sent again and again gets
through now and then. Without the latter no retry could help. `ReceiverV1`: weak
fairness of the heartbeat and of time (`Expire`). `SenderV1` has none: the code
promises no delivery, and a loss at the end of a path's transmissions is never noticed.
`MockSession`, `Schedulers` and `Agents` have none either: their properties are about
what a step may do.

**Findings.** `pathreceiver.cc:214` compares `seq<base_seq_`, so a second copy of
the packet at the base itself reaches `DeliverToCache`. If its frame is still
cached, the slot is filled and the code prints "fatal error"
(`mpreceiver.cc:288`); the counters survive, as `CountersOK` shows.

`interface_v1.cc:11`: with no path registered the search of `RetransPackets` ends with
path 0, and `PacketRetrans` prints "path bug" (`mp_sender_v1.cc:183`). It takes one
path, two packets, a stop, and the ack of the second packet.

`pathreceiver.cc:218`: the first segment that comes over a path sets the path's origin to
the number before the first packet of its frame, and whatever was sent over the path before
that and is still on its way is refused. If it belongs to the key frame, which the
receiver, in the words of `mpreceiver.cc:233`, "must to get" in full and for which it sets no
deadline, the frame is never complete and holds back all frames behind it.
`origin_refuses` shows it with one arrival: packet 2 of path 1, the first of frame 2,
comes before packet 1, of key frame 1.

Read in the code and kept by the model (`ResetPsi`), without a run of its own:
`edcld_v1.cc:288` (and `edcldschedule.cc:287`), where `ResetCostAndPsiTable` inserts new ratios
into a table it has not cleared, which its own comment (lines 273-274) says does not work.
After two paths have shared a frame and one of them stops, the path that stays keeps its
half instead of getting the whole. `PsiConserved` is about frames and holds between such resets,
whatever the sum is.

**What holds only with an exception.** The properties name the exceptions, since
they are behaviours of the code: frames behind an incomplete key frame wait
forever (`FramesLeave`: v0 does not retransmit); packets of frames older than the one a
path began with are refused although their frame may still be waited for (`SkippedIsGone`,
`FilterSound`; `KeyFrameKept`, without this exception, is the finding above); `recv_buf_len_` keeps packets
erased without a sink, and a frame erased then may be cached again (`CountersOK`, `SkippedIsGone`); the source runs again after `Stop`
when a path connects late (`QuietAfterStop`), though no segment is sent then;
on a self-paced path segments may overtake where the sixteen-bit number wraps
(`OrderKept`); a segment whose slot is taken is never sent and stays in `len_`, and
`pending_len_` is not corrected by `Stop` (`SegmentsAccounted`);
round robin, and a frame of one packet, may choose a path without a rate (`EveryPacketPlaced`);
when one path of v1 is left, a loss goes back to the path it happened on
(`RetransOnLivePath`), and when none is left it is dropped (`GivenUpWhenStale`);
a segment of an agent is lost when its slot in `buf_` is taken, which needs more segments than
numbers (`SegmentsInPlace`);
a report may carry the time of another transmission of its number, or none, when a report
was lost and the number came round (`ReportsAreTrue`).

## Proofs

`PathReceiverProofs` proves, for any number of packets, any `Index` and any
number of ack slots: `TypeOK`, `TablesExact`, `BaseIsHonest` as invariants and
`TablesAdvance`, `FilterSound`, `AcksAreTrue` as action properties. The
invariant is `TypeOK /\ TablesExact /\ BaseIsHonest` with the facts that tie the
history variables to the tables; `TablesExact` alone is not
inductive without the types, and `BaseIsHonest` needs `TablesExact` to know what
the base passes when it moves over `recv_table_`. The lemmas about the tables follow the code: `AdvanceBaseExact` (the
closing loops stop at the first missing id), `AcceptExact`, `ConsumeExact`; then comes
one lemma per action. `MinIsLeast` gets the least element of a set of naturals
from the well-foundedness of `<`. Assumption: `PathReceiverAssumption`, which says
only that the constants have their types.

`MultipathReceiverProofs` proves `CountersOK` and `SkippedIsGone`, and that the receiver
implements `InOrderDelivery` (`MultipathKeepsPromise`), for any paths, frames and
layouts that satisfy `LayoutAssumption`. The invariant has the exactness of the tables of every
path relative to what that path handed over, reusing `AcceptExact` and `ConsumeExact`;
that every cached packet was handed over by its path, without which `Consume` could be
called for a packet the path never saw; and that a cached frame counts different packets,
at least one. `CheckDeliverKeeps` treats `CheckDeliverFrame` once for the heartbeat and
for reception. `PacketConsumedOK` is where the paths and the buffer meet: a path
carries its packets in the order of frames (`FidsAscend`), so that whatever `Consume` skips belongs to
frames that have left. `EarlierFrame` counts packets for the origin: what lies at or below it
is of a frame before the one the path began with, since the packets of one frame on a path are at most as
many as their indexes. `HeldAfter` uses that no packet belongs to two frames to subtract
what leaves from `recv_buf_len_`. For the refinement `LastOK` adds that nothing above
`min_fid_` has been forwarded; with a sink what leaves is written in ascending order, and without one
`AscendingExists` supplies the order the promise asks for.

`SenderV1Proofs` proves `OutstandingAhead` for any paths and bounds: `DetectLoss` looks at
the numbers above `recv_seq_` only, and `seq_id_map_` has exactly those, in whatever
order acks arrive. The invariant adds that an ack comes only for a number already sent,
without which `recv_seq_` could pass `seq_`. Assumption: none beyond the types
(`SenderV1Assumption`).

Its second part adds to that invariant what ties the parts together (`QInv`): the
scheduler's `pids_` are the paths whose timer runs and are among `usable_paths_`; a path
with transmissions was available once; `sent_buf_` has at least every packet that is not
stale; the byte counts are those of the queues. It yields `QueuesOK` as an invariant and
`GivenUpWhenStale` and `RetransOnLivePath` as action properties. The case that matters
is `RetransChoice`: the search of `RetransPackets` ends with a path that runs, with the
origin of the loss when one path is registered, or with path 0 when none is, and an ack
shows that the origin was available (`AckedPathUsable`).

Its third part proves `NothingForgotten`. A place is a position in one of the two
queues or an entry of `seq_id_map_`; `PlacesInv` says that each packet is in at most one
(`OnePlace`) and in one, acknowledged or given up. Each lemma first says where the packets
are after an action in terms of where they were (`TransmitPlaces`, `TailPlaces`,
`ConcatPlaces`). `AckPlaces` is the heart: `RemoveSeqIdMapLe` erases the losses in the
same call that queues them, they are in ascending order and so all different, and what
is neither queued nor acknowledged is given up.

`ReceiverV1Proofs` proves `CompletionIsExact` and `BufferIsAhead` for any number of frames of
1 to 255 packets each (`ReceiverV1Assumption`; `OnVideoFrame` asserts the bound). The
invariant is their conjunction with the types. `OnNewPacketOK` turns the equality of
counters into equality of sets: different packets reach the total only when all are
there. `HeartBeatIInv` uses that whatever stays is above whatever leaves, and
`MaxIsGreatest` that the last frame of the loop is the highest. The module also proves
`ReceiverKeepsPromise`: `ReceiverV1` implements `InOrderDelivery`. The strengthening
`RInv` says that a buffered frame has at least one packet and that nothing at or below
what left is held; then one lemma per action shows that it maps to a step of the
promise (`OnVideoPacket` to an arrival, `HeartBeat` to an advance over the least frames
held, `Expire` to time passing) or to a stutter. Models that are proved about
describe a run in ascending order by `Ascending`, the set of its ascending enumerations, because the
library's sorted sequence is not a definition the provers can unfold.

`MockSessionProofs` covers all five controllers, any number of packets and any values of
the windows (`MockSessionAssumption`). Invariant of versions 2 to 5
(`ControllerInv`): the controller's marks are the sender's, both tables hold exactly
the numbers between them (`TablesOK`), what was sent since the end of the round was
sent in this round, and a base line means that the highest number acknowledged lies
above the back-off. In version 3 this needs one more clause, that the back-off flag is
set in DECREASE and without a base line only: while it is set the back-off mark moves.
`CountedOK` treats what every `OnAck` begins with, `Same`/`Decreased` classify what the
member functions leave alone, and `BbrAckedOK` composes them in the order of each version.
For version 1, `V1Inv` says that the list of reports is ascending and names clusters that
exist (`ListOK`), that no request is pending (`Quiet`), and that the last back-off
is not above the last report; between the member functions `Requesting` replaces
`Quiet`. It yields `TablesAgree`, `FreshBaseline`, `RequestsMatchMode` and `ClustersAlive`
as invariants and `RoundsAreRoundTrips` and `BackoffsApart` as action properties.
`BackoffsApart` rests on an observation the code does not spell out: a remembered
back-off from before PROBE_RTT restarted the numbers may lie above the new ones, but then
nothing has been backed off since, so that the unsigned distance is never taken
between two back-offs of the same numbering the wrong way round.

`BytesNeverWrap` and `LossesAreExact` follow in the same module. `SamplerOK` says that what
the sampler noted of a packet (the bytes sent and acknowledged before it) is at most what
it counts now, for every packet still in its table, which is what keeps the two unsigned
differences from wrapping; `BytesOK` adds `bytes_in_flight_`. `CountedBytes` treats the
common beginning of every `OnAck`, `BbrAckedBytes` the rest in each version.
`DetectLossExact` is the step of the losses: what `DetectLoss` appends are
the numbers between the old and the new highest ack, and `seq_delay_map_` has just those
of them that were not acknowledged. `StopApplicationExact` is the one report more, of
`recv_seq_`, above all detected before it and below all detected after it.

`MultipathSenderProofs` proves `NothingLost`, `SegmentsAccounted`, `QuietAfterStop` and
`OrderKept` for any paths, frames, numbers of a path and ways of
pacing. What a scheduler gives a path is any subset of the frame in ascending order
(`Share`, `Given`). The invariant says that a path that is stopped or not usable buffers
nothing, that a stopped path belongs to a stopped sender, and, as long as no slot was taken,
that the pacer's queue names exactly the numbers in `buf_`, each once and in the order
of the packets. Only with this last clause is the order of a path inductive: what is
buffered is above what was transmitted, except where the sixteen-bit number wrapped.

`SchedulersProofs` proves `EveryPacketPlaced` and `GoesWrongOnlyWhen` as invariants and
`PsiConserved` as an action property, for all twelve kinds, any finite set of paths and any
rates, delays, pending bytes, frames and roots (`SchedulersAssumption`,
`WaterFillingAssumption`). The invariant (`StateOK`) is short: the environment is
numbers, and until a path is stopped `pids_` are paths and EDCLD's tables are empty before
its first frame and about usable paths after it. (`BegunOK` adds that they are not
empty while nothing has gone wrong.) The work is in what the algorithms return. They are
recursive functions and folds of the library, so the first part of the module shows, from the well-foundedness of
`<` and by induction over sets of good values (`UpTo`, `AllSubsets`),
that the functions exist (`RecursionExists`, `FoldExists`) and what sums do
(`SumRemove`, `SumSame`, `SumNat`, `SumBelow`). Then come the algorithms: `CycleOK`, in which the position of
the server of greatest weight in the first round shows that `GetServer` always returns one;
`GreedyOK`, packet by packet; `PourOK`, which holds for any water at all; `ScaleOK`, where the
shares add up to the frame because the last path takes what the others leave. `GoesWrongOnlyWhen`
is arithmetic over all paths at once: if every rounded share is zero then the shares, added
up, leave fewer packets than half the paths (`WeightsZero`, `FloorsZero`, `ScaleZero`).

`AgentsProofs` proves `SegmentsInPlace`, `PacedRate` and `ReportsAreTrue` for any widths,
frames, rates, intervals and bounds, under three named assumptions: the constants have their
types (`AgentsAssumption`); a budget reaches back further than one packet
(`WindowAssumption`: half a second is more than a packet of a kilobyte from 20 kbit/s on); no frame
has more segments than the assertion of `OnFrame` lets through, and a feedback fits its size
field (`WidthAssumption`). The invariant `IInv` has four parts. `Places` says that a segment is
in exactly one place and that each key of `buf_` is the number of its segment. `QueueInv`
says what connects the two halves: the pacer's queue is the last segments made, in their order, and
as long as no slot was taken everything sent was made before them, so that the packet in front asks
for the next segment (`NextSegment`). `PaceInv` is the invariant behind the pace: what the
agent is ahead of its rate is at most what its budget lacks to the most one call can add, and the
budget lies within what `target` allows (`TargetOK`);
only with this does a debt that is forgiven (by the floor of the budget) or not kept (by its
ceiling) stay within the bound (`IncreaseOK`, `PoppedOK`, `PacedPace`). `Times`, `WayInv` and
`Reported` say that an entry of `sent_ts_map_` is of a transmission still awaited and of its number,
that every message on its way is an encoding of a segment that was sent or of arrivals, and that nothing
reported is still awaited. `SegmentMessage` and `FeedbackMessage` show, field by field, that the decoder reads
what the encoder wrote, at every width. `Process` and `IncomingFeedBack` are recursive functions over the
packets popped and reported; `RecursionExists` says that they exist, `SendStep` and `ReportStep` what one
of their steps keeps, and `UpTo` carries it to the end. `SegmentsCounted` turns the places into
the equation of the counts, by the cardinality of injections and disjoint unions.

Only model-checked: `FramesLeave`, `PathsConnect` and `SegmentsLeave`, since liveness
under fairness is outside this prover's reach; and the three findings, which are violations.

## Not modelled

`RandomSchedule` (not built). Log files and traces, `posix.c`, `ns_quic_time.cc`: I/O and
portability. The ideal encoder and pacer: a constant source and a counter of tokens
nothing else reads. Round-trip, one-way-delay and cost estimators, rates and gains: sums
of measured times, of which the models keep what they decide as choices. WebRTC's
congestion control, pacer queue and proxies and `SentClusterInfo` are not in the
repository.

## Plan

Done: both generations' receivers and senders, all schedulers, all controllers with the
sampler and the mock session, agents, pacer and wire format, and a theorem for every
invariant and action property that a run checks. Left: a v1 session, `SenderV1` and
`ReceiverV1` composed over lossy paths, where an id given up and a frame expired meet, and
every frame whose packets all arrive in time is delivered complete.
