------------------------------ MODULE SenderV1 ------------------------------
(***************************************************************************)
(* The sending end of the second generation: an MpSenderV1 and its         *)
(* PathSenderV1s.  Video packets get ids for the session; a path gives     *)
(* each transmission a sequence number of its own, remembers in            *)
(* seq_id_map_ what it carried, and takes every number below an            *)
(* acknowledged one for lost.  A lost packet is sent again, on another     *)
(* path if there is one, as long as it is not stale.                       *)
(*                                                                         *)
(* The peer acknowledges whatever reaches it.  The acks come in any order  *)
(* or never, which also stands for the loss of what they acknowledge.  The *)
(* pacer permits a transmission at will, and the scheduler is any function *)
(* from the packets of a frame to the paths it knows.                      *)
(***************************************************************************)
EXTENDS Integers, FiniteSets, Sequences, SequencesExt

CONSTANTS
    Paths,       \* the registered paths; 0 is no path
    MaxSplit,    \* a frame is split into at most this many packets
    MaxPackets,  \* bound of the model: packets of the session
    MaxSeq,      \* bound of the model: transmissions of a path
    MaxSends     \* bound of the model: transmissions of all paths together

ASSUME SenderV1Assumption ==
    /\ 0 \notin Paths
    /\ MaxSplit \in Nat \ {0}
    /\ MaxPackets \in Nat
    /\ MaxSeq \in Nat
    /\ MaxSends \in Nat

VARIABLES
    waitting_paths,  \* waitting_paths_
    usable_paths,    \* usable_paths_
    pids,            \* pids_ of the scheduler
    timers,          \* the paths whose heart_timer_ runs
    runing,          \* runing_
    packet_id,       \* packet_id_
    stale,           \* packets 1..stale are older than max_packet_delay_threshold
    sent_buf,        \* the ids in sent_buf_
    sending_queue,   \* sending_queue[p], the ids in sending_queue_
    resending_queue, \* resending_queue[p], the ids in resending_queue_
    pending_bytes,   \* pending_bytes[p], in packets
    seq,             \* seq[p]: seq_
    recv_seq,        \* recv_seq[p]: recv_seq_
    seq_id_map,      \* seq_id_map[p]: seq_id_map_, a partial function; 0 is padding
    flight,          \* flight[p]: the sequence numbers an ack may still arrive for
    acked,           \* history: the packets acknowledged before they were taken for lost
    abandoned,       \* history: the packets lost and not queued again
    path_bug         \* history: PacketRetrans did not find the path ("path bug")

pathVars == <<waitting_paths, usable_paths, pids, timers, runing>>
queueVars == <<sending_queue, resending_queue, pending_bytes>>
seqVars == <<seq, recv_seq, seq_id_map, flight>>
lossVars == <<acked, abandoned, path_bug>>
vars == <<pathVars, packet_id, stale, sent_buf, queueVars, seqVars, lossVars>>

Init ==
    /\ waitting_paths = Paths /\ usable_paths = {} /\ pids = {} /\ timers = {}
    /\ runing = TRUE
    /\ packet_id = 1 /\ stale = 0 /\ sent_buf = {}
    /\ sending_queue = [p \in Paths |-> <<>>]
    /\ resending_queue = [p \in Paths |-> <<>>]
    /\ pending_bytes = [p \in Paths |-> 0]
    /\ seq = [p \in Paths |-> 1]
    /\ recv_seq = [p \in Paths |-> 0]
    /\ seq_id_map = [p \in Paths |-> <<>>]
    /\ flight = [p \in Paths |-> {}]
    /\ acked = {} /\ abandoned = {} /\ path_bug = FALSE
-----------------------------------------------------------------------------
\* StartApplication of a path and OnNetworkAvailable.  SetRun starts Process
\* with the first path only.
StartApplication(p) ==
    /\ p \in waitting_paths
    /\ waitting_paths' = waitting_paths \ {p}
    /\ usable_paths' = usable_paths \cup {p}
    /\ pids' = pids \cup {p}
    /\ timers' = timers \cup {p}
    /\ UNCHANGED <<runing, packet_id, stale, sent_buf, queueVars, seqVars, lossVars>>

\* StopApplication of a path and OnNetworkStop, which ends Process for all.
\* The path stays in usable_paths_ and keeps its socket.
StopApplication(p) ==
    /\ p \in timers
    /\ timers' = timers \ {p}
    /\ pids' = pids \ {p}
    /\ runing' = FALSE
    /\ UNCHANGED <<waitting_paths, usable_paths, packet_id, stale, sent_buf, queueVars,
                   seqVars, lossVars>>

\* Process runs, from the first available path to the first that stops.
Processing == runing /\ usable_paths # {}

\* S written in ascending order.
Ascending(S) ==
    {q \in [1..Cardinality(S) -> S] :
        ToSet(q) = S /\ \A i, j \in DOMAIN q : i < j => q[i] < q[j]}

\* What each path is given of the new packets ids.
Given(ids, to) ==
    {g \in [Paths -> UNION {Ascending(S) : S \in SUBSET ids}] :
        \A p \in Paths : g[p] \in Ascending({id \in ids : to[id - packet_id] = p})}

\* OnVideoFrame of n packets: each goes from pend_buf_ over IncomingPackets and
\* PacketSchedule to OnVideoPacket of its path, in the order of the ids.
OnVideoFrame(n, to) ==
    LET ids == packet_id..(packet_id + n - 1)
    IN  /\ Processing
        /\ packet_id + n <= MaxPackets + 1
        /\ packet_id' = packet_id + n
        /\ sent_buf' = sent_buf \cup ids
        /\ \E given \in Given(ids, to) :
              /\ sending_queue' = [p \in Paths |-> sending_queue[p] \o given[p]]
              /\ pending_bytes' = [p \in Paths |-> pending_bytes[p] + Len(given[p])]
        /\ UNCHANGED <<pathVars, stale, resending_queue, seqVars, lossVars>>

\* Faulty variant: the packet that is still allowed once more is erased too.
FreshNextOnly == {id \in sent_buf : id > stale + 1}

\* What the loop of CheckStalePacket leaves: sent_buf_ is in the order of the ids, which
\* is the order of their ages.
Fresh == {id \in sent_buf : id > stale}

\* CheckStalePacket, from Process every stale_check_gap_.
CheckStalePacket ==
    /\ Processing
    /\ sent_buf' = Fresh
    /\ UNCHANGED <<pathVars, packet_id, stale, queueVars, seqVars, lossVars>>

\* Time passes: the oldest packet that is not stale becomes so.  (The packets of
\* one frame age together in the code; one by one only adds behaviours.)
Age ==
    /\ stale + 1 < packet_id
    /\ stale' = stale + 1
    /\ UNCHANGED <<pathVars, packet_id, sent_buf, queueVars, seqVars, lossVars>>

\* A transmission of path p that carries packet id, or padding.
Transmit(p, id) ==
    /\ seq[p] <= MaxSeq
    /\ SumFunction([q \in Paths |-> seq[q] - 1]) < MaxSends
    /\ seq' = [seq EXCEPT ![p] = @ + 1]
    /\ seq_id_map' = [seq_id_map EXCEPT ![p] =
                        [s \in DOMAIN @ \cup {seq[p]} |-> IF s = seq[p] THEN id ELSE @[s]]]
    /\ flight' = [flight EXCEPT ![p] = @ \cup {seq[p]}]
    /\ UNCHANGED recv_seq

\* HeartBeat and ProcessVideoPacket: what was lost goes first.
Resend(p) ==
    /\ p \in timers
    /\ resending_queue[p] # <<>>
    /\ Transmit(p, Head(resending_queue[p]))
    /\ resending_queue' = [resending_queue EXCEPT ![p] = Tail(@)]
    /\ pending_bytes' = [pending_bytes EXCEPT ![p] = @ - 1]
    /\ UNCHANGED <<pathVars, packet_id, stale, sent_buf, sending_queue, lossVars>>

Send(p) ==
    /\ p \in timers
    /\ resending_queue[p] = <<>> /\ sending_queue[p] # <<>>
    /\ Transmit(p, Head(sending_queue[p]))
    /\ sending_queue' = [sending_queue EXCEPT ![p] = Tail(@)]
    /\ pending_bytes' = [pending_bytes EXCEPT ![p] = @ - 1]
    /\ UNCHANGED <<pathVars, packet_id, stale, sent_buf, resending_queue, lossVars>>

SendPaddingPacket(p) ==
    /\ p \in timers
    /\ resending_queue[p] = <<>> /\ sending_queue[p] = <<>>
    /\ Transmit(p, 0)
    /\ UNCHANGED <<pathVars, packet_id, stale, sent_buf, queueVars, lossVars>>
-----------------------------------------------------------------------------
\* Faulty variant: the loop starts one too high.
LostSeqsAfterNext(p, s) ==
    {i \in (recv_seq[p] + 2)..(s - 1) : i \in DOMAIN seq_id_map[p] /\ seq_id_map[p][i] # 0}

\* DetectLoss: the transmissions below s that are lost.
LostSeqs(p, s) ==
    {i \in (recv_seq[p] + 1)..(s - 1) : i \in DOMAIN seq_id_map[p] /\ seq_id_map[p][i] # 0}

RemoveSeqIdMapLe(p, s) == [i \in {j \in DOMAIN seq_id_map[p] : j > s} |-> seq_id_map[p][i]]

\* Faulty variant: an old ack moves recv_seq_ back.
RecvSeqFollows(p, s) == s

\* recv_seq_ after an ack of s.
RecvSeqAfter(p, s) == IF s > recv_seq[p] THEN s ELSE recv_seq[p]

\* Faulty variant: any path that ever was available is chosen.
RetransPathsUsable(origin) == usable_paths

\* RetransPackets: the path with the least rtt other than the origin, or the
\* origin if one path is registered; 0 if there is none.
RetransPaths(origin) ==
    IF Cardinality(pids) = 1 THEN {origin}
    ELSE IF pids \ {origin} = {} THEN {0}
    ELSE pids \ {origin}

\* Faulty variant: pending_bytes_ counts first transmissions only.
RequeueUncounted(target, ids) ==
    /\ resending_queue' = [resending_queue EXCEPT ![target] = @ \o ids]
    /\ UNCHANGED <<sending_queue, pending_bytes>>

\* OnVideoPacket for packets that are sent again.
Requeue(target, ids) ==
    /\ resending_queue' = [resending_queue EXCEPT ![target] = @ \o ids]
    /\ pending_bytes' = [pending_bytes EXCEPT ![target] = @ + Len(ids)]
    /\ UNCHANGED sending_queue

\* OnAck: UpdateRtt, DetectLoss, and for each loss OnPacketLost, RetransPackets
\* and PacketRetrans.  The rtts do not change meanwhile, so that one path gets
\* all the losses.  A path that was stopped still gets its acks.
OnAck(p, s) ==
    LET lost == LostSeqs(p, s)
        lostIds == {seq_id_map[p][i] : i \in lost}
        fresh == {i \in lost : seq_id_map[p][i] \in sent_buf}
    IN  /\ s \in flight[p]
        /\ flight' = [flight EXCEPT ![p] = @ \ {s}]
        /\ recv_seq' = [recv_seq EXCEPT ![p] = RecvSeqAfter(p, s)]
        /\ seq_id_map' = [seq_id_map EXCEPT ![p] = RemoveSeqIdMapLe(p, s)]
        /\ acked' = acked \cup ({seq_id_map[p][i] : i \in DOMAIN seq_id_map[p] \cap {s}} \ {0})
        /\ \E target \in RetransPaths(p) : \E run \in Ascending(fresh) :
              IF target \in usable_paths
              THEN /\ Requeue(target, [k \in DOMAIN run |-> seq_id_map[p][run[k]]])
                   /\ abandoned' = abandoned \cup (lostIds \ sent_buf)
                   /\ UNCHANGED path_bug
              ELSE /\ abandoned' = abandoned \cup lostIds
                   /\ path_bug' = (path_bug \/ fresh # {})
                   /\ UNCHANGED queueVars
        /\ UNCHANGED <<pathVars, packet_id, stale, sent_buf, seq>>

Next ==
    \/ \E p \in Paths :
          \/ StartApplication(p) \/ StopApplication(p)
          \/ Resend(p) \/ Send(p) \/ SendPaddingPacket(p)
          \/ \E s \in 1..MaxSeq : OnAck(p, s)
    \/ \E n \in 1..MaxSplit : \E to \in [0..(n - 1) -> pids] : OnVideoFrame(n, to)
    \/ CheckStalePacket
    \/ Age

Spec == Init /\ [][Next]_vars
-----------------------------------------------------------------------------
PacketIds == 1..(packet_id - 1)
Outstanding(p) == DOMAIN seq_id_map[p]

TypeOK ==
    /\ waitting_paths \cup usable_paths \cup pids \cup timers \subseteq Paths
    /\ runing \in BOOLEAN /\ path_bug \in BOOLEAN
    /\ packet_id \in 1..(MaxPackets + 1)
    /\ stale \in 0..MaxPackets
    /\ sent_buf \cup acked \cup abandoned \subseteq PacketIds
    /\ \A p \in Paths :
          /\ sending_queue[p] \in Seq(PacketIds)
          /\ resending_queue[p] \in Seq(PacketIds)
          /\ pending_bytes[p] \in Nat
          /\ seq[p] \in 1..(MaxSeq + 1)
          /\ recv_seq[p] \in 0..MaxSeq
          /\ Outstanding(p) \cup flight[p] \subseteq 1..MaxSeq
          /\ \A i \in Outstanding(p) : seq_id_map[p][i] \in PacketIds \cup {0}

\* The places packet id is in: a queue or a transmission not yet settled.
Copies(id) ==
    UNION { {<<p, "send", k>> : k \in {j \in DOMAIN sending_queue[p] : sending_queue[p][j] = id}}
            \cup {<<p, "resend", k>> :
                     k \in {j \in DOMAIN resending_queue[p] : resending_queue[p][j] = id}}
            \cup {<<p, "seq", k>> : k \in {j \in Outstanding(p) : seq_id_map[p][j] = id}}
          : p \in Paths }

\* However acks are reordered, a packet is in one place at most, and if in none
\* it was acknowledged, or lost when it could not be sent again: no loss is
\* reported twice, and no packet is queued while a transmission of it may still
\* be reported lost (DetectLoss, RemoveSeqIdMapLe, PacketRetrans).
NothingForgotten ==
    \A id \in PacketIds :
        /\ Cardinality(Copies(id)) <= 1
        /\ Copies(id) # {} \/ id \in acked \cup abandoned

\* A packet that is still worth sending is given up in no step, unless every
\* path that was started has stopped: the age check of sent_buf_ never runs ahead
\* of the deadline, and some path always takes the retransmission otherwise.
GivenUpWhenStale == [][\A id \in abandoned' \ abandoned : id <= stale \/ pids = {}]_vars

\* seq_id_map_ has what is sent and above recv_seq_, so that nothing
\* acknowledged is taken for lost by a later ack.
OutstandingAhead == \A p \in Paths : Outstanding(p) = (recv_seq[p] + 1)..(seq[p] - 1)

\* pending_bytes_, which the schedulers and traces read, is what both queues hold.
QueuesOK ==
    /\ TypeOK
    /\ \A p \in Paths :
          pending_bytes[p] = Len(sending_queue[p]) + Len(resending_queue[p])

\* What is sent again is queued on a path that still sends, except when only
\* one path is left: RetransPackets then takes the path that lost the packet
\* for the one that is left.
RetransOnLivePath ==
    [][\A p \in Paths :
          Len(resending_queue'[p]) > Len(resending_queue[p]) =>
              p \in timers \/ Cardinality(pids) = 1]_vars

\* PacketRetrans reports "path bug" for a path it cannot find.
NoPathBug == ~path_bug
=============================================================================
