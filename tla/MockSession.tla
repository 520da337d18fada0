---------------------------- MODULE MockSession ----------------------------
(***************************************************************************)
(* The mock sender and receiver (mock_sender.cc, mock_receiver.cc) with    *)
(* the congestion controller the sender was built with: padding packets    *)
(* one way, an acknowledgement of each the other way.                      *)
(*                                                                         *)
(* The pacer is not part of the repository: whether it lets a packet go is *)
(* a choice, and it passes packets and acknowledgements to the controller. *)
(* The network loses and reorders in both directions.  It does not         *)
(* duplicate; an acknowledgement that comes twice would be ignored like a  *)
(* late one.                                                               *)
(***************************************************************************)
EXTENDS BbrSender, BbrSenderV1

CONSTANTS
    Versions,   \* the controllers that are built, of 1 .. 5
    Bytes,      \* PADDING_SIZE
    MaxSeq,     \* bound: packets sent, by version
    MaxFlight   \* bound: packets and acknowledgements in the network

ASSUME MockSessionAssumption ==
    /\ Versions \subseteq 1 .. 5
    /\ Bytes \in Nat \ {0}
    /\ MaxSeq \in [Versions -> Nat]
    /\ MaxFlight \in Nat
    /\ StartupRounds \in Nat \ {0} /\ CycleLength \in Nat \ {0, 1}
    /\ AckWindow \in Nat \ {0} /\ BackoffWindow \in Nat
    /\ GainCycle \in Nat \ {0, 1}

VARIABLES
    ver,          \* the version of cc_
    running,      \* heart_timer_ is set
    seq,          \* seq_
    recvSeq,      \* recv_seq_
    delays,       \* the keys of seq_delay_map_
    cc,           \* the controller, for versions 2 to 5
    cc1,          \* the controller, for version 1
    padding,      \* packets on their way to the receiver
    acks,         \* acknowledgements on their way back
    acked,        \* history: numbers acknowledged in order
    losses,       \* history: numbers reported to trace_loss_cb_, in order
    closing,      \* history: which of them StopApplication reported, 0 before it
    roundAtSend   \* history: round_trip_count_ when a packet was sent

sender == <<ver, running, seq, recvSeq, delays, cc, cc1>>
vars == <<sender, padding, acks, acked, losses, closing, roundAtSend>>

Init ==
    /\ ver \in Versions
    /\ running = FALSE
    /\ seq = 1 /\ recvSeq = 0 /\ delays = {}
    /\ cc = NoBbr /\ cc1 = NoBbrV1
    /\ padding = {} /\ acks = {} /\ acked = {}
    /\ losses = <<>> /\ closing = 0
    /\ roundAtSend = <<>>

-----------------------------------------------------------------------------
StartApplication ==
    /\ ~running /\ closing = 0
    /\ running' = TRUE
    /\ UNCHANGED <<ver, seq, recvSeq, delays, cc, cc1, padding, acks, acked,
                   losses, closing, roundAtSend>>

(* The timer is cancelled, and trace_loss_cb_ gets recv_seq_ as its last   *)
(* word, whether that number was lost or not.                              *)
StopApplication ==
    /\ running
    /\ running' = FALSE
    /\ losses' = Append(losses, recvSeq) /\ closing' = Len(losses) + 1
    /\ UNCHANGED <<ver, seq, recvSeq, delays, cc, cc1, padding, acks, acked,
                   roundAtSend>>

(* HeartBeat with SendFakePacket and SendPaddingPacket, when the pacer     *)
(* lets the packet go.                                                     *)
HeartBeat ==
    /\ running
    /\ seq <= MaxSeq[ver]
    /\ Cardinality(padding) + Cardinality(acks) < MaxFlight
    /\ seq' = seq + 1
    /\ padding' = padding \cup {seq}
    /\ delays' = delays \cup {seq}
    /\ IF ver = 1
       THEN cc1' = BbrV1Sent(cc1, seq) /\ UNCHANGED <<cc, roundAtSend>>
       ELSE /\ cc' = BbrSent(cc, seq, Bytes)
            /\ roundAtSend' = Insert(roundAtSend, seq, cc.round)
            /\ UNCHANGED cc1
    /\ UNCHANGED <<ver, running, recvSeq, acks, acked, losses, closing>>

(* The receiver: OnIncomingMessage with SendAck.                           *)
RecvPadding(n) ==
    /\ n \in padding
    /\ padding' = padding \ {n}
    /\ acks' = acks \cup {n}
    /\ UNCHANGED <<sender, acked, losses, closing, roundAtSend>>

(* Faulty variant: the scan starts with the last number received.          *)
DetectLossEarly(n) ==
    IF n >= recvSeq + 1
    THEN /\ losses' = losses \o [i \in 1 .. (n - recvSeq) |-> recvSeq + i - 1]
         /\ recvSeq' = n
    ELSE UNCHANGED <<losses, recvSeq>>

DetectLoss(n) ==
    IF n >= recvSeq + 1
    THEN /\ losses' = losses \o [i \in 1 .. (n - recvSeq - 1) |-> recvSeq + i]
         /\ recvSeq' = n
    ELSE UNCHANGED <<losses, recvSeq>>

(* OnAck, with RemoveSeqDelayMapLe.  It does not ask whether the sender is *)
(* still running.                                                          *)
OnAck(n) ==
    /\ n \in acks
    /\ acks' = acks \ {n}
    /\ IF ver = 1
       THEN (\E o \in FindingsV1(cc1, n) : cc1' = BbrV1Acked(cc1, n, o)) /\ UNCHANGED cc
       ELSE (\E o \in Findings(ver, cc) : cc' = BbrAcked(ver, cc, n, o)) /\ UNCHANGED cc1
    /\ delays' = {k \in delays : k > n}
    /\ DetectLoss(n)
    /\ acked' = IF n > recvSeq THEN acked \cup {n} ELSE acked
    /\ UNCHANGED <<ver, running, seq, padding, closing, roundAtSend>>

Lose ==
    \/ \E n \in padding : padding' = padding \ {n} /\ UNCHANGED acks
    \/ \E n \in acks : acks' = acks \ {n} /\ UNCHANGED padding

LosePacket == Lose /\ UNCHANGED <<sender, acked, losses, closing, roundAtSend>>

Next ==
    \/ StartApplication
    \/ StopApplication
    \/ HeartBeat
    \/ \E n \in padding : RecvPadding(n)
    \/ \E n \in acks : OnAck(n)
    \/ LosePacket

Spec == Init /\ [][Next]_vars

-----------------------------------------------------------------------------
Sent == 1 .. (seq - 1)
Unanswered == {n \in Sent : n > recvSeq}

(* The mock sender, the controller and its sampler keep three tables of    *)
(* their own of what is in flight (seq_delay_map_, sent_packets_map_,      *)
(* packet_infos_) and two high-water marks, and forget by three different  *)
(* loops.  They agree.                                                     *)
TablesAgree ==
    /\ delays = Unanswered
    /\ ver # 1 =>
         /\ DOMAIN cc.packets = Unanswered
         /\ DOMAIN cc.sampler.infos = Unanswered
         /\ cc.lastAck = recvSeq /\ cc.lastSent = seq - 1
    /\ ver = 1 => cc1.lastAck = recvSeq

(* bytes_in_flight_, an unsigned counter, is what is in flight, and the    *)
(* two differences the sampler divides never wrap.                         *)
BytesNeverWrap ==
    /\ cc.inFlight = BytesOf(cc.packets, DOMAIN cc.packets)
    /\ \A n \in DOMAIN cc.sampler.infos :
         LET p == cc.sampler.infos[n]
         IN  p.sent >= p.sentAtLast /\ cc.sampler.acked >= p.acked
    /\ cc.sampler.sent >= cc.sampler.acked

(* What DetectLoss reported is exactly what was not acknowledged up to the *)
(* highest number that was, once and in order, although acknowledgements   *)
(* overtake each other and come after the sender has stopped.  The report  *)
(* of StopApplication is no loss: it is a number acknowledged, or 0 when    *)
(* none was, and parts what was lost below it from what comes after.       *)
Detected == DOMAIN losses \ {closing}

LossesAreExact ==
    /\ {losses[i] : i \in Detected} = (1 .. recvSeq) \ acked
    /\ \A i, j \in Detected : i < j => losses[i] < losses[j]
    /\ closing # 0 =>
         /\ losses[closing] \in acked \cup {0}
         /\ \A i \in Detected : i < closing <=> losses[i] < losses[closing]

(* A round is over only with the acknowledgement of a packet sent in that  *)
(* round (UpdateRoundTripCounter), so it lasts a round trip at least.      *)
RoundsAreRoundTrips ==
    [][cc.round > 0 /\ cc.round' # cc.round => roundAtSend[cc.lastAck'] = cc.round]_vars

(* After a back-off the delay is judged by packets sent after it only:     *)
(* base_line_rtt_ is never measured with a packet that was in flight when  *)
(* seq_at_backoff_ was noted.                                              *)
FreshBaseline == cc.base => cc.lastAck > cc.backoff

(* acked_clusters_ holds pointers into connection_info_: a cluster whose   *)
(* report is in the list has not been deleted, whatever PROBE_RTT and the  *)
(* averaging removed.                                                      *)
ClustersAlive ==
    /\ \A i \in DOMAIN cc1.acked : cc1.acked[i] \in DOMAIN cc1.clusters
    /\ \A i, j \in DOMAIN cc1.acked : i < j => cc1.acked[i] < cc1.acked[j]
    /\ Len(cc1.acked) < AckWindow

(* The three requests that OnEstimateBandwidth and PROBE_RTT leave behind  *)
(* match the mode, and the assertion of CalculatePacingRate holds: no      *)
(* stable phase without a stable rate.                                     *)
RequestsMatchMode ==
    /\ cc1.toInsist <=> cc1.mode = "INSIST"
    /\ ~cc1.toBw
    /\ cc1.mode = "INSIST" => cc1.stable

(* Between two entries into PROBE_RTT back-offs are BackoffWindow clusters *)
(* apart, although back_off_id_ survives the restart of the numbers.       *)
BackoffsApart ==
    [][cc1.lastBack # 0 /\ cc1.lastBack' \notin {0, cc1.lastBack} =>
         cc1.lastBack' >= cc1.lastBack + BackoffWindow]_vars
=============================================================================
