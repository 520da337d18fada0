---------------------------- MODULE BbrSenderV1 ----------------------------
(***************************************************************************)
(* Version 1 of the experimental congestion controller                     *)
(* (congestion/bbr_sender_v1.cc): it measures clusters of packets, one per *)
(* phase of its gain cycle, and backs off by what the clusters report.     *)
(*                                                                         *)
(* Rates and times are abstract: of a rate the model knows whether it is   *)
(* zero.  SentClusterInfo is not part of the repository.  It is modelled   *)
(* by how it is used: an acknowledgement of a packet of one cluster may    *)
(* complete the estimate of that or of an earlier cluster, each once and   *)
(* in the order of their numbers, and rates are above zero.                *)
(***************************************************************************)
EXTENDS MySampler, Sequences, FiniteSets

CONSTANTS
    AckWindow,       \* kAverageAckRateWindowSize
    BackoffWindow,   \* kBackoffEffectiveWindow
    GainCycle        \* kGainCycleLength, even

ModesV1 == {"START_UP", "PROBE_AB", "PROBE_BW", "PROBE_RTT", "INSIST"}

NoBbrV1 ==
    [mode |-> "START_UP",
     round |-> 0,          \* round_trip_count_
     clusters |-> <<>>,    \* connection_info_, cluster to is_probe
     seqRound |-> <<>>,    \* seq_round_map_, packet to cluster
     stamps |-> {},        \* the packets of seq_ts_map_
     acked |-> <<>>,       \* acked_clusters_
     reported |-> 0,       \* the last cluster that reported (SentClusterInfo)
     lastAck |-> 0,        \* last_ack_seq_
     toBw |-> FALSE,       \* change_state_probe_ab_bw_
     toInsist |-> FALSE,   \* change_state_probe_bw_insist_
     cycle |-> 0,          \* cycle_current_offset_
     rtt |-> FALSE,        \* min_rtt_ is not zero
     recorded |-> FALSE,   \* recored_min_rtt_ is not zero
     est |-> FALSE,        \* BandwidthEstimate() is not zero
     record |-> FALSE,     \* max_rate_record_ is not zero
     stable |-> FALSE,     \* stable_rate_ is not zero
     recover |-> FALSE,    \* is_recover_effective_
     backOff |-> 0,        \* back_off_id_
     lastBack |-> 0]       \* history: the last back-off since the clusters were cleared

Sampling == {"PROBE_BW", "PROBE_AB", "INSIST"}

(* kPacingGain probes in its first phase, kPacingGain2 in every other one. *)
ShouldSendProbePacket(c) ==
    \/ c.mode = "PROBE_BW" /\ c.cycle = 0
    \/ c.mode = "PROBE_AB" /\ c.cycle % 2 = 0
    \/ c.mode = "INSIST"

(* The member functions of the entry into each mode.                       *)
EnterProbeBandwidthMode(c, o) ==
    IF c.mode = "PROBE_BW" THEN c
    ELSE [c EXCEPT !.mode = "PROBE_BW", !.round = @ + 1,
                   !.cycle = IF o.first >= 1 THEN o.first + 1 ELSE o.first]

EnterFastProbeMode(c) ==
    IF c.mode = "PROBE_AB" THEN c
    ELSE [c EXCEPT !.mode = "PROBE_AB", !.round = @ + 1, !.cycle = 0]

EnterInsistStableMode(c) ==
    IF c.mode = "INSIST" THEN c
    ELSE [c EXCEPT !.mode = "INSIST", !.round = @ + 1, !.cycle = 0]

UpdateRtt(c, n) ==
    [c EXCEPT !.rtt = @ \/ n \in c.stamps,
              !.stamps = {k \in @ : k > n}]

(* A phase just begun by EnterFastProbeMode is not over.                   *)
UpdateGainCyclePhase1(c, entered, o) ==
    IF c.mode \in Sampling /\ o.advance /\ ~entered
    THEN [c EXCEPT !.cycle = (@ + 1) % GainCycle, !.round = @ + 1]
    ELSE c

-----------------------------------------------------------------------------
(* Faulty variant: the list of reports outlives the clusters.              *)
ClusterInfoKeepAcked(c) ==
    [c EXCEPT !.est = FALSE, !.seqRound = <<>>,
              !.clusters = <<>>, !.reported = 0, !.lastBack = 0]

ClusterInfoClear(c) ==
    [c EXCEPT !.est = FALSE, !.seqRound = <<>>, !.acked = <<>>,
              !.clusters = <<>>, !.reported = 0, !.lastBack = 0]

EnterProbeRtt(c, o) ==
    LET d == [c EXCEPT !.mode = "PROBE_RTT", !.round = 0,
                       !.recorded = c.rtt, !.rtt = FALSE, !.stamps = {},
                       !.recover = c.record /\ c.est /\ o.high,
                       !.record = FALSE,
                       !.toInsist = FALSE]
    IN  ClusterInfoClear(d)

(* PROBE_RTT ends after a time or with an rtt close to the recorded one,   *)
(* never with the acknowledgement that began it.                           *)
ExitProbeRtt(c, o) ==
    LET d == [c EXCEPT !.rtt = @ \/ c.recorded, !.recorded = FALSE]
    IN  IF o.over \/ (c.rtt /\ c.recorded /\ o.similar)
        THEN IF c.recover THEN EnterProbeBandwidthMode(d, o) ELSE EnterFastProbeMode(d)
        ELSE c

MaybeEnterOrExitProbeRtt(c, o) ==
    IF c.mode = "PROBE_RTT" THEN ExitProbeRtt(c, o)
    ELSE IF o.expired THEN EnterProbeRtt(c, o) ELSE c

-----------------------------------------------------------------------------
(* Faulty variant: the distance of the back-offs is not checked.           *)
MayBackOffAlways(c, id) == TRUE

(* The distance is unsigned: a back-off remembered from before PROBE_RTT   *)
(* restarted the numbers is far away or in the way, as it happens.         *)
MayBackOff(c, id) == id < c.backOff \/ id - c.backOff >= BackoffWindow

(* Faulty variant: the stable rate is left to the stable phase.            *)
EstimateProbeBwNoRate(c, o) ==
    IF o.infinite THEN c
    ELSE [c EXCEPT !.est = TRUE, !.toInsist = @ \/ o.lossy]

(* OnEstimateBandwidth, in the mode the estimate arrives in.               *)
EstimateProbeBw(c, o) ==
    IF o.infinite THEN c
    ELSE IF o.lossy THEN [c EXCEPT !.est = TRUE, !.stable = TRUE, !.toInsist = TRUE]
    ELSE [c EXCEPT !.est = TRUE]

EstimateProbeAb(c, id, o) ==
    [c EXCEPT !.toBw = @ \/ (c.clusters[id] /\ c.est /\ o.low),
              !.est = TRUE]

EstimateInsist(c, id, o) ==
    IF o.lossy
    THEN IF MayBackOff(c, id)
         THEN [c EXCEPT !.est = TRUE, !.stable = TRUE, !.backOff = id, !.lastBack = id]
         ELSE [c EXCEPT !.est = TRUE]
    ELSE [c EXCEPT !.est = TRUE, !.stable = TRUE]

OnEstimateBandwidth(c, id, o) ==
    LET d == [c EXCEPT !.acked = Append(@, id), !.record = TRUE,
                       !.reported = id, !.recover = FALSE]
    IN  CASE c.mode = "PROBE_BW" -> EstimateProbeBw(d, o)
          [] c.mode = "PROBE_AB" -> EstimateProbeAb(d, id, o)
          [] c.mode = "INSIST" -> EstimateInsist(d, id, o)
          [] OTHER -> d

(* The clusters that may report when a packet of cluster r is acknowledged. *)
MayReport(c, r) == {id \in DOMAIN c.clusters : c.reported < id /\ id <= r}

SeqAcked(c, n, o) ==
    IF n \notin DOMAIN c.seqRound THEN c
    ELSE LET r == c.seqRound[n]
             d == [c EXCEPT !.seqRound = Restrict(@, DOMAIN @ \ {n})]
         IN  IF r \in DOMAIN c.clusters /\ o.report \in MayReport(c, r)
             THEN OnEstimateBandwidth(d, o.report, o)
             ELSE d

(* The two requests; only the first is withdrawn.                          *)
ChangeState(c, o) ==
    LET d == IF c.toBw THEN [EnterProbeBandwidthMode(c, o) EXCEPT !.toBw = FALSE] ELSE c
    IN  IF d.toInsist THEN EnterInsistStableMode(d) ELSE d

(* With AckWindow reports an average is taken and the oldest is forgotten, *)
(* its cluster and every older one with it (RemoveClusterLE).              *)
Average(c) ==
    IF Len(c.acked) < AckWindow THEN c
    ELSE LET stale == Len(c.acked) - (AckWindow - 1)
             id == c.acked[stale]
         IN  [c EXCEPT !.acked = SubSeq(@, stale + 1, Len(@)),
                       !.clusters = Restrict(@, {k \in DOMAIN @ : k > id})]

-----------------------------------------------------------------------------
(* OnAck.                                                                  *)
BbrV1Acked(c, n, o) ==
    IF n <= c.lastAck THEN c
    ELSE LET measured == UpdateRtt([c EXCEPT !.lastAck = n], n)
             entered == c.mode = "START_UP"
             started == IF entered THEN EnterFastProbeMode(measured) ELSE measured
             cycled == UpdateGainCyclePhase1(started, entered, o)
             probed == MaybeEnterOrExitProbeRtt(cycled, o)
         IN  Average(ChangeState(SeqAcked(probed, n, o), o))

(* OnPacketSent with AddPacketInfoSampler.                                 *)
BbrV1Sent(c, n) ==
    LET d == [c EXCEPT !.stamps = @ \cup {n}]
    IN  IF c.mode \in Sampling
        THEN [d EXCEPT !.clusters = Insert(@, c.round, ShouldSendProbePacket(c)),
                       !.seqRound = Insert(@, n, c.round)]
        ELSE d

(* What an acknowledgement of n may find, where it makes a difference:     *)
(*   advance   the phase of the gain cycle is over                         *)
(*   expired   min_rtt_ is older than kMinRttExpiry                        *)
(*   over      the time of PROBE_RTT is over                               *)
(*   similar   the new rtt is close to the recorded one                    *)
(*   high      the bandwidth is close to the highest rate recorded         *)
(*   report    the cluster whose estimate is complete, 0 for none          *)
(*   infinite, lossy, low   the sent rate is not known, it is well above   *)
(*             the acknowledged one, the bandwidth no longer grows         *)
(*   first     the random number of EnterProbeBandwidthMode                *)
Maybe(p) == IF p THEN BOOLEAN ELSE {FALSE}

FindingsV1(c, n) ==
    LET r == IF n \in DOMAIN c.seqRound THEN c.seqRound[n] ELSE 0
        reports == IF r \in DOMAIN c.clusters THEN MayReport(c, r) ELSE {}
        rtt == c.mode = "PROBE_RTT"
    IN  [advance : Maybe(c.mode \in Sampling),
         expired : Maybe(~rtt /\ c.lastAck > 0),
         over : Maybe(rtt),
         similar : Maybe(rtt),
         high : Maybe(c.record /\ c.est),
         report : {0} \cup reports,
         infinite : Maybe(reports # {} /\ c.mode = "PROBE_BW"),
         lossy : Maybe(reports # {}),
         low : Maybe(reports # {} /\ c.mode = "PROBE_AB"),
         first : IF rtt \/ (reports # {} /\ c.mode = "PROBE_AB")
                 THEN 0 .. (GainCycle - 2) ELSE {0}]
=============================================================================
