----------------------------- MODULE BbrSender -----------------------------
(***************************************************************************)
(* Versions 2 to 5 of the experimental congestion controller               *)
(* (congestion/bbr_sender_v2.cc to bbr_sender_v5.cc) as a record b and one *)
(* operator per member function; where versions differ the operator's name *)
(* ends in the version.                                                    *)
(*                                                                         *)
(* Rates and times are abstract.  o is what one acknowledgement finds:     *)
(*   gain     BandwidthEstimate() reached kStartupGrowthTarget             *)
(*   drained  the flight is at most the target window (leaving DRAIN)      *)
(*   excess   the same for the target used in DECREASE                     *)
(*   expired  min_rtt_ is older than kMinRttExpiry                         *)
(*   late     the smoothed rtt (v2: the bandwidth sample) is out of bounds *)
(*   timeout  four min_rtt_record_ have passed in DECREASE (v5)            *)
(*   advance  a cycle of the pacing gain is over                           *)
(*   offset   the random number of EnterIncreaseMode                       *)
(* Version 2 keeps two round numbers for its count of bad rounds, which    *)
(* are always equal: badRound.                                             *)
(***************************************************************************)
EXTENDS MySampler, FiniteSetsExt

CONSTANTS
    StartupRounds,   \* kRoundTripsWithoutGrowthBeforeExitingStartup
    CycleLength      \* kGainCycleLength

NoBbr ==
    [mode |-> "start",
     lastSent |-> 0,        \* last_sent_packet_
     lastAck |-> 0,         \* last_ack_seq_
     roundEnd |-> 0,        \* current_round_trip_end_
     round |-> 0,           \* round_trip_count_
     packets |-> <<>>,      \* sent_packets_map_, number to bytes
     inFlight |-> 0,        \* bytes_in_flight_
     full |-> FALSE,        \* is_at_full_bandwidth_
     stalls |-> 0,          \* rounds_without_bandwidth_gain_
     cycle |-> 0,           \* cycle_current_offset_
     smooth |-> FALSE,      \* s_rtt_ is not zero
     base |-> FALSE,        \* base_line_rtt_ is not infinite
     backoff |-> 0,         \* seq_at_backoff_
     flag |-> FALSE,        \* congestion_backoff_flag_
     refresh |-> FALSE,     \* min_rtt_expired_ (v5)
     badRound |-> 0,        \* congestion_start_round_ (v2)
     sampler |-> NoSamples]

BytesOf(packets, S) == MapThenSumSet(LAMBDA n : packets[n], S)

BbrSent(b, n, bytes) ==
    IF n <= b.lastSent THEN b
    ELSE [b EXCEPT !.lastSent = n,
                   !.sampler = SamplerSent(@, n, bytes, b.inFlight),
                   !.inFlight = @ + bytes,
                   !.packets = Insert(@, n, bytes)]

-----------------------------------------------------------------------------
(* Faulty variant: only the acknowledged packet leaves the flight.         *)
EraseOnly(b, n) ==
    LET gone == DOMAIN b.packets \cap {n}
    IN  [b EXCEPT !.inFlight = @ - BytesOf(b.packets, gone),
                  !.packets = Restrict(@, DOMAIN @ \ gone)]

(* UpdateRttAndInflight: every packet up to the acknowledged one leaves.   *)
EraseUpTo(b, n) ==
    LET gone == {k \in DOMAIN b.packets : k <= n}
    IN  [b EXCEPT !.inFlight = @ - BytesOf(b.packets, gone),
                  !.packets = Restrict(@, DOMAIN @ \ gone)]

(* The smoothed rtt and its base line count packets sent after the last    *)
(* back-off only.  Version 5 keeps them here, versions 3 and 4 in          *)
(* UpdateCongestionSignal, after the mode has been decided.                *)
UpdateRttAndInflight5(b, n) ==
    LET measures == b.mode = "increase" /\ n > b.backoff /\ n \in DOMAIN b.packets
    IN  EraseUpTo([b EXCEPT !.smooth = @ \/ measures, !.base = @ \/ measures], n)

(* Faulty variant: a sample of any packet counts.                          *)
UpdateCongestionSignalAny(b, n) == [b EXCEPT !.smooth = TRUE, !.base = TRUE]

UpdateCongestionSignal(b, n) ==
    LET measures == n > b.backoff
    IN  [b EXCEPT !.smooth = @ \/ measures, !.base = @ \/ measures]

(* Faulty variant: the acknowledgement that ends a round may end the next. *)
RoundOverEarly(b, n) == n >= b.roundEnd

RoundOver(b, n) == n > b.roundEnd

UpdateRoundTripCounter(b, n) ==
    IF RoundOver(b, n)
    THEN [b EXCEPT !.round = @ + 1, !.roundEnd = b.lastSent]
    ELSE b

CheckIfFullBandwidthReached(b, o) ==
    IF o.gain
    THEN [b EXCEPT !.stalls = 0]
    ELSE [b EXCEPT !.stalls = @ + 1, !.full = b.stalls + 1 >= StartupRounds]

-----------------------------------------------------------------------------
(* The offset 1, which drains, is never the first.                         *)
FirstOffset(o) == IF o.offset >= 1 THEN o.offset + 1 ELSE o.offset

EnterIncreaseMode2(b, o) == [b EXCEPT !.mode = "increase"]

EnterIncreaseMode3(b, o) == [b EXCEPT !.mode = "increase", !.cycle = o.offset]

EnterIncreaseMode(b, o) == [b EXCEPT !.mode = "increase", !.cycle = FirstOffset(o)]

(* With nothing in flight the target window, never zero, is not exceeded.  *)
Drained(b, o) == o.drained \/ b.inFlight = 0
Excess(b, o) == o.excess \/ b.inFlight = 0

MaybeExitStartupOrDrain(ver, b, o) ==
    LET c == IF b.mode = "start" /\ b.full THEN [b EXCEPT !.mode = "drain"] ELSE b
    IN  IF ~(c.mode = "drain" /\ Drained(c, o)) THEN c
        ELSE CASE ver = 2 -> EnterIncreaseMode2(c, o)
               [] ver = 3 -> EnterIncreaseMode3(c, o)
               [] OTHER -> EnterIncreaseMode(c, o)

(* Versions 4 and 5 start the cycle with the mode, so that it does not     *)
(* advance with the acknowledgement that entered the mode.                 *)
UpdateGainCyclePhase(b, entered, o) ==
    IF b.mode = "increase" /\ o.advance /\ ~entered
    THEN [b EXCEPT !.cycle = (@ + 1) % CycleLength]
    ELSE b

(* The cycle of version 3 leaves out its last entry and is not restarted.  *)
UpdateAICycle(b, o) ==
    IF b.mode = "increase" /\ o.advance
    THEN [b EXCEPT !.cycle = (@ + 1) % (CycleLength - 1)]
    ELSE b

-----------------------------------------------------------------------------
(* Version 2 backs off after two bad rounds in a row.  A second bad round  *)
(* that does not follow the first at once starts the count again.          *)
CheckIfCongestion2(b, round, o) ==
    o.late /\ b.badRound # 0 /\ round = b.badRound + 1

CountBadRound(b, round, o) ==
    IF ~o.late THEN b
    ELSE [b EXCEPT !.badRound = IF @ = 0 THEN round ELSE 0]

(* Versions 3 and 4 differ in the bounds of the smoothed rtt.              *)
CheckIfCongestion3(b, o) == b.smooth /\ b.base /\ o.late

CheckIfCongestion4(b, o) == b.smooth /\ b.base /\ o.late

CheckIfCongestion5(b, o) == b.base /\ o.late

(* The measurements start again with the packets sent from now on.         *)
BackOff(b) ==
    [b EXCEPT !.backoff = b.lastSent, !.smooth = FALSE, !.base = FALSE]

(* MaybeEnterOrExitDecrease, by version.  The acknowledgement that enters  *)
(* the mode may leave it again.                                            *)
Enters(b, congested, o) == b.mode # "decrease" /\ (o.expired \/ congested)

Decrease2(b, congested, o) ==
    LET c == IF Enters(b, congested, o) THEN [b EXCEPT !.mode = "decrease"] ELSE b
    IN  IF c.mode = "decrease" /\ Excess(c, o) THEN EnterIncreaseMode2(c, o) ELSE c

EnterDecrease(b, congested) ==
    IF congested
    THEN [BackOff(b) EXCEPT !.mode = "decrease", !.flag = TRUE]
    ELSE [b EXCEPT !.mode = "decrease"]

(* Version 3 moves the back-off along until the excess has drained.        *)
Decrease3(b, congested, o) ==
    LET c == IF Enters(b, congested, o) THEN EnterDecrease(b, congested) ELSE b
        d == IF c.flag THEN [c EXCEPT !.backoff = b.lastSent] ELSE c
    IN  CASE c.mode # "decrease" -> c
          [] c.mode = "decrease" /\ ~Excess(d, o) -> d
          [] OTHER -> EnterIncreaseMode3([d EXCEPT !.flag = FALSE], o)

Decrease4(b, congested, o) ==
    LET c == IF Enters(b, congested, o) THEN EnterDecrease(b, congested) ELSE b
    IN  IF c.mode = "decrease" /\ Excess(c, o)
        THEN EnterIncreaseMode([c EXCEPT !.flag = FALSE], o)
        ELSE c

(* Version 5 starts its measurements again whatever the reason, and leaves *)
(* after four round trips when it entered to refresh min_rtt_.             *)
Decrease5(b, congested, o) ==
    LET enters == Enters(b, congested, o)
        c == IF enters
             THEN [BackOff(b) EXCEPT !.mode = "decrease", !.refresh = o.expired]
             ELSE b
        leaves == Excess(c, o) \/ (c.refresh /\ o.timeout /\ ~enters)
    IN  IF c.mode = "decrease" /\ leaves
        THEN EnterIncreaseMode([c EXCEPT !.refresh = FALSE], o)
        ELSE c

-----------------------------------------------------------------------------
(* What every OnAck begins with: the packets the number jumps over are     *)
(* given up by the sampler.                                                *)
Counted(ver, b, n) ==
    LET jumped == [b EXCEPT !.sampler = PacketInfoRemove(@, (b.lastAck + 1) .. (n - 1)),
                            !.lastAck = n]
        left == IF ver = 5 THEN UpdateRttAndInflight5(jumped, n) ELSE EraseUpTo(jumped, n)
    IN  [UpdateRoundTripCounter(left, n) EXCEPT !.sampler = SamplerAcked(@, n)]

FullBandwidth(b, over, o) ==
    IF over /\ ~b.full THEN CheckIfFullBandwidthReached(b, o) ELSE b

(* OnAck of each version, after its first lines.  over is is_round_update, *)
(* round the number of the round before.  Version 2 looks for the end of   *)
(* the start-up first and for congestion last, the others the other way    *)
(* round; version 5 looks for congestion with every acknowledgement.       *)
OnAck2(b, n, over, round, o) ==
    LET c == MaybeExitStartupOrDrain(2, FullBandwidth(b, over, o), o)
        checks == over /\ c.mode = "increase"
    IN  Decrease2(IF checks THEN CountBadRound(c, round, o) ELSE c,
                  checks /\ CheckIfCongestion2(c, round, o), o)

OnAck3(b, n, over, o) ==
    LET congested == over /\ b.mode = "increase" /\ CheckIfCongestion3(b, o)
        c == UpdateCongestionSignal(Decrease3(b, congested, o), n)
    IN  UpdateAICycle(
            MaybeExitStartupOrDrain(3, FullBandwidth(c, over, o), o), o)

OnAck4(b, n, over, o) ==
    LET congested == over /\ b.mode = "increase" /\ CheckIfCongestion4(b, o)
        c == UpdateCongestionSignal(Decrease4(b, congested, o), n)
        d == MaybeExitStartupOrDrain(4, FullBandwidth(c, over, o), o)
    IN  UpdateGainCyclePhase(d, b.mode # "increase" \/ congested \/ o.expired, o)

OnAck5(b, n, over, o) ==
    LET congested == b.mode = "increase" /\ CheckIfCongestion5(b, o)
        c == Decrease5(b, congested, o)
        d == MaybeExitStartupOrDrain(5, FullBandwidth(c, over, o), o)
    IN  UpdateGainCyclePhase(d, b.mode # "increase" \/ congested \/ o.expired, o)

(* OnAck of the version the sender was built with.  The first round only   *)
(* counts.                                                                 *)
BbrAcked(ver, b, n, o) ==
    IF n <= b.lastAck THEN b
    ELSE LET over == RoundOver(b, n)
             c == Counted(ver, b, n)
         IN  CASE b.round = 0 -> c
               [] b.round # 0 /\ ver = 2 -> OnAck2(c, n, over, b.round, o)
               [] b.round # 0 /\ ver = 3 -> OnAck3(c, n, over, o)
               [] b.round # 0 /\ ver = 4 -> OnAck4(c, n, over, o)
               [] OTHER -> OnAck5(c, n, over, o)

(* What an acknowledgement may find, where it makes a difference.          *)
Either(p) == IF p THEN BOOLEAN ELSE {FALSE}

Findings(ver, b) ==
    [gain : Either(~b.full),
     drained : Either(b.mode \in {"start", "drain"}),
     excess : BOOLEAN,
     expired : Either(b.mode # "decrease"),
     late : Either(b.mode = "increase" \/ ver = 2),
     timeout : Either(ver = 5 /\ b.refresh),
     advance : Either(ver # 2),
     offset : IF ver = 2 THEN {0} ELSE 0 .. (CycleLength - 2)]
=============================================================================
