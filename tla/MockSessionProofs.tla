------------------------- MODULE MockSessionProofs -------------------------
(***************************************************************************)
(* Proofs about MockSession, for every version of the controller and any   *)
(* number of packets.                                                      *)
(***************************************************************************)
EXTENDS MockSession, TLAPS, FiniteSetTheorems, SequenceTheorems, WellFoundedInduction

BbrFields ==
    {"mode", "lastSent", "lastAck", "roundEnd", "round", "packets", "inFlight", "full",
     "stalls", "cycle", "smooth", "base", "backoff", "flag", "refresh", "badRound", "sampler"}
SamplerFields == {"sent", "acked", "sentAtLast", "infos"}
-----------------------------------------------------------------------------
(***************************************************************************)
(* Versions 2 to 5: what the member functions called by OnAck leave alone. *)
(***************************************************************************)
\* c has the tables and counters of b.
Kept(b, c) ==
    /\ DOMAIN c = BbrFields
    /\ c.lastSent = b.lastSent /\ c.lastAck = b.lastAck
    /\ c.packets = b.packets /\ c.inFlight = b.inFlight /\ c.sampler = b.sampler
    /\ c.round = b.round /\ c.roundEnd = b.roundEnd

\* It has its base line and its back-off as well, and has not left DECREASE.
Same(b, c) ==
    /\ Kept(b, c)
    /\ c.base = b.base /\ c.backoff = b.backoff /\ c.flag = b.flag
    /\ b.mode = "decrease" => c.mode = "decrease"

\* A base line that is still there has not been touched by a back-off.
Decreased(b, c) ==
    /\ Kept(b, c)
    /\ c.base = FALSE \/ (c.base = b.base /\ c.backoff = b.backoff)
    /\ c.backoff \in {b.backoff, b.lastSent}
    /\ c.flag \in {b.flag, TRUE, FALSE}

\* Keeping the same is transitive.
LEMMA SameTwice ==
    ASSUME NEW b, NEW c, NEW d, Same(b, c), Same(c, d)
    PROVE  Same(b, d)
  BY DEF Same, Kept

\* CheckIfFullBandwidthReached, when it is called.
LEMMA FullBandwidthSame ==
    ASSUME NEW b, DOMAIN b = BbrFields, NEW over, NEW o
    PROVE  Same(b, FullBandwidth(b, over, o))
  BY DEF FullBandwidth, CheckIfFullBandwidthReached, Same, Kept, BbrFields

\* MaybeExitStartupOrDrain of each version.
LEMMA MaybeExitSame ==
    ASSUME NEW ver0, NEW b, DOMAIN b = BbrFields, NEW o
    PROVE  Same(b, MaybeExitStartupOrDrain(ver0, b, o))
<1> DEFINE c == IF b.mode = "start" /\ b.full THEN [b EXCEPT !.mode = "drain"] ELSE b
<1>1. Same(b, c) /\ DOMAIN c = BbrFields
  BY DEF Same, Kept, BbrFields
<1>2. /\ c.mode = "drain" => Same(c, EnterIncreaseMode2(c, o))
      /\ c.mode = "drain" => Same(c, EnterIncreaseMode3(c, o))
      /\ c.mode = "drain" => Same(c, EnterIncreaseMode(c, o))
      /\ Same(c, c)
  BY <1>1 DEF EnterIncreaseMode2, EnterIncreaseMode3, EnterIncreaseMode, Same, Kept, BbrFields
<1> HIDE DEF c
<1>3. \/ MaybeExitStartupOrDrain(ver0, b, o) = c
      \/ c.mode = "drain" /\ MaybeExitStartupOrDrain(ver0, b, o)
             \in {EnterIncreaseMode2(c, o), EnterIncreaseMode3(c, o), EnterIncreaseMode(c, o)}
  BY DEF MaybeExitStartupOrDrain, c
<1> QED
  BY <1>1, <1>2, <1>3, SameTwice

\* The cycles of the gain.
LEMMA CyclesSame ==
    ASSUME NEW b, DOMAIN b = BbrFields, NEW e, NEW o
    PROVE  Same(b, UpdateGainCyclePhase(b, e, o)) /\ Same(b, UpdateAICycle(b, o))
  BY DEF UpdateGainCyclePhase, UpdateAICycle, Same, Kept, BbrFields

\* CheckIfCongestion of version 2 counts bad rounds.
LEMMA CountBadRoundSame ==
    ASSUME NEW b, DOMAIN b = BbrFields, NEW round0, NEW o
    PROVE  Same(b, CountBadRound(b, round0, o))
  BY DEF CountBadRound, Same, Kept, BbrFields

\* MaybeEnterOrExitDecrease of version 2.
LEMMA Decrease2Keeps ==
    ASSUME NEW b, DOMAIN b = BbrFields, NEW congested, NEW o
    PROVE  Decreased(b, Decrease2(b, congested, o))
  BY DEF Decrease2, EnterIncreaseMode2, Decreased, Kept, BbrFields

\* The same of version 4.
LEMMA Decrease4Keeps ==
    ASSUME NEW b, DOMAIN b = BbrFields, NEW congested, NEW o
    PROVE  Decreased(b, Decrease4(b, congested, o))
  BY DEF Decrease4, EnterDecrease, BackOff, EnterIncreaseMode, Decreased, Kept, BbrFields

\* The same of version 5.
LEMMA Decrease5Keeps ==
    ASSUME NEW b, DOMAIN b = BbrFields, NEW congested, NEW o
    PROVE  Decreased(b, Decrease5(b, congested, o))
  BY DEF Decrease5, BackOff, EnterIncreaseMode, Decreased, Kept, BbrFields

\* The part of a controller the properties are about.
CcOK(v, b) ==
    /\ DOMAIN b = BbrFields /\ DOMAIN b.sampler = SamplerFields
    /\ b.lastSent \in Nat /\ b.lastAck \in Nat /\ b.backoff \in Nat
    /\ b.round \in Nat /\ b.roundEnd \in Nat /\ b.roundEnd <= b.lastSent
    /\ b.base \in BOOLEAN /\ b.flag \in BOOLEAN
    /\ b.base => b.lastAck > b.backoff
    /\ v = 3 => (b.flag => b.mode = "decrease" /\ b.base = FALSE)

\* What is in flight in both tables.
InFlight(b) == {n \in Nat : b.lastAck < n /\ n <= b.lastSent}
TablesOK(b) == DOMAIN b.packets = InFlight(b) /\ DOMAIN b.sampler.infos = InFlight(b)

\* PacketInfoRemove takes packets out of the sampler's table.
LEMMA PacketInfoRemoved ==
    ASSUME NEW s, DOMAIN s = SamplerFields, NEW gone
    PROVE  /\ DOMAIN PacketInfoRemove(s, gone) = SamplerFields
           /\ DOMAIN PacketInfoRemove(s, gone).infos = DOMAIN s.infos \ gone
  BY DEF PacketInfoRemove, Restrict, SamplerFields

\* The part of OnAck that all versions share: the tables lose what the number
\* passes over, and the round counts on when it is past the end of the round.
LEMMA CountedOK ==
    ASSUME NEW v, NEW b, CcOK(v, b), TablesOK(b), NEW n \in InFlight(b)
    PROVE  LET c == Counted(v, b, n)
           IN  /\ CcOK(v, c) /\ TablesOK(c)
               /\ c.lastAck = n /\ c.lastSent = b.lastSent
               /\ IF n > b.roundEnd
                  THEN c.round = b.round + 1 /\ c.roundEnd = b.lastSent
                  ELSE c.round = b.round /\ c.roundEnd = b.roundEnd
<1> DEFINE jumped == [b EXCEPT !.sampler = PacketInfoRemove(@, (b.lastAck + 1) .. (n - 1)),
                               !.lastAck = n]
           left == IF v = 5 THEN UpdateRttAndInflight5(jumped, n) ELSE EraseUpTo(jumped, n)
           counted == UpdateRoundTripCounter(left, n)
           s == SamplerAcked(counted.sampler, n)
           c == Counted(v, b, n)
<1>1. n \in Nat /\ b.lastAck < n /\ n <= b.lastSent /\ b.lastAck \in Nat /\ b.lastSent \in Nat
  BY DEF InFlight, CcOK
<1>2. /\ DOMAIN jumped = BbrFields /\ jumped.lastAck = n
      /\ jumped.sampler = PacketInfoRemove(b.sampler, (b.lastAck + 1) .. (n - 1))
      /\ \A f \in BbrFields \ {"sampler", "lastAck"} : jumped[f] = b[f]
  BY DEF CcOK, BbrFields
<1>3. /\ DOMAIN jumped.sampler = SamplerFields
      /\ DOMAIN jumped.sampler.infos = InFlight(b) \ ((b.lastAck + 1) .. (n - 1))
  <2> DEFINE gone == (b.lastAck + 1) .. (n - 1)
  <2>1. DOMAIN b.sampler = SamplerFields /\ DOMAIN b.sampler.infos = InFlight(b)
    BY DEF CcOK, TablesOK
  <2>2. jumped.sampler = PacketInfoRemove(b.sampler, gone)
    BY <1>2
  <2> HIDE DEF gone
  <2>3. DOMAIN jumped.sampler.infos = InFlight(b) \ gone /\ DOMAIN jumped.sampler = SamplerFields
    BY <2>1, <2>2, PacketInfoRemoved
  <2> QED
    BY <2>3 DEF gone
<1> HIDE DEF jumped
<1>4. /\ DOMAIN left = BbrFields
      /\ DOMAIN left.packets = {k \in DOMAIN b.packets : ~(k <= n)}
      /\ \A f \in BbrFields \ {"packets", "inFlight", "smooth", "base"} : left[f] = jumped[f]
      /\ left.base = b.base \/ (left.base = TRUE /\ n > b.backoff /\ v = 5)
      /\ left.base \in BOOLEAN
  BY <1>2 DEF UpdateRttAndInflight5, EraseUpTo, Restrict, CcOK, BbrFields
<1> HIDE DEF left
<1>5. /\ DOMAIN counted = BbrFields
      /\ \A f \in BbrFields \ {"round", "roundEnd"} : counted[f] = left[f]
      /\ IF n > b.roundEnd
         THEN counted.round = b.round + 1 /\ counted.roundEnd = b.lastSent
         ELSE counted.round = b.round /\ counted.roundEnd = b.roundEnd
  BY <1>2, <1>4 DEF UpdateRoundTripCounter, RoundOver, BbrFields
<1> HIDE DEF counted
<1>6. counted.sampler = jumped.sampler
  BY <1>4, <1>5 DEF BbrFields
<1>7. /\ DOMAIN s = SamplerFields
      /\ DOMAIN s.infos = DOMAIN jumped.sampler.infos \ {n}
  BY <1>3, <1>6 DEF SamplerAcked, PacketInfoRemove, Restrict, SamplerFields
<1>8. c = [counted EXCEPT !.sampler = SamplerAcked(@, n)]
  BY DEF Counted, jumped, left, counted
<1>9. DOMAIN c = BbrFields /\ c.sampler = s /\ \A f \in BbrFields \ {"sampler"} : c[f] = counted[f]
  BY <1>5, <1>8 DEF BbrFields
<1> HIDE DEF s, c
<1>10. /\ c.lastAck = n /\ c.lastSent = b.lastSent /\ c.backoff = b.backoff
       /\ c.flag = b.flag /\ c.mode = b.mode /\ c.base = left.base
       /\ c.packets = left.packets
       /\ c.round = counted.round /\ c.roundEnd = counted.roundEnd
  BY <1>2, <1>4, <1>5, <1>9 DEF BbrFields
<1>11. DOMAIN c.packets = {k \in Nat : n < k /\ k <= b.lastSent}
  BY <1>1, <1>4, <1>10 DEF TablesOK, InFlight
<1>12. DOMAIN c.sampler.infos = {k \in Nat : n < k /\ k <= b.lastSent}
  BY <1>1, <1>3, <1>7, <1>9 DEF InFlight
<1>13. TablesOK(c)
  BY <1>10, <1>11, <1>12 DEF TablesOK, InFlight
<1>14. CcOK(v, c)
  BY <1>1, <1>4, <1>5, <1>7, <1>9, <1>10 DEF CcOK
<1> QED
  BY <1>5, <1>10, <1>13, <1>14 DEF c

\* Keeping the same keeps what matters.
LEMMA SameOK ==
    ASSUME NEW v, NEW b, NEW c, Same(b, c), CcOK(v, b), TablesOK(b)
    PROVE  CcOK(v, c) /\ TablesOK(c)
  BY DEF Same, Kept, CcOK, TablesOK, InFlight

\* A back-off keeps it too, except for the flag of version 3.
LEMMA DecreasedOK ==
    ASSUME NEW v, NEW b, NEW c, Decreased(b, c), CcOK(v, b), TablesOK(b),
           v = 3 => c.flag \in BOOLEAN /\ (c.flag => c.mode = "decrease" /\ c.base = FALSE)
    PROVE  CcOK(v, c) /\ TablesOK(c)
  BY DEF Decreased, Kept, CcOK, TablesOK, InFlight

\* The base line begins with a packet sent after the back-off.
LEMMA UpdateCongestionSignalOK ==
    ASSUME NEW v, NEW b, CcOK(v, b), TablesOK(b),
           v = 3 => (b.flag => b.backoff = b.lastSent), b.lastAck <= b.lastSent
    PROVE  LET c == UpdateCongestionSignal(b, b.lastAck)
           IN  CcOK(v, c) /\ TablesOK(c) /\ Kept(b, c)
  BY DEF UpdateCongestionSignal, CcOK, TablesOK, InFlight, Kept, BbrFields

\* OnAck of a number that is in flight, in every version.
LEMMA BbrAckedOK ==
    ASSUME NEW v \in 2 .. 5, NEW b, CcOK(v, b), TablesOK(b), NEW n \in InFlight(b), NEW o
    PROVE  LET c == BbrAcked(v, b, n, o)
           IN  /\ CcOK(v, c) /\ TablesOK(c) /\ Kept(Counted(v, b, n), c)
               /\ c.lastAck = n /\ c.lastSent = b.lastSent
               /\ IF n > b.roundEnd
                  THEN c.round = b.round + 1 /\ c.roundEnd = b.lastSent
                  ELSE c.round = b.round /\ c.roundEnd = b.roundEnd
<1> DEFINE c == Counted(v, b, n)
           over == RoundOver(b, n)
           Good(d) == CcOK(v, d) /\ TablesOK(d) /\ Kept(c, d)
<1>1. /\ CcOK(v, c) /\ TablesOK(c)
      /\ c.lastAck = n /\ c.lastSent = b.lastSent
      /\ IF n > b.roundEnd
         THEN c.round = b.round + 1 /\ c.roundEnd = b.lastSent
         ELSE c.round = b.round /\ c.roundEnd = b.roundEnd
  BY CountedOK
<1>2. n <= b.lastSent /\ ~(n <= b.lastAck)
  BY DEF InFlight, CcOK
<1>3. BbrAcked(v, b, n, o) =
         IF b.round = 0 THEN c
         ELSE IF v = 2 THEN OnAck2(c, n, over, b.round, o)
         ELSE IF v = 3 THEN OnAck3(c, n, over, o)
         ELSE IF v = 4 THEN OnAck4(c, n, over, o)
         ELSE OnAck5(c, n, over, o)
  BY <1>2 DEF BbrAcked
<1> HIDE DEF c, over
<1>4. DOMAIN c = BbrFields /\ Good(c)
  BY <1>1 DEF CcOK, Kept
<1>5. ASSUME NEW d, Good(d), NEW e, Same(d, e) PROVE Good(e) /\ DOMAIN e = BbrFields
  BY <1>5, SameOK DEF Same, Kept
<1>6. ASSUME NEW d, Good(d), NEW e, Decreased(d, e),
             v = 3 => e.flag \in BOOLEAN /\ (e.flag => e.mode = "decrease" /\ e.base = FALSE)
      PROVE  Good(e) /\ DOMAIN e = BbrFields
  BY <1>6, DecreasedOK DEF Decreased, Kept
<1>7. ASSUME NEW d, Good(d), v = 3 => (d.flag => d.backoff = d.lastSent)
      PROVE  Good(UpdateCongestionSignal(d, n)) /\ DOMAIN UpdateCongestionSignal(d, n) = BbrFields
  <2>1. d.lastAck = n /\ d.lastSent = b.lastSent
    BY <1>1, <1>7 DEF Kept
  <2> QED
    BY <1>2, <1>7, <2>1, UpdateCongestionSignalOK DEF Kept
<1>8. ASSUME v = 2 PROVE Good(OnAck2(c, n, over, b.round, o))
  <2> DEFINE d == FullBandwidth(c, over, o)
             e == MaybeExitStartupOrDrain(2, d, o)
             checks == over /\ e.mode = "increase"
             f == IF checks THEN CountBadRound(e, b.round, o) ELSE e
  <2>1. Good(d) /\ DOMAIN d = BbrFields
    BY <1>4, <1>5, FullBandwidthSame
  <2> HIDE DEF d
  <2>2. Good(e) /\ DOMAIN e = BbrFields
    BY <1>5, <2>1, MaybeExitSame
  <2> HIDE DEF e
  <2>3. Good(f) /\ DOMAIN f = BbrFields
    BY <1>5, <2>2, CountBadRoundSame
  <2> HIDE DEF f
  <2>4. Decreased(f, Decrease2(f, checks /\ CheckIfCongestion2(e, b.round, o), o))
    BY <2>3, Decrease2Keeps
  <2>5. OnAck2(c, n, over, b.round, o) = Decrease2(f, checks /\ CheckIfCongestion2(e, b.round, o), o)
    BY DEF OnAck2, d, e, f
  <2> QED
    BY <1>6, <1>8, <2>3, <2>4, <2>5
<1>9. ASSUME v = 3 PROVE Good(OnAck3(c, n, over, o))
  <2> DEFINE congested == over /\ c.mode = "increase" /\ CheckIfCongestion3(c, o)
             d == Decrease3(c, congested, o)
             e == UpdateCongestionSignal(d, n)
             f == FullBandwidth(e, over, o)
             g == MaybeExitStartupOrDrain(3, f, o)
  <2> HIDE DEF congested, Good
  \* The flag moves the back-off along, which only happens in DECREASE and
  \* without a base line.
  <2>1. /\ DOMAIN c = BbrFields /\ c.flag \in BOOLEAN
        /\ c.flag => c.mode = "decrease" /\ c.base = FALSE
    BY <1>1, <1>9 DEF CcOK
  <2>2. /\ Decreased(c, d) /\ d.flag \in BOOLEAN
        /\ d.flag => d.mode = "decrease" /\ d.base = FALSE /\ d.backoff = c.lastSent
    BY <2>1 DEF Decrease3, EnterDecrease, BackOff, EnterIncreaseMode3, Decreased, Kept, BbrFields
  <2> USE DEF Good
  <2> HIDE DEF d
  <2>3. Good(d) /\ DOMAIN d = BbrFields
    BY <1>4, <1>6, <2>2
  <2>4. Good(e) /\ DOMAIN e = BbrFields
    BY <1>7, <2>2, <2>3 DEF Kept
  <2> HIDE DEF e
  <2>5. Good(f) /\ DOMAIN f = BbrFields
    BY <1>5, <2>4, FullBandwidthSame
  <2> HIDE DEF f
  <2>6. Good(g) /\ DOMAIN g = BbrFields
    BY <1>5, <2>5, MaybeExitSame
  <2> HIDE DEF g
  <2>7. Good(UpdateAICycle(g, o))
    BY <1>5, <2>6, CyclesSame
  <2>8. OnAck3(c, n, over, o) = UpdateAICycle(g, o)
    BY DEF OnAck3, congested, d, e, f, g
  <2> QED
    BY <2>7, <2>8
<1>10. ASSUME v = 4 PROVE Good(OnAck4(c, n, over, o))
  <2> DEFINE congested == over /\ c.mode = "increase" /\ CheckIfCongestion4(c, o)
             d == Decrease4(c, congested, o)
             e == UpdateCongestionSignal(d, n)
             f == FullBandwidth(e, over, o)
             g == MaybeExitStartupOrDrain(4, f, o)
             h == UpdateGainCyclePhase(g, c.mode # "increase" \/ congested \/ o.expired, o)
  <2>1. Decreased(c, d)
    BY <1>4, Decrease4Keeps
  <2> HIDE DEF d
  <2>2. Good(d) /\ DOMAIN d = BbrFields
    BY <1>4, <1>6, <1>10, <2>1
  <2>3. Good(e) /\ DOMAIN e = BbrFields
    BY <1>7, <1>10, <2>2
  <2> HIDE DEF e
  <2>4. Good(f) /\ DOMAIN f = BbrFields
    BY <1>5, <2>3, FullBandwidthSame
  <2> HIDE DEF f
  <2>5. Good(g) /\ DOMAIN g = BbrFields
    BY <1>5, <2>4, MaybeExitSame
  <2> HIDE DEF g
  <2>6. Good(h)
    BY <1>5, <2>5, CyclesSame
  <2>7. OnAck4(c, n, over, o) = h
    BY DEF OnAck4, d, e, f, g
  <2> QED
    BY <2>6, <2>7
<1>11. ASSUME v = 5 PROVE Good(OnAck5(c, n, over, o))
  <2> DEFINE congested == c.mode = "increase" /\ CheckIfCongestion5(c, o)
             d == Decrease5(c, congested, o)
             f == FullBandwidth(d, over, o)
             g == MaybeExitStartupOrDrain(5, f, o)
             h == UpdateGainCyclePhase(g, c.mode # "increase" \/ congested \/ o.expired, o)
  <2>1. Decreased(c, d)
    BY <1>4, Decrease5Keeps
  <2> HIDE DEF d
  <2>2. Good(d) /\ DOMAIN d = BbrFields
    BY <1>4, <1>6, <1>11, <2>1
  <2>3. Good(f) /\ DOMAIN f = BbrFields
    BY <1>5, <2>2, FullBandwidthSame
  <2> HIDE DEF f
  <2>4. Good(g) /\ DOMAIN g = BbrFields
    BY <1>5, <2>3, MaybeExitSame
  <2> HIDE DEF g
  <2>5. Good(h)
    BY <1>5, <2>4, CyclesSame
  <2>6. OnAck5(c, n, over, o) = h
    BY DEF OnAck5, d, f, g
  <2> QED
    BY <2>5, <2>6
<1>12. Good(BbrAcked(v, b, n, o))
  BY <1>3, <1>4, <1>8, <1>9, <1>10, <1>11
<1> HIDE DEF Good
<1>13. /\ CcOK(v, BbrAcked(v, b, n, o)) /\ TablesOK(BbrAcked(v, b, n, o))
       /\ Kept(c, BbrAcked(v, b, n, o))
  BY <1>12 DEF Good
<1> QED
  BY <1>1, <1>13 DEF Kept, c

\* OnPacketSent of the next number.
LEMMA BbrSentOK ==
    ASSUME NEW v \in 2 .. 5, NEW b, CcOK(v, b), TablesOK(b), b.lastAck <= b.lastSent,
           NEW n, n = b.lastSent + 1, NEW bytes
    PROVE  LET c == BbrSent(b, n, bytes)
           IN  /\ CcOK(v, c) /\ TablesOK(c)
               /\ c.lastAck = b.lastAck /\ c.lastSent = n
               /\ c.round = b.round /\ c.roundEnd = b.roundEnd
<1> DEFINE s == SamplerSent(b.sampler, n, bytes, b.inFlight)
           c == BbrSent(b, n, bytes)
<1>1. n \in Nat /\ ~(n <= b.lastSent) /\ b.lastAck < n
  BY DEF CcOK
<1>2. DOMAIN s = SamplerFields /\ DOMAIN s.infos = DOMAIN b.sampler.infos \cup {n}
  BY DEF SamplerSent, Insert, CcOK, SamplerFields
<1> HIDE DEF s
<1>3. c = [b EXCEPT !.lastSent = n, !.sampler = s, !.inFlight = @ + bytes,
                    !.packets = Insert(@, n, bytes)]
  BY <1>1 DEF BbrSent, s, CcOK, BbrFields
<1> HIDE DEF c
<1>4. /\ DOMAIN c = BbrFields /\ c.lastSent = n /\ c.sampler = s
      /\ DOMAIN c.packets = DOMAIN b.packets \cup {n}
      /\ \A f \in BbrFields \ {"lastSent", "sampler", "inFlight", "packets"} : c[f] = b[f]
  BY <1>3 DEF CcOK, BbrFields, Insert
<1>5. /\ c.lastAck = b.lastAck /\ c.round = b.round /\ c.roundEnd = b.roundEnd
      /\ c.mode = b.mode /\ c.base = b.base /\ c.backoff = b.backoff /\ c.flag = b.flag
  BY <1>4 DEF BbrFields
<1>6. InFlight(c) = InFlight(b) \cup {n}
  BY <1>1, <1>4, <1>5 DEF InFlight, CcOK
<1>7. TablesOK(c)
  BY <1>2, <1>4, <1>6 DEF TablesOK
<1>8. CcOK(v, c)
  BY <1>1, <1>2, <1>4, <1>5 DEF CcOK
<1> QED
  BY <1>4, <1>5, <1>7, <1>8 DEF c

-----------------------------------------------------------------------------
(***************************************************************************)
(* The byte counters of versions 2 to 5.                                   *)
(***************************************************************************)
\* What was sent and acknowledged, in bytes, follows from the two high-water
\* marks, and a snapshot never has more than the totals.
SamplerOK(s, lastSent, lastAck) ==
    /\ s.sent = Bytes * lastSent
    /\ s.acked \in Nat /\ s.acked <= Bytes * lastAck
    /\ s.sentAtLast \in Nat /\ s.sentAtLast <= s.sent
    /\ \A n \in DOMAIN s.infos :
         LET p == s.infos[n]
         IN  /\ p.size = Bytes
             /\ p.sent \in Nat /\ p.sent <= s.sent
             /\ p.sentAtLast \in Nat /\ p.sentAtLast <= p.sent
             /\ p.acked \in Nat /\ p.acked <= s.acked

\* The bytes in flight follow from them too.
BytesOK(b) ==
    /\ \A n \in DOMAIN b.packets : b.packets[n] = Bytes
    /\ b.inFlight = Bytes * (b.lastSent - b.lastAck)
    /\ SamplerOK(b.sampler, b.lastSent, b.lastAck)

\* A set of naturals that is not empty has a least element.
LessThan == {pair \in Nat \X Nat : pair[1] < pair[2]}

LEMMA LeastOf ==
    ASSUME NEW S \in SUBSET Nat, S # {}
    PROVE  \E n \in S : \A m \in S : n <= m
<1>1. IsWellFoundedOn(LessThan, Nat)
  BY NatLessThanWellFounded DEF OpToRel, LessThan
<1>2. PICK n \in S : \A m \in S : <<m, n>> \notin LessThan
  BY <1>1, WFMin
<1>3. ASSUME NEW m \in S PROVE n <= m
  <2>1. <<m, n>> \notin LessThan
    BY <1>2
  <2> QED
    BY <2>1 DEF LessThan
<1> QED
  BY <1>3

\* bytes_in_flight_ loses the size of each packet that leaves (the loop of
\* UpdateRttAndInflight): together as many times Bytes as packets leave.
LEMMA BytesOfPadding ==
    ASSUME NEW f, NEW S, IsFiniteSet(S), \A n \in S : f[n] = Bytes
    PROVE  BytesOf(f, S) = Bytes * Cardinality(S)
<1> DEFINE pick(s) == CHOOSE x \in s : TRUE
           Sums(g) == g = [s \in SUBSET S |->
                             IF s = {} THEN 0 ELSE f[pick(s)] + g[s \ {pick(s)}]]
           total == [s \in SUBSET S |-> Bytes * Cardinality(s)]
           sum == CHOOSE g : Sums(g)
<1>1. BytesOf(f, S) = sum[S]
  BY DEF BytesOf, MapThenSumSet, MapThenFoldSet
<1>2. Bytes \in Nat
  BY MockSessionAssumption
<1>3. ASSUME NEW s \in SUBSET S, s # {}
      PROVE  /\ Cardinality(s) \in Nat /\ Cardinality(s \ {pick(s)}) = Cardinality(s) - 1
             /\ f[pick(s)] = Bytes /\ s \ {pick(s)} \in SUBSET S
             /\ Cardinality(s \ {pick(s)}) \in Nat
  <2>1. pick(s) \in s
    BY <1>3
  <2>2. IsFiniteSet(s)
    BY FS_Subset
  <2> HIDE DEF pick
  <2> QED
    BY <2>1, <2>2, FS_RemoveElement, FS_CardinalityType
<1>4. Sums(total)
  <2>1. ASSUME NEW s \in SUBSET S
        PROVE  total[s] = IF s = {} THEN 0 ELSE f[pick(s)] + total[s \ {pick(s)}]
    <3>1. CASE s = {}
      BY <1>2, <3>1, FS_EmptySet
    <3>2. CASE s # {}
      <4> DEFINE c == Cardinality(s)
                 d == Cardinality(s \ {pick(s)})
      <4>1. c \in Nat /\ d = c - 1 /\ f[pick(s)] = Bytes /\ s \ {pick(s)} \in SUBSET S
        BY <1>3, <3>2
      <4>2. total[s] = Bytes * c /\ total[s \ {pick(s)}] = Bytes * d
        BY <4>1
      <4> HIDE DEF c, d, total
      <4>3. Bytes * c = Bytes + Bytes * d
        BY <1>2, <4>1
      <4> QED
        BY <3>2, <4>1, <4>2, <4>3
    <3> QED
      BY <3>1, <3>2
  <2> HIDE DEF pick
  <2> QED
    BY <2>1
<1>5. Sums(sum)
  <2> HIDE DEF Sums, total
  <2> QED
    BY <1>4
<1> HIDE DEF sum
<1> DEFINE Bad == {c \in Nat : \E s \in SUBSET S : Cardinality(s) = c /\ sum[s] # Bytes * c}
<1>6. Bad = {}
  <2> SUFFICES ASSUME Bad # {} PROVE FALSE
    OBVIOUS
  <2>1. PICK c \in Bad : \A d \in Bad : c <= d
    <3> HIDE DEF Bad
    <3>1. Bad \in SUBSET Nat
      BY DEF Bad
    <3> QED
      BY <3>1, LeastOf
  <2>2. PICK s \in SUBSET S : Cardinality(s) = c /\ sum[s] # Bytes * c
    BY <2>1
  <2>3. CASE s = {}
    <3>1. sum[s] = 0 /\ c = 0
      BY <1>5, <2>2, <2>3, FS_EmptySet
    <3> QED
      BY <1>2, <2>2, <3>1
  <2>4. CASE s # {}
    <3> DEFINE r == s \ {pick(s)}
               d == Cardinality(r)
    <3>1. c \in Nat /\ d = c - 1 /\ d \in Nat /\ f[pick(s)] = Bytes /\ r \in SUBSET S
      BY <1>3, <2>2, <2>4
    <3>2. sum[s] = Bytes + sum[r]
      BY <1>5, <2>4, <3>1
    <3>3. sum[r] = Bytes * d
      <4>1. d \notin Bad
        <5> HIDE DEF Bad, d
        <5> QED
          BY <2>1, <3>1
      <4> QED
        BY <3>1, <4>1
    <3> HIDE DEF d, r
    <3>4. Bytes * c = Bytes + Bytes * d
      BY <1>2, <3>1
    <3> QED
      BY <2>2, <3>2, <3>3, <3>4
  <2> QED
    BY <2>3, <2>4
<1>7. S \in SUBSET S /\ Cardinality(S) \in Nat
  BY FS_CardinalityType
<1> QED
  BY <1>1, <1>6, <1>7

\* Giving up packets changes no total.
LEMMA RemovedSamplerOK ==
    ASSUME NEW s, DOMAIN s = SamplerFields, NEW x, NEW y, SamplerOK(s, x, y), NEW gone
    PROVE  SamplerOK(PacketInfoRemove(s, gone), x, y)
<1> DEFINE t == PacketInfoRemove(s, gone)
<1>1. /\ t.sent = s.sent /\ t.acked = s.acked /\ t.sentAtLast = s.sentAtLast
      /\ DOMAIN t.infos \subseteq DOMAIN s.infos
      /\ \A n \in DOMAIN t.infos : t.infos[n] = s.infos[n]
  BY DEF PacketInfoRemove, Restrict, SamplerFields
<1> HIDE DEF t
<1>2. SamplerOK(t, x, y)
  BY <1>1 DEF SamplerOK
<1> QED
  BY <1>2 DEF t

\* An acknowledgement above the highest one adds one packet at most.
LEMMA AckedSamplerOK ==
    ASSUME NEW s, DOMAIN s = SamplerFields, NEW x \in Nat, NEW y \in Nat, SamplerOK(s, x, y),
           NEW n \in Nat, y < n
    PROVE  SamplerOK(SamplerAcked(s, n), x, n)
<1> USE MockSessionAssumption
<1>1. Bytes \in Nat /\ Bytes * y \in Nat /\ Bytes * n \in Nat
  OBVIOUS
<1>2. Bytes * y + Bytes <= Bytes * n
  <2>1. PICK d \in Nat : n = y + 1 + d
    <3>1. n - y - 1 \in Nat /\ n = y + 1 + (n - y - 1)
      OBVIOUS
    <3> QED
      BY <3>1
  <2>2. Bytes * n = Bytes * y + Bytes + Bytes * d /\ Bytes * d \in Nat
    BY <2>1
  <2> QED
    BY <1>1, <2>2
<1>3. s.acked \in Nat /\ s.acked <= Bytes * y /\ s.sent = Bytes * x
  BY DEF SamplerOK
<1>4. CASE n \notin DOMAIN s.infos
  <2>1. s.acked <= Bytes * n
    BY <1>1, <1>2, <1>3
  <2> QED
    BY <1>4, <2>1 DEF SamplerAcked, SamplerOK
<1>5. CASE n \in DOMAIN s.infos
  <2> DEFINE p == s.infos[n]
             u == [s EXCEPT !.acked = @ + p.size, !.sentAtLast = p.sent]
  <2>1. p.size = Bytes /\ p.sent \in Nat /\ p.sent <= s.sent
    BY <1>5 DEF SamplerOK
  <2>2. /\ DOMAIN u = SamplerFields /\ u.acked = s.acked + Bytes /\ u.sentAtLast = p.sent
        /\ u.sent = s.sent /\ u.infos = s.infos
    BY <2>1 DEF SamplerFields
  <2>3. SamplerAcked(s, n) = PacketInfoRemove(u, {n})
    BY <1>5 DEF SamplerAcked
  <2> HIDE DEF u, p
  <2>4. u.acked \in Nat /\ u.acked <= Bytes * n /\ s.acked <= u.acked
    BY <1>1, <1>2, <1>3, <2>2
  <2>5. ASSUME NEW k \in DOMAIN u.infos
        PROVE  LET q == u.infos[k]
               IN  /\ q.size = Bytes
                   /\ q.sent \in Nat /\ q.sent <= u.sent
                   /\ q.sentAtLast \in Nat /\ q.sentAtLast <= q.sent
                   /\ q.acked \in Nat /\ q.acked <= u.acked
    <3> DEFINE q == s.infos[k]
    <3>1. /\ q.size = Bytes
          /\ q.sent \in Nat /\ q.sent <= s.sent
          /\ q.sentAtLast \in Nat /\ q.sentAtLast <= q.sent
          /\ q.acked \in Nat /\ q.acked <= s.acked
      BY <2>2 DEF SamplerOK
    <3>2. u.infos[k] = q
      BY <2>2
    <3> HIDE DEF q
    <3>3. q.acked <= u.acked
      BY <1>3, <2>4, <3>1
    <3> QED
      BY <2>2, <3>1, <3>2, <3>3
  <2>6. SamplerOK(u, x, n)
    BY <1>3, <2>1, <2>2, <2>4, <2>5 DEF SamplerOK
  <2> QED
    BY <2>2, <2>3, <2>6, RemovedSamplerOK
<1> QED
  BY <1>4, <1>5

\* The part of OnAck that all versions share keeps the counters.
LEMMA CountedBytes ==
    ASSUME NEW v, NEW b, CcOK(v, b), TablesOK(b), BytesOK(b), NEW n \in InFlight(b)
    PROVE  BytesOK(Counted(v, b, n))
<1> DEFINE gone == {k \in DOMAIN b.packets : k <= n}
           t == PacketInfoRemove(b.sampler, (b.lastAck + 1) .. (n - 1))
           jumped == [b EXCEPT !.sampler = PacketInfoRemove(@, (b.lastAck + 1) .. (n - 1)),
                               !.lastAck = n]
           left == IF v = 5 THEN UpdateRttAndInflight5(jumped, n) ELSE EraseUpTo(jumped, n)
           counted == UpdateRoundTripCounter(left, n)
           c == Counted(v, b, n)
<1>1. /\ n \in Nat /\ b.lastAck < n /\ n <= b.lastSent
      /\ b.lastAck \in Nat /\ b.lastSent \in Nat /\ Bytes \in Nat
  BY MockSessionAssumption DEF InFlight, CcOK
<1>2. /\ DOMAIN jumped = BbrFields /\ jumped.lastAck = n /\ jumped.lastSent = b.lastSent
      /\ jumped.sampler = t /\ jumped.packets = b.packets /\ jumped.inFlight = b.inFlight
  BY DEF CcOK, BbrFields
<1> HIDE DEF t, jumped
<1>3. /\ DOMAIN left = BbrFields /\ left.lastAck = n /\ left.lastSent = b.lastSent
      /\ left.sampler = t
      /\ left.inFlight = b.inFlight - BytesOf(b.packets, gone)
      /\ left.packets = Restrict(b.packets, DOMAIN b.packets \ gone)
  BY <1>2 DEF UpdateRttAndInflight5, EraseUpTo, BbrFields
<1> HIDE DEF left
<1>4. /\ DOMAIN counted = BbrFields /\ counted.lastAck = n /\ counted.lastSent = b.lastSent
      /\ counted.sampler = t /\ counted.inFlight = left.inFlight
      /\ counted.packets = left.packets
  BY <1>3 DEF UpdateRoundTripCounter, BbrFields
<1>5. c = [counted EXCEPT !.sampler = SamplerAcked(@, n)]
  BY DEF Counted, jumped, left, counted
<1> HIDE DEF counted, c
<1>6. /\ c.lastAck = n /\ c.lastSent = b.lastSent /\ c.inFlight = left.inFlight
      /\ c.packets = left.packets /\ c.sampler = SamplerAcked(t, n)
  BY <1>4, <1>5 DEF BbrFields
<1>7. SamplerOK(c.sampler, c.lastSent, c.lastAck)
  <2>1. DOMAIN b.sampler = SamplerFields /\ SamplerOK(b.sampler, b.lastSent, b.lastAck)
    BY DEF CcOK, BytesOK
  <2>2. SamplerOK(t, b.lastSent, b.lastAck) /\ DOMAIN t = SamplerFields
    BY <2>1, RemovedSamplerOK, PacketInfoRemoved DEF t
  <2> QED
    BY <1>1, <1>6, <2>2, AckedSamplerOK
<1>8. \A k \in DOMAIN c.packets : c.packets[k] = Bytes
  BY <1>3, <1>6 DEF BytesOK, Restrict
<1>9. c.inFlight = Bytes * (c.lastSent - c.lastAck)
  <2>1. gone = (b.lastAck + 1) .. n
    BY <1>1 DEF TablesOK, InFlight
  <2>2. IsFiniteSet(gone) /\ Cardinality(gone) = n - b.lastAck
    <3> DEFINE low == b.lastAck + 1
    <3>1. low \in Int /\ n \in Int /\ gone = low .. n
      BY <1>1, <2>1
    <3>2. low <= n /\ n - low + 1 = n - b.lastAck
      BY <1>1
    <3> HIDE DEF low, gone
    <3> QED
      BY <3>1, <3>2, FS_Interval
  <2>3. \A k \in gone : b.packets[k] = Bytes
    BY DEF BytesOK
  <2> HIDE DEF gone
  <2>4. BytesOf(b.packets, gone) = Bytes * (n - b.lastAck)
    BY <2>2, <2>3, BytesOfPadding
  <2>5. c.inFlight = Bytes * (b.lastSent - b.lastAck) - Bytes * (n - b.lastAck)
    BY <1>3, <1>6, <2>4 DEF BytesOK, gone
  <2> DEFINE x == b.lastSent
             y == b.lastAck
  <2>6. x \in Nat /\ y \in Nat
    BY <1>1
  <2>7. Bytes * (x - y) - Bytes * (n - y) = Bytes * (x - n)
    <3> HIDE DEF x, y
    <3> QED
      BY <1>1, <2>6
  <2> QED
    BY <1>6, <2>5, <2>7
<1> QED
  BY <1>7, <1>8, <1>9 DEF BytesOK, c

\* OnAck of a number that is in flight, in every version.
LEMMA BbrAckedBytes ==
    ASSUME NEW v \in 2 .. 5, NEW b, CcOK(v, b), TablesOK(b), BytesOK(b),
           NEW n \in InFlight(b), NEW o
    PROVE  BytesOK(BbrAcked(v, b, n, o))
<1> DEFINE c == Counted(v, b, n)
           d == BbrAcked(v, b, n, o)
<1>1. BytesOK(c)
  BY CountedBytes
<1>2. Kept(c, d)
  BY BbrAckedOK
<1> HIDE DEF c, d
<1>3. BytesOK(d)
  BY <1>1, <1>2 DEF BytesOK, Kept
<1> QED
  BY <1>3 DEF d

\* OnPacketSent of the next number.
LEMMA BbrSentBytes ==
    ASSUME NEW v \in 2 .. 5, NEW b, CcOK(v, b), TablesOK(b), BytesOK(b),
           b.lastAck <= b.lastSent, NEW n, n = b.lastSent + 1
    PROVE  BytesOK(BbrSent(b, n, Bytes))
<1> USE MockSessionAssumption
<1> DEFINE s == b.sampler
           t == SamplerSent(s, n, Bytes, b.inFlight)
           c == BbrSent(b, n, Bytes)
           x == b.lastSent
           y == b.lastAck
           total == s.sent + Bytes
<1>1. x \in Nat /\ y \in Nat /\ n \in Nat /\ n = x + 1 /\ ~(n <= x) /\ Bytes \in Nat
  BY DEF CcOK
<1>2. DOMAIN s = SamplerFields /\ SamplerOK(s, x, y)
  BY DEF CcOK, BytesOK
<1>3. c = [b EXCEPT !.lastSent = n, !.sampler = t, !.inFlight = @ + Bytes,
                    !.packets = Insert(@, n, Bytes)]
  BY <1>1 DEF BbrSent, CcOK, BbrFields
<1> HIDE DEF t, c
<1>4. /\ c.lastSent = n /\ c.lastAck = y /\ c.sampler = t /\ c.inFlight = b.inFlight + Bytes
      /\ c.packets = Insert(b.packets, n, Bytes)
  BY <1>3 DEF CcOK, BbrFields
<1>5. \A k \in DOMAIN c.packets : c.packets[k] = Bytes
  BY <1>4 DEF Insert, BytesOK
<1>6. c.inFlight = Bytes * (c.lastSent - c.lastAck)
  <2>1. b.inFlight = Bytes * (x - y)
    BY DEF BytesOK
  <2> HIDE DEF x, y
  <2>2. Bytes * (x - y) + Bytes = Bytes * (n - y)
    BY <1>1
  <2> QED
    BY <1>4, <2>1, <2>2
<1>7. SamplerOK(t, n, y)
  <2>1. /\ t.sent = total /\ t.acked = s.acked
        /\ t.sentAtLast = IF b.inFlight = 0 THEN total ELSE s.sentAtLast
        /\ t.infos = Insert(s.infos, n, [size |-> Bytes, sent |-> total,
                                         sentAtLast |-> t.sentAtLast, acked |-> s.acked])
    BY <1>2 DEF t, SamplerSent, Snapshot, SamplerFields
  <2>2. /\ s.sent = Bytes * x /\ s.acked \in Nat /\ s.acked <= Bytes * y
        /\ s.sentAtLast \in Nat /\ s.sentAtLast <= s.sent
    BY <1>2 DEF SamplerOK
  <2> HIDE DEF s, x, y
  <2>3. Bytes * x \in Nat /\ Bytes * n = Bytes * x + Bytes
    BY <1>1
  <2>4. total \in Nat /\ total = Bytes * n /\ s.sent <= total /\ s.sent \in Nat
    BY <1>1, <2>2, <2>3
  <2> HIDE DEF total
  <2>5. t.sentAtLast \in Nat /\ t.sentAtLast <= total
    BY <2>1, <2>2, <2>4
  <2>6. ASSUME NEW k \in DOMAIN t.infos
        PROVE  LET p == t.infos[k]
               IN  /\ p.size = Bytes
                   /\ p.sent \in Nat /\ p.sent <= total
                   /\ p.sentAtLast \in Nat /\ p.sentAtLast <= p.sent
                   /\ p.acked \in Nat /\ p.acked <= s.acked
    <3>1. CASE k \in DOMAIN s.infos
      <4> DEFINE p == s.infos[k]
      <4>1. /\ p.size = Bytes
            /\ p.sent \in Nat /\ p.sent <= s.sent
            /\ p.sentAtLast \in Nat /\ p.sentAtLast <= p.sent
            /\ p.acked \in Nat /\ p.acked <= s.acked
        BY <1>2, <3>1 DEF SamplerOK
      <4>2. t.infos[k] = p
        BY <2>1, <3>1 DEF Insert
      <4> HIDE DEF p
      <4>3. p.sent <= total
        BY <2>4, <4>1
      <4> QED
        BY <4>1, <4>2, <4>3
    <3>2. CASE k \notin DOMAIN s.infos
      <4>1. k = n
        BY <2>1, <3>2 DEF Insert
      <4>2. t.infos[k] = [size |-> Bytes, sent |-> total,
                          sentAtLast |-> t.sentAtLast, acked |-> s.acked]
        BY <2>1, <3>2, <4>1 DEF Insert
      <4> QED
        BY <2>2, <2>4, <2>5, <4>2
    <3> QED
      BY <3>1, <3>2
  <2> QED
    BY <2>1, <2>2, <2>4, <2>5, <2>6 DEF SamplerOK
<1>8. SamplerOK(c.sampler, c.lastSent, c.lastAck)
  BY <1>4, <1>7
<1> QED
  BY <1>5, <1>6, <1>8 DEF BytesOK, c

-----------------------------------------------------------------------------
(***************************************************************************)
(* Version 1.                                                              *)
(***************************************************************************)
V1Fields ==
    {"mode", "round", "clusters", "seqRound", "stamps", "acked", "reported", "lastAck",
     "toBw", "toInsist", "cycle", "rtt", "recorded", "est", "record", "stable",
     "recover", "backOff", "lastBack"}

\* The reports in the list are of clusters that are there, in their order.
ListOK(c) ==
    /\ c.acked \in Seq(Nat)
    /\ \A i \in 1 .. Len(c.acked) :
         c.acked[i] \in DOMAIN c.clusters /\ c.acked[i] <= c.reported
    /\ \A i, j \in 1 .. Len(c.acked) : i < j => c.acked[i] < c.acked[j]

\* What holds between the member functions of version 1.
V1OK(c) ==
    /\ DOMAIN c = V1Fields
    /\ c.mode \in ModesV1
    /\ c.lastAck \in Nat /\ c.round \in Nat /\ c.reported \in Nat
    /\ c.backOff \in Nat /\ c.lastBack \in Nat
    /\ DOMAIN c.clusters \subseteq Nat
    /\ c.toBw \in BOOLEAN /\ c.toInsist \in BOOLEAN /\ c.stable \in BOOLEAN
    /\ c.lastBack <= c.reported
    /\ c.lastBack # 0 => c.backOff = c.lastBack
    /\ ListOK(c)

\* No request is pending.
Quiet(c) ==
    /\ c.toInsist <=> c.mode = "INSIST"
    /\ ~c.toBw
    /\ c.mode = "INSIST" => c.stable

\* A request may be pending: ChangeState follows.
Requesting(c) ==
    /\ c.toBw => c.mode = "PROBE_AB"
    /\ c.toInsist => c.mode \in {"PROBE_BW", "INSIST"} /\ c.stable
    /\ c.mode = "INSIST" => c.toInsist /\ c.stable

\* The first half of OnAck, up to the probing of the round-trip time.
BeforeReport(c, n, o) ==
    LET measured == UpdateRtt([c EXCEPT !.lastAck = n], n)
        entered == c.mode = "START_UP"
        started == IF entered THEN EnterFastProbeMode(measured) ELSE measured
    IN  MaybeEnterOrExitProbeRtt(UpdateGainCyclePhase1(started, entered, o), o)

\* It changes the mode but leaves no request, and keeps or clears the list.
LEMMA BeforeReportOK ==
    ASSUME NEW c, V1OK(c), Quiet(c), NEW n \in Nat, NEW o
    PROVE  LET d == BeforeReport(c, n, o)
           IN  /\ V1OK(d) /\ Quiet(d) /\ d.lastAck = n
               /\ Len(d.acked) <= Len(c.acked)
               /\ d.lastBack = c.lastBack \/ (d.lastBack = 0 /\ DOMAIN d.clusters = {})
<1> DEFINE measured == UpdateRtt([c EXCEPT !.lastAck = n], n)
           entered == c.mode = "START_UP"
           started == IF entered THEN EnterFastProbeMode(measured) ELSE measured
           cycled == UpdateGainCyclePhase1(started, entered, o)
           d == MaybeEnterOrExitProbeRtt(cycled, o)
           Held(e) == /\ V1OK(e) /\ Quiet(e) /\ e.lastAck = n
                      /\ Len(e.acked) <= Len(c.acked)
                      /\ e.lastBack = c.lastBack \/ (e.lastBack = 0 /\ DOMAIN e.clusters = {})
<1>1. Held(measured) /\ measured.mode = c.mode
  BY DEF UpdateRtt, V1OK, ListOK, Quiet, V1Fields
<1> HIDE DEF measured
<1>2. Held(started)
  BY <1>1 DEF EnterFastProbeMode, V1OK, ListOK, Quiet, V1Fields, ModesV1
<1> HIDE DEF started
<1>3. Held(cycled)
  BY <1>2 DEF UpdateGainCyclePhase1, V1OK, ListOK, Quiet, V1Fields, ModesV1
<1> HIDE DEF cycled
<1>4. Held(EnterProbeRtt(cycled, o))
  <2> DEFINE e == EnterProbeRtt(cycled, o)
  <2>1. /\ DOMAIN e = V1Fields /\ e.mode = "PROBE_RTT" /\ e.round = 0 /\ e.acked = <<>>
        /\ e.clusters = <<>> /\ e.reported = 0 /\ e.lastBack = 0 /\ e.toInsist = FALSE
        /\ e.lastAck = cycled.lastAck /\ e.toBw = cycled.toBw /\ e.stable = cycled.stable
        /\ e.backOff = cycled.backOff
    BY <1>3 DEF EnterProbeRtt, ClusterInfoClear, V1OK, V1Fields
  <2> HIDE DEF e
  <2>2. Len(c.acked) \in Nat /\ e.acked \in Seq(Nat) /\ Len(e.acked) = 0
    BY <2>1 DEF V1OK, ListOK
  <2>3. ListOK(e) /\ DOMAIN e.clusters = {}
    BY <2>1, <2>2 DEF ListOK
  <2>4. V1OK(e)
    <3>1. cycled.lastAck \in Nat /\ cycled.backOff \in Nat
          /\ cycled.toBw \in BOOLEAN /\ cycled.stable \in BOOLEAN
      BY <1>3 DEF V1OK
    <3>2. /\ DOMAIN e.clusters \subseteq Nat /\ ListOK(e)
          /\ DOMAIN e = V1Fields /\ e.mode \in ModesV1
      BY <2>1, <2>3 DEF ModesV1
    <3>3. /\ e.lastAck \in Nat /\ e.round \in Nat /\ e.reported \in Nat
          /\ e.backOff \in Nat /\ e.lastBack = 0 /\ e.lastBack <= e.reported
          /\ e.toBw \in BOOLEAN /\ e.toInsist \in BOOLEAN /\ e.stable \in BOOLEAN
      <4>1. e.toBw \in BOOLEAN /\ e.toInsist \in BOOLEAN /\ e.stable \in BOOLEAN
        BY <2>1, <3>1, Zenon
      <4>2. /\ e.lastAck \in Nat /\ e.round \in Nat /\ e.reported \in Nat
            /\ e.backOff \in Nat /\ e.lastBack = 0 /\ e.lastBack <= e.reported
        BY <2>1, <3>1
      <4> QED
        BY <4>1, <4>2, Zenon
    <3> QED
      BY <3>2, <3>3 DEF V1OK
  <2>5. Quiet(e)
    BY <1>3, <2>1 DEF Quiet
  <2>6. Held(e)
    BY <1>3, <2>1, <2>2, <2>3, <2>4, <2>5
  <2> QED
    BY <2>6 DEF e
<1>5. cycled.mode = "PROBE_RTT" => Held(ExitProbeRtt(cycled, o))
  <2> DEFINE e == [cycled EXCEPT !.rtt = @ \/ cycled.recorded, !.recorded = FALSE]
  <2> SUFFICES ASSUME cycled.mode = "PROBE_RTT" PROVE Held(ExitProbeRtt(cycled, o))
    OBVIOUS
  <2>1. Held(e) /\ e.mode = "PROBE_RTT"
    BY <1>3 DEF V1OK, ListOK, Quiet, V1Fields
  <2> HIDE DEF e
  <2>2. Held(EnterProbeBandwidthMode(e, o))
    BY <2>1 DEF EnterProbeBandwidthMode, V1OK, ListOK, Quiet, V1Fields, ModesV1
  <2>3. Held(EnterFastProbeMode(e))
    BY <2>1 DEF EnterFastProbeMode, V1OK, ListOK, Quiet, V1Fields, ModesV1
  <2>4. ExitProbeRtt(cycled, o) \in {cycled, EnterProbeBandwidthMode(e, o), EnterFastProbeMode(e)}
    BY DEF ExitProbeRtt, e
  <2> QED
    BY <1>3, <2>2, <2>3, <2>4
<1>6. Held(d)
  BY <1>3, <1>4, <1>5 DEF MaybeEnterOrExitProbeRtt
<1> QED
  BY <1>6 DEF BeforeReport, measured, started, cycled

\* OnEstimateBandwidth leaves a request at most, and adds the report.
LEMMA EstimateOK ==
    ASSUME NEW c, V1OK(c), Quiet(c), NEW o, NEW id, id \in MayReport(c, id)
    PROVE  LET d == OnEstimateBandwidth(c, id, o)
           IN  /\ V1OK(d) /\ Requesting(d) /\ d.lastAck = c.lastAck
               /\ Len(d.acked) = Len(c.acked) + 1
               /\ \/ d.lastBack = c.lastBack
                  \/ c.lastBack # 0 => d.lastBack >= c.lastBack + BackoffWindow
<1> DEFINE d == [c EXCEPT !.acked = Append(@, id), !.record = TRUE,
                          !.reported = id, !.recover = FALSE]
           Held(e) == /\ V1OK(e) /\ Requesting(e) /\ e.lastAck = c.lastAck
                      /\ Len(e.acked) = Len(c.acked) + 1
                      /\ \/ e.lastBack = c.lastBack
                         \/ c.lastBack # 0 => e.lastBack >= c.lastBack + BackoffWindow
<1>1. id \in Nat /\ id \in DOMAIN c.clusters /\ id > c.reported
  BY DEF MayReport, V1OK
<1>2. /\ DOMAIN d = V1Fields /\ d.acked = Append(c.acked, id) /\ d.reported = id
      /\ d.clusters = c.clusters
      /\ \A f \in V1Fields \ {"acked", "record", "reported", "recover"} : d[f] = c[f]
  BY DEF V1OK, V1Fields
<1> HIDE DEF d
<1>3. ListOK(d) /\ Len(d.acked) = Len(c.acked) + 1
  <2>1. /\ c.acked \in Seq(Nat) /\ c.reported \in Nat
        /\ \A i \in 1 .. Len(c.acked) :
             c.acked[i] \in DOMAIN c.clusters /\ c.acked[i] <= c.reported
        /\ \A i, j \in 1 .. Len(c.acked) : i < j => c.acked[i] < c.acked[j]
    BY DEF ListOK, V1OK
  <2>2. /\ d.acked \in Seq(Nat) /\ Len(d.acked) = Len(c.acked) + 1
        /\ Len(c.acked) \in Nat
        /\ \A i \in 1 .. Len(c.acked) : d.acked[i] = c.acked[i] /\ c.acked[i] \in Nat
        /\ d.acked[Len(c.acked) + 1] = id
    BY <1>1, <1>2, <2>1
  <2>3. \A i \in 1 .. Len(d.acked) : i \in 1 .. Len(c.acked) \/ i = Len(c.acked) + 1
    BY <2>2
  <2>4. ASSUME NEW i \in 1 .. Len(d.acked)
        PROVE  d.acked[i] \in DOMAIN d.clusters /\ d.acked[i] <= d.reported
    <3>1. CASE i \in 1 .. Len(c.acked)
      <4>1. d.acked[i] = c.acked[i] /\ c.acked[i] \in Nat /\ c.acked[i] <= c.reported
        BY <2>1, <2>2, <3>1
      <4> QED
        BY <1>1, <1>2, <2>1, <3>1, <4>1
    <3>2. CASE i = Len(c.acked) + 1
      BY <1>1, <1>2, <2>2, <3>2
    <3> QED
      BY <2>3, <3>1, <3>2
  <2>5. ASSUME NEW i \in 1 .. Len(d.acked), NEW j \in 1 .. Len(d.acked), i < j
        PROVE  d.acked[i] < d.acked[j]
    <3>1. i \in 1 .. Len(c.acked)
      BY <2>2, <2>5
    <3>2. d.acked[i] = c.acked[i] /\ c.acked[i] \in Nat /\ c.acked[i] <= c.reported
      BY <2>1, <2>2, <3>1
    <3>3. CASE j \in 1 .. Len(c.acked)
      BY <2>1, <2>2, <2>5, <3>1, <3>3
    <3>4. CASE j = Len(c.acked) + 1
      <4>1. d.acked[j] = id /\ id \in Nat /\ c.reported < id /\ c.reported \in Nat
        BY <1>1, <2>1, <2>2, <3>4
      <4> QED
        BY <3>2, <4>1
    <3> QED
      BY <2>3, <3>3, <3>4
  <2> QED
    BY <2>2, <2>4, <2>5 DEF ListOK
<1>4. Held(d) /\ Quiet(d) /\ d.mode = c.mode /\ d.reported = id /\ d.lastBack = c.lastBack
  BY <1>1, <1>2, <1>3 DEF V1OK, Quiet, Requesting, V1Fields
<1>5. d.mode = "PROBE_BW" => Held(EstimateProbeBw(d, o))
  BY <1>4 DEF EstimateProbeBw, V1OK, ListOK, Quiet, Requesting, V1Fields
<1>6. d.mode = "PROBE_AB" => Held(EstimateProbeAb(d, id, o))
  BY <1>4 DEF EstimateProbeAb, V1OK, ListOK, Quiet, Requesting, V1Fields
<1>7. d.mode = "INSIST" => Held(EstimateInsist(d, id, o))
  <2> DEFINE e == EstimateInsist(d, id, o)
  <2> SUFFICES ASSUME d.mode = "INSIST" PROVE Held(e)
    OBVIOUS
  <2>1. DOMAIN d = V1Fields /\ d.stable = TRUE
    BY <1>4 DEF V1OK, Quiet
  <2>2. /\ DOMAIN e = V1Fields /\ e.stable = TRUE
        /\ \A f \in V1Fields \ {"est", "stable", "backOff", "lastBack"} : e[f] = d[f]
        /\ \/ e.backOff = d.backOff /\ e.lastBack = d.lastBack
           \/ e.backOff = id /\ e.lastBack = id /\ MayBackOff(d, id)
    BY <2>1 DEF EstimateInsist, V1Fields
  <2> HIDE DEF e
  <2>3. /\ e.mode = d.mode /\ e.lastAck = d.lastAck /\ e.round = d.round
        /\ e.reported = d.reported /\ e.clusters = d.clusters /\ e.acked = d.acked
        /\ e.toBw = d.toBw /\ e.toInsist = d.toInsist
    BY <2>2 DEF V1Fields
  <2>4. BackoffWindow \in Nat
    BY MockSessionAssumption
  <2>5. /\ e.lastBack \in Nat /\ e.backOff \in Nat /\ e.lastBack <= e.reported
        /\ e.lastBack # 0 => e.backOff = e.lastBack
    BY <1>1, <1>4, <2>2, <2>3 DEF V1OK
  <2>6. \/ e.lastBack = c.lastBack
        \/ c.lastBack # 0 => e.lastBack >= c.lastBack + BackoffWindow
    BY <1>1, <1>4, <2>2, <2>3, <2>4 DEF V1OK, MayBackOff
  <2> QED
    BY <1>4, <2>2, <2>3, <2>5, <2>6 DEF V1OK, ListOK, Requesting
<1>8. Held(OnEstimateBandwidth(c, id, o))
  BY <1>2, <1>4, <1>5, <1>6, <1>7 DEF OnEstimateBandwidth, d, V1Fields
<1> QED
  BY <1>8

\* SeqAcked reports one cluster at most.
LEMMA SeqAckedOK ==
    ASSUME NEW c, V1OK(c), Quiet(c), NEW n, NEW o
    PROVE  LET d == SeqAcked(c, n, o)
           IN  /\ V1OK(d) /\ Requesting(d) /\ d.lastAck = c.lastAck
               /\ Len(d.acked) \in {Len(c.acked), Len(c.acked) + 1}
               /\ \/ d.lastBack = c.lastBack
                  \/ c.lastBack # 0 => d.lastBack >= c.lastBack + BackoffWindow
               /\ DOMAIN c.clusters = {} => d.lastBack = c.lastBack
<1> DEFINE left == [c EXCEPT !.seqRound = Restrict(@, DOMAIN @ \ {n})]
           r == c.seqRound[n]
<1>1. V1OK(left) /\ Quiet(left)
  BY DEF V1OK, ListOK, Quiet, V1Fields
<1>2. /\ left.lastAck = c.lastAck /\ left.lastBack = c.lastBack /\ left.acked = c.acked
      /\ left.clusters = c.clusters /\ left.reported = c.reported
  BY DEF V1OK, V1Fields
<1> HIDE DEF left
<1>3. Requesting(c) /\ Requesting(left)
  BY <1>1 DEF Quiet, Requesting
<1>4. CASE n \in DOMAIN c.seqRound /\ r \in DOMAIN c.clusters /\ o.report \in MayReport(c, r)
  <2>1. o.report \in MayReport(left, o.report)
    BY <1>1, <1>2, <1>4 DEF MayReport, V1OK
  <2>2. SeqAcked(c, n, o) = OnEstimateBandwidth(left, o.report, o)
    BY <1>4 DEF SeqAcked, left
  <2>3. DOMAIN c.clusters # {}
    BY <1>4
  <2> QED
    BY <1>1, <1>2, <2>1, <2>2, <2>3, EstimateOK
<1>5. CASE ~(n \in DOMAIN c.seqRound /\ r \in DOMAIN c.clusters /\ o.report \in MayReport(c, r))
  <2>1. SeqAcked(c, n, o) \in {c, left}
    BY <1>5 DEF SeqAcked, left
  <2> QED
    BY <1>1, <1>2, <1>3, <2>1
<1> QED
  BY <1>4, <1>5

\* The entry into a mode.
Moved(c, m, r, y) == [c EXCEPT !.mode = m, !.round = r, !.cycle = y]

\* It changes the mode, the cluster and the cycle only.
LEMMA ModeChanged ==
    ASSUME NEW c, V1OK(c), NEW m \in ModesV1, NEW r \in Nat, NEW y, NEW d,
           d = Moved(c, m, r, y)
    PROVE  /\ V1OK(d) /\ d.mode = m
           /\ d.lastAck = c.lastAck /\ d.acked = c.acked /\ d.lastBack = c.lastBack
           /\ d.toBw = c.toBw /\ d.toInsist = c.toInsist /\ d.stable = c.stable
<1>1. DOMAIN c = V1Fields
  BY DEF V1OK
<1>2. DOMAIN d = V1Fields /\ d.mode = m /\ d.round = r
  BY <1>1 DEF Moved, V1Fields
<1>3. /\ d.lastAck = c.lastAck /\ d.acked = c.acked /\ d.lastBack = c.lastBack
      /\ d.toBw = c.toBw /\ d.toInsist = c.toInsist /\ d.stable = c.stable
  BY <1>1 DEF Moved, V1Fields
<1>4. d.clusters = c.clusters /\ d.reported = c.reported /\ d.backOff = c.backOff
  BY <1>1 DEF Moved, V1Fields
<1>5. ListOK(d)
  BY <1>3, <1>4 DEF V1OK, ListOK
<1> QED
  BY <1>2, <1>3, <1>4, <1>5 DEF V1OK

\* ChangeState answers the requests.
LEMMA ChangeStateOK ==
    ASSUME NEW c, V1OK(c), Requesting(c), NEW o
    PROVE  LET d == ChangeState(c, o)
           IN  /\ V1OK(d) /\ Quiet(d) /\ d.lastAck = c.lastAck
               /\ d.acked = c.acked /\ d.lastBack = c.lastBack
<1> DEFINE e == IF c.toBw THEN [EnterProbeBandwidthMode(c, o) EXCEPT !.toBw = FALSE] ELSE c
           Held(d) == /\ V1OK(d) /\ d.lastAck = c.lastAck
                      /\ d.acked = c.acked /\ d.lastBack = c.lastBack
<1>1. Held(e) /\ Requesting(e) /\ ~e.toBw
  <2>1. CASE c.toBw
    <3> DEFINE f == EnterProbeBandwidthMode(c, o)
               y == IF o.first >= 1 THEN o.first + 1 ELSE o.first
    <3>1. c.mode = "PROBE_AB" /\ c.round + 1 \in Nat /\ "PROBE_BW" \in ModesV1
      BY <2>1 DEF Requesting, V1OK, ModesV1
    <3>2. f = Moved(c, "PROBE_BW", c.round + 1, y)
      BY <3>1 DEF EnterProbeBandwidthMode, Moved
    <3>3. e = [f EXCEPT !.toBw = FALSE]
      BY <2>1
    <3> HIDE DEF f, y, e
    <3>4. /\ V1OK(f) /\ f.mode = "PROBE_BW"
          /\ f.lastAck = c.lastAck /\ f.acked = c.acked /\ f.lastBack = c.lastBack
          /\ f.toInsist = c.toInsist /\ f.stable = c.stable
      BY <3>1, <3>2, ModeChanged
    <3>5. /\ V1OK(e) /\ e.mode = "PROBE_BW" /\ e.toBw = FALSE
          /\ e.lastAck = c.lastAck /\ e.acked = c.acked /\ e.lastBack = c.lastBack
          /\ e.toInsist = c.toInsist /\ e.stable = c.stable
      BY <3>3, <3>4 DEF V1OK, ListOK, V1Fields
    <3> QED
      BY <3>5 DEF Requesting
  <2>2. CASE ~c.toBw
    BY <2>2
  <2> QED
    BY <2>1, <2>2
<1> HIDE DEF e
<1>2. CASE e.toInsist
  <2> DEFINE g == EnterInsistStableMode(e)
  <2>1. CASE e.mode = "INSIST"
    <3>1. Quiet(e)
      BY <1>1, <1>2, <2>1 DEF Requesting, Quiet
    <3>2. ChangeState(c, o) = e
      BY <1>2, <2>1 DEF ChangeState, EnterInsistStableMode, e
    <3> QED
      BY <1>1, <3>1, <3>2
  <2>2. CASE e.mode # "INSIST"
    <3>1. g = Moved(e, "INSIST", e.round + 1, 0)
      BY <2>2 DEF EnterInsistStableMode, Moved
    <3>2. e.round + 1 \in Nat /\ "INSIST" \in ModesV1
      BY <1>1 DEF V1OK, ModesV1
    <3> HIDE DEF g
    <3>3. /\ V1OK(g) /\ g.mode = "INSIST"
          /\ g.lastAck = e.lastAck /\ g.acked = e.acked /\ g.lastBack = e.lastBack
          /\ g.toBw = e.toBw /\ g.toInsist = e.toInsist /\ g.stable = e.stable
      BY <1>1, <3>1, <3>2, ModeChanged
    <3>4. Held(g) /\ Quiet(g)
      BY <1>1, <1>2, <3>3 DEF Requesting, Quiet
    <3>5. ChangeState(c, o) = g
      BY <1>2 DEF ChangeState, e, g
    <3> QED
      BY <3>4, <3>5
  <2> QED
    BY <2>1, <2>2
<1>3. CASE ~e.toInsist
  <2>1. Held(e) /\ Quiet(e)
    BY <1>1, <1>3 DEF Requesting, Quiet
  <2> QED
    BY <1>3, <2>1 DEF ChangeState, e
<1> QED
  BY <1>2, <1>3

\* With a full window the oldest report goes, and its cluster with it.
LEMMA AverageOK ==
    ASSUME NEW c, V1OK(c), Quiet(c), Len(c.acked) <= AckWindow
    PROVE  LET d == Average(c)
           IN  /\ V1OK(d) /\ Quiet(d) /\ d.lastAck = c.lastAck
               /\ Len(d.acked) < AckWindow /\ d.lastBack = c.lastBack
<1>1. AckWindow \in Nat /\ AckWindow >= 1
  BY MockSessionAssumption
<1>2. /\ c.acked \in Seq(Nat) /\ Len(c.acked) \in Nat /\ c.reported \in Nat
      /\ \A i \in 1 .. Len(c.acked) : c.acked[i] \in Nat
      /\ DOMAIN c = V1Fields
  BY DEF V1OK, ListOK
<1>3. CASE Len(c.acked) < AckWindow
  BY <1>3 DEF Average
<1>4. CASE Len(c.acked) = AckWindow
  <2> DEFINE d == Average(c)
             rest == SubSeq(c.acked, 2, Len(c.acked))
             kept == Restrict(c.clusters, {k \in DOMAIN c.clusters : k > c.acked[1]})
  <2>1. d = [c EXCEPT !.acked = rest, !.clusters = kept]
    <3> DEFINE stale == Len(c.acked) - (AckWindow - 1)
    <3>1. stale = 1 /\ stale + 1 = 2 /\ ~(Len(c.acked) < AckWindow)
      BY <1>1, <1>2, <1>4
    <3>2. d = [c EXCEPT !.acked = SubSeq(c.acked, stale + 1, Len(c.acked)),
                        !.clusters = Restrict(c.clusters,
                                              {k \in DOMAIN c.clusters : k > c.acked[stale]})]
      BY <1>2, <3>1 DEF Average, V1Fields
    <3> HIDE DEF stale, d
    <3> QED
      BY <3>1, <3>2
  <2>2. /\ rest \in Seq(Nat) /\ Len(rest) = Len(c.acked) - 1
        /\ \A i \in 1 .. Len(rest) : rest[i] = c.acked[i + 1]
    BY <1>1, <1>2, <1>4
  <2>3. DOMAIN kept = {k \in DOMAIN c.clusters : k > c.acked[1]}
    BY DEF Restrict
  <2> HIDE DEF rest, kept
  <2>4. /\ DOMAIN d = V1Fields /\ d.acked = rest /\ d.clusters = kept
        /\ \A f \in V1Fields \ {"acked", "clusters"} : d[f] = c[f]
    BY <1>2, <2>1 DEF V1Fields
  <2> HIDE DEF d
  <2>5. /\ d.lastAck = c.lastAck /\ d.mode = c.mode /\ d.round = c.round
        /\ d.reported = c.reported /\ d.backOff = c.backOff /\ d.lastBack = c.lastBack
        /\ d.toBw = c.toBw /\ d.toInsist = c.toInsist /\ d.stable = c.stable
    BY <2>4 DEF V1Fields
  <2>6. \A i \in 1 .. Len(rest) :
          /\ i + 1 \in 1 .. Len(c.acked)
          /\ rest[i] = c.acked[i + 1] /\ c.acked[1] < c.acked[i + 1]
          /\ c.acked[i + 1] \in DOMAIN c.clusters /\ c.acked[i + 1] <= c.reported
    <3> SUFFICES ASSUME NEW i \in 1 .. Len(rest)
                 PROVE  /\ i + 1 \in 1 .. Len(c.acked)
                        /\ rest[i] = c.acked[i + 1] /\ c.acked[1] < c.acked[i + 1]
                        /\ c.acked[i + 1] \in DOMAIN c.clusters /\ c.acked[i + 1] <= c.reported
      OBVIOUS
    <3>1. 1 \in 1 .. Len(c.acked) /\ i + 1 \in 1 .. Len(c.acked) /\ 1 < i + 1
      BY <1>1, <1>2, <1>4, <2>2
    <3>2. ListOK(c)
      BY DEF V1OK
    <3>3. \A k \in 1 .. Len(c.acked) :
            c.acked[k] \in DOMAIN c.clusters /\ c.acked[k] <= c.reported
      BY <3>2 DEF ListOK
    <3>4. \A k, j \in 1 .. Len(c.acked) : k < j => c.acked[k] < c.acked[j]
      BY <3>2 DEF ListOK
    <3> QED
      BY <2>2, <3>1, <3>3, <3>4
  <2>7. \A i \in 1 .. Len(rest) : rest[i] \in DOMAIN kept /\ rest[i] <= c.reported
    BY <1>2, <2>3, <2>6
  <2>8. ASSUME NEW i \in 1 .. Len(rest), NEW j \in 1 .. Len(rest), i < j
        PROVE  rest[i] < rest[j]
    <3>1. i + 1 \in 1 .. Len(c.acked) /\ j + 1 \in 1 .. Len(c.acked) /\ i + 1 < j + 1
      BY <2>6, <2>8
    <3>2. c.acked[i + 1] < c.acked[j + 1]
      BY <3>1 DEF V1OK, ListOK
    <3> QED
      BY <2>6, <3>2
  <2>9. ListOK(d)
    BY <2>2, <2>4, <2>5, <2>7, <2>8 DEF ListOK
  <2>10. V1OK(d) /\ Quiet(d)
    BY <2>3, <2>4, <2>5, <2>9 DEF V1OK, Quiet
  <2>11. Len(d.acked) < AckWindow
    BY <1>1, <1>2, <1>4, <2>2, <2>4
  <2> QED
    BY <2>5, <2>10, <2>11 DEF d
<1> QED
  BY <1>1, <1>2, <1>3, <1>4

\* What holds of version 1 between the calls of the sender.
V1Inv(c) == V1OK(c) /\ Quiet(c) /\ Len(c.acked) < AckWindow

\* OnAck of version 1.
LEMMA BbrV1AckedOK ==
    ASSUME NEW c, V1Inv(c), NEW n \in Nat, n > c.lastAck, NEW o
    PROVE  LET d == BbrV1Acked(c, n, o)
           IN  /\ V1Inv(d) /\ d.lastAck = n
               /\ \/ d.lastBack \in {0, c.lastBack}
                  \/ c.lastBack # 0 => d.lastBack >= c.lastBack + BackoffWindow
<1> DEFINE p == BeforeReport(c, n, o)
           q == SeqAcked(p, n, o)
           r == ChangeState(q, o)
<1>1. BbrV1Acked(c, n, o) = Average(r)
  BY DEF BbrV1Acked, BeforeReport, V1Inv, V1OK
<1>2. /\ V1OK(p) /\ Quiet(p) /\ p.lastAck = n
      /\ Len(p.acked) <= Len(c.acked)
      /\ p.lastBack = c.lastBack \/ (p.lastBack = 0 /\ DOMAIN p.clusters = {})
  BY BeforeReportOK DEF V1Inv
<1> HIDE DEF p
<1>3. /\ V1OK(q) /\ Requesting(q) /\ q.lastAck = n
      /\ Len(q.acked) \in {Len(p.acked), Len(p.acked) + 1}
      /\ \/ q.lastBack = p.lastBack
         \/ p.lastBack # 0 => q.lastBack >= p.lastBack + BackoffWindow
      /\ DOMAIN p.clusters = {} => q.lastBack = p.lastBack
  BY <1>2, SeqAckedOK
<1> HIDE DEF q
<1>4. /\ V1OK(r) /\ Quiet(r) /\ r.lastAck = n
      /\ r.acked = q.acked /\ r.lastBack = q.lastBack
  BY <1>3, ChangeStateOK
<1> HIDE DEF r
<1>5. Len(r.acked) <= AckWindow
  <2>1. Len(c.acked) \in Nat /\ Len(p.acked) \in Nat /\ AckWindow \in Nat
    BY <1>2, MockSessionAssumption DEF V1Inv, V1OK, ListOK
  <2> QED
    BY <1>2, <1>3, <1>4, <2>1 DEF V1Inv
<1>6. /\ V1OK(Average(r)) /\ Quiet(Average(r)) /\ Average(r).lastAck = n
      /\ Len(Average(r).acked) < AckWindow /\ Average(r).lastBack = r.lastBack
  BY <1>4, <1>5, AverageOK
<1> QED
  BY <1>1, <1>2, <1>3, <1>4, <1>6 DEF V1Inv

\* OnPacketSent of version 1.
LEMMA BbrV1SentOK ==
    ASSUME NEW c, V1Inv(c), NEW n
    PROVE  LET d == BbrV1Sent(c, n)
           IN  V1Inv(d) /\ d.lastAck = c.lastAck /\ d.lastBack = c.lastBack
<1> DEFINE d == BbrV1Sent(c, n)
<1>1. DOMAIN c = V1Fields /\ c.round \in Nat /\ DOMAIN c.clusters \subseteq Nat
  BY DEF V1Inv, V1OK
<1>2. /\ DOMAIN d = V1Fields
      /\ \A f \in V1Fields \ {"stamps", "clusters", "seqRound"} : d[f] = c[f]
      /\ DOMAIN d.clusters \in {DOMAIN c.clusters, DOMAIN c.clusters \cup {c.round}}
  BY <1>1 DEF BbrV1Sent, Insert, V1Fields
<1> HIDE DEF d
<1>3. /\ d.mode = c.mode /\ d.lastAck = c.lastAck /\ d.round = c.round
      /\ d.reported = c.reported /\ d.backOff = c.backOff /\ d.lastBack = c.lastBack
      /\ d.acked = c.acked
  BY <1>2 DEF V1Fields
<1>4. d.toBw = c.toBw /\ d.toInsist = c.toInsist /\ d.stable = c.stable
  BY <1>2 DEF V1Fields
<1>5. DOMAIN d.clusters \subseteq Nat /\ DOMAIN c.clusters \subseteq DOMAIN d.clusters
  BY <1>1, <1>2
<1>6. ListOK(d)
  BY <1>3, <1>5 DEF V1Inv, V1OK, ListOK
<1>7. V1OK(d)
  BY <1>2, <1>3, <1>4, <1>5, <1>6 DEF V1Inv, V1OK
<1>8. Quiet(d)
  BY <1>3, <1>4 DEF V1Inv, Quiet
<1> QED
  BY <1>3, <1>7, <1>8 DEF V1Inv, d

-----------------------------------------------------------------------------
(***************************************************************************)
(* The session.                                                            *)
(***************************************************************************)
\* Versions 2 to 5: the controller's marks are the sender's, and what was sent
\* since the end of the round was sent in this round.
ControllerInv ==
    /\ CcOK(ver, cc) /\ TablesOK(cc)
    /\ cc.lastAck = recvSeq /\ cc.lastSent = seq - 1
    /\ DOMAIN roundAtSend = Sent
    /\ \A n \in Sent : n > cc.roundEnd => roundAtSend[n] = cc.round

\* The inductive invariant.
IInv ==
    /\ ver \in 1 .. 5
    /\ seq \in Nat /\ recvSeq \in Nat /\ recvSeq < seq
    /\ padding \subseteq Sent /\ acks \subseteq Sent
    /\ delays = Unanswered
    /\ ver # 1 => ControllerInv /\ cc1 = NoBbrV1
    /\ ver = 1 => V1Inv(cc1) /\ cc1.lastAck = recvSeq /\ cc = NoBbr

\* A new controller is in order.
LEMMA NewControllers ==
    /\ \A v \in 2 .. 5 : CcOK(v, NoBbr) /\ TablesOK(NoBbr)
    /\ V1Inv(NoBbrV1)
<1>1. DOMAIN NoBbr = BbrFields /\ DOMAIN NoBbr.sampler = SamplerFields
  BY DEF NoBbr, NoSamples, BbrFields, SamplerFields
<1>2. /\ NoBbr.lastSent = 0 /\ NoBbr.lastAck = 0 /\ NoBbr.backoff = 0
      /\ NoBbr.round = 0 /\ NoBbr.roundEnd = 0 /\ NoBbr.base = FALSE /\ NoBbr.flag = FALSE
  BY DEF NoBbr
<1>3. DOMAIN NoBbr.packets = {} /\ DOMAIN NoBbr.sampler.infos = {}
  BY DEF NoBbr, NoSamples
<1>4. InFlight(NoBbr) = {}
  BY <1>2 DEF InFlight
<1>5. \A v \in 2 .. 5 : CcOK(v, NoBbr) /\ TablesOK(NoBbr)
  <2>1. TablesOK(NoBbr)
    BY <1>3, <1>4 DEF TablesOK
  <2>2. NoBbr.base \in BOOLEAN /\ NoBbr.flag \in BOOLEAN /\ ~NoBbr.base /\ ~NoBbr.flag
    BY <1>2, Zenon
  <2>3. /\ NoBbr.lastSent \in Nat /\ NoBbr.lastAck \in Nat /\ NoBbr.backoff \in Nat
        /\ NoBbr.round \in Nat /\ NoBbr.roundEnd \in Nat /\ NoBbr.roundEnd <= NoBbr.lastSent
    BY <1>2
  <2> QED
    BY <1>1, <2>1, <2>2, <2>3 DEF CcOK
<1>6. DOMAIN NoBbrV1 = V1Fields
  BY DEF NoBbrV1, V1Fields
<1>7. /\ NoBbrV1.mode = "START_UP" /\ NoBbrV1.lastAck = 0 /\ NoBbrV1.round = 0
      /\ NoBbrV1.reported = 0 /\ NoBbrV1.backOff = 0 /\ NoBbrV1.lastBack = 0
      /\ NoBbrV1.toBw = FALSE /\ NoBbrV1.toInsist = FALSE /\ NoBbrV1.stable = FALSE
      /\ NoBbrV1.acked = <<>> /\ NoBbrV1.clusters = <<>>
  BY DEF NoBbrV1
<1>8. /\ NoBbrV1.acked \in Seq(Nat) /\ Len(NoBbrV1.acked) = 0
      /\ DOMAIN NoBbrV1.clusters = {}
  BY <1>7
<1>9. ListOK(NoBbrV1)
  BY <1>8 DEF ListOK
<1>10. V1OK(NoBbrV1)
  <2>1. /\ NoBbrV1.toBw \in BOOLEAN /\ NoBbrV1.toInsist \in BOOLEAN
        /\ NoBbrV1.stable \in BOOLEAN
    BY <1>7, Zenon
  <2>2. NoBbrV1.mode \in ModesV1
    BY <1>7 DEF ModesV1
  <2>3. /\ NoBbrV1.lastAck \in Nat /\ NoBbrV1.round \in Nat /\ NoBbrV1.reported \in Nat
        /\ NoBbrV1.backOff \in Nat /\ NoBbrV1.lastBack = 0
        /\ NoBbrV1.lastBack <= NoBbrV1.reported
    BY <1>7
  <2>4. DOMAIN NoBbrV1.clusters \subseteq Nat
    BY <1>8
  <2> QED
    BY <1>6, <1>9, <2>1, <2>2, <2>3, <2>4 DEF V1OK
<1>11. V1Inv(NoBbrV1)
  BY <1>7, <1>8, <1>10, MockSessionAssumption DEF V1Inv, Quiet
<1> QED
  BY <1>5, <1>11

\* A new session satisfies the invariant.
LEMMA InitIInv == Init => IInv
<1> SUFFICES ASSUME Init PROVE IInv
  OBVIOUS
<1>1. /\ ver \in 1 .. 5 /\ seq = 1 /\ recvSeq = 0 /\ delays = {} /\ cc = NoBbr
      /\ cc1 = NoBbrV1 /\ padding = {} /\ acks = {} /\ roundAtSend = <<>>
  BY MockSessionAssumption DEF Init
<1>2. Sent = {} /\ Unanswered = {} /\ DOMAIN roundAtSend = {}
  BY <1>1 DEF Sent, Unanswered
<1>3. NoBbr.lastAck = 0 /\ NoBbr.lastSent = 0 /\ NoBbrV1.lastAck = 0
  BY DEF NoBbr, NoBbrV1
<1>4. ver # 1 => ControllerInv
  BY <1>1, <1>2, <1>3, NewControllers DEF ControllerInv
<1> QED
  BY <1>1, <1>2, <1>3, <1>4, NewControllers DEF IInv

\* A packet sent is one more in every table.
LEMMA HeartBeatIInv == IInv /\ HeartBeat => IInv'
<1> SUFFICES ASSUME IInv, HeartBeat PROVE IInv'
  OBVIOUS
<1>1. /\ ver \in 1 .. 5 /\ seq \in Nat /\ recvSeq \in Nat /\ recvSeq < seq
      /\ padding \subseteq Sent /\ acks \subseteq Sent /\ delays = Unanswered
  BY DEF IInv
<1>2. /\ ver' = ver /\ recvSeq' = recvSeq /\ acks' = acks /\ seq' = seq + 1
      /\ padding' = padding \cup {seq} /\ delays' = delays \cup {seq}
  BY DEF HeartBeat
<1>3. Sent' = Sent \cup {seq} /\ seq \notin Sent
  BY <1>1, <1>2 DEF Sent
<1>4. Unanswered' = Unanswered \cup {seq}
  BY <1>1, <1>2, <1>3 DEF Unanswered
<1>5. ASSUME ver # 1 PROVE (ControllerInv /\ cc1 = NoBbrV1)'
  <2>1. /\ CcOK(ver, cc) /\ TablesOK(cc) /\ cc1 = NoBbrV1
        /\ cc.lastAck = recvSeq /\ cc.lastSent = seq - 1
        /\ DOMAIN roundAtSend = Sent
        /\ \A n \in Sent : n > cc.roundEnd => roundAtSend[n] = cc.round
    BY <1>5 DEF IInv, ControllerInv
  <2>2. cc' = BbrSent(cc, seq, Bytes) /\ cc1' = cc1
        /\ roundAtSend' = Insert(roundAtSend, seq, cc.round)
    BY <1>5 DEF HeartBeat
  <2>3. /\ CcOK(ver, cc') /\ TablesOK(cc')
        /\ cc'.lastAck = cc.lastAck /\ cc'.lastSent = seq
        /\ cc'.round = cc.round /\ cc'.roundEnd = cc.roundEnd
    <3>1. ver \in 2 .. 5 /\ cc.lastAck <= cc.lastSent /\ seq = cc.lastSent + 1
      BY <1>1, <1>5, <2>1
    <3> QED
      BY <2>1, <2>2, <3>1, BbrSentOK
  <2>4. /\ DOMAIN roundAtSend' = Sent' /\ roundAtSend'[seq] = cc.round
        /\ \A n \in Sent : roundAtSend'[n] = roundAtSend[n]
    BY <1>3, <2>1, <2>2 DEF Insert
  <2>5. ASSUME NEW n \in Sent', n > cc'.roundEnd PROVE roundAtSend'[n] = cc'.round
    BY <1>3, <2>1, <2>3, <2>4, <2>5
  <2> QED
    BY <1>1, <1>2, <2>1, <2>2, <2>3, <2>4, <2>5 DEF ControllerInv
<1>6. ASSUME ver = 1 PROVE (V1Inv(cc1) /\ cc1.lastAck = recvSeq /\ cc = NoBbr)'
  BY <1>2, <1>6, BbrV1SentOK DEF HeartBeat, IInv
<1> QED
  BY <1>1, <1>2, <1>3, <1>4, <1>5, <1>6 DEF IInv

\* What an acknowledgement above the highest one does, in versions 2 to 5.
LEMMA OnAckController ==
    ASSUME IInv, ver # 1, NEW n \in Sent, n > recvSeq, NEW o, NEW c,
           c = BbrAcked(ver, cc, n, o)
    PROVE  /\ CcOK(ver, c) /\ TablesOK(c)
           /\ c.lastAck = n /\ c.lastSent = seq - 1
           /\ c.round # cc.round => roundAtSend[n] = cc.round
           /\ \A k \in Sent : k > c.roundEnd => roundAtSend[k] = c.round
<1>1. /\ ver \in 2 .. 5 /\ seq \in Nat /\ recvSeq \in Nat
      /\ CcOK(ver, cc) /\ TablesOK(cc) /\ cc.lastAck = recvSeq /\ cc.lastSent = seq - 1
      /\ \A k \in Sent : k > cc.roundEnd => roundAtSend[k] = cc.round
  BY DEF IInv, ControllerInv
<1>2. n \in InFlight(cc)
  BY <1>1 DEF InFlight, Sent
<1>3. /\ CcOK(ver, c) /\ TablesOK(c)
      /\ c.lastAck = n /\ c.lastSent = cc.lastSent
      /\ IF n > cc.roundEnd
         THEN c.round = cc.round + 1 /\ c.roundEnd = cc.lastSent
         ELSE c.round = cc.round /\ c.roundEnd = cc.roundEnd
  BY <1>1, <1>2, BbrAckedOK
<1>4. \A k \in Sent : ~(k > seq - 1)
  BY <1>1 DEF Sent
<1> QED
  BY <1>1, <1>3, <1>4

\* An acknowledgement takes what it passes over out of every table.
LEMMA OnAckIInv == ASSUME IInv, NEW n \in acks, OnAck(n) PROVE IInv'
<1>1. /\ ver \in 1 .. 5 /\ seq \in Nat /\ recvSeq \in Nat /\ recvSeq < seq
      /\ padding \subseteq Sent /\ acks \subseteq Sent /\ delays = Unanswered
  BY DEF IInv
<1>2. n \in Sent /\ n \in Nat /\ n < seq
  BY <1>1 DEF Sent
<1>3. /\ ver' = ver /\ seq' = seq /\ padding' = padding /\ acks' \subseteq acks
      /\ roundAtSend' = roundAtSend /\ delays' = {k \in delays : k > n}
      /\ recvSeq' = IF n >= recvSeq + 1 THEN n ELSE recvSeq
  BY DEF OnAck, DetectLoss
<1>4. Sent' = Sent
  BY <1>3 DEF Sent
<1>5. recvSeq' \in Nat /\ recvSeq' < seq' /\ recvSeq' >= recvSeq /\ recvSeq' >= n
  BY <1>1, <1>2, <1>3
<1>6. delays' = Unanswered'
  <2>1. \A k \in Sent : k > recvSeq /\ k > n <=> k > recvSeq'
    BY <1>1, <1>2, <1>3 DEF Sent
  <2> QED
    BY <1>1, <1>3, <1>4, <2>1 DEF Unanswered
<1>7. ASSUME ver # 1 PROVE (ControllerInv /\ cc1 = NoBbrV1)'
  <2>1. cc1' = cc1 /\ cc1 = NoBbrV1 /\ ControllerInv
    BY <1>7 DEF OnAck, IInv
  <2>2. PICK o : cc' = BbrAcked(ver, cc, n, o)
    BY <1>7 DEF OnAck
  <2>3. CASE n > recvSeq
    <3>1. /\ CcOK(ver, cc') /\ TablesOK(cc')
          /\ cc'.lastAck = n /\ cc'.lastSent = seq - 1
          /\ \A k \in Sent : k > cc'.roundEnd => roundAtSend[k] = cc'.round
      BY <1>2, <1>7, <2>2, <2>3, OnAckController
    <3>2. recvSeq' = n
      BY <1>1, <1>2, <1>3, <2>3
    <3> QED
      BY <1>3, <1>4, <2>1, <3>1, <3>2 DEF ControllerInv
  <2>4. CASE ~(n > recvSeq)
    <3>1. cc' = cc
      BY <1>1, <1>2, <2>1, <2>2, <2>4 DEF BbrAcked, ControllerInv
    <3>2. recvSeq' = recvSeq
      BY <1>1, <1>2, <1>3, <2>4
    <3> QED
      BY <1>3, <1>4, <2>1, <3>1, <3>2 DEF ControllerInv
  <2> QED
    BY <2>3, <2>4
<1>8. ASSUME ver = 1 PROVE (V1Inv(cc1) /\ cc1.lastAck = recvSeq /\ cc = NoBbr)'
  <2>1. cc' = cc /\ cc = NoBbr /\ V1Inv(cc1) /\ cc1.lastAck = recvSeq
    BY <1>8 DEF OnAck, IInv
  <2>2. PICK o : cc1' = BbrV1Acked(cc1, n, o)
    BY <1>8 DEF OnAck
  <2>3. CASE n > recvSeq
    <3>1. V1Inv(cc1') /\ cc1'.lastAck = n
      BY <1>2, <2>1, <2>2, <2>3, BbrV1AckedOK
    <3> QED
      BY <1>1, <1>2, <1>3, <2>1, <2>3, <3>1
  <2>4. CASE ~(n > recvSeq)
    <3>1. cc1' = cc1
      BY <1>1, <1>2, <2>1, <2>2, <2>4 DEF BbrV1Acked
    <3> QED
      BY <1>1, <1>2, <1>3, <2>1, <2>4, <3>1
  <2> QED
    BY <2>3, <2>4
<1> QED
  BY <1>1, <1>3, <1>4, <1>5, <1>6, <1>7, <1>8 DEF IInv

\* Every step keeps the invariant.
LEMMA NextIInv == IInv /\ [Next]_vars => IInv'
<1> SUFFICES ASSUME IInv, [Next]_vars PROVE IInv'
  OBVIOUS
<1> DEFINE Same7 == /\ ver' = ver /\ seq' = seq /\ recvSeq' = recvSeq /\ delays' = delays
                    /\ cc' = cc /\ cc1' = cc1 /\ roundAtSend' = roundAtSend
<1>0. /\ Sent' = (1 .. (seq - 1))'
      /\ IInv => padding \subseteq Sent /\ acks \subseteq Sent
  BY DEF Sent, IInv
<1>1. ASSUME Same7, padding' \subseteq Sent, acks' \subseteq Sent PROVE IInv'
  BY <1>1 DEF IInv, ControllerInv, Sent, Unanswered
<1>2. CASE StartApplication
  BY <1>0, <1>1, <1>2 DEF StartApplication
<1>3. CASE StopApplication
  BY <1>0, <1>1, <1>3 DEF StopApplication
<1>4. CASE HeartBeat
  BY <1>4, HeartBeatIInv
<1>5. ASSUME NEW n \in padding, RecvPadding(n) PROVE IInv'
  BY <1>0, <1>1, <1>5 DEF RecvPadding, sender
<1>6. ASSUME NEW n \in acks, OnAck(n) PROVE IInv'
  BY <1>6, OnAckIInv
<1>7. CASE LosePacket
  BY <1>0, <1>1, <1>7 DEF LosePacket, Lose, sender
<1>8. CASE UNCHANGED vars
  BY <1>0, <1>1, <1>8 DEF vars, sender
<1> QED
  BY <1>2, <1>3, <1>4, <1>5, <1>6, <1>7, <1>8 DEF Next

\* The invariant holds in every behaviour.
LEMMA Invariance == Spec => []IInv
  BY InitIInv, NextIInv, PTL DEF Spec

\* The tables of the sender, of its controller and of the sampler agree.
THEOREM TablesAlwaysAgree == Spec => []TablesAgree
<1>1. ASSUME IInv PROVE TablesAgree
  <2>1. delays = Unanswered /\ (ver = 1 => cc1.lastAck = recvSeq)
    BY <1>1 DEF IInv
  <2>2. ASSUME ver # 1
        PROVE  /\ DOMAIN cc.packets = Unanswered /\ DOMAIN cc.sampler.infos = Unanswered
               /\ cc.lastAck = recvSeq /\ cc.lastSent = seq - 1
    <3>1. /\ DOMAIN cc.packets = InFlight(cc) /\ DOMAIN cc.sampler.infos = InFlight(cc)
          /\ cc.lastAck = recvSeq /\ cc.lastSent = seq - 1
          /\ seq \in Nat /\ recvSeq \in Nat
      BY <1>1, <2>2 DEF IInv, ControllerInv, TablesOK
    <3>2. InFlight(cc) = Unanswered
      BY <3>1 DEF InFlight, Unanswered, Sent
    <3> QED
      BY <3>1, <3>2
  <2> QED
    BY <2>1, <2>2 DEF TablesAgree
<1> QED
  BY <1>1, Invariance, PTL

\* After a back-off the base line comes from a packet sent after it
\* (seq_at_backoff_ in UpdateCongestionSignal and UpdateRttAndInflight).
THEOREM BaselineStaysFresh == Spec => []FreshBaseline
<1>1. ASSUME IInv PROVE FreshBaseline
  <2>1. CASE ver = 1
    <3>1. cc.base = FALSE
      BY <1>1, <2>1 DEF IInv, NoBbr
    <3> QED
      BY <3>1 DEF FreshBaseline
  <2>2. CASE ver # 1
    BY <1>1, <2>2 DEF IInv, ControllerInv, CcOK, FreshBaseline
  <2> QED
    BY <2>1, <2>2
<1> QED
  BY <1>1, Invariance, PTL

\* A round ends with the acknowledgement of a packet sent in it
\* (UpdateRoundTripCounter).
THEOREM RoundsLastARoundTrip == Spec => RoundsAreRoundTrips
<1> DEFINE Ends == cc.round > 0 /\ cc.round' # cc.round => roundAtSend[cc.lastAck'] = cc.round
<1>1. ASSUME IInv, [Next]_vars PROVE [Ends]_vars
  <2>1. ASSUME NEW n \in acks, OnAck(n) PROVE Ends
    <3>1. CASE ver = 1
      BY <2>1, <3>1 DEF OnAck
    <3>2. CASE ver # 1
      <4>1. PICK o : cc' = BbrAcked(ver, cc, n, o)
        BY <2>1, <3>2 DEF OnAck
      <4>2. n \in Sent /\ n \in Nat /\ recvSeq \in Nat /\ cc.lastAck = recvSeq
        BY <1>1, <3>2 DEF IInv, ControllerInv, Sent
      <4>3. CASE n > recvSeq
        BY <1>1, <3>2, <4>1, <4>2, <4>3, OnAckController
      <4>4. CASE ~(n > recvSeq)
        <5>1. cc' = cc
          BY <4>1, <4>2, <4>4 DEF BbrAcked
        <5> QED
          BY <5>1
      <4> QED
        BY <4>3, <4>4
    <3> QED
      BY <3>1, <3>2
  <2>2. ASSUME HeartBeat PROVE Ends
    <3>1. CASE ver = 1
      BY <2>2, <3>1 DEF HeartBeat
    <3>2. CASE ver # 1
      <4>1. cc' = BbrSent(cc, seq, Bytes)
        BY <2>2, <3>2 DEF HeartBeat
      <4>2. /\ CcOK(ver, cc) /\ TablesOK(cc) /\ cc.lastAck <= cc.lastSent
            /\ seq = cc.lastSent + 1 /\ ver \in 2 .. 5
        BY <1>1, <3>2 DEF IInv, ControllerInv
      <4>3. cc'.round = cc.round
        BY <4>1, <4>2, BbrSentOK
      <4> QED
        BY <4>3
    <3> QED
      BY <3>1, <3>2
  <2>3. ASSUME \/ StartApplication \/ StopApplication \/ LosePacket
               \/ \E n \in padding : RecvPadding(n)
        PROVE  Ends
    BY <2>3 DEF StartApplication, StopApplication, LosePacket, RecvPadding, sender
  <2> QED
    BY <1>1, <2>1, <2>2, <2>3 DEF Next
<1> QED
  BY <1>1, Invariance, PTL DEF Spec, RoundsAreRoundTrips

\* The requests of version 1 match its mode between the calls, and the
\* assertion of CalculatePacingRate holds (OnAck, ChangeState).
THEOREM RequestsAlwaysMatch == Spec => []RequestsMatchMode
<1>1. ASSUME IInv PROVE RequestsMatchMode
  <2>1. Quiet(cc1)
    BY <1>1, NewControllers DEF IInv, V1Inv
  <2> QED
    BY <2>1 DEF Quiet, RequestsMatchMode
<1> QED
  BY <1>1, Invariance, PTL

\* acked_clusters_ never points to a cluster that is gone
\* (RemoveClusterLE, ClusterInfoClear).
THEOREM ClustersStayAlive == Spec => []ClustersAlive
<1>1. ASSUME IInv PROVE ClustersAlive
  <2>1. V1Inv(cc1)
    BY <1>1, NewControllers DEF IInv
  <2>2. ListOK(cc1) /\ Len(cc1.acked) < AckWindow
    BY <2>1 DEF V1Inv, V1OK
  <2>3. DOMAIN cc1.acked = 1 .. Len(cc1.acked)
    BY <2>2 DEF ListOK
  <2> QED
    BY <2>2, <2>3 DEF ListOK, ClustersAlive
<1> QED
  BY <1>1, Invariance, PTL

\* The back-offs of version 1 keep their distance (back_off_id_ in
\* OnEstimateBandwidth).
THEOREM BackoffsStayApart == Spec => BackoffsApart
<1> DEFINE Apart == cc1.lastBack # 0 /\ cc1.lastBack' \notin {0, cc1.lastBack}
                    => cc1.lastBack' >= cc1.lastBack + BackoffWindow
<1>1. ASSUME IInv, [Next]_vars PROVE [Apart]_vars
  <2>1. ASSUME NEW n \in acks, OnAck(n) PROVE Apart
    <3>1. CASE ver # 1
      BY <2>1, <3>1 DEF OnAck
    <3>2. CASE ver = 1
      <4>1. PICK o : cc1' = BbrV1Acked(cc1, n, o)
        BY <2>1, <3>2 DEF OnAck
      <4>2. n \in Nat /\ V1Inv(cc1) /\ cc1.lastAck \in Nat
        BY <1>1, <3>2 DEF IInv, Sent, V1Inv, V1OK
      <4>3. CASE n > cc1.lastAck
        BY <4>1, <4>2, <4>3, BbrV1AckedOK
      <4>4. CASE ~(n > cc1.lastAck)
        <5>1. cc1' = cc1
          BY <4>1, <4>2, <4>4 DEF BbrV1Acked
        <5> QED
          BY <5>1
      <4> QED
        BY <4>3, <4>4
    <3> QED
      BY <3>1, <3>2
  <2>2. ASSUME HeartBeat PROVE Apart
    <3>1. CASE ver # 1
      BY <2>2, <3>1 DEF HeartBeat
    <3>2. CASE ver = 1
      <4>1. cc1' = BbrV1Sent(cc1, seq) /\ V1Inv(cc1)
        BY <1>1, <2>2, <3>2 DEF HeartBeat, IInv
      <4>2. cc1'.lastBack = cc1.lastBack
        BY <4>1, BbrV1SentOK
      <4> QED
        BY <4>2
    <3> QED
      BY <3>1, <3>2
  <2>3. ASSUME \/ StartApplication \/ StopApplication \/ LosePacket
               \/ \E n \in padding : RecvPadding(n)
        PROVE  Apart
    BY <2>3 DEF StartApplication, StopApplication, LosePacket, RecvPadding, sender
  <2> QED
    BY <1>1, <2>1, <2>2, <2>3 DEF Next
<1> QED
  BY <1>1, Invariance, PTL DEF Spec, BackoffsApart

-----------------------------------------------------------------------------
(***************************************************************************)
(* The byte counters and the reported losses, on top of IInv.              *)
(***************************************************************************)
BytesInv == ver # 1 => BytesOK(cc)

LossInv ==
    /\ acked \subseteq 1 .. recvSeq /\ recvSeq \in acked \cup {0}
    /\ losses \in Seq(Nat)
    /\ closing \in 0 .. Len(losses)
    /\ running => closing = 0
    /\ LossesAreExact

\* A new controller has counted nothing.
LEMMA NewBytes == BytesOK(NoBbr)
<1> DEFINE s == NoBbr.sampler
<1>1. Bytes \in Nat /\ Bytes * 0 = 0 /\ Bytes * (0 - 0) = 0
  BY MockSessionAssumption
<1>2. /\ NoBbr.lastSent = 0 /\ NoBbr.lastAck = 0 /\ NoBbr.inFlight = 0
      /\ NoBbr.packets = <<>> /\ s = NoSamples
  BY DEF NoBbr
<1>3. s.sent = 0 /\ s.acked = 0 /\ s.sentAtLast = 0 /\ DOMAIN s.infos = {}
  BY <1>2 DEF NoSamples
<1> HIDE DEF s
<1>4. SamplerOK(s, 0, 0)
  BY <1>1, <1>3 DEF SamplerOK
<1> QED
  BY <1>1, <1>2, <1>4 DEF BytesOK, s

\* Every step keeps the byte counters.
LEMMA NextBytesInv == IInv /\ BytesInv /\ [Next]_vars => BytesInv'
<1> SUFFICES ASSUME IInv, BytesInv, [Next]_vars, ver' # 1 PROVE BytesOK(cc)'
  BY DEF BytesInv
<1>1. ver' = ver
  BY DEF Next, StartApplication, StopApplication, HeartBeat, RecvPadding, OnAck, LosePacket,
         sender, vars
<1>2. /\ CcOK(ver, cc) /\ TablesOK(cc) /\ BytesOK(cc) /\ ver \in 2 .. 5
      /\ cc.lastAck = recvSeq /\ cc.lastSent = seq - 1
      /\ seq \in Nat /\ recvSeq \in Nat /\ recvSeq < seq /\ acks \subseteq Sent
  BY <1>1 DEF IInv, ControllerInv, BytesInv
<1>3. CASE HeartBeat
  <2>1. cc' = BbrSent(cc, seq, Bytes)
    BY <1>2, <1>3 DEF HeartBeat
  <2>2. cc.lastAck <= cc.lastSent /\ seq = cc.lastSent + 1
    BY <1>2
  <2>3. BytesOK(BbrSent(cc, seq, Bytes))
    BY <1>2, <2>2, BbrSentBytes
  <2> QED
    BY <2>1, <2>3
<1>4. ASSUME NEW n \in acks, OnAck(n) PROVE BytesOK(cc)'
  <2>1. PICK o : cc' = BbrAcked(ver, cc, n, o)
    BY <1>2, <1>4 DEF OnAck
  <2>2. n \in Nat /\ n < seq
    BY <1>2 DEF Sent
  <2>3. CASE n > recvSeq
    <3>1. n \in InFlight(cc)
      BY <1>2, <2>2, <2>3 DEF InFlight
    <3>2. BytesOK(BbrAcked(ver, cc, n, o))
      BY <1>2, <3>1, BbrAckedBytes
    <3> QED
      BY <2>1, <3>2
  <2>4. CASE ~(n > recvSeq)
    <3>1. cc' = cc
      BY <1>2, <2>1, <2>2, <2>4 DEF BbrAcked
    <3> QED
      BY <1>2, <3>1
  <2> QED
    BY <2>3, <2>4
<1>5. ASSUME cc' = cc PROVE BytesOK(cc)'
  BY <1>2, <1>5
<1> QED
  BY <1>3, <1>4, <1>5
     DEF Next, StartApplication, StopApplication, RecvPadding, LosePacket, sender, vars

\* bytes_in_flight_ is what is in flight, and the differences the sampler
\* divides are never negative (OnPacketSent, UpdateRttAndInflight, OnAck and
\* OnPacketAcknowledgedInner), for a padding packet of any size.
THEOREM BytesAlwaysRight == Spec => []BytesNeverWrap
<1>1. Init => BytesInv
  BY NewBytes DEF Init, BytesInv
<1>2. ASSUME IInv, BytesInv PROVE BytesNeverWrap
  <2>1. BytesOK(cc) /\ TablesOK(cc) /\ cc.lastSent \in Nat /\ cc.lastAck \in Nat
        /\ cc.lastAck <= cc.lastSent
    <3>1. CASE ver = 1
      <4>1. cc = NoBbr /\ CcOK(2, NoBbr) /\ TablesOK(NoBbr)
        BY <1>2, <3>1, NewControllers DEF IInv
      <4>2. NoBbr.lastAck = 0 /\ NoBbr.lastSent = 0
        BY DEF NoBbr
      <4> QED
        BY <4>1, <4>2, NewBytes
    <3>2. CASE ver # 1
      BY <1>2, <3>2 DEF IInv, ControllerInv, CcOK, BytesInv
    <3> QED
      BY <3>1, <3>2
  <2> DEFINE x == cc.lastSent
             y == cc.lastAck
             s == cc.sampler
             flying == DOMAIN cc.packets
  <2>2. flying = (y + 1) .. x
    BY <2>1 DEF TablesOK, InFlight
  <2>3. IsFiniteSet(flying) /\ Cardinality(flying) = x - y
    <3> DEFINE low == y + 1
    <3>1. low \in Int /\ x \in Int /\ flying = low .. x
      BY <2>1, <2>2
    <3>2. (IF low > x THEN 0 ELSE x - low + 1) = x - y
      BY <2>1
    <3> HIDE DEF low, flying, x, y
    <3> QED
      BY <3>1, <3>2, FS_Interval
  <2>4. \A n \in flying : cc.packets[n] = Bytes
    BY <2>1 DEF BytesOK
  <2>5. BytesOf(cc.packets, flying) = Bytes * (x - y)
    <3> HIDE DEF flying, x, y
    <3> QED
      BY <2>3, <2>4, BytesOfPadding
  <2>6. cc.inFlight = Bytes * (x - y) /\ SamplerOK(s, x, y)
    BY <2>1 DEF BytesOK
  <2>7. \A n \in DOMAIN s.infos :
          LET p == s.infos[n] IN p.sent >= p.sentAtLast /\ s.acked >= p.acked
    BY <2>6 DEF SamplerOK
  <2>8. s.sent >= s.acked
    <3>1. s.sent = Bytes * x /\ s.acked \in Nat /\ s.acked <= Bytes * y
      BY <2>6 DEF SamplerOK
    <3>2. x \in Nat /\ y \in Nat /\ x - y \in Nat /\ Bytes \in Nat
      BY <2>1, MockSessionAssumption
    <3> HIDE DEF x, y, s
    <3>3. Bytes * x = Bytes * y + Bytes * (x - y) /\ Bytes * (x - y) \in Nat /\ Bytes * y \in Nat
      BY <3>2
    <3> QED
      BY <3>1, <3>3
  <2> QED
    BY <2>5, <2>6, <2>7, <2>8 DEF BytesNeverWrap
<1> QED
  BY <1>1, <1>2, NextBytesInv, Invariance, PTL DEF Spec

\* What an acknowledgement above the highest one reports.
LEMMA DetectLossExact ==
    ASSUME LossInv, NEW n \in Nat, recvSeq \in Nat, n > recvSeq, DetectLoss(n),
           acked' = acked \cup {n}, UNCHANGED <<closing, running>>
    PROVE  LossInv'
<1> DEFINE r == recvSeq
           m == n - r - 1
           more == [i \in 1 .. m |-> r + i]
           L == Len(losses)
<1>1. r \in Nat /\ m \in Nat /\ n = r + m + 1 /\ recvSeq' = n
  BY DEF DetectLoss
<1>2. losses' = losses \o more
  <2>1. n >= recvSeq + 1
    OBVIOUS
  <2> QED
    BY <2>1, Zenon DEF DetectLoss
<1>3. /\ losses \in Seq(Nat) /\ L \in Nat /\ acked \subseteq 1 .. r
      /\ {losses[i] : i \in Detected} = (1 .. r) \ acked
      /\ \A i, j \in Detected : i < j => losses[i] < losses[j]
      /\ Detected = (1 .. L) \ {closing} /\ closing \in 0 .. L
  BY DEF LossInv, LossesAreExact, Detected
<1>4. more \in Seq(Nat) /\ Len(more) = m /\ DOMAIN more = 1 .. m
  <2>1. more \in [1 .. m -> Nat]
    BY <1>1
  <2> HIDE DEF m
  <2> QED
    BY <1>1, <2>1
<1>5. \A i \in 1 .. m : more[i] = r + i
  OBVIOUS
<1>6. closing # 0 => /\ losses[closing] \in 0 .. r
                     /\ \A i \in Detected : i < closing <=> losses[i] < losses[closing]
                     /\ losses[closing] \in acked \cup {0}
  BY <1>1, <1>3 DEF LossInv, LossesAreExact
<1> HIDE DEF L, m, more
<1>7. /\ losses' \in Seq(Nat) /\ Len(losses') = L + m /\ DOMAIN losses' = 1 .. (L + m)
      /\ \A i \in 1 .. L : losses'[i] = losses[i]
      /\ \A i \in 1 .. m : losses'[L + i] = r + i
  <2>1. /\ losses \o more \in Seq(Nat) /\ Len(losses \o more) = L + m
        /\ \A i \in 1 .. (L + m) : (losses \o more)[i] =
               IF i <= L THEN losses[i] ELSE more[i - L]
    BY <1>3, <1>4, ConcatProperties DEF L
  <2>2. DOMAIN losses' = 1 .. (L + m)
    BY <1>2, <2>1
  <2>3. ASSUME NEW i \in 1 .. L PROVE losses'[i] = losses[i]
    <3>1. i \in 1 .. (L + m) /\ i <= L
      BY <1>1, <1>3
    <3> QED
      BY <1>2, <2>1, <3>1
  <2>4. ASSUME NEW i \in 1 .. m PROVE losses'[L + i] = r + i
    <3>1. L + i \in 1 .. (L + m) /\ ~(L + i <= L) /\ (L + i) - L = i
      BY <1>1, <1>3
    <3> QED
      BY <1>2, <1>5, <2>1, <3>1
  <2> QED
    BY <1>2, <2>1, <2>2, <2>3, <2>4
\* The new reports follow the old ones, the closing one among them.
<1>8. /\ Detected' = (1 .. (L + m)) \ {closing}
      /\ \A i \in Detected' : i \in Detected \/ \E k \in 1 .. m : i = L + k
      /\ \A i \in Detected : i \in Detected' /\ losses'[i] = losses[i] /\ losses[i] \in 1 .. r
      /\ \A k \in 1 .. m : L + k \in Detected' /\ losses'[L + k] = r + k
  <2>1. Detected' = (1 .. (L + m)) \ {closing}
    BY <1>7 DEF Detected
  <2>2. ASSUME NEW i \in Detected', i \notin Detected PROVE \E k \in 1 .. m : i = L + k
    <3>1. i - L \in 1 .. m /\ i = L + (i - L)
      BY <1>1, <1>3, <2>1, <2>2
    <3> QED
      BY <3>1
  <2>3. ASSUME NEW i \in Detected
        PROVE  i \in Detected' /\ losses'[i] = losses[i] /\ losses[i] \in 1 .. r
    <3>1. i \in 1 .. L /\ i \in Detected'
      BY <1>1, <1>3, <2>1
    <3> QED
      BY <1>3, <1>7, <3>1
  <2>4. ASSUME NEW k \in 1 .. m PROVE L + k \in Detected'
    BY <1>1, <1>3, <2>1
  <2> QED
    BY <1>7, <2>1, <2>2, <2>3, <2>4
<1>9. {losses'[i] : i \in Detected'} = (1 .. n) \ (acked \cup {n})
  <2>1. ASSUME NEW i \in Detected' PROVE losses'[i] \in (1 .. n) \ (acked \cup {n})
    <3>1. CASE i \in Detected
      <4>1. losses'[i] \in (1 .. r) \ acked
        BY <1>3, <1>8, <3>1
      <4> QED
        BY <1>1, <4>1
    <3>2. CASE i \notin Detected
      <4>1. PICK k \in 1 .. m : losses'[i] = r + k
        BY <1>8, <3>2
      <4> QED
        BY <1>1, <1>3, <4>1
    <3> QED
      BY <3>1, <3>2
  <2>2. ASSUME NEW x \in (1 .. n) \ (acked \cup {n})
        PROVE  \E i \in Detected' : x = losses'[i]
    <3>1. CASE x \in 1 .. r
      <4>1. PICK i \in Detected : x = losses[i]
        BY <1>3, <2>2, <3>1
      <4> QED
        BY <1>8, <4>1
    <3>2. CASE x \notin 1 .. r
      <4>1. x - r \in 1 .. m /\ x = r + (x - r)
        BY <1>1, <2>2, <3>2
      <4> QED
        BY <1>8, <4>1
    <3> QED
      BY <3>1, <3>2
  <2> QED
    BY <2>1, <2>2
<1>10. ASSUME NEW i \in Detected', NEW j \in Detected', i < j
       PROVE  losses'[i] < losses'[j]
  <2>1. CASE j \in Detected
    <3>1. i \in Detected
      BY <1>1, <1>3, <1>8, <1>10, <2>1
    <3> QED
      BY <1>3, <1>8, <1>10, <2>1, <3>1
  <2>2. CASE j \notin Detected
    <3>1. PICK k \in 1 .. m : j = L + k
      BY <1>8, <2>2
    <3>2. losses'[j] = r + k
      BY <1>8, <3>1
    <3>3. CASE i \in Detected
      <4>1. losses'[i] \in 1 .. r
        BY <1>8, <3>3
      <4> QED
        BY <1>1, <3>2, <4>1
    <3>4. CASE i \notin Detected
      <4>1. PICK h \in 1 .. m : i = L + h
        BY <1>8, <3>4
      <4>2. losses'[i] = r + h
        BY <1>8, <4>1
      <4>3. h < k
        BY <1>1, <1>3, <1>10, <3>1, <4>1
      <4> QED
        BY <1>1, <3>2, <4>2, <4>3
    <3> QED
      BY <3>3, <3>4
  <2> QED
    BY <2>1, <2>2
<1>11. ASSUME closing # 0
       PROVE  /\ losses'[closing] \in acked' \cup {0}
              /\ \A i \in Detected' : i < closing <=> losses'[i] < losses'[closing]
  <2>1. closing \in 1 .. L /\ losses'[closing] = losses[closing]
    BY <1>1, <1>3, <1>7, <1>11
  <2>2. ASSUME NEW i \in Detected' PROVE i < closing <=> losses'[i] < losses'[closing]
    <3>1. CASE i \in Detected
      BY <1>6, <1>8, <1>11, <2>1, <3>1
    <3>2. CASE i \notin Detected
      <4>1. PICK k \in 1 .. m : i = L + k
        BY <1>8, <3>2
      <4>2. losses'[i] = r + k
        BY <1>8, <4>1
      <4> QED
        BY <1>1, <1>3, <1>6, <1>11, <2>1, <4>1, <4>2
    <3> QED
      BY <3>1, <3>2
  <2> QED
    BY <1>6, <1>11, <2>1, <2>2
<1>12. /\ acked' \subseteq 1 .. recvSeq' /\ recvSeq' \in acked' /\ closing' \in 0 .. Len(losses')
       /\ running' => closing' = 0
  <2>1. running' => closing' = 0
    BY Zenon DEF LossInv
  <2>2. acked' \subseteq 1 .. recvSeq' /\ recvSeq' \in acked'
    BY <1>1, <1>3
  <2>3. closing' \in 0 .. Len(losses')
    BY <1>1, <1>3, <1>7
  <2> QED
    BY <2>1, <2>2, <2>3
<1>13. LossesAreExact'
  BY <1>1, <1>9, <1>10, <1>11 DEF LossesAreExact
<1> QED
  BY <1>7, <1>12, <1>13 DEF LossInv

\* What StopApplication reports comes after every loss detected so far and is
\* above all of them.
LEMMA StopApplicationExact ==
    ASSUME LossInv, recvSeq \in Nat, StopApplication
    PROVE  LossInv'
<1> DEFINE L == Len(losses)
<1>1. /\ running /\ ~running' /\ losses' = Append(losses, recvSeq) /\ closing' = L + 1
      /\ recvSeq' = recvSeq /\ acked' = acked
  BY DEF StopApplication
<1>2. /\ losses \in Seq(Nat) /\ L \in Nat /\ closing = 0 /\ acked \subseteq 1 .. recvSeq
      /\ recvSeq \in acked \cup {0}
      /\ {losses[i] : i \in Detected} = (1 .. recvSeq) \ acked
      /\ \A i, j \in Detected : i < j => losses[i] < losses[j]
      /\ Detected = 1 .. L
  BY <1>1 DEF LossInv, LossesAreExact, Detected
<1>3. /\ losses' \in Seq(Nat) /\ Len(losses') = L + 1 /\ DOMAIN losses' = 1 .. (L + 1)
      /\ \A i \in 1 .. L : losses'[i] = losses[i]
      /\ losses'[L + 1] = recvSeq
  BY <1>1, <1>2
<1> HIDE DEF L
<1>4. Detected' = Detected
  BY <1>1, <1>2, <1>3 DEF Detected
<1>5. {losses'[i] : i \in Detected'} = {losses[i] : i \in Detected}
  BY <1>2, <1>3, <1>4
<1>6. \A i \in Detected' : i < closing' /\ losses'[i] < losses'[closing']
  <2>1. ASSUME NEW i \in Detected' PROVE i < closing' /\ losses'[i] < losses'[closing']
    <3>1. i \in 1 .. L /\ losses'[i] = losses[i] /\ losses[i] \in (1 .. recvSeq) \ acked
      BY <1>2, <1>3, <1>4
    <3> QED
      BY <1>1, <1>2, <1>3, <3>1
  <2> QED
    BY <2>1
<1>7. LossesAreExact'
  <2>1. \A i, j \in Detected' : i < j => losses'[i] < losses'[j]
    BY <1>2, <1>3, <1>4
  <2> QED
    BY <1>1, <1>2, <1>3, <1>5, <1>6, <2>1 DEF LossesAreExact
<1> QED
  BY <1>1, <1>2, <1>3, <1>7 DEF LossInv

\* What DetectLoss reports are exactly the numbers up to the highest one
\* acknowledged that were not acknowledged themselves, once and in order,
\* however the network reorders; the one report of StopApplication names none
\* of them and stands between those below it and those above.
THEOREM LossesAlwaysExact == Spec => []LossesAreExact
<1>1. Init => LossInv
  <2> SUFFICES ASSUME Init PROVE LossInv
    OBVIOUS
  <2>1. recvSeq = 0 /\ acked = {} /\ losses = <<>> /\ closing = 0
    BY DEF Init
  <2>2. losses \in Seq(Nat) /\ DOMAIN losses = {} /\ 1 .. recvSeq = {} /\ Len(losses) = 0
    BY <2>1
  <2>3. Detected = {}
    BY <2>2 DEF Detected
  <2> QED
    BY <2>1, <2>2, <2>3 DEF LossInv, LossesAreExact
<1>2. IInv /\ LossInv /\ [Next]_vars => LossInv'
  <2> SUFFICES ASSUME IInv, LossInv, [Next]_vars PROVE LossInv'
    OBVIOUS
  <2>1. recvSeq \in Nat /\ acks \subseteq Sent /\ seq \in Nat
    BY DEF IInv
  <2>2. ASSUME UNCHANGED <<losses, closing, recvSeq, acked>>, running' => closing = 0
        PROVE  LossInv'
    BY <2>2 DEF LossInv, LossesAreExact, Detected
  <2>3. ASSUME NEW n \in acks, OnAck(n) PROVE LossInv'
    <3>1. n \in Nat
      BY <2>1 DEF Sent
    <3>2. /\ DetectLoss(n) /\ acked' = IF n > recvSeq THEN acked \cup {n} ELSE acked
          /\ UNCHANGED <<closing, running>>
      BY <2>3 DEF OnAck
    <3>3. CASE n > recvSeq
      BY <2>1, <3>1, <3>2, <3>3, DetectLossExact
    <3>4. CASE ~(n > recvSeq)
      <4>1. UNCHANGED <<losses, recvSeq, acked>>
        BY <2>1, <3>1, <3>2, <3>4 DEF DetectLoss
      <4> QED
        BY <2>2, <3>2, <4>1 DEF LossInv
    <3> QED
      BY <3>3, <3>4
  <2>4. CASE StopApplication
    BY <2>1, <2>4, StopApplicationExact
  <2>5. CASE StartApplication
    BY <2>2, <2>5 DEF StartApplication
  <2>6. ASSUME UNCHANGED <<losses, closing, recvSeq, acked, running>> PROVE LossInv'
    BY <2>2, <2>6 DEF LossInv
  <2> QED
    BY <2>3, <2>4, <2>5, <2>6 DEF Next, HeartBeat, RecvPadding, LosePacket, sender, vars
<1>3. LossInv => LossesAreExact
  BY DEF LossInv
<1> QED
  BY <1>1, <1>2, <1>3, Invariance, PTL DEF Spec
=============================================================================
