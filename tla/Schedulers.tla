----------------------------- MODULE Schedulers -----------------------------
(***************************************************************************)
(* The packet schedulers.  IncomingPackets gets the packets of one frame   *)
(* with their lengths and calls PacketSchedule for each with the path it   *)
(* chose.  One instance runs one scheduler, chosen at the start:           *)
(*   rr       roundrobinschedule.cc      wrr    wrrschedule.cc             *)
(*   minq     minqueueschedule.cc        bc     balancecostschedule.cc     *)
(*   scale    scaleschedule.cc           water  waterfillingschedule.cc    *)
(*   sfl      sflschedule.cc             edcld  edcldschedule.cc           *)
(* and of the second generation bcV1, sflV1, edcldV1 and ideal.            *)
(*                                                                         *)
(* What a scheduler reads of a path is the environment: its rate (zero     *)
(* until the first estimate), its delay, and the bytes it has pending,     *)
(* which grow while the frame is being placed.                             *)
(*                                                                         *)
(* Where the code has undefined behaviour (an iterator past the end, a     *)
(* division by zero) or never returns, the result says so and nothing      *)
(* follows.                                                                *)
(***************************************************************************)
EXTENDS WeightedRoundRobin, WaterFilling

CONSTANTS
  Kinds,        \* the schedulers of this instance
  Paths,        \* path ids
  Rates,        \* the rates a path may have once it has an estimate
  Delays,       \* functions of Paths: the one-way delays
  Frames,       \* sequences of packet lengths
  QueueBound,   \* bound on the bytes pending at a path when a frame comes
  MaxScheduled, \* bound on the frames EDCLD schedules
  Unit,         \* the ratio 1 of psi_table_, in parts
  Roots         \* the positive part of the roots of EDCLD, in parts

ASSUME SchedulersAssumption ==
  /\ Paths \subseteq Nat \ {0} /\ IsFiniteSet(Paths)
  /\ Rates \subseteq Nat \ {0}
  /\ Delays \subseteq [Paths -> Nat]
  /\ Frames \subseteq Seq(Nat \ {0}) \ {<<>>}
  /\ QueueBound \in Nat
  /\ MaxScheduled \in Nat
  /\ Unit \in Nat \ {0}
  /\ Roots \subseteq Nat

VARIABLES
  kind,         \* the scheduler
  pids,         \* pids_
  last_index,   \* last_index_ of RoundRobinSchedule
  cost_table,   \* the keys of cost_table_
  psi_table,    \* psi_table_, in parts of Unit
  scheduled,    \* frames EDCLD has scheduled; last_ts_ # 0 once there is one
  stopped,      \* the paths OnNetworkStop came for; runing_ if there is none
  rate,         \* s_bps_, rate_ of each path
  delay,        \* one-way delay of each path
  queue,        \* pending_len_, pending_bytes_ of each path
  frame,        \* history: the packets of the last frame
  result        \* history: [outcome, placed] of the last call

edcldVars == <<last_index, cost_table, psi_table, scheduled>>
pathVars  == <<rate, delay>>
vars == <<kind, pids, edcldVars, stopped, pathVars, queue, frame, result>>

V1      == {"bcV1", "sflV1", "edcldV1", "ideal"}
Edcld   == {"edcld", "edcldV1"}
Weighed == {"wrr", "ideal"} \cup Edcld
\* For the others the environment is kept constant.
DelayReaders == {"bc", "bcV1", "water", "sfl", "sflV1", "scale"}
QueueReaders == {"minq", "bc", "bcV1", "water", "sflV1"}

NoResult  == [outcome |-> "none", placed |-> <<>>]
Undefined == [outcome |-> "undefined", placed |-> <<>>]
Endless   == [outcome |-> "endless", placed |-> <<>>]
Done(s)   == [outcome |-> "done", placed |-> s]

UsableOf(ids) == {p \in Paths : rate[p] > 0 /\ Contains(ids, p)}
Usable    == UsableOf(pids)
TotalRate == SumFunctionOnSet(rate, Usable)
SizeOf(lens) == FoldLeft(+, 0, lens)
PutOn(p, s, lens) == FoldLeftDomain(LAMBDA sum, k :
                       IF s[k] = p THEN sum + lens[k] ELSE sum, 0, s)

Init ==
  /\ kind \in Kinds
  /\ pids = <<>> /\ last_index = 0
  /\ cost_table = {} /\ psi_table = <<>> /\ scheduled = 0
  /\ stopped = {}
  /\ rate = [p \in Paths |-> 0]
  /\ delay \in IF kind \in DelayReaders THEN Delays ELSE {[p \in Paths |-> 0]}
  /\ queue = [p \in Paths |-> 0]
  /\ frame = <<>> /\ result = NoResult

-----------------------------------------------------------------------------
(* Choosing paths                                                          *)

\* RoundRobin: each scheduler's own copy starts at the first path,
\* RoundRobinSchedule goes on where it was.
RoundRobin(from, n) == [k \in 1 .. n |-> pids[((from + k - 1) % Len(pids)) + 1]]

SendAllPackesToPath(p, n) == [k \in 1 .. n |-> p]

\* Faulty variant: the rounded weights are rounded down.
WeightsDown(n) == [p \in Usable |-> (n * rate[p]) \div TotalRate]

\* Rounded shares of n packets.
Weights(n) == [p \in Usable |-> (2 * n * rate[p] + TotalRate) \div (2 * TotalRate)]

WrrResult(weight, n) ==
  IF HasServer(weight) THEN Done(GetServers(weight, n)) ELSE Undefined

\* The first path of the map with the least cost.
Cheapest(cost) ==
  Min({p \in DOMAIN cost : \A q \in DOMAIN cost : cost[p] =< cost[q]})

\* The first path of the list with the least round-trip time.
LeastRtt ==
  pids[Min({i \in 1 .. Len(pids) :
              \A j \in 1 .. Len(pids) : delay[pids[i]] =< delay[pids[j]]})]

QueueCost(p, bytes) == (bytes * Millis) \div rate[p]

\* GetCost, get_cost, get_aggregate_delay.
GetCost(p, bytes) ==
  delay[p] + IF rate[p] = 0 THEN 0 ELSE QueueCost(p, bytes)

\* What the kind of scheduler compares.
Cost(p, bytes) == IF kind = "minq" THEN QueueCost(p, bytes) ELSE GetCost(p, bytes)

\* Packet by packet to the cheapest path; PacketSchedule puts the packet on
\* the path at once, so the next one sees it.
Greedy(lens) ==
  LET f[k \in 0 .. Len(lens)] ==
        IF k = 0 THEN <<>>
        ELSE LET s == f[k - 1]
             IN Append(s, Cheapest([p \in Usable |->
                                      Cost(p, queue[p] + PutOn(p, s, lens))]))
  IN  f[Len(lens)]

GreedyResult(lens) ==
  IF Usable = {} THEN Undefined ELSE Done(Greedy(lens))

Owd == CASE kind = "sfl" -> delay
       [] OTHER          -> [p \in Paths |-> GetCost(p, queue[p])]

WaterResults(lens) ==
  IF Usable = {} THEN {Undefined}
  ELSE {LET step == Step(order, rate, lens[1])
            size == SizeOf(lens)
        IN IF Fills(order, Owd, rate, size, step)
           THEN Done(Pour(order, AllocateWater(order, Owd, rate, size, step), lens))
           ELSE Endless : order \in Tables(Usable, Owd)}

\* Faulty variant: the last path gets its rounded share too.
ScaleSharesRounded(n) ==
  LET first == Min(Usable)
  IN  [p \in Usable |-> (2 * n * rate[first] + TotalRate) \div (2 * TotalRate)]

\* ScaleSchedule: every path but the last gets the share of the first one,
\* the last path what remains.
ScaleShares(n) ==
  LET first == Min(Usable)
      num   == (2 * n * rate[first] + TotalRate) \div (2 * TotalRate)
  IN  [p \in Usable |-> IF p = Max(Usable)
                        THEN n - num * (Cardinality(Usable) - 1) ELSE num]

\* A share is not stored, or wraps, once nothing remains: the code then reads
\* the end of the map or runs past the packets.
ScaleResults(n) ==
  IF Usable = {} \/ ScaleShares(n)[Max(Usable)] =< 0 THEN {Undefined}
  ELSE {Done(FoldLeft(LAMBDA s, p :
                        s \o SendAllPackesToPath(p, ScaleShares(n)[p]),
                      <<>>, order)) : order \in Tables(Usable, delay)}

-----------------------------------------------------------------------------
(* EDCLD: a ratio for each path, moved from the dearest to the cheapest    *)

FloorWeights(psi, n) == [p \in DOMAIN psi |-> (n * psi[p]) \div Unit]

\* The share of each usable path in the total rate.
Ratios(ids) ==
  [p \in UsableOf(ids) |->
     (rate[p] * Unit) \div SumFunctionOnSet(rate, UsableOf(ids))]

\* Faulty variant: the root is not capped by what the dearest path has.
UpdateUncapped(psi) ==
  {psi} \cup
  {[psi EXCEPT ![t[1]] = @ + t[3], ![t[2]] = @ - t[3]] :
     t \in {u \in cost_table \X cost_table \X Roots : u[1] # u[2]}}

\* Costs are sums of doubles and any path may be the cheapest (t[1]) or the
\* dearest (t[2]).  What moves is the root, capped by what the dearest has, or
\* all of that when there is no root.  With equal costs nothing moves.
UpdateCostAndPsiTable(psi) ==
  {psi} \cup
  {[psi EXCEPT ![t[1]] = @ + Min({t[3], psi[t[2]]}),
               ![t[2]] = @ - Min({t[3], psi[t[2]]})] :
     t \in {u \in cost_table \X cost_table \X (Roots \cup {psi[p] : p \in cost_table}) :
              u[1] # u[2]}}

\* ResetCostAndPsiTable clears cost_table_ and inserts into psi_table_, which
\* keeps the ratios it has.
ResetPsi(ratios) ==
  [p \in DOMAIN psi_table \cup DOMAIN ratios |->
     IF p \in DOMAIN psi_table THEN psi_table[p] ELSE ratios[p]]

Reset(ids) ==
  /\ cost_table' = UsableOf(ids)
  /\ psi_table' = ResetPsi(Ratios(ids))

-----------------------------------------------------------------------------
(* Paths come and go                                                       *)

Live == result.outcome \notin {"undefined", "endless"}

Forget == frame' = <<>>

\* RegisterPath of a new path.  EDCLD resets its tables if it has begun; the
\* first generation registers the path before GetPathInfo knows it.
RegisterPath(p) ==
  /\ Live /\ ~Contains(pids, p) /\ p \notin stopped
  /\ pids' = Append(pids, p)
  /\ IF kind \in Edcld /\ scheduled > 0 THEN Reset(pids')
                                  ELSE UNCHANGED <<cost_table, psi_table>>
  /\ result' = IF kind = "edcld" /\ scheduled > 0 THEN Undefined ELSE NoResult
  /\ Forget
  /\ UNCHANGED <<kind, last_index, scheduled, stopped, pathVars, queue>>

\* OnNetworkStop of the second generation, which ends the scheduling.
UnregisterPath(p) ==
  /\ Live /\ kind \in V1 /\ Contains(pids, p)
  /\ pids' = Remove(pids, p)
  /\ IF kind \in Edcld THEN Reset(pids') ELSE UNCHANGED <<cost_table, psi_table>>
  /\ stopped' = stopped \cup {p}
  /\ result' = NoResult /\ Forget
  /\ UNCHANGED <<kind, last_index, scheduled, pathVars, queue>>

\* A new estimate of the rate of a path.  EDCLD reads rates when it makes its
\* tables and then through the roots, which are arbitrary: for it the first
\* estimates are enough.
RateChange(p) ==
  /\ Live /\ stopped = {}
  /\ kind \in Edcld => rate[p] = 0
  /\ \E r \in Rates : r # rate[p] /\ rate' = [rate EXCEPT ![p] = r]
  /\ result' = NoResult /\ Forget
  /\ UNCHANGED <<kind, pids, edcldVars, stopped, delay, queue>>

\* A path sends what it had pending.
Drain(p) ==
  /\ Live /\ stopped = {}
  /\ queue[p] > 0
  /\ \E n \in 0 .. Min({queue[p] - 1, QueueBound}) : queue' = [queue EXCEPT ![p] = n]
  /\ result' = NoResult /\ Forget
  /\ UNCHANGED <<kind, pids, edcldVars, stopped, pathVars>>

-----------------------------------------------------------------------------
(* IncomingPackets                                                         *)

\* PacketSchedule of all packets of a frame.
Place(lens, res) ==
  /\ frame' = lens
  /\ result' = res
  /\ queue' = IF kind \in QueueReaders
              THEN [p \in Paths |-> queue[p] + PutOn(p, res.placed, lens)]
              ELSE queue
  /\ UNCHANGED <<kind, pids, stopped, pathVars>>

Frame(lens) ==
  /\ Live /\ stopped = {}
  /\ pids # <<>>
  /\ \A p \in Paths : queue[p] =< QueueBound

\* The early returns: one path, and in most schedulers one packet.
Single(lens) ==
  \/ kind # "rr" /\ Len(pids) = 1
  \/ kind \notin {"rr", "ideal"} /\ Len(lens) = 1

Several(lens) == Frame(lens) /\ ~Single(lens)

RoundRobinFrame(lens) ==
  /\ kind = "rr" /\ Frame(lens)
  /\ Place(lens, Done(RoundRobin(last_index, Len(lens))))
  /\ last_index' = (last_index + Len(lens)) % Cardinality(Paths)
  /\ UNCHANGED <<cost_table, psi_table, scheduled>>

\* One path gets all.  One packet goes to the first path registered; in BCV1
\* to the least round trip and in SFLV1 to the first of the table.
SingleFrame(lens) ==
  /\ Frame(lens) /\ Single(lens)
  /\ \E res \in
       IF kind = "bcV1" THEN {Done(SendAllPackesToPath(LeastRtt, Len(lens)))}
       ELSE IF kind = "sflV1" /\ Len(pids) > 1
            THEN IF Usable = {} THEN {Undefined}
                 ELSE {Done(SendAllPackesToPath(t[1], Len(lens))) :
                         t \in Tables(Usable, Owd)}
       ELSE {Done(RoundRobin(0, Len(lens)))} : Place(lens, res)
  /\ UNCHANGED edcldVars

WrrFrame(lens) ==
  /\ kind \in {"wrr", "ideal"} /\ Several(lens)
  /\ Place(lens, IF kind = "wrr" /\ Usable = {}
                 THEN Done(RoundRobin(0, Len(lens)))
                 ELSE WrrResult(Weights(Len(lens)), Len(lens)))
  /\ UNCHANGED edcldVars

MinQueueFrame(lens) ==
  /\ kind = "minq" /\ Several(lens)
  /\ Place(lens, GreedyResult(lens))
  /\ UNCHANGED edcldVars

BalanceCostFrame(lens) ==
  /\ kind \in {"bc", "bcV1"} /\ Several(lens)
  /\ Place(lens, GreedyResult(lens))
  /\ UNCHANGED edcldVars

WaterFrame(lens) ==
  /\ kind \in {"water", "sfl", "sflV1"} /\ Several(lens)
  /\ \E res \in WaterResults(lens) : Place(lens, res)
  /\ UNCHANGED edcldVars

ScaleFrame(lens) ==
  /\ kind = "scale" /\ Several(lens)
  /\ \E res \in ScaleResults(Len(lens)) : Place(lens, res)
  /\ UNCHANGED edcldVars

FirstEdcldFrame(lens) ==
  /\ kind \in Edcld /\ Several(lens) /\ scheduled = 0
  /\ cost_table' = Usable
  /\ psi_table' = ResetPsi(Ratios(pids))
  /\ scheduled' = 1
  /\ Place(lens, WrrResult(FloorWeights(psi_table', Len(lens)), Len(lens)))
  /\ UNCHANGED last_index

EdcldFrame(lens) ==
  /\ kind \in Edcld /\ Several(lens) /\ scheduled \in 1 .. MaxScheduled - 1
  /\ scheduled' = scheduled + 1
  /\ psi_table' \in UpdateCostAndPsiTable(psi_table)
  /\ Place(lens, WrrResult(FloorWeights(psi_table', Len(lens)), Len(lens)))
  /\ UNCHANGED <<last_index, cost_table>>

IncomingPackets(lens) ==
  \/ RoundRobinFrame(lens)   \/ SingleFrame(lens)
  \/ WrrFrame(lens)          \/ MinQueueFrame(lens)
  \/ BalanceCostFrame(lens)  \/ WaterFrame(lens)
  \/ ScaleFrame(lens)        \/ FirstEdcldFrame(lens)
  \/ EdcldFrame(lens)

Next ==
  \/ \E p \in Paths : RegisterPath(p) \/ UnregisterPath(p)
                      \/ RateChange(p) \/ Drain(p)
  \/ \E lens \in Frames : IncomingPackets(lens)

Spec == Init /\ [][Next]_vars

-----------------------------------------------------------------------------
(* Properties                                                              *)

\* A call that returns has given every packet of the frame to a registered
\* path (the packets of pending_buf_ that IncomingPackets skips stay there for
\* ever, mpsender.cc 165-184).  With several paths and packets none goes to a
\* path without a rate as long as some path has one; round robin (rr) is left
\* out of this part, as it does not look at rates, and so are the early returns
\* for one path or one packet.
EveryPacketPlaced ==
  result.outcome = "done" =>
    /\ DOMAIN result.placed = 1 .. Len(frame)
    /\ \A k \in 1 .. Len(frame) :
         /\ Contains(pids, result.placed[k])
         /\ kind # "rr" /\ ~Single(frame) /\ Usable # {} =>
              rate[result.placed[k]] > 0

\* When the schedulers go wrong, and nothing else makes them: no path with a
\* rate, a share that rounds to nothing on every path, a level that cannot
\* rise, the first path's share taken for all, a path registered too early.
\* For EDCLD, whose ratios add up to Unit but for rounding, a share that rounds
\* to nothing on every path takes fewer packets than paths.
GoesWrongOnlyWhen ==
  LET n == Len(frame) IN
  /\ result.outcome = "endless" =>
       \E p \in Usable : n > 0 /\ frame[1] * Millis < rate[p]
  /\ result.outcome = "undefined" =>
       \/ Usable = {}
       \/ kind \in {"wrr", "ideal"} /\ 2 * n < Cardinality(Usable)
       \/ kind \in Edcld /\ n * SumFunction(psi_table) < Cardinality(DOMAIN psi_table) * Unit
       \/ kind = "edcld" /\ frame = <<>>
       \/ kind = "scale" /\ \/ Cardinality(Usable) > 2
                            \/ 2 * n * rate[Max(Usable)] =< TotalRate

\* A frame moves ratio between paths and neither makes nor destroys any, and
\* no ratio is negative, whatever root the equation of EDCLD gives
\* (UpdateCostAndPsiTable).
PsiConserved ==
  [][ (\E lens \in Frames : EdcldFrame(lens)) =>
        /\ SumFunction(psi_table') = SumFunction(psi_table)
        /\ \A p \in DOMAIN psi_table' : psi_table'[p] >= 0 ]_vars
=============================================================================
