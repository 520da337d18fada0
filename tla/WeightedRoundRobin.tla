------------------------- MODULE WeightedRoundRobin -------------------------
(***************************************************************************)
(* wrr.cc: weighted round robin over a list of servers.  The object lives  *)
(* for one frame only (WrrSchedule, IdealSchedule and EDCLD make a new one  *)
(* each time), so it is a pure function of the weights.                    *)
(*                                                                         *)
(* GetServer walks the list round and round; cw_ starts at the greatest    *)
(* weight, loses one at each wrap and starts again below one.  Position j  *)
(* of the walk is therefore a server and a level, and the servers returned *)
(* are those of the positions whose weight reaches the level.              *)
(***************************************************************************)
EXTENDS Integers, Sequences, FiniteSets, SequencesExt

\* The elements of a set of numbers in increasing order.
Ascending(S) ==
  {s \in [1 .. Cardinality(S) -> S] :
     \A i, j \in 1 .. Cardinality(S) : i < j => s[i] < s[j]}

\* Servers are the ids of positive weight in the order of AddServer: the
\* callers add them from a map, in increasing order.
Servers(weight) == CHOOSE s \in Ascending({p \in DOMAIN weight : weight[p] > 0}) : TRUE

\* The servers GetServer returns from one wrap of cw_ to the next.
Cycle(weight) ==
  LET s     == Servers(weight)
      n     == Len(s)
      top   == Max({weight[s[j]] : j \in 1 .. n})
      at(j) == s[((j - 1) % n) + 1]
      level(j) == top - ((j - 1) \div n)
      returned[j \in 0 .. n * top] ==
        IF j = 0 THEN <<>>
        ELSE IF weight[at(j)] >= level(j) THEN Append(returned[j - 1], at(j))
        ELSE returned[j - 1]
  IN  returned[n * top]

\* Without a server GetServer divides by zero.
HasServer(weight) == \E p \in DOMAIN weight : weight[p] > 0

\* The servers of n calls of GetServer.
GetServers(weight, n) ==
  LET c == Cycle(weight)
  IN  [k \in 1 .. n |-> c[((k - 1) % Len(c)) + 1]]
=============================================================================
