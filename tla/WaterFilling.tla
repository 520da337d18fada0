---------------------------- MODULE WaterFilling ----------------------------
(***************************************************************************)
(* The water filling of waterfillingschedule.cc, sflschedule.cc and        *)
(* sfl_v1.cc.  The paths are vessels, ordered by delay, that are filled up *)
(* to a common level; each then takes packets until its water is gone.     *)
(* order is the table delay_water_table (a sequence of paths), owd and bps  *)
(* its columns.                                                            *)
(***************************************************************************)
EXTENDS Integers, Sequences, FiniteSets, SequencesExt

CONSTANT
  Millis      \* 8 * 1000 of the code: what relates a rate to bytes and ms

ASSUME WaterFillingAssumption == Millis \in Nat \ {0}

\* The tables std::sort may leave: ties come in any order.
Tables(usable, owd) ==
  {s \in SetToSeqs(usable) :
     \A i, j \in 1 .. Len(s) : i < j => owd[s[i]] =< owd[s[j]]}

\* GetTotalWater: the bytes of each path when the level is that of the last
\* path plus compensate.
Water(order, owd, bps, compensate) ==
  LET depth == owd[Last(order)] + compensate
  IN  [i \in 1 .. Len(order) |->
         ((depth - owd[order[i]]) * bps[order[i]]) \div Millis]

\* The level rises in steps of the time the last path needs for one packet.
Step(order, bps, len) == (len * Millis) \div bps[Last(order)]

Enough(order, owd, bps, filling, compensate) ==
  FoldLeft(+, 0, Water(order, owd, bps, compensate)) >= filling

\* With a step of zero the level never rises.
Fills(order, owd, bps, filling, step) ==
  step > 0 \/ Enough(order, owd, bps, filling, 0)

\* AllocateWater: the first level that holds the frame.
AllocateWater(order, owd, bps, filling, step) ==
  LET i == Min({j \in 0 .. Millis * filling :
                  Enough(order, owd, bps, filling, step * j)})
  IN  Water(order, owd, bps, step * i)

\* The packets poured into the vessels.  A path takes packets while it has
\* water, also one packet more than fits; the last path takes the rest.
Pour(order, water, lens) ==
  LET next(head, left) ==
        IF left > 0 \/ head = Len(order) THEN head
        ELSE Min({Len(order)} \cup
                 {i \in head + 1 .. Len(order) : water[i] > 0})
      f[k \in 0 .. Len(lens)] ==
        IF k = 0 THEN [at |-> 1, left |-> water[1]]
        ELSE LET at == next(f[k - 1].at, f[k - 1].left)
             IN [at   |-> at,
                 left |-> (IF at = f[k - 1].at THEN f[k - 1].left
                                              ELSE water[at]) - lens[k]]
  IN  [k \in 1 .. Len(lens) |-> order[f[k].at]]
=============================================================================
