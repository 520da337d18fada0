---------------------------- MODULE AgentsProofs ----------------------------
(***************************************************************************)
(* Proofs about the agents of fun_test, for any frames, rates, calls of    *)
(* Process, losses and reports, and however often the numbers come round.  *)
(*                                                                         *)
(* The first part has the induction lemmas, the second what sums are, the  *)
(* third what a frame is split into and what the decoder reads, and the    *)
(* rest the invariant: where the segments are, how far the agent is ahead  *)
(* of its rate, and what may still be reported.                            *)
(***************************************************************************)
EXTENDS Agents, TLAPS, SequenceTheorems, FiniteSetTheorems, WellFoundedInduction

-----------------------------------------------------------------------------
(***************************************************************************)
(* Induction over numbers, and functions defined by recursion.             *)
(***************************************************************************)
LessThan == {pair \in Nat \X Nat : pair[1] < pair[2]}

\* A set of naturals that is not empty has a least element.
LEMMA LeastOf ==
  ASSUME NEW S \in SUBSET Nat, S # {}
  PROVE  Min(S) \in S /\ \A x \in S : Min(S) <= x
<1>1. IsWellFoundedOn(LessThan, Nat)
  BY NatLessThanWellFounded DEF OpToRel, LessThan
<1>2. PICK x \in S : \A y \in S : <<y, x>> \notin LessThan
  BY <1>1, WFMin
<1>3. ASSUME NEW y \in S PROVE x <= y
  <2>1. <<y, x>> \notin LessThan
    BY <1>2
  <2> QED
    BY <2>1 DEF LessThan
<1> QED
  BY <1>3 DEF Min

\* What holds of 0 and carries over from each number to the next holds of all.
LEMMA UpTo ==
  ASSUME NEW n \in Nat, NEW P, 0 \in P, \A k \in 1 .. n : k - 1 \in P => k \in P
  PROVE  \A k \in 0 .. n : k \in P
<1> DEFINE Bad == {k \in 0 .. n : k \notin P}
<1>1. SUFFICES ASSUME Bad # {} PROVE FALSE
  OBVIOUS
<1>2. PICK k \in Bad : \A j \in Bad : k <= j
  <2>1. Bad \in SUBSET Nat
    OBVIOUS
  <2> HIDE DEF Bad
  <2> QED
    BY <1>1, <2>1, LeastOf
<1>3. k \in 1 .. n /\ k - 1 \in 0 .. n
  BY <1>2
<1>4. k - 1 \notin Bad
  <2>1. k \in Nat
    BY <1>3
  <2> HIDE DEF Bad
  <2> QED
    BY <1>2, <2>1
<1>5. k - 1 \in P
  BY <1>3, <1>4
<1> QED
  BY <1>2, <1>3, <1>5

\* f is defined by recursion over 0 .. n.
Recurs(f, n, V, base, step) ==
  /\ f \in [0 .. n -> V]
  /\ f[0] = base
  /\ \A k \in 1 .. n : f[k] = step[<<k, f[k - 1]>>]

\* A function defined by recursion over 0 .. n exists when each step stays in
\* the set of values.
LEMMA RecursionExists ==
  ASSUME NEW n \in Nat, NEW V, NEW base \in V, NEW step \in [(1 .. n) \X V -> V]
  PROVE  \E f : Recurs(f, n, V, base, step)
<1> DEFINE Good(f, m) == /\ f \in [0 .. m -> V]
                         /\ f[0] = base /\ \A k \in 1 .. m : f[k] = step[<<k, f[k - 1]>>]
           P == {m \in 0 .. n : \E f : Good(f, m)}
<1>1. 0 \in P
  <2> DEFINE f == [k \in 0 .. 0 |-> base]
  <2>0. f \in [0 .. 0 -> V] /\ f[0] = base /\ \A k \in 1 .. 0 : FALSE
    OBVIOUS
  <2> HIDE DEF f
  <2>1. Good(f, 0)
    BY <2>0
  <2> QED
    BY <2>1
<1>2. ASSUME NEW m \in 1 .. n, m - 1 \in P PROVE m \in P
  <2>1. PICK f : Good(f, m - 1)
    BY <1>2
  <2> DEFINE g == [k \in 0 .. m |-> IF k = m THEN step[<<m, f[m - 1]>>] ELSE f[k]]
  <2>2. f[m - 1] \in V /\ step[<<m, f[m - 1]>>] \in V
    <3>1. f[m - 1] \in V
      BY <2>1
    <3>2. <<m, f[m - 1]>> \in (1 .. n) \X V
      BY <3>1
    <3> QED
      BY <3>1, <3>2
  <2>3. g \in [0 .. m -> V]
    BY <2>1, <2>2
  <2>4. g[0] = base /\ g[m] = step[<<m, f[m - 1]>>] /\ g[m - 1] = f[m - 1]
    BY <2>1
  <2>5. ASSUME NEW k \in 1 .. m PROVE g[k] = step[<<k, g[k - 1]>>]
    <3>1. CASE k = m
      BY <2>4, <3>1
    <3>2. CASE k # m
      <4>1. k \in 1 .. (m - 1) /\ g[k] = f[k] /\ g[k - 1] = f[k - 1]
        BY <3>2
      <4> QED
        BY <2>1, <4>1
    <3> QED
      BY <3>1, <3>2
  <2> HIDE DEF g
  <2>6. Good(g, m)
    BY <2>3, <2>4, <2>5
  <2> QED
    BY <2>6
<1> HIDE DEF P
<1>3. n \in P
  BY <1>1, <1>2, UpTo
<1> QED
  BY <1>3 DEF P, Recurs
-----------------------------------------------------------------------------
(***************************************************************************)
(* Sums.                                                                   *)
(***************************************************************************)
\* s is a sequence of integers.
Ints(s) == Len(s) \in Nat /\ \A k \in 1..Len(s) : s[k] \in Int

\* g holds the sums of the prefixes of s.
Adds(g, s) ==
    /\ g \in [0..Len(s) -> Int]
    /\ g[0] = 0
    /\ \A k \in 1..Len(s) : g[k] = g[k - 1] + s[k]

LEMMA SumAdds ==
    ASSUME NEW s, Ints(s)
    PROVE  \E g : Adds(g, s) /\ Sum(s) = g[Len(s)]
<1> DEFINE n == Len(s)
           step == [q \in (1..n) \X Int |-> q[2] + s[q[1]]]
           Is(f) == f = [k \in 0..Len(s) |-> IF k = 0 THEN 0 ELSE f[k - 1] + s[k]]
           f == CHOOSE g : Is(g)
<1>1. n \in Nat /\ \A k \in 1..n : s[k] \in Int
  BY DEF Ints
<1>2. PICK g : Recurs(g, n, Int, 0, step)
  <2>1. step \in [(1..n) \X Int -> Int] /\ 0 \in Int /\ n \in Nat
    BY <1>1
  <2> HIDE DEF step, n
  <2> DEFINE V == Int
             zero == 0
  <2>2. step \in [(1..n) \X V -> V] /\ zero \in V
    BY <2>1
  <2> HIDE DEF V, zero
  <2>3. \E g : Recurs(g, n, V, zero, step)
    BY <2>1, <2>2, RecursionExists
  <2> QED
    BY <2>3 DEF V, zero
<1>3. g \in [0..n -> Int] /\ g[0] = 0 /\ \A k \in 1..n : g[k] = g[k - 1] + s[k]
  <2>1. g \in [0..n -> Int] /\ g[0] = 0 /\ \A k \in 1..n : g[k] = step[<<k, g[k - 1]>>]
    <3> HIDE DEF step, n
    <3> QED
      BY <1>2 DEF Recurs
  <2>2. ASSUME NEW k \in 1..n PROVE g[k] = g[k - 1] + s[k]
    <3>1. k - 1 \in 0..n
      BY <1>1
    <3>2. g[k - 1] \in Int
      BY <2>1, <3>1
    <3> QED
      BY <2>1, <3>2
  <2> QED
    BY <2>1, <2>2
<1>4. Is(g)
  <2>1. \A k \in 0..n : k = 0 \/ (k \in 1..n /\ k # 0)
    BY <1>1
  <2>2. \A k \in 0..n : g[k] = IF k = 0 THEN 0 ELSE g[k - 1] + s[k]
    BY <1>3, <2>1
  <2> QED
    BY <1>3, <2>2
<1>5. Is(f)
  <2> HIDE DEF Is
  <2> QED
    BY <1>4
<1>6. Sum(s) = f[n]
  BY DEF Sum
<1> HIDE DEF f
<1> DEFINE P == {k \in 0..n : f[k] = g[k]}
<1>7. \A k \in 0..n : k \in P
  <2>1. 0 \in P
    BY <1>1, <1>3, <1>5
  <2>2. ASSUME NEW k \in 1..n, k - 1 \in P PROVE k \in P
    <3>1. k \in 0..n /\ k # 0
      BY <1>1
    <3>2. f[k] = f[k - 1] + s[k]
      BY <1>5, <3>1
    <3> QED
      BY <1>3, <2>2, <3>1, <3>2
  <2> HIDE DEF P
  <2> QED
    BY <1>1, <2>1, <2>2, UpTo
<1>8. f[n] = g[n]
  <2>1. n \in 0..n
    BY <1>1
  <2> QED
    BY <1>7, <2>1
<1> QED
  BY <1>3, <1>6, <1>8 DEF Adds

LEMMA SumInt ==
    ASSUME NEW s, Ints(s)
    PROVE  Sum(s) \in Int
<1>1. PICK g : Adds(g, s) /\ Sum(s) = g[Len(s)]
  BY SumAdds
<1> QED
  BY <1>1 DEF Adds, Ints

LEMMA SumEmpty ==
    ASSUME NEW s, Len(s) = 0
    PROVE  Sum(s) = 0
<1>1. Ints(s)
  BY DEF Ints
<1>2. PICK g : Adds(g, s) /\ Sum(s) = g[Len(s)]
  BY <1>1, SumAdds
<1> QED
  BY <1>2 DEF Adds

\* The sum of two sequences one behind the other.
LEMMA SumConcat ==
    ASSUME NEW s, NEW t, NEW u, Ints(s), Ints(t), Ints(u), Len(u) = Len(s) + Len(t),
           \A k \in 1..Len(s) : u[k] = s[k],
           \A k \in 1..Len(t) : u[Len(s) + k] = t[k]
    PROVE  Sum(u) = Sum(s) + Sum(t)
<1>1. PICK f : Adds(f, s) /\ Sum(s) = f[Len(s)]
  BY SumAdds
<1>2. PICK g : Adds(g, t) /\ Sum(t) = g[Len(t)]
  BY SumAdds
<1>3. PICK h : Adds(h, u) /\ Sum(u) = h[Len(u)]
  BY SumAdds
<1> DEFINE m == Len(s)
           n == Len(t)
<1>4. m \in Nat /\ n \in Nat
  BY DEF Ints
<1>5. /\ f \in [0..m -> Int] /\ f[0] = 0 /\ \A k \in 1..m : f[k] = f[k - 1] + s[k]
      /\ g \in [0..n -> Int] /\ g[0] = 0 /\ \A k \in 1..n : g[k] = g[k - 1] + t[k]
      /\ h \in [0..(m + n) -> Int] /\ h[0] = 0 /\ \A k \in 1..(m + n) : h[k] = h[k - 1] + u[k]
      /\ \A k \in 1..m : u[k] = s[k]
      /\ \A k \in 1..n : u[m + k] = t[k]
  BY <1>1, <1>2, <1>3 DEF Adds
<1>6. Sum(u) = h[m + n] /\ Sum(s) = f[m] /\ Sum(t) = g[n]
  BY <1>1, <1>2, <1>3
<1> HIDE DEF m, n
<1> DEFINE P == {k \in 0..m : h[k] = f[k]}
           Q == {k \in 0..n : h[m + k] = f[m] + g[k]}
<1>7. \A k \in 0..m : k \in P
  <2>1. 0 \in P
    BY <1>4, <1>5
  <2>2. ASSUME NEW k \in 1..m, k - 1 \in P PROVE k \in P
    <3>1. k \in 0..m /\ k \in 1..(m + n)
      BY <1>4
    <3> QED
      BY <1>5, <2>2, <3>1
  <2> HIDE DEF P
  <2> QED
    BY <1>4, <2>1, <2>2, UpTo
<1>8. h[m] = f[m] /\ f[m] \in Int
  <2>1. m \in 0..m
    BY <1>4
  <2> QED
    BY <1>5, <1>7, <2>1
<1>9. \A k \in 0..n : k \in Q
  <2>1. 0 \in Q
    BY <1>4, <1>5, <1>8
  <2>2. ASSUME NEW k \in 1..n, k - 1 \in Q PROVE k \in Q
    <3>1. k \in 0..n /\ m + k \in 1..(m + n) /\ (m + k) - 1 = m + (k - 1) /\ k - 1 \in 0..n
      BY <1>4
    <3>2. h[m + k] = h[m + (k - 1)] + t[k]
      BY <1>5, <3>1
    <3>3. g[k] = g[k - 1] + t[k] /\ g[k - 1] \in Int /\ g[k] \in Int
      BY <1>5, <3>1
    <3>4. h[m + (k - 1)] = f[m] + g[k - 1]
      BY <2>2
    <3>5. t[k] \in Int
      BY <1>5 DEF Ints, n
    <3>6. h[m + k] = f[m] + g[k]
      BY <1>8, <3>2, <3>3, <3>4, <3>5
    <3> QED
      BY <3>1, <3>6
  <2> HIDE DEF Q
  <2> QED
    BY <1>4, <2>1, <2>2, UpTo
<1>10. h[m + n] = f[m] + g[n]
  <2>1. n \in 0..n
    BY <1>4
  <2> QED
    BY <1>9, <2>1
<1> QED
  BY <1>6, <1>10

\* The sum of a sequence with one more number.
LEMMA SumMore ==
    ASSUME NEW s, NEW u, Ints(s), Ints(u), Len(u) = Len(s) + 1,
           \A k \in 1..Len(s) : u[k] = s[k]
    PROVE  Sum(u) = Sum(s) + u[Len(u)]
<1>1. PICK f : Adds(f, <<u[Len(u)]>>) /\ Sum(<<u[Len(u)]>>) = f[1]
  <2>1. Ints(<<u[Len(u)]>>) /\ Len(<<u[Len(u)]>>) = 1
    BY DEF Ints
  <2> QED
    BY <2>1, SumAdds
<1>2. Sum(<<u[Len(u)]>>) = u[Len(u)]
  <2>1. f[1] = f[0] + u[Len(u)] /\ f[0] = 0
    BY <1>1 DEF Adds
  <2> QED
    BY <1>1, <2>1 DEF Ints
<1> DEFINE t == <<u[Len(u)]>>
<1>3. /\ Ints(t) /\ Len(u) = Len(s) + Len(t)
      /\ \A k \in 1..Len(t) : u[Len(s) + k] = t[k]
  BY DEF Ints
<1>4. Sum(t) = u[Len(u)]
  BY <1>2
<1> HIDE DEF t
<1> QED
  BY <1>3, <1>4, SumConcat

-----------------------------------------------------------------------------
(***************************************************************************)
(* Sequences.                                                              *)
(***************************************************************************)
LEMMA Joined ==
    ASSUME NEW S, NEW s \in Seq(S), NEW t \in Seq(S)
    PROVE  /\ s \o t \in Seq(S) /\ Len(s \o t) = Len(s) + Len(t)
           /\ Len(s) \in Nat /\ Len(t) \in Nat
           /\ \A k \in 1..Len(s) : (s \o t)[k] = s[k]
           /\ \A k \in 1..Len(t) : (s \o t)[Len(s) + k] = t[k]
<1>1. Len(s) \in Nat /\ Len(t) \in Nat
  OBVIOUS
<1>2. /\ s \o t \in Seq(S) /\ Len(s \o t) = Len(s) + Len(t)
      /\ \A i \in 1..Len(s) + Len(t) : (s \o t)[i] = IF i <= Len(s) THEN s[i] ELSE t[i - Len(s)]
  BY ConcatProperties
<1> DEFINE m == Len(s)
           n == Len(t)
           u == s \o t
<1>3. /\ m \in Nat /\ n \in Nat
      /\ \A i \in 1..m + n : u[i] = IF i <= m THEN s[i] ELSE t[i - m]
  BY <1>1, <1>2
<1> HIDE DEF m, n, u
<1>4. \A k \in 1..m : u[k] = s[k]
  BY <1>3
<1>5. ASSUME NEW k \in 1..n PROVE u[m + k] = t[k]
  <2>1. m + k \in 1..m + n /\ ~(m + k <= m) /\ (m + k) - m = k
    BY <1>3
  <2> QED
    BY <1>3, <2>1
<1> QED
  BY <1>1, <1>2, <1>4, <1>5 DEF m, n, u

LEMMA Added ==
    ASSUME NEW S, NEW s \in Seq(S), NEW x \in S
    PROVE  /\ Append(s, x) \in Seq(S) /\ Len(Append(s, x)) = Len(s) + 1 /\ Len(s) \in Nat
           /\ \A k \in 1..Len(s) : Append(s, x)[k] = s[k]
           /\ Append(s, x)[Len(s) + 1] = x
OBVIOUS

\* What is left behind the first n.
LEMMA Dropped ==
    ASSUME NEW S, NEW s \in Seq(S), NEW n \in 0..Len(s)
    PROVE  /\ SubSeq(s, n + 1, Len(s)) \in Seq(S)
           /\ Len(SubSeq(s, n + 1, Len(s))) = Len(s) - n
           /\ \A k \in 1..(Len(s) - n) : SubSeq(s, n + 1, Len(s))[k] = s[n + k]
<1>1. Len(s) \in Nat /\ n \in Nat /\ n <= Len(s)
  OBVIOUS
<1>2. \A i \in (n + 1)..Len(s) : s[i] \in S
  BY <1>1
<1> DEFINE m == Len(s)
           u == SubSeq(s, n + 1, Len(s))
<1>3. /\ u \in Seq(S) /\ Len(u) = IF n + 1 <= m THEN m - (n + 1) + 1 ELSE 0
      /\ \A i \in 1..m - (n + 1) + 1 : u[i] = s[(n + 1) + i - 1]
  BY <1>1, <1>2, SubSeqProperties
<1>4. m \in Nat /\ n \in Nat /\ n <= m
  BY <1>1
<1> HIDE DEF m, u
<1>5. Len(u) = m - n
  BY <1>3, <1>4
<1>6. ASSUME NEW k \in 1..(m - n) PROVE u[k] = s[n + k]
  <2>1. k \in 1..m - (n + 1) + 1 /\ (n + 1) + k - 1 = n + k
    BY <1>4
  <2> QED
    BY <1>3, <2>1
<1> QED
  BY <1>3, <1>5, <1>6 DEF m, u

-----------------------------------------------------------------------------
(***************************************************************************)
(* Frames and messages.                                                    *)
(***************************************************************************)
LEMMA WidthsOK ==
    /\ W8 \in Nat \ {0} /\ W16 \in Nat \ {0} /\ U16_MAX = W16 - 1 /\ U8_MAX = W8 - 1
    /\ SIM_VIDEO_SIZE \in 1..U16_MAX /\ Garbage \notin Nat
BY WireAssumption DEF U16_MAX, U8_MAX

\* What the decoder needs to know of a segment.
Segments ==
    [fid : Nat, timestamp : Nat, index : Nat, total : 1..U16_MAX, payload_type : {0},
     remb : {1}, packet_id : {0}, send_ts : {0}, transport_seq : 0..U16_MAX,
     data_size : 0..SIM_VIDEO_SIZE, data : Nat]

\* No frame has more segments than two bytes can count.
LEMMA FrameSplitOK ==
    ASSUME NEW length \in Lengths
    PROVE  /\ FrameSplit(length) \in Seq(0..SIM_VIDEO_SIZE)
           /\ Len(FrameSplit(length)) \in 1..U16_MAX
<1> DEFINE v == SIM_VIDEO_SIZE
           q == length \div v
           r == length % v
<1>1. length \in Nat /\ v \in Nat \ {0} /\ v <= U16_MAX /\ U16_MAX \in Nat
  BY WidthsOK, AgentsAssumption
<1>2. q \in Nat /\ r \in 0..(v - 1) /\ q < U16_MAX
  <2>1. q < U16_MAX
    BY WidthAssumption
  <2> HIDE DEF v
  <2> QED
    BY <1>1, <2>1
<1>3. CASE length <= v
  <2>1. FrameSplit(length) = <<length>>
    BY <1>3 DEF FrameSplit
  <2>2. length \in 0..v
    BY <1>1, <1>3
  <2> QED
    BY <1>1, <2>1, <2>2
<1>4. CASE ~(length <= v)
  <2> DEFINE full == [i \in 1..q |-> v]
             rest == IF r > 0 THEN <<r>> ELSE <<>>
  <2>1. FrameSplit(length) = full \o rest
    BY <1>4 DEF FrameSplit
  <2>2. q >= 1
    <3>1. length = v * q + r
      <4> HIDE DEF v
      <4> QED
        BY <1>1
    <3>2. CASE q = 0
      <4>1. length = r
        <5>1. v * 0 = 0
          BY <1>1
        <5> HIDE DEF q, r, v
        <5> QED
          BY <1>1, <1>2, <3>1, <3>2, <5>1
      <4> HIDE DEF q, r, v
      <4> QED
        BY <1>1, <1>2, <1>4, <4>1
    <3> HIDE DEF q, r, v
    <3> QED
      BY <1>2, <3>2
  <2> HIDE DEF q, r
  <2>3. full \in Seq(0..v) /\ Len(full) = q
    <3>1. v \in 0..v
      BY <1>1
    <3> HIDE DEF v
    <3> QED
      BY <1>2, <3>1
  <2>4. rest \in Seq(0..v) /\ Len(rest) \in 0..1
    <3>1. r \in 0..v
      BY <1>1, <1>2
    <3>2. CASE r > 0
      <4>1. rest = <<r>>
        BY <3>2
      <4> HIDE DEF v, rest
      <4> QED
        BY <3>1, <4>1
    <3>3. CASE ~(r > 0)
      BY <3>3
    <3> QED
      BY <3>2, <3>3
  <2> HIDE DEF full, rest, v
  <2>5. full \o rest \in Seq(0..v) /\ Len(full \o rest) = q + Len(rest)
    BY <2>3, <2>4
  <2>6. q + Len(rest) \in 1..U16_MAX
    <3> DEFINE l == Len(rest)
    <3>1. l \in 0..1
      BY <2>4
    <3>2. q \in Nat /\ q < U16_MAX /\ q >= 1 /\ U16_MAX \in Nat
      BY <1>1, <1>2, <2>2
    <3> HIDE DEF l
    <3>3. q + l \in 1..U16_MAX
      BY <3>1, <3>2
    <3> QED
      BY <3>3 DEF l
  <2> QED
    BY <2>1, <2>5, <2>6 DEF v
<1> QED
  BY <1>3, <1>4

\* The decoder finds the checksum right, the header as it was, and the fields
\* of the body one after the other.
LEMMA MessageOK ==
    ASSUME NEW ver, NEW mid, NEW id, NEW F, NEW body \in Seq(F), NEW strm,
           strm = EncodeMsg([ver |-> ver, mid |-> mid, uid |-> id], body)
    PROVE  /\ CrcOK(strm)
           /\ DecodeHeader(strm).ver = ver % W8 /\ DecodeHeader(strm).mid = mid
           /\ Len(Rest(strm)) = Len(body) + 1
           /\ \A k \in 1..Len(body) : Rest(strm)[k] = body[k]
<1> DEFINE a == uint8(ver)
           b == [bytes |-> 1, value |-> mid]
           c == uint32(id)
           head == <<a, b, c>>
           q == head \o body
           crc == [bytes |-> 4, value |-> q]
           G == F \cup {a, b, c, crc}
<1>1. strm = Append(q, crc)
  BY DEF EncodeMsg
<1>2. head \in Seq(G) /\ Len(head) = 3 /\ head[1] = a /\ head[2] = b /\ body \in Seq(G)
  <2> HIDE DEF a, b, c, crc
  <2> QED
    OBVIOUS
<1>3. a.bytes = 1 /\ a.value = ver % W8 /\ b.bytes = 1 /\ b.value = mid /\ crc.value = q
      /\ crc \in G
  BY DEF uint8
<1> HIDE DEF a, b, c, head, G
<1>4. /\ q \in Seq(G) /\ Len(q) = 3 + Len(body) /\ Len(body) \in Nat
      /\ q[1] = a /\ q[2] = b
      /\ \A k \in 1..Len(body) : q[3 + k] = body[k]
  <2> DEFINE n == Len(body)
  <2>1. head \in Seq(G) /\ body \in Seq(G)
    BY <1>2
  <2>2. /\ q \in Seq(G) /\ Len(q) = Len(head) + n /\ n \in Nat
        /\ \A k \in 1..Len(head) : q[k] = head[k]
        /\ \A k \in 1..n : q[Len(head) + k] = body[k]
    BY <2>1, Joined
  <2> HIDE DEF q, n
  <2>3. /\ Len(q) = 3 + n
        /\ \A k \in 1..3 : q[k] = head[k]
        /\ \A k \in 1..n : q[3 + k] = body[k]
    BY <1>2, <2>2
  <2> QED
    BY <1>2, <2>2, <2>3 DEF n
<1> HIDE DEF q, crc
<1>5. /\ Len(strm) = Len(body) + 4 /\ strm \in Seq(G)
      /\ strm[1] = a /\ strm[2] = b /\ strm[Len(strm)] = crc
      /\ \A k \in 1..Len(q) : strm[k] = q[k]
  <2>1. /\ strm \in Seq(G) /\ Len(strm) = Len(q) + 1
        /\ \A k \in 1..Len(q) : strm[k] = q[k]
        /\ strm[Len(q) + 1] = crc
    <3>1. q \in Seq(G) /\ crc \in G
      BY <1>3, <1>4
    <3> DEFINE w == Append(q, crc)
    <3>2. /\ w \in Seq(G) /\ Len(w) = Len(q) + 1
          /\ \A k \in 1..Len(q) : w[k] = q[k]
          /\ w[Len(q) + 1] = crc
      BY <3>1, Added
    <3>3. w = strm
      BY <1>1
    <3> HIDE DEF w
    <3> QED
      BY <3>2, <3>3
  <2> QED
    BY <1>4, <2>1
<1>6. SubSeq(strm, 1, Len(strm) - 1) = q
  <2>1. /\ SubSeq(strm, 1, Len(strm) - 1) \in Seq(G)
        /\ Len(SubSeq(strm, 1, Len(strm) - 1)) = Len(q)
        /\ \A k \in 1..Len(q) : SubSeq(strm, 1, Len(strm) - 1)[k] = q[k]
    BY <1>4, <1>5
  <2> QED
    BY <1>4, <2>1, SeqEqual
<1>7. CrcOK(strm)
  BY <1>3, <1>5, <1>6 DEF CrcOK
<1>8. DecodeHeader(strm).ver = ver % W8 /\ DecodeHeader(strm).mid = mid
  BY <1>3, <1>4, <1>5 DEF DecodeHeader, Read
<1>9. Rest(strm) = SubSeq(strm, 4, Len(strm))
  BY DEF Rest
<1>10. /\ Len(Rest(strm)) = Len(body) + 1
       /\ \A k \in 1..Len(body) : Rest(strm)[k] = strm[3 + k]
  <2>1. 3 \in 0..Len(strm) /\ Len(strm) - 3 = Len(body) + 1
    BY <1>4, <1>5
  <2>2. /\ Len(SubSeq(strm, 3 + 1, Len(strm))) = Len(strm) - 3
        /\ \A k \in 1..(Len(strm) - 3) : SubSeq(strm, 3 + 1, Len(strm))[k] = strm[3 + k]
    BY <1>5, <2>1, Dropped
  <2>3. Rest(strm) = SubSeq(strm, 3 + 1, Len(strm))
    BY <1>9
  <2> DEFINE w == SubSeq(strm, 3 + 1, Len(strm))
             e == Len(strm) - 3
  <2>4. Len(w) = e /\ \A k \in 1..e : w[k] = strm[3 + k]
    BY <2>2
  <2>5. Rest(strm) = w /\ e = Len(body) + 1 /\ Len(body) \in Nat
    BY <1>4, <2>1, <2>3
  <2> HIDE DEF w, e
  <2>6. \A k \in 1..Len(body) : k \in 1..e
    BY <2>5
  <2>7. Len(Rest(strm)) = Len(body) + 1
    BY <2>4, <2>5
  <2>8. \A k \in 1..Len(body) : Rest(strm)[k] = strm[3 + k]
    BY <2>4, <2>5, <2>6
  <2> QED
    BY <2>7, <2>8
<1>11. \A k \in 1..Len(body) : strm[3 + k] = body[k]
  <2>1. \A k \in 1..Len(body) : 3 + k \in 1..Len(q)
    BY <1>4
  <2> QED
    BY <1>4, <1>5, <2>1
<1> QED
  BY <1>7, <1>8, <1>10, <1>11

\* Every number of a segment is read with the width it was written with, and
\* fits into it.
LEMMA SegmentMessage ==
    ASSUME NEW seg \in Segments, seg.index < seg.total, NEW strm,
           strm = EncodeMsg([ver |-> pid, mid |-> "SIM_SEG", uid |-> uid], SegmentEncode(seg))
    PROVE  /\ CrcOK(strm) /\ DecodeHeader(strm).mid = "SIM_SEG"
           /\ SegmentDecode(Rest(strm)).data = seg.data
           /\ Same(SegmentDecode(Rest(strm)), seg)
<1> DEFINE m == Mask(seg)
           f1 == [bytes |-> 1, value |-> m]
           f2 == uint8(seg.payload_type)
           f3 == IF seg.packet_id > U16_MAX THEN uint32(seg.packet_id) ELSE uint16(seg.packet_id)
           f4 == IF seg.fid > U16_MAX THEN uint32(seg.fid) ELSE uint16(seg.fid)
           f5 == uint32(seg.timestamp)
           f6 == IF seg.total > U8_MAX THEN uint16(seg.index) ELSE uint8(seg.index)
           f7 == IF seg.total > U8_MAX THEN uint16(seg.total) ELSE uint8(seg.total)
           f8 == uint16(seg.send_ts)
           f9 == uint16(seg.transport_seq)
           f10 == uint16(seg.data_size)
           f11 == [bytes |-> seg.data_size, value |-> seg.data]
           F == {f1, f2, f3, f4, f5, f6, f7, f8, f9, f10, f11}
           body == SegmentEncode(seg)
           rest == Rest(strm)
           decoded == SegmentDecode(rest)
<1>1. /\ seg.fid \in Nat /\ seg.timestamp \in Nat /\ seg.index \in Nat
      /\ seg.total \in 1..U16_MAX /\ seg.payload_type = 0 /\ seg.packet_id = 0
      /\ seg.send_ts = 0 /\ seg.transport_seq \in 0..U16_MAX
      /\ seg.data_size \in 0..SIM_VIDEO_SIZE /\ seg.index < seg.total
  BY DEF Segments
<1>2. body = <<f1, f2, f3, f4, f5, f6, f7, f8, f9>> \o <<f10, f11>>
  BY DEF SegmentEncode, data
<1>3. /\ body \in Seq(F) /\ Len(body) = 11
      /\ body[1] = f1 /\ body[2] = f2 /\ body[3] = f3 /\ body[4] = f4 /\ body[5] = f5
      /\ body[6] = f6 /\ body[7] = f7 /\ body[8] = f8 /\ body[9] = f9 /\ body[10] = f10
      /\ body[11] = f11
  <2> HIDE DEF f1, f2, f3, f4, f5, f6, f7, f8, f9, f10, f11, body
  <2> DEFINE u == <<f1, f2, f3, f4, f5, f6, f7, f8, f9>>
             v == <<f10, f11>>
  <2>1. /\ u \in Seq(F) /\ Len(u) = 9 /\ u[1] = f1 /\ u[2] = f2 /\ u[3] = f3 /\ u[4] = f4
        /\ u[5] = f5 /\ u[6] = f6 /\ u[7] = f7 /\ u[8] = f8 /\ u[9] = f9
        /\ v \in Seq(F) /\ Len(v) = 2 /\ v[1] = f10 /\ v[2] = f11
    OBVIOUS
  <2>2. body = u \o v
    BY <1>2
  <2> HIDE DEF u, v, F
  <2>3. /\ body \in Seq(F) /\ Len(body) = 9 + 2
        /\ \A k \in 1..9 : body[k] = u[k]
        /\ \A k \in 1..2 : body[9 + k] = v[k]
    <3>1. /\ u \o v \in Seq(F) /\ Len(u \o v) = Len(u) + Len(v)
          /\ \A k \in 1..Len(u) : (u \o v)[k] = u[k]
          /\ \A k \in 1..Len(v) : (u \o v)[Len(u) + k] = v[k]
      <4>1. u \in Seq(F) /\ v \in Seq(F)
        BY <2>1
      <4> QED
        BY <4>1, Joined
    <3> QED
      BY <2>1, <2>2, <3>1
  <2>4. body[10] = v[1] /\ body[11] = v[2]
    <3>1. 9 + 1 = 10 /\ 9 + 2 = 11 /\ 1 \in 1..2 /\ 2 \in 1..2
      OBVIOUS
    <3> QED
      BY <2>3, <3>1
  <2> QED
    BY <2>1, <2>3, <2>4
<1>4. /\ CrcOK(strm) /\ DecodeHeader(strm).mid = "SIM_SEG"
      /\ Len(rest) = 12 /\ \A k \in 1..11 : rest[k] = body[k]
  <2> HIDE DEF body, F
  <2>1. /\ CrcOK(strm) /\ DecodeHeader(strm).mid = "SIM_SEG"
        /\ Len(rest) = Len(body) + 1 /\ \A k \in 1..Len(body) : rest[k] = body[k]
    <3>1. strm = EncodeMsg([ver |-> pid, mid |-> "SIM_SEG", uid |-> uid], body)
      BY DEF body
    <3>2. body \in Seq(F)
      BY <1>3
    <3> HIDE DEF rest
    <3> HIDE DEF f1, f2, f3, f4, f5, f6, f7, f8, f9, f10, f11
    <3>3. ASSUME NEW w, w = EncodeMsg([ver |-> pid, mid |-> "SIM_SEG", uid |-> uid], body)
          PROVE  /\ CrcOK(w) /\ DecodeHeader(w).mid = "SIM_SEG"
                 /\ Len(Rest(w)) = Len(body) + 1
                 /\ \A k \in 1..Len(body) : Rest(w)[k] = body[k]
      BY ONLY <3>2, <3>3, MessageOK
    <3> QED
      BY <3>1, <3>3 DEF rest
  <2> QED
    BY <1>3, <2>1
<1>5. /\ rest[1] = f1 /\ rest[2] = f2 /\ rest[3] = f3 /\ rest[4] = f4 /\ rest[5] = f5
      /\ rest[6] = f6 /\ rest[7] = f7 /\ rest[8] = f8 /\ rest[9] = f9 /\ rest[10] = f10
      /\ rest[11] = f11
  <2> HIDE DEF f1, f2, f3, f4, f5, f6, f7, f8, f9, f10, f11, body, rest
  <2> QED
    BY <1>3, <1>4
<1> HIDE DEF rest, body, F
<1>6. \A x \in 0..U16_MAX : uint16(x).bytes = 2 /\ uint16(x).value = x
  BY WidthsOK DEF uint16
<1>7. \A x \in 0..U8_MAX : uint8(x).bytes = 1 /\ uint8(x).value = x
  BY WidthsOK DEF uint8
<1>8. \A x : uint32(x).bytes = 4 /\ uint32(x).value = x
  BY DEF uint32
<1>9. U16_MAX \in Nat /\ U8_MAX \in Nat
  BY WidthsOK
<1>10. Read(rest, 1, 1) = m
  BY <1>4, <1>5 DEF Read
<1>11. /\ m.packet_id = (seg.packet_id > U16_MAX) /\ m.fid = (seg.fid > U16_MAX)
       /\ m.total = (seg.total > U8_MAX)
  BY DEF Mask
<1> HIDE DEF m
<1>12. Read(rest, 2, 1) = seg.payload_type
  <2>1. f2.bytes = 1 /\ f2.value = seg.payload_type
    BY <1>1, <1>7, <1>9
  <2> HIDE DEF f2
  <2> QED
    BY <1>4, <1>5, <2>1 DEF Read
<1>13. Read(rest, 3, IF m.packet_id THEN 4 ELSE 2) = seg.packet_id
  <2>1. ~(seg.packet_id > U16_MAX) /\ seg.packet_id \in 0..U16_MAX
    BY <1>1, <1>9
  <2>2. f3.bytes = 2 /\ f3.value = seg.packet_id /\ ~m.packet_id
    BY <1>6, <1>11, <2>1
  <2> HIDE DEF f3
  <2> QED
    BY <1>4, <1>5, <2>2 DEF Read
<1>14. Read(rest, 4, IF m.fid THEN 4 ELSE 2) = seg.fid
  <2>1. CASE seg.fid > U16_MAX
    <3>1. f4.bytes = 4 /\ f4.value = seg.fid /\ m.fid
      BY <1>8, <1>11, <2>1
    <3> HIDE DEF f4
    <3> QED
      BY <1>4, <1>5, <3>1 DEF Read
  <2>2. CASE ~(seg.fid > U16_MAX)
    <3>1. seg.fid \in 0..U16_MAX
      BY <1>1, <1>9, <2>2
    <3>2. f4.bytes = 2 /\ f4.value = seg.fid /\ ~m.fid
      BY <1>6, <1>11, <2>2, <3>1
    <3> HIDE DEF f4
    <3> QED
      BY <1>4, <1>5, <3>2 DEF Read
  <2> QED
    BY <2>1, <2>2
<1>15. Read(rest, 5, 4) = seg.timestamp
  BY <1>4, <1>5, <1>8 DEF Read
<1>16. /\ Read(rest, 6, IF m.total THEN 2 ELSE 1) = seg.index
       /\ Read(rest, 7, IF m.total THEN 2 ELSE 1) = seg.total
  <2>1. CASE seg.total > U8_MAX
    <3>1. seg.total \in 0..U16_MAX /\ seg.index \in 0..U16_MAX
      BY <1>1, <1>9
    <3>2. /\ f6.bytes = 2 /\ f6.value = seg.index /\ f7.bytes = 2 /\ f7.value = seg.total
          /\ m.total
      BY <1>6, <1>11, <2>1, <3>1
    <3> HIDE DEF f6, f7
    <3> QED
      BY <1>4, <1>5, <3>2 DEF Read
  <2>2. CASE ~(seg.total > U8_MAX)
    <3>1. seg.total \in 0..U8_MAX /\ seg.index \in 0..U8_MAX
      BY <1>1, <1>9, <2>2
    <3>2. /\ f6.bytes = 1 /\ f6.value = seg.index /\ f7.bytes = 1 /\ f7.value = seg.total
          /\ ~m.total
      BY <1>7, <1>11, <2>2, <3>1
    <3> HIDE DEF f6, f7
    <3> QED
      BY <1>4, <1>5, <3>2 DEF Read
  <2> QED
    BY <2>1, <2>2
<1>17. Read(rest, 8, 2) = seg.send_ts /\ Read(rest, 9, 2) = seg.transport_seq
  <2>1. seg.send_ts \in 0..U16_MAX
    BY <1>1, <1>9
  <2> QED
    BY <1>1, <1>4, <1>5, <1>6, <2>1 DEF Read
<1>18. ReadData(rest, 10, SIM_VIDEO_SIZE) = [data_size |-> seg.data_size, data |-> seg.data]
  <2>1. seg.data_size \in 0..U16_MAX /\ seg.data_size # Garbage
        /\ ~(seg.data_size > SIM_VIDEO_SIZE)
    BY <1>1, WidthsOK
  <2>2. Read(rest, 10, 2) = seg.data_size
    BY <1>4, <1>5, <1>6, <2>1 DEF Read
  <2>3. Read(rest, 11, seg.data_size) = seg.data
    BY <1>4, <1>5 DEF Read
  <2>4. 10 + 1 = 11 /\ ~(11 > Len(rest))
    BY <1>4
  <2> QED
    BY <2>1, <2>2, <2>3, <2>4 DEF ReadData
<1> HIDE DEF f1, f2, f3, f4, f5, f6, f7, f8, f9, f10, f11
<1>19. /\ decoded.payload_type = seg.payload_type /\ decoded.packet_id = seg.packet_id
       /\ decoded.fid = seg.fid /\ decoded.timestamp = seg.timestamp
       /\ decoded.index = seg.index /\ decoded.total = seg.total
       /\ decoded.send_ts = seg.send_ts /\ decoded.transport_seq = seg.transport_seq
       /\ decoded.data_size = seg.data_size /\ decoded.data = seg.data
  BY <1>10, <1>12, <1>13, <1>14, <1>15, <1>16, <1>17, <1>18 DEF SegmentDecode
<1>20. DOMAIN decoded = {"payload_type", "packet_id", "fid", "timestamp", "index", "total", "remb",
                         "send_ts", "transport_seq", "data_size", "data"}
  BY DEF SegmentDecode
<1> HIDE DEF decoded
<1>21. Same(decoded, seg)
  BY <1>19, <1>20 DEF Same
<1> QED
  BY <1>4, <1>19, <1>21 DEF decoded, rest

\* What the proxy reports is what the sender gets to know.
LEMMA FeedbackMessage ==
    ASSUME NEW A, Cardinality(A) \in 0..FeedbackSize, NEW id, NEW strm,
           strm = EncodeMsg([ver |-> pid, mid |-> "SIM_FEEDBACK", uid |-> id],
                            FeedbackEncode([base_packet_id |-> 0, feedback |-> A,
                                            feedback_size |-> Cardinality(A)]))
    PROVE  FeedbackDecode(Rest(strm), FeedbackSize).feedback = A
<1> DEFINE n == Cardinality(A)
           f1 == uint32(0)
           f2 == uint16(n)
           f3 == [bytes |-> n, value |-> A]
           F == {f1, f2, f3}
           body == <<f1>> \o <<f2, f3>>
           rest == Rest(strm)
<1>1. strm = EncodeMsg([ver |-> pid, mid |-> "SIM_FEEDBACK", uid |-> id], body)
  BY DEF FeedbackEncode, data
<1>2. body \in Seq(F) /\ Len(body) = 3 /\ body[2] = f2 /\ body[3] = f3
  <2> HIDE DEF f1, f2, f3
  <2> QED
    OBVIOUS
<1> HIDE DEF body, F
<1>3. Len(rest) = 4 /\ rest[2] = f2 /\ rest[3] = f3
  <2>1. Len(rest) = Len(body) + 1 /\ \A k \in 1..Len(body) : rest[k] = body[k]
    <3>1. body \in Seq(F)
      BY <1>2
    <3> HIDE DEF rest, f1, f2, f3
    <3>2. ASSUME NEW w, w = EncodeMsg([ver |-> pid, mid |-> "SIM_FEEDBACK", uid |-> id], body)
          PROVE  /\ Len(Rest(w)) = Len(body) + 1
                 /\ \A k \in 1..Len(body) : Rest(w)[k] = body[k]
      BY ONLY <3>1, <3>2, MessageOK
    <3> QED
      BY <1>1, <3>2 DEF rest
  <2> HIDE DEF f2, f3, rest
  <2> QED
    BY <1>2, <2>1
<1> HIDE DEF rest
<1>4. n \in 0..U16_MAX /\ n # Garbage /\ ~(n > FeedbackSize)
  BY WidthAssumption, WidthsOK
<1>5. f2.bytes = 2 /\ f2.value = n
  BY <1>4, WidthsOK DEF uint16
<1> HIDE DEF f2
<1>6. Read(rest, 2, 2) = n
  BY <1>3, <1>5 DEF Read
<1>7. Read(rest, 3, n) = A
  BY <1>3 DEF Read
<1>8. ReadData(rest, 2, FeedbackSize) = [data_size |-> n, data |-> A]
  <2>1. 2 + 1 = 3 /\ ~(3 > Len(rest))
    BY <1>3
  <2> HIDE DEF n
  <2> QED
    BY <1>4, <1>6, <1>7, <2>1 DEF ReadData
<1> QED
  BY <1>8 DEF FeedbackDecode, rest

-----------------------------------------------------------------------------
(***************************************************************************)
(* Numbers.                                                                *)
(***************************************************************************)
\* Two segments of the same number are as far apart as there are numbers.
LEMMA Meet ==
    ASSUME NEW n \in Nat \ {0}, NEW a \in Nat, NEW b \in Nat, a > 0, b > 0, a # b, a % n = b % n
    PROVE  a > n \/ b > n
<1>1. PICK x \in 0..(n - 1), c \in Int : x = a % n /\ a = n * c + x
  <2>1. a % n \in 0..(n - 1) /\ a \div n \in Int /\ a = n * (a \div n) + (a % n)
    OBVIOUS
  <2> QED
    BY <2>1
<1>2. PICK y \in 0..(n - 1), d \in Int : y = b % n /\ b = n * d + y
  <2>1. b % n \in 0..(n - 1) /\ b \div n \in Int /\ b = n * (b \div n) + (b % n)
    OBVIOUS
  <2> QED
    BY <2>1
<1>3. x = y
  BY <1>1, <1>2
<1>4. n * d - n * c = n * (d - c) /\ n * c - n * d = n * (c - d)
  OBVIOUS
<1>5. b - a = n * (d - c) /\ a - b = n * (c - d)
  BY <1>1, <1>2, <1>3, <1>4
<1>6. CASE d - c >= 1
  <2>1. n * (d - c) >= n
    BY <1>6
  <2> QED
    BY <1>5, <2>1
<1>7. CASE c - d >= 1
  <2>1. n * (c - d) >= n
    BY <1>7
  <2> QED
    BY <1>5, <2>1
<1>8. CASE c = d
  BY <1>1, <1>2, <1>3, <1>8
<1> QED
  BY <1>6, <1>7, <1>8

\* A product grows with its factors.
LEMMA Products ==
    ASSUME NEW a \in Nat, NEW b \in Nat, NEW c \in Nat, NEW d \in Nat, a <= b, c <= d
    PROVE  a * c \in Nat /\ b * d \in Nat /\ a * c <= b * d
<1>1. a * c \in Nat /\ b * d \in Nat /\ b * c \in Nat
  OBVIOUS
<1>2. b * c = a * c + (b - a) * c /\ (b - a) * c \in Nat
  OBVIOUS
<1>3. b * d = b * c + b * (d - c) /\ b * (d - c) \in Nat
  OBVIOUS
<1> QED
  BY <1>1, <1>2, <1>3

\* The greatest of the rates.
LEMMA MaxRateOK == MaxRate \in Nat /\ \A r \in Rates : r <= MaxRate
<1>1. IsFiniteSet(Rates) /\ Rates \subseteq Nat /\ Rates # {}
  BY AgentsAssumption
<1>2. PICK n \in Nat : ExistsBijection(1..n, Rates)
  BY <1>1, FS_NatBijection
<1>3. PICK f \in [1..n -> Rates] : \A r \in Rates : \E k \in 1..n : f[k] = r
  BY <1>2 DEF ExistsBijection, Bijection, Surjection
<1> DEFINE P == {k \in 0..n : \E z \in Nat : \A j \in 1..k : f[j] <= z}
<1>4. 0 \in P
  OBVIOUS
<1>5. ASSUME NEW k \in 1..n, k - 1 \in P PROVE k \in P
  <2>1. PICK z \in Nat : \A j \in 1..(k - 1) : f[j] <= z
    BY <1>5
  <2>2. f[k] \in Nat
    BY <1>1
  <2>3. PICK w \in Nat : z <= w /\ f[k] <= w
    BY <2>2
  <2>4. \A j \in 1..k : f[j] <= w
    <3> SUFFICES ASSUME NEW j \in 1..k PROVE f[j] <= w
      OBVIOUS
    <3>1. j = k \/ j \in 1..(k - 1)
      OBVIOUS
    <3>2. f[j] \in Nat
      <4>1. j \in 1..n
        OBVIOUS
      <4> QED
        BY <1>1, <4>1
    <3> QED
      BY <2>1, <2>3, <3>1, <3>2
  <2> QED
    BY <2>4
<1> HIDE DEF P
<1>6. n \in P
  <2>1. \A k \in 0..n : k \in P
    BY <1>4, <1>5, UpTo
  <2> QED
    BY <2>1
<1>7. PICK z \in Nat : \A r \in Rates : r <= z
  BY <1>3, <1>6 DEF P
<1> DEFINE T == {z - r : r \in Rates}
           least == Min(T)
<1>8. T \in SUBSET Nat /\ T # {}
  <2>1. \A r \in Rates : z - r \in Nat
    BY <1>1, <1>7
  <2> QED
    BY <1>1, <2>1
<1>9. least \in T /\ \A x \in T : least <= x
  <2> HIDE DEF T
  <2> QED
    BY <1>8, LeastOf
<1> HIDE DEF least
<1>10. PICK m \in Rates : least = z - m
  BY <1>9
<1>11. \A r \in Rates : r <= m
  <2> SUFFICES ASSUME NEW r \in Rates PROVE r <= m
    OBVIOUS
  <2>1. z - m <= z - r
    BY <1>9, <1>10
  <2> QED
    BY <1>1, <2>1
<1>12. \A r \in Rates : m >= r
  BY <1>1, <1>11
<1>13. MaxRate \in Rates /\ \A r \in Rates : MaxRate >= r
  BY <1>12 DEF MaxRate, Max
<1> QED
  BY <1>1, <1>13

-----------------------------------------------------------------------------
(***************************************************************************)
(* The inductive invariant.                                                *)
(***************************************************************************)
\* The functions from some numbers to X.
Maps(X) == UNION {[D -> X] : D \in SUBSET Nat}

\* The segments are numbered as they are made.
MadeOK ==
    /\ made \in Seq(Segments) /\ frame_seed \in Nat
    /\ \A i \in 1..Len(made) : /\ made[i].data = i /\ made[i].transport_seq = i % W16
                               /\ made[i].index < made[i].total

\* Where the segments are, with buf_ = b and the transmissions s: each number
\* in buf_ is that of its segment, and a segment is in one place.
Places(b, s) ==
    /\ b \in Maps(1..Len(made)) /\ s \in Seq(1..Len(made)) /\ leaked \in SUBSET (1..Len(made))
    /\ \A j, k \in 1..Len(s) : s[j] = s[k] => j = k
    /\ \A q \in DOMAIN b : made[b[q]].transport_seq = q /\ b[q] \notin leaked
    /\ \A k \in 1..Len(s) : s[k] \notin leaked /\ \A q \in DOMAIN b : b[q] # s[k]
    /\ \A i \in 1..Len(made) : \/ i \in leaked
                               \/ \E k \in 1..Len(s) : s[k] = i
                               \/ \E q \in DOMAIN b : b[q] = i
    /\ leaked # {} => Len(made) > W16

\* pending_len_ is p when s was sent.
Pending(p, s) ==
    /\ p \in Int
    /\ p = Total([i \in 1..Len(made) |-> i]) - (IF HasObserver THEN Total(s) ELSE 0)

\* The pacer's queue are the last segments made, and as long as no segment has
\* lost its slot, what was sent was made before them.
Done == Len(made) - Len(packets)
InOrder(s, n) ==
    leaked = {} => /\ \A j, k \in 1..Len(s) : j < k => s[j] < s[k]
                   /\ \A k \in 1..Len(s) : s[k] <= n
QueueInv ==
    /\ packets \in Seq([seq : Nat, bytes : 0..(HeaderSize + SIM_VIDEO_SIZE)])
    /\ Len(packets) <= Len(made)
    /\ \A k \in 1..Len(packets) :
          /\ packets[k].seq = made[Done + k].transport_seq
          /\ packets[k].bytes = Overhead(made[Done + k])
    /\ InOrder(sent, Done)
    /\ \A q \in DOMAIN buf : q \in Queued \/ buf[q] \in skipped

\* What the agent is ahead of its rate is what its budget lacks to the most
\* that one call adds to it, and never more than one packet above that.
Most == MaxRate * MaxInterval
Largest == HeaderSize + SIM_VIDEO_SIZE
\* A budget lies within what its target rate allows, which is 0 at first.
Within(r, b) == r \in Rates \cup {0} /\ -(r * Window) <= b /\ b <= r * Window
PaceInv ==
    /\ rate \in Rates /\ budget \in Int /\ ahead \in Nat /\ budget <= Most
    /\ Within(target, budget)
    /\ leaked = {} => ahead <= Most - budget /\ ahead <= Most + Largest - 1

\* The entries of sent_ts_map_ ts for the awaited transmissions h out of s: each
\* is that of its number, and one is missing only where numbers met.
Number(s, t) == made[s[t]].transport_seq
Times(ts, h, late, s) ==
    /\ ts \in Maps(1..Len(s)) /\ h \in SUBSET (1..Len(s)) /\ late \in SUBSET (1..Len(s))
    /\ \A q \in DOMAIN ts : ts[q] \in h /\ Number(s, ts[q]) = q
    /\ \A t \in h : \/ \E l \in late : Number(s, l) = Number(s, t)
                    \/ Number(s, t) \in DOMAIN ts /\ ts[Number(s, t)] = t
    /\ late # {} => Len(made) > W16

SenderInv ==
    /\ MadeOK /\ Places(buf, sent) /\ Pending(pending_len, sent) /\ QueueInv /\ PaceInv
    /\ Times(sent_ts_map, history, stale, sent)

\* The transmissions that arrived, and the messages that may be under way.
Arrivals == {t \in 1..Len(sent) : \E seg \in received : seg.data = sent[t]}
Feedback(A) ==
    EncodeMsg([ver |-> pid, mid |-> "SIM_FEEDBACK", uid |-> 4321],
              FeedbackEncode([base_packet_id |-> 0, feedback |-> A,
                              feedback_size |-> Cardinality(A)]))
SegmentMessages == {SendToNetwork(sent[t]) : t \in 1..Len(sent)}
FeedbackMessages ==
    {Feedback(A) : A \in {B \in SUBSET Arrivals : Cardinality(B) \in 0..FeedbackSize}}
WayInv ==
    /\ seg_net \in Seq(SegmentMessages) /\ fb_net \in Seq(FeedbackMessages)
    /\ arrived \in SUBSET Arrivals
    /\ \A seg \in received : \E t \in 1..Len(sent) :
          seg.data = sent[t] /\ Same(seg, made[seg.data])

\* What was reported, r, while h is still awaited.
Reported(r, h) ==
    /\ r \in Seq([seq : Nat, tx : 1..Len(sent), sent_ts : Nat])
    /\ \A k \in 1..Len(r) :
          /\ r[k].tx \in Arrivals /\ r[k].tx \notin h
          /\ r[k].seq = Number(sent, r[k].tx)
          /\ r[k].sent_ts = r[k].tx \/ \E l \in stale : Number(sent, l) = r[k].seq
          /\ \A j \in 1..Len(r) : r[j].tx = r[k].tx => j = k

IInv == SenderInv /\ WayInv /\ Reported(reports, history)

-----------------------------------------------------------------------------
(***************************************************************************)
(* Sizes, rates and the first state.                                       *)
(***************************************************************************)
LEMMA MoreSeq ==
    ASSUME NEW S, NEW T, S \subseteq T, NEW s \in Seq(S)
    PROVE  s \in Seq(T)
OBVIOUS

LEMMA Mapped ==
    ASSUME NEW X, NEW f \in Maps(X)
    PROVE  /\ DOMAIN f \subseteq Nat /\ f = [q \in DOMAIN f |-> f[q]]
           /\ \A q \in DOMAIN f : f[q] \in X
BY DEF Maps

LEMMA Overheads ==
    ASSUME NEW seg \in Segments
    PROVE  Overhead(seg) \in 0..Largest
<1>1. seg.data_size \in 0..SIM_VIDEO_SIZE
  BY DEF Segments
<1>2. SIM_VIDEO_SIZE \in Nat /\ HeaderSize \in Nat
  BY WireAssumption, AgentsAssumption
<1> QED
  BY <1>1, <1>2 DEF Overhead, Largest

\* A budget reaches back further than a packet, and one call adds at most Most.
LEMMA PaceNumbers ==
    /\ Largest \in Nat \ {0} /\ Most \in Nat /\ MaxInterval \in Nat
    /\ \A r \in Rates : r \in Nat /\ r * Window \in Nat /\ r * Window >= Largest
    /\ \A r \in Rates, i \in Nat : r * i \in Nat
    /\ \A r \in Rates, i \in 0..MaxInterval : r * i <= Most
<1>1. Largest \in Nat \ {0}
  BY AgentsAssumption, WireAssumption DEF Largest
<1>2. MaxInterval \in Nat /\ Window \in Nat /\ Rates \subseteq Nat
  BY AgentsAssumption
<1>3. MaxRate \in Nat /\ \A r \in Rates : r <= MaxRate
  BY MaxRateOK
<1>4. \A r \in Rates : r * Window \in Nat /\ r * Window >= Largest
  BY <1>2, WindowAssumption DEF Largest
<1>5. ASSUME NEW r \in Rates, NEW i \in 0..MaxInterval PROVE r * i <= Most
  <2>1. r \in Nat /\ i \in Nat /\ r <= MaxRate /\ i <= MaxInterval
    BY <1>2, <1>3
  <2> QED
    BY <1>2, <1>3, <2>1, Products DEF Most
<1>6. Most \in Nat
  BY <1>2, <1>3 DEF Most
<1>7. \A r \in Rates, i \in Nat : r * i \in Nat
  BY <1>2
<1> QED
  BY <1>1, <1>2, <1>4, <1>5, <1>6, <1>7

LEMMA InitInv == Init => IInv
<1> SUFFICES ASSUME Init PROVE IInv
  OBVIOUS
<1> USE DEF Init
<1>1. MadeOK
  BY DEF MadeOK
<1>2. Places(buf, sent)
  <2>1. buf = <<>> /\ sent = <<>> /\ made = <<>> /\ leaked = {} /\ DOMAIN buf = {}
    OBVIOUS
  <2>2. Len(made) = 0 /\ Len(sent) = 0 /\ sent \in Seq(1..Len(made)) /\ 1..0 = {}
    BY <2>1
  <2>3. buf \in [{} -> 1..Len(made)] /\ {} \in SUBSET Nat
    BY <2>1
  <2>4. buf \in Maps(1..Len(made))
    BY <2>3 DEF Maps
  <2> QED
    BY <2>1, <2>2, <2>4 DEF Places
<1>3. Pending(pending_len, sent)
  <2>1. Total([i \in 1..Len(made) |-> i]) = 0 /\ Total(sent) = 0
    BY SumEmpty DEF Total
  <2> QED
    BY <2>1 DEF Pending
<1>4. QueueInv
  BY DEF QueueInv, InOrder, Done
<1>5. PaceInv
  <2>1. rate \in Rates /\ Within(target, budget)
    BY AgentsAssumption DEF Within
  <2> QED
    BY <2>1, PaceNumbers DEF PaceInv
<1>6. Times(sent_ts_map, history, stale, sent)
  BY DEF Times, Maps
<1>7. WayInv
  BY DEF WayInv
<1>8. Reported(reports, history)
  BY DEF Reported
<1> QED
  BY <1>1, <1>2, <1>3, <1>4, <1>5, <1>6, <1>7, <1>8 DEF IInv, SenderInv

-----------------------------------------------------------------------------
(***************************************************************************)
(* The steps that leave the segments where they are.                       *)
(***************************************************************************)
placeVars == <<made, frame_seed, buf, sent, leaked, pending_len, packets, skipped>>
timeVars == <<sent_ts_map, history, stale>>

LEMMA PlacesKept ==
    ASSUME MadeOK, Places(buf, sent), Pending(pending_len, sent), QueueInv, UNCHANGED placeVars
    PROVE  MadeOK' /\ Places(buf, sent)' /\ Pending(pending_len, sent)' /\ QueueInv'
<1> USE DEF placeVars
<1>1. MadeOK'
  BY DEF MadeOK
<1>2. Places(buf, sent)'
  BY DEF Places
<1>3. Pending(pending_len, sent)'
  <2>1. Total([i \in 1..Len(made) |-> i])' = Total([i \in 1..Len(made) |-> i])
    BY DEF Total
  <2>2. Total(sent)' = Total(sent)
    BY DEF Total
  <2> QED
    BY <2>1, <2>2 DEF Pending
<1>4. QueueInv'
  BY DEF QueueInv, InOrder, Done, Queued
<1> QED
  BY <1>1, <1>2, <1>3, <1>4

LEMMA TimesKept ==
    ASSUME Times(sent_ts_map, history, stale, sent), UNCHANGED <<made, sent, timeVars>>
    PROVE  Times(sent_ts_map, history, stale, sent)'
BY DEF Times, Number, timeVars

LEMMA PaceKept ==
    ASSUME PaceInv, UNCHANGED <<rate, target, budget, ahead, leaked>>
    PROVE  PaceInv'
BY DEF PaceInv, Within

\* The messages are about transmissions and arrivals, and these only become more.
LEMMA MoreMessages ==
    ASSUME UNCHANGED made, received \subseteq received',
           sent \in Seq(1..Len(made)), sent' \in Seq(1..Len(made)), Len(sent) <= Len(sent'),
           \A t \in 1..Len(sent) : sent'[t] = sent[t]
    PROVE  /\ SegmentMessages \subseteq SegmentMessages' /\ Arrivals \subseteq Arrivals'
           /\ FeedbackMessages \subseteq FeedbackMessages'
<1>0. 1..Len(sent) \subseteq 1..Len(sent')
  OBVIOUS
<1>1. SegmentMessages \subseteq SegmentMessages'
  <2> SUFFICES ASSUME NEW t \in 1..Len(sent) PROVE SendToNetwork(sent[t]) \in SegmentMessages'
    BY DEF SegmentMessages
  <2>1. t \in 1..Len(sent') /\ SendToNetwork(sent[t]) = SendToNetwork(sent[t])'
    BY <1>0 DEF SendToNetwork
  <2> QED
    BY <2>1 DEF SegmentMessages
<1>2. Arrivals \subseteq Arrivals'
  BY <1>0 DEF Arrivals
<1>3. FeedbackMessages \subseteq FeedbackMessages'
  BY <1>2 DEF FeedbackMessages
<1> QED
  BY <1>1, <1>2, <1>3

LEMMA WayKept ==
    ASSUME WayInv, UNCHANGED <<made, sent, seg_net, fb_net, arrived, received>>
    PROVE  WayInv'
BY DEF WayInv, SegmentMessages, FeedbackMessages, Arrivals, SendToNetwork

LEMMA ReportedKept ==
    ASSUME Reported(reports, history), UNCHANGED <<made, sent, history, reports, stale>>,
           Arrivals \subseteq Arrivals'
    PROVE  Reported(reports, history)'
BY DEF Reported, Number

\* StartSender, StopSender, StartReceiver, StopReceiver, UpdateRate, Pause and Resume.
LEMMA SwitchIInv ==
    ASSUME IInv, Switch \/ StartSender \/ StopSender \/ StartReceiver \/ StopReceiver
    PROVE  IInv'
<1>1. /\ UNCHANGED <<placeVars, timeVars, target, budget, ahead, seg_net, fb_net, arrived, received, reports>>
      /\ rate' \in Rates \cup {rate}
  BY DEF Switch, StartSender, StopSender, StartReceiver, StopReceiver, placeVars, timeVars,
         netVars, sentVars, frameVars, pacerVars, recvVars
<1>2. SenderInv'
  <2>1. MadeOK' /\ Places(buf, sent)' /\ Pending(pending_len, sent)' /\ QueueInv'
    BY <1>1, PlacesKept DEF IInv, SenderInv
  <2>2. Times(sent_ts_map, history, stale, sent)'
    BY <1>1, TimesKept DEF IInv, SenderInv, placeVars
  <2>3. PaceInv'
    BY <1>1 DEF PaceInv, Within, IInv, SenderInv, placeVars
  <2> QED
    BY <2>1, <2>2, <2>3 DEF SenderInv
<1>3. WayInv'
  BY <1>1, WayKept DEF IInv, placeVars
<1>4. Reported(reports, history)'
  <2>1. Arrivals \subseteq Arrivals'
    BY <1>1 DEF Arrivals, placeVars
  <2> QED
    BY <1>1, <2>1, ReportedKept DEF IInv, placeVars, timeVars
<1> QED
  BY <1>2, <1>3, <1>4 DEF IInv

\* What is less ahead and has less budget left stays within what may be lacking.
LEMMA LessLeft ==
    ASSUME NEW a \in Int, NEW a2 \in Int, NEW b \in Int, NEW b2 \in Int, NEW m \in Int,
           a2 <= a, b2 <= b, a <= m - b
    PROVE  a2 <= m - b2
OBVIOUS

\* Process while paused: the byte of padding is charged and not sent.
LEMMA PadPace ==
    ASSUME PaceInv, NEW e \in Nat, Pad(e), UNCHANGED <<rate, leaked>>
    PROVE  PaceInv'
<1> DEFINE R == rate * e
           W == target * Window
<1>1. /\ rate \in Rates /\ budget \in Int /\ ahead \in Nat /\ budget <= Most
      /\ target \in Rates \cup {0} /\ -W <= budget /\ budget <= W
      /\ leaked = {} => ahead <= Most - budget /\ ahead <= Most + Largest - 1
  BY DEF PaceInv, Within
<1>2. R \in Nat /\ W \in Nat /\ Largest \in Nat \ {0} /\ Most \in Nat
  BY <1>1, AgentsAssumption, PaceNumbers
<1>3. ahead' = (IF 0 > ahead - R THEN 0 ELSE ahead - R) /\ target' = target
  BY DEF Pad, Greatest
<1>4. budget' = budget \/ budget' = IF budget - 1 > -W THEN budget - 1 ELSE -W
  BY DEF Pad, UseBudget, Greatest
<1> HIDE DEF R, W
<1>5. /\ budget' \in Int /\ budget' <= Most /\ ahead' \in Nat /\ ahead' <= ahead
      /\ -W <= budget' /\ budget' <= budget
  BY <1>1, <1>2, <1>3, <1>4
<1>6. ASSUME leaked = {} PROVE ahead' <= Most - budget'
  <2>1. budget' \in Int /\ budget \in Int /\ ahead' \in Nat /\ ahead \in Nat /\ Most \in Nat
    BY <1>1, <1>2, <1>5
  <2>3. ahead' <= ahead
    BY <1>5
  <2>4. budget' <= budget
    BY <1>5
  <2>2. ahead <= Most - budget
    BY <1>1, <1>6
  <2> QED
    <3> DEFINE a2 == ahead'
               b2 == budget'
    <3>1. /\ a2 \in Int /\ ahead \in Int /\ b2 \in Int /\ budget \in Int /\ Most \in Int
          /\ a2 <= ahead /\ b2 <= budget /\ ahead <= Most - budget
      BY <2>1, <2>2, <2>3, <2>4
    <3> HIDE DEF a2, b2
    <3>2. a2 <= Most - b2
      BY <3>1, LessLeft
    <3> QED
      BY <3>2 DEF a2, b2
<1>7. leaked = {} => ahead' <= Most + Largest - 1
  BY <1>1, <1>2, <1>5
<1>8. Within(target, budget)'
  BY <1>1, <1>2, <1>3, <1>5 DEF Within, W
<1> QED
  BY <1>1, <1>5, <1>6, <1>7, <1>8 DEF PaceInv

LEMMA PadIInv ==
    ASSUME IInv, NEW e \in Elapses, Process(e), paused
    PROVE  IInv'
<1>1. /\ Pad(e) /\ e \in Nat
      /\ UNCHANGED <<rate, fb_net, receiver, first_packet, arrived, received, made, frame_seed,
                     leaked, reports>>
  BY AgentsAssumption DEF Process, recvVars
<1>2. UNCHANGED <<packets, buf, sent, pending_len, sent_ts_map, stale, history, seg_net, skipped>>
  BY <1>1 DEF Pad
<1>3. PaceInv'
  BY <1>1, PadPace DEF IInv, SenderInv
<1>4. MadeOK' /\ Places(buf, sent)' /\ Pending(pending_len, sent)' /\ QueueInv'
  BY <1>1, <1>2, PlacesKept DEF IInv, SenderInv, placeVars
<1>5. Times(sent_ts_map, history, stale, sent)'
  BY <1>1, <1>2, TimesKept DEF IInv, SenderInv, timeVars
<1>6. WayInv'
  BY <1>1, <1>2, WayKept DEF IInv
<1>7. Reported(reports, history)'
  <2>1. Arrivals \subseteq Arrivals'
    BY <1>1, <1>2 DEF Arrivals
  <2> QED
    BY <1>1, <1>2, <2>1, ReportedKept DEF IInv
<1> QED
  BY <1>3, <1>4, <1>5, <1>6, <1>7 DEF IInv, SenderInv

-----------------------------------------------------------------------------
(***************************************************************************)
(* The network and the receiver.                                           *)
(***************************************************************************)
\* What the receiver and the network do leaves the sender as it is.
LEMMA SenderKept ==
    ASSUME SenderInv, UNCHANGED <<pacerVars, sentVars, frameVars>>
    PROVE  SenderInv'
<1>1. UNCHANGED <<placeVars, timeVars, rate, target, budget, ahead>>
  BY DEF pacerVars, sentVars, frameVars, placeVars, timeVars
<1>2. MadeOK' /\ Places(buf, sent)' /\ Pending(pending_len, sent)' /\ QueueInv'
  BY <1>1, PlacesKept DEF SenderInv
<1>3. Times(sent_ts_map, history, stale, sent)'
  BY <1>1, TimesKept DEF SenderInv, placeVars
<1>4. PaceInv'
  BY <1>1, PaceKept DEF SenderInv, placeVars
<1> QED
  BY <1>2, <1>3, <1>4 DEF SenderInv

LEMMA LoseIInv ==
    ASSUME IInv, LoseSegment
    PROVE  IInv'
<1>1. /\ seg_net # <<>> /\ seg_net' = Tail(seg_net)
      /\ UNCHANGED <<pacerVars, sentVars, frameVars, fb_net, arrived, received, reports>>
  BY DEF LoseSegment, recvVars
<1>2. UNCHANGED <<made, sent, history, stale>>
  BY <1>1 DEF sentVars, frameVars
<1>3. SegmentMessages' = SegmentMessages /\ Arrivals' = Arrivals
      /\ FeedbackMessages' = FeedbackMessages
  BY <1>1, <1>2 DEF SegmentMessages, FeedbackMessages, Arrivals, SendToNetwork
<1>4. SenderInv'
  BY <1>1, SenderKept DEF IInv
<1>5. WayInv'
  <2>1. seg_net' \in Seq(SegmentMessages')
    BY <1>1, <1>3 DEF IInv, WayInv
  <2> QED
    BY <1>1, <1>2, <1>3, <2>1 DEF IInv, WayInv
<1>6. Reported(reports, history)'
  BY <1>1, <1>2, <1>3, ReportedKept DEF IInv
<1> QED
  BY <1>4, <1>5, <1>6 DEF IInv

\* The segment that arrives is one that was sent, and it is decoded as it was.
LEMMA RecvIInv ==
    ASSUME IInv, RecvSegment
    PROVE  IInv'
<1> DEFINE strm == Head(seg_net)
           header == DecodeHeader(strm)
           seg == SegmentDecode(Rest(strm))
<1>1. /\ seg_net # <<>> /\ seg_net' = Tail(seg_net)
      /\ \/ received' = received \cup {seg} /\ arrived' = arrived \cup {Transmission(seg.data)}
         \/ UNCHANGED <<received, arrived>>
      /\ UNCHANGED <<pacerVars, sentVars, frameVars, fb_net, reports>>
  BY DEF RecvSegment
<1>2. UNCHANGED <<made, sent, history, stale>>
  BY <1>1 DEF sentVars, frameVars
<1>3. MadeOK /\ sent \in Seq(1..Len(made)) /\ WayInv
  BY DEF IInv, SenderInv, Places
<1>4. PICK t \in 1..Len(sent) : strm = SendToNetwork(sent[t])
  <2>1. strm \in SegmentMessages
    BY <1>1, <1>3 DEF WayInv
  <2> HIDE DEF strm
  <2> QED
    BY <2>1 DEF SegmentMessages
<1>5. /\ sent[t] \in 1..Len(made) /\ made[sent[t]] \in Segments
      /\ made[sent[t]].index < made[sent[t]].total /\ made[sent[t]].data = sent[t]
  BY <1>3 DEF MadeOK
<1>6. seg.data = sent[t] /\ Same(seg, made[sent[t]])
  <2>1. strm = EncodeMsg([ver |-> pid, mid |-> "SIM_SEG", uid |-> uid], SegmentEncode(made[sent[t]]))
    BY <1>4 DEF SendToNetwork
  <2> DEFINE orig == made[sent[t]]
  <2>2. orig \in Segments /\ orig.index < orig.total
    BY <1>5
  <2> HIDE DEF strm, orig
  <2>3. strm = EncodeMsg([ver |-> pid, mid |-> "SIM_SEG", uid |-> uid], SegmentEncode(orig))
    BY <2>1 DEF orig
  <2>4. SegmentDecode(Rest(strm)).data = orig.data /\ Same(SegmentDecode(Rest(strm)), orig)
    BY <2>2, <2>3, SegmentMessage
  <2> QED
    BY <1>5, <2>4 DEF orig
<1> HIDE DEF strm, header, seg
<1>7. Transmission(seg.data) \in 1..Len(sent) /\ sent[Transmission(seg.data)] = seg.data
  BY <1>6 DEF Transmission
<1>8. SenderInv'
  BY <1>1, SenderKept DEF IInv
<1>9. /\ SegmentMessages \subseteq SegmentMessages' /\ Arrivals \subseteq Arrivals'
      /\ FeedbackMessages \subseteq FeedbackMessages'
  <2>1. received \subseteq received'
    BY <1>1
  <2>2. Len(sent) <= Len(sent')
    BY <1>2, <1>3
  <2> QED
    BY <1>2, <1>3, <2>1, <2>2, MoreMessages
<1>10. WayInv'
  <2>1. seg_net' \in Seq(SegmentMessages')
    <3>1. seg_net \in Seq(SegmentMessages)
      BY <1>3 DEF WayInv
    <3>2. Tail(seg_net) \in Seq(SegmentMessages)
      BY <1>1, <3>1
    <3> QED
      BY <1>1, <1>9, <3>2
  <2>2. fb_net' \in Seq(FeedbackMessages')
    <3>1. fb_net \in Seq(FeedbackMessages)
      BY <1>3 DEF WayInv
    <3> QED
      BY <1>1, <1>9, <3>1
  <2>3. arrived' \in SUBSET Arrivals'
    <3>1. arrived \subseteq Arrivals'
      BY <1>3, <1>9 DEF WayInv
    <3>2. CASE UNCHANGED <<received, arrived>>
      BY <3>1, <3>2
    <3>3. CASE received' = received \cup {seg} /\ arrived' = arrived \cup {Transmission(seg.data)}
      <4>1. Transmission(seg.data) \in Arrivals'
        BY <1>2, <1>7, <3>3 DEF Arrivals
      <4> QED
        BY <3>1, <3>3, <4>1
    <3> QED
      BY <1>1, <3>2, <3>3
  <2>4. ASSUME NEW x \in received'
        PROVE  \E u \in 1..Len(sent)' : x.data = sent'[u] /\ Same(x, made'[x.data])
    <3>1. CASE x \in received
      BY <1>2, <1>3, <3>1 DEF WayInv
    <3>2. CASE x = seg
      BY <1>2, <1>6, <3>2
    <3> QED
      BY <1>1, <3>1, <3>2
  <2> QED
    BY <2>1, <2>2, <2>3, <2>4 DEF WayInv
<1>11. Reported(reports, history)'
  BY <1>1, <1>2, <1>9, ReportedKept DEF IInv
<1> QED
  BY <1>8, <1>10, <1>11 DEF IInv

\* The proxy reports arrivals only.
LEMMA FeedbackIInv ==
    ASSUME IInv, SendTransportFeedback
    PROVE  IInv'
<1>1. /\ arrived' = {}
      /\ \/ fb_net' = fb_net
         \/ Cardinality(arrived) <= FeedbackSize /\ fb_net' = Append(fb_net, Feedback(arrived))
      /\ UNCHANGED <<pacerVars, sentVars, frameVars, seg_net, received, reports>>
  BY DEF SendTransportFeedback, Feedback
<1>2. UNCHANGED <<made, sent, history, stale>>
  BY <1>1 DEF sentVars, frameVars
<1>3. SegmentMessages' = SegmentMessages /\ Arrivals' = Arrivals
      /\ FeedbackMessages' = FeedbackMessages
  BY <1>1, <1>2 DEF SegmentMessages, FeedbackMessages, Arrivals, SendToNetwork
<1>4. SenderInv'
  BY <1>1, SenderKept DEF IInv
<1>5. fb_net' \in Seq(FeedbackMessages)
  <2>1. fb_net \in Seq(FeedbackMessages)
    BY DEF IInv, WayInv
  <2>2. CASE Cardinality(arrived) <= FeedbackSize /\ fb_net' = Append(fb_net, Feedback(arrived))
    <3>1. arrived \in SUBSET Arrivals
      BY DEF IInv, WayInv
    <3>2. Cardinality(arrived) \in Nat
      <4>1. sent \in Seq(1..Len(made))
        BY DEF IInv, SenderInv, Places
      <4>2. arrived \in SUBSET (1..Len(sent)) /\ IsFiniteSet(1..Len(sent))
        <5>1. Len(sent) \in Nat
          BY <4>1
        <5> QED
          BY <3>1, <5>1, FS_Interval DEF Arrivals
      <4>3. IsFiniteSet(arrived)
        BY <4>2, FS_Subset
      <4> QED
        BY <4>3, FS_CardinalityType
    <3>3. FeedbackSize \in Nat
      BY WidthAssumption, WidthsOK
    <3>4. Cardinality(arrived) \in 0..FeedbackSize
      BY <2>2, <3>2, <3>3
    <3>5. Feedback(arrived) \in FeedbackMessages
      BY <3>1, <3>4 DEF FeedbackMessages
    <3> HIDE DEF Feedback
    <3> QED
      BY <2>1, <2>2, <3>5
  <2> QED
    BY <1>1, <2>1, <2>2
<1>6. WayInv'
  <2>1. seg_net' \in Seq(SegmentMessages') /\ fb_net' \in Seq(FeedbackMessages')
    BY <1>1, <1>3, <1>5 DEF IInv, WayInv
  <2>2. arrived' \in SUBSET Arrivals'
    BY <1>1
  <2> QED
    BY <1>1, <1>2, <2>1, <2>2 DEF IInv, WayInv
<1>7. Reported(reports, history)'
  BY <1>1, <1>2, <1>3, ReportedKept DEF IInv
<1> QED
  BY <1>4, <1>6, <1>7 DEF IInv

-----------------------------------------------------------------------------
(***************************************************************************)
(* Reports.                                                                *)
(***************************************************************************)
\* A set in increasing order is all of it, each element once.
LEMMA AscendingOK ==
    ASSUME NEW S \in SUBSET Nat, IsFiniteSet(S), NEW s \in Ascending(S)
    PROVE  /\ s \in Seq(S) /\ Len(s) \in Nat
           /\ \A i, j \in 1..Len(s) : s[i] = s[j] => i = j
           /\ \A x \in S : \E i \in 1..Len(s) : s[i] = x
<1> DEFINE n == Cardinality(S)
<1>1. n \in Nat
  BY FS_CardinalityType
<1>2. s \in [1..n -> S] /\ \A i, j \in 1..n : i < j => s[i] < s[j]
  BY DEF Ascending
<1> HIDE DEF n
<1>3. s \in Seq(S) /\ Len(s) = n
  BY <1>1, <1>2
<1>4. ASSUME NEW i \in 1..n, NEW j \in 1..n, s[i] = s[j] PROVE i = j
  <2>1. s[i] \in Nat
    BY <1>2
  <2>2. ~(i < j) /\ ~(j < i)
    BY <1>2, <1>4, <2>1
  <2> QED
    BY <1>1, <2>2
<1>5. s \in Injection(1..n, S)
  BY <1>2, <1>4 DEF Injection, IsInjective
<1>6. Cardinality(1..n) = Cardinality(S)
  <2>1. Cardinality(1..n) = n
    BY <1>1, FS_Interval
  <2> QED
    BY <2>1 DEF n
<1>7. s \in Surjection(1..n, S)
  BY <1>5, <1>6, FS_Injection
<1> QED
  BY <1>1, <1>3, <1>4, <1>7 DEF Surjection

\* One report: its entry is used up, and what is still awaited keeps its own.
LEMMA ReportStep ==
    ASSUME MadeOK, sent \in Seq(1..Len(made)), NEW s, NEW h,
           Times(s.ts, h, stale, sent), Reported(s.reports, h), NEW t \in h, t \in Arrivals
    PROVE  /\ Times(Report(s, t).ts, h \ {t}, stale, sent)
           /\ Reported(Report(s, t).reports, h \ {t})
<1> DEFINE seq == made[sent[t]].transport_seq
           ts2 == Restrict(s.ts, DOMAIN s.ts \ {seq})
           new == [seq |-> seq, tx |-> t,
                   sent_ts |-> IF seq \in DOMAIN s.ts THEN s.ts[seq] ELSE 0]
           r2 == Append(s.reports, new)
<1>1. Report(s, t).ts = ts2 /\ Report(s, t).reports = r2
  BY DEF Report
<1>2. t \in 1..Len(sent) /\ seq = Number(sent, t) /\ seq \in Nat
  <2>1. t \in 1..Len(sent)
    BY DEF Times
  <2>2. sent[t] \in 1..Len(made)
    BY <2>1
  <2> QED
    BY <2>1, <2>2, WidthsOK DEF Number, MadeOK
<1> HIDE DEF seq
<1>3. /\ DOMAIN ts2 = DOMAIN s.ts \ {seq} /\ \A q \in DOMAIN ts2 : ts2[q] = s.ts[q]
      /\ DOMAIN s.ts \subseteq Nat /\ \A q \in DOMAIN s.ts : s.ts[q] \in 1..Len(sent)
  BY DEF Restrict, Times, Maps
<1>4. ts2 \in Maps(1..Len(sent))
  <2>1. ts2 \in [DOMAIN s.ts \ {seq} -> 1..Len(sent)]
    BY <1>3 DEF Restrict
  <2> QED
    BY <1>3, <2>1 DEF Maps
<1> HIDE DEF ts2
<1>5. Times(ts2, h \ {t}, stale, sent)
  <2>1. h \ {t} \in SUBSET (1..Len(sent)) /\ stale \in SUBSET (1..Len(sent))
        /\ (stale # {} => Len(made) > W16)
    BY DEF Times
  <2>2. ASSUME NEW q \in DOMAIN ts2 PROVE ts2[q] \in h \ {t} /\ Number(sent, ts2[q]) = q
    <3>1. q \in DOMAIN s.ts /\ q # seq /\ ts2[q] = s.ts[q]
      BY <1>3
    <3>2. s.ts[q] \in h /\ Number(sent, s.ts[q]) = q
      BY <3>1 DEF Times
    <3> QED
      BY <1>2, <3>1, <3>2
  <2>3. ASSUME NEW x \in h \ {t}
        PROVE  \/ \E l \in stale : Number(sent, l) = Number(sent, x)
               \/ Number(sent, x) \in DOMAIN ts2 /\ ts2[Number(sent, x)] = x
    <3>1. \/ \E l \in stale : Number(sent, l) = Number(sent, x)
          \/ Number(sent, x) \in DOMAIN s.ts /\ s.ts[Number(sent, x)] = x
      BY DEF Times
    <3>2. CASE Number(sent, x) \in DOMAIN s.ts /\ s.ts[Number(sent, x)] = x
      <4>1. CASE Number(sent, x) = seq
        <5>1. \/ \E l \in stale : Number(sent, l) = seq
              \/ s.ts[seq] = t
          BY <1>2 DEF Times
        <5> QED
          BY <3>2, <4>1, <5>1
      <4>2. CASE Number(sent, x) # seq
        BY <1>3, <3>2, <4>2
      <4> QED
        BY <4>1, <4>2
    <3> QED
      BY <3>1, <3>2
  <2> QED
    BY <1>4, <2>1, <2>2, <2>3 DEF Times
<1>6. Reported(r2, h \ {t})
  <2> DEFINE R == [seq : Nat, tx : 1..Len(sent), sent_ts : Nat]
             r == s.reports
  <2>1. r \in Seq(R)
    BY DEF Reported
  <2>2. new \in R
    <3>1. seq \in DOMAIN s.ts => s.ts[seq] \in Nat
      BY <1>3
    <3> QED
      BY <1>2, <3>1
  <2>3. new.seq = seq /\ new.tx = t /\ (new.sent_ts = t \/ \E l \in stale : Number(sent, l) = seq)
    <3>1. \/ \E l \in stale : Number(sent, l) = seq
          \/ seq \in DOMAIN s.ts /\ s.ts[seq] = t
      BY <1>2 DEF Times
    <3> QED
      BY <3>1
  <2>4. /\ \A k \in 1..Len(r) :
              /\ r[k].tx \in Arrivals /\ r[k].tx \notin h
              /\ r[k].seq = Number(sent, r[k].tx)
              /\ r[k].sent_ts = r[k].tx \/ \E l \in stale : Number(sent, l) = r[k].seq
              /\ \A j \in 1..Len(r) : r[j].tx = r[k].tx => j = k
    BY DEF Reported
  <2> HIDE DEF R, r, new
  <2>5. /\ r2 \in Seq(R) /\ Len(r2) = Len(r) + 1 /\ Len(r) \in Nat
        /\ \A k \in 1..Len(r) : r2[k] = r[k]
        /\ r2[Len(r) + 1] = new
    <3>1. r2 = Append(r, new)
      BY DEF r
    <3> HIDE DEF r2
    <3>2. /\ Append(r, new) \in Seq(R) /\ Len(Append(r, new)) = Len(r) + 1 /\ Len(r) \in Nat
          /\ \A k \in 1..Len(r) : Append(r, new)[k] = r[k]
          /\ Append(r, new)[Len(r) + 1] = new
      BY <2>1, <2>2, Added
    <3> QED
      BY <3>1, <3>2
  <2> HIDE DEF r2
  <2>6. ASSUME NEW k \in 1..Len(r2) PROVE k \in 1..Len(r) \/ k = Len(r) + 1
    BY <2>5
  <2>7. ASSUME NEW k \in 1..Len(r2)
        PROVE  /\ r2[k].tx \in Arrivals /\ r2[k].tx \notin h \ {t}
               /\ r2[k].seq = Number(sent, r2[k].tx)
               /\ r2[k].sent_ts = r2[k].tx \/ \E l \in stale : Number(sent, l) = r2[k].seq
    <3>1. CASE k \in 1..Len(r)
      <4>1. r2[k] = r[k]
        BY <2>5, <3>1
      <4> QED
        BY <2>4, <3>1, <4>1
    <3>2. CASE k = Len(r) + 1
      BY <1>2, <2>3, <2>5, <3>2
    <3> QED
      BY <2>6, <3>1, <3>2
  <2>8. ASSUME NEW j \in 1..Len(r2), NEW k \in 1..Len(r2), r2[j].tx = r2[k].tx PROVE j = k
    <3>1. \A i \in 1..Len(r) : r2[i] = r[i] /\ r2[i].tx # t
      BY <2>4, <2>5
    <3>2. r2[Len(r) + 1].tx = t
      BY <2>3, <2>5
    <3>3. CASE j \in 1..Len(r) /\ k \in 1..Len(r)
      BY <2>4, <2>8, <3>1, <3>3
    <3> QED
      BY <2>6, <2>8, <3>1, <3>2, <3>3
  <2> QED
    BY <2>5, <2>7, <2>8 DEF Reported, R
<1> QED
  BY <1>1, <1>5, <1>6

\* What the entries and the reports are while reports are made.
ReportStates ==
    [ts : Maps(1..Len(sent)), reports : Seq([seq : Nat, tx : 1..Len(sent), sent_ts : Nat])]

LEMMA ReportType ==
    ASSUME MadeOK, sent \in Seq(1..Len(made)), NEW s \in ReportStates, NEW t \in 1..Len(sent)
    PROVE  Report(s, t) \in ReportStates
<1> DEFINE seq == made[sent[t]].transport_seq
           ts2 == Restrict(s.ts, DOMAIN s.ts \ {seq})
           new == [seq |-> seq, tx |-> t,
                   sent_ts |-> IF seq \in DOMAIN s.ts THEN s.ts[seq] ELSE 0]
           R == [seq : Nat, tx : 1..Len(sent), sent_ts : Nat]
<1>1. seq \in Nat
  <2>1. sent[t] \in 1..Len(made)
    OBVIOUS
  <2> QED
    BY <2>1, WidthsOK DEF MadeOK
<1> HIDE DEF seq
<1>2. s.reports \in Seq(R) /\ s.ts \in Maps(1..Len(sent))
  BY DEF ReportStates
<1>3. DOMAIN s.ts \subseteq Nat /\ \A q \in DOMAIN s.ts : s.ts[q] \in 1..Len(sent)
  BY <1>2 DEF Maps
<1>4. ts2 \in Maps(1..Len(sent))
  <2>1. ts2 \in [DOMAIN s.ts \ {seq} -> 1..Len(sent)]
    BY <1>3 DEF Restrict
  <2> QED
    BY <1>3, <2>1 DEF Maps
<1>5. new \in R
  <2>1. seq \in DOMAIN s.ts => s.ts[seq] \in Nat
    BY <1>3
  <2> QED
    BY <1>1, <2>1
<1>6. Append(s.reports, new) \in Seq(R)
  <2> HIDE DEF new, R
  <2> QED
    BY <1>2, <1>5
<1> QED
  BY <1>4, <1>6 DEF Report, ReportStates, seq

\* What a whole feedback does: its packets are reported and no longer awaited.
LEMMA ReportsMade ==
    ASSUME MadeOK, sent \in Seq(1..Len(made)), Times(sent_ts_map, history, stale, sent),
           Reported(reports, history), NEW A \in SUBSET Arrivals,
           NEW known \in Ascending(A \cap history), NEW after,
           after = CHOOSE f : f = [k \in 0..Len(known) |->
                       IF k = 0 THEN [ts |-> sent_ts_map, reports |-> reports]
                       ELSE Report(f[k - 1], known[k])]
    PROVE  /\ Times(after[Len(known)].ts, history \ A, stale, sent)
           /\ Reported(after[Len(known)].reports, history \ A)
<1> DEFINE n == Len(known)
           S == A \cap history
           base == [ts |-> sent_ts_map, reports |-> reports]
           step == [q \in (1..n) \X ReportStates |-> Report(q[2], known[q[1]])]
           Is(f) == f = [k \in 0..Len(known) |->
                       IF k = 0 THEN [ts |-> sent_ts_map, reports |-> reports]
                       ELSE Report(f[k - 1], known[k])]
<1>1. S \in SUBSET Nat /\ IsFiniteSet(S) /\ S \subseteq 1..Len(sent) /\ S \subseteq Arrivals
  <2>1. S \subseteq 1..Len(sent) /\ S \subseteq Arrivals
    BY DEF Times
  <2>2. Len(sent) \in Nat
    OBVIOUS
  <2>3. IsFiniteSet(1..Len(sent))
    BY <2>2, FS_Interval
  <2> QED
    BY <2>1, <2>2, <2>3, FS_Subset
<1>2. /\ known \in Seq(S) /\ n \in Nat
      /\ \A i, j \in 1..n : known[i] = known[j] => i = j
      /\ \A x \in S : \E i \in 1..n : known[i] = x
  <2>1. known \in Ascending(S)
    OBVIOUS
  <2> HIDE DEF S
  <2> QED
    BY <1>1, <2>1, AscendingOK
<1>3. \A k \in 1..n : known[k] \in S
  <2> HIDE DEF S
  <2> QED
    BY <1>2
<1> HIDE DEF n
<1>4. PICK g : Recurs(g, n, ReportStates, base, step)
  <2>1. base \in ReportStates
    BY DEF ReportStates, Times, Reported
  <2>2. step \in [(1..n) \X ReportStates -> ReportStates]
    <3>1. ASSUME NEW k \in 1..n, NEW s \in ReportStates
          PROVE  Report(s, known[k]) \in ReportStates
      <4>1. known[k] \in 1..Len(sent)
        BY <1>1, <1>3
      <4> QED
        BY <4>1, ReportType
    <3> QED
      BY <3>1
  <2> HIDE DEF base, step
  <2> QED
    BY <1>2, <2>1, <2>2, RecursionExists
<1>5. /\ g \in [0..n -> ReportStates] /\ g[0] = base
      /\ \A k \in 1..n : g[k] = Report(g[k - 1], known[k])
  <2>1. g \in [0..n -> ReportStates] /\ g[0] = base /\ \A k \in 1..n : g[k] = step[<<k, g[k - 1]>>]
    <3> HIDE DEF step, base
    <3> QED
      BY <1>4 DEF Recurs
  <2>2. ASSUME NEW k \in 1..n PROVE g[k] = Report(g[k - 1], known[k])
    <3>1. k - 1 \in 0..n
      BY <1>2
    <3>2. g[k - 1] \in ReportStates
      BY <2>1, <3>1
    <3>3. <<k, g[k - 1]>> \in (1..n) \X ReportStates
      BY <3>2
    <3> QED
      BY <2>1, <3>3
  <2> QED
    BY <2>1, <2>2
<1>6. Is(after)
  <2>1. \A k \in 0..n : k = 0 \/ (k \in 1..n /\ k # 0)
    BY <1>2
  <2>2. Is(g)
    <3>1. g = [k \in 0..n |-> IF k = 0 THEN base ELSE Report(g[k - 1], known[k])]
      <4> HIDE DEF base
      <4> QED
        BY <1>5, <2>1
    <3> QED
      BY <3>1 DEF n
  <2>3. after = CHOOSE f : Is(f)
    OBVIOUS
  <2> HIDE DEF Is
  <2> QED
    BY <2>2, <2>3
<1>7. after[0] = base /\ \A k \in 1..n : after[k] = Report(after[k - 1], known[k])
  <2>1. after = [k \in 0..n |-> IF k = 0 THEN base ELSE Report(after[k - 1], known[k])]
    BY <1>6 DEF n
  <2>2. 0 \in 0..n /\ \A k \in 1..n : k \in 0..n /\ k # 0
    BY <1>2
  <2> HIDE DEF base
  <2> QED
    BY <2>1, <2>2
<1> HIDE DEF Is
<1> DEFINE Left(k) == history \ {known[j] : j \in 1..k}
           P == {k \in 0..n : /\ Times(after[k].ts, Left(k), stale, sent)
                              /\ Reported(after[k].reports, Left(k))}
<1>8. 0 \in P
  <2>1. Left(0) = history
    OBVIOUS
  <2>2. after[0].ts = sent_ts_map /\ after[0].reports = reports
    BY <1>7
  <2> HIDE DEF Left
  <2> QED
    BY <1>2, <2>1, <2>2
<1>9. ASSUME NEW k \in 1..n, k - 1 \in P PROVE k \in P
  <2> DEFINE s == after[k - 1]
             h == Left(k - 1)
             t == known[k]
  <2>1. Times(s.ts, h, stale, sent) /\ Reported(s.reports, h)
    BY <1>9
  <2>2. t \in h /\ t \in Arrivals
    <3>1. t \in S
      BY <1>3
    <3>2. ASSUME NEW j \in 1..(k - 1) PROVE known[j] # t
      <4>1. j \in 1..n /\ j # k
        BY <1>2
      <4> QED
        BY <1>2, <4>1
    <3> QED
      BY <1>1, <3>1, <3>2
  <2>3. Left(k) = h \ {t}
    <3>1. 1..k = (1..(k - 1)) \cup {k}
      BY <1>2
    <3> QED
      BY <3>1
  <2>4. after[k] = Report(s, t) /\ k \in 0..n
    BY <1>2, <1>7
  <2> HIDE DEF s, h, t, Left
  <2>5. Times(Report(s, t).ts, h \ {t}, stale, sent) /\ Reported(Report(s, t).reports, h \ {t})
    BY <2>1, <2>2, ReportStep
  <2> QED
    BY <2>3, <2>4, <2>5
<1> HIDE DEF P
<1>10. n \in P
  <2>1. \A k \in 0..n : k \in P
    BY <1>2, <1>8, <1>9, UpTo
  <2> QED
    BY <1>2, <2>1
<1>11. Left(n) = history \ A
  BY <1>2, <1>3
<1>12. Times(after[n].ts, Left(n), stale, sent) /\ Reported(after[n].reports, Left(n))
  BY <1>10 DEF P
<1> HIDE DEF Left
<1> QED
  BY <1>11, <1>12 DEF n

LEMMA IncomingIInv ==
    ASSUME IInv, IncomingFeedBack
    PROVE  IInv'
<1> DEFINE strm == Head(fb_net)
           fb == FeedbackDecode(Rest(strm), FeedbackSize)
<1>1. MadeOK /\ sent \in Seq(1..Len(made)) /\ Times(sent_ts_map, history, stale, sent)
      /\ Reported(reports, history) /\ WayInv
  BY DEF IInv, SenderInv, Places
<1>2. /\ fb_net # <<>> /\ fb_net' = Tail(fb_net)
      /\ UNCHANGED <<pacerVars, frameVars, seg_net, receiver, first_packet, arrived, received,
                     sent, stale, skipped, ahead>>
  BY DEF IncomingFeedBack, recvVars
<1>3. PICK A \in SUBSET Arrivals : Cardinality(A) \in 0..FeedbackSize /\ strm = Feedback(A)
  <2>1. strm \in FeedbackMessages
    BY <1>1, <1>2 DEF WayInv
  <2> HIDE DEF strm
  <2> QED
    BY <2>1 DEF FeedbackMessages
<1>4. fb.feedback = A
  <2>1. strm = EncodeMsg([ver |-> pid, mid |-> "SIM_FEEDBACK", uid |-> 4321],
                         FeedbackEncode([base_packet_id |-> 0, feedback |-> A,
                                         feedback_size |-> Cardinality(A)]))
    BY <1>3 DEF Feedback
  <2> HIDE DEF strm
  <2> QED
    BY <1>3, <2>1, FeedbackMessage
<1>5. Times(sent_ts_map', history', stale, sent) /\ Reported(reports', history')
  <2>1. CASE UNCHANGED <<sent_ts_map, reports, history>>
    BY <1>1, <2>1
  <2>2. CASE ~UNCHANGED <<sent_ts_map, reports, history>>
    <3>1. PICK known \in Ascending(A \cap history) :
             LET after[k \in 0..Len(known)] ==
                     IF k = 0 THEN [ts |-> sent_ts_map, reports |-> reports]
                     ELSE Report(after[k - 1], known[k])
             IN  /\ sent_ts_map' = after[Len(known)].ts
                 /\ reports' = after[Len(known)].reports
                 /\ history' = history \ A
      <4> HIDE DEF strm, fb
      <4> QED
        BY <1>4, <2>2 DEF IncomingFeedBack, strm, fb
    <3> DEFINE after == CHOOSE f : f = [k \in 0..Len(known) |->
                            IF k = 0 THEN [ts |-> sent_ts_map, reports |-> reports]
                            ELSE Report(f[k - 1], known[k])]
    <3>2. /\ sent_ts_map' = after[Len(known)].ts /\ reports' = after[Len(known)].reports
          /\ history' = history \ A
      BY <3>1
    <3>3. after = CHOOSE f : f = [k \in 0..Len(known) |->
                      IF k = 0 THEN [ts |-> sent_ts_map, reports |-> reports]
                      ELSE Report(f[k - 1], known[k])]
      OBVIOUS
    <3> HIDE DEF after
    <3>4. /\ Times(after[Len(known)].ts, history \ A, stale, sent)
          /\ Reported(after[Len(known)].reports, history \ A)
      BY <1>1, <3>3, ReportsMade
    <3> QED
      BY <3>2, <3>4
  <2> QED
    BY <2>1, <2>2
<1> HIDE DEF strm, fb
<1>6. UNCHANGED <<made, sent, stale, received, placeVars, rate, target, budget, ahead, leaked>>
  BY <1>2 DEF frameVars, pacerVars, placeVars
<1>7. SenderInv'
  <2>1. MadeOK' /\ Places(buf, sent)' /\ Pending(pending_len, sent)' /\ QueueInv'
    BY <1>6, PlacesKept DEF IInv, SenderInv
  <2>2. PaceInv'
    BY <1>6, PaceKept DEF IInv, SenderInv
  <2>3. Times(sent_ts_map, history, stale, sent)'
    BY <1>5, <1>6 DEF Times, Number
  <2> QED
    BY <2>1, <2>2, <2>3 DEF SenderInv
<1>8. SegmentMessages' = SegmentMessages /\ Arrivals' = Arrivals
      /\ FeedbackMessages' = FeedbackMessages
  BY <1>6 DEF SegmentMessages, FeedbackMessages, Arrivals, SendToNetwork
<1>9. WayInv'
  <2>1. fb_net' \in Seq(FeedbackMessages)
    BY <1>1, <1>2 DEF WayInv
  <2> QED
    BY <1>1, <1>2, <1>6, <1>8, <2>1 DEF WayInv
<1>10. Reported(reports, history)'
  BY <1>5, <1>6, <1>8 DEF Reported, Number
<1> QED
  BY <1>7, <1>9, <1>10 DEF IInv

LEMMA TotalInt ==
    ASSUME MadeOK, NEW s \in Seq(1..Len(made))
    PROVE  Total(s) \in Int
<1> DEFINE u == [k \in 1..Len(s) |-> Overhead(made[s[k]])]
<1>1. \A k \in 1..Len(s) : Overhead(made[s[k]]) \in Int
  <2>1. \A k \in 1..Len(s) : made[s[k]] \in Segments
    BY ElementOfSeq DEF MadeOK
  <2>2. Largest \in Nat
    BY PaceNumbers
  <2> QED
    BY <2>1, <2>2, Overheads
<1>2. Len(s) \in Nat
  OBVIOUS
<1>3. Ints(u)
  BY <1>1, <1>2 DEF Ints
<1> QED
  BY <1>3, SumInt DEF Total

-----------------------------------------------------------------------------
(***************************************************************************)
(* A frame.                                                                *)
(***************************************************************************)
\* What OnFrame makes, segs, and what it does with it.
NewSegments(segs) ==
    /\ segs \in Seq(Segments) /\ Len(segs) \in Nat
    /\ \A i \in 1..Len(segs) : /\ segs[i].data = Len(made) + i
                               /\ segs[i].transport_seq = (Len(made) + i) % W16
                               /\ segs[i].index < segs[i].total
NewPackets(segs) ==
    [i \in 1..Len(segs) |-> [seq |-> segs[i].transport_seq, bytes |-> Overhead(segs[i])]]
Frame(segs) ==
    /\ made' = made \o segs /\ frame_seed' = frame_seed + 1
    /\ buf' = Buffer(segs)
    /\ leaked' = leaked \cup ({segs[i].data : i \in 1..Len(segs)} \ Range(Buffer(segs)))
    /\ packets' = packets \o NewPackets(segs)
    /\ pending_len' = pending_len + Sum([i \in 1..Len(segs) |-> Overhead(segs[i])])

LEMMA FrameMakes ==
    ASSUME MadeOK, NEW length \in Lengths, OnFrame(length)
    PROVE  \E segs : NewSegments(segs) /\ Frame(segs)
<1> DEFINE splits == FrameSplit(length)
           n == Len(splits)
           segs == [i \in 1..n |-> Segment(splits, i)]
<1>1. splits \in Seq(0..SIM_VIDEO_SIZE) /\ n \in 1..U16_MAX
  BY FrameSplitOK
<1>2. Frame(segs)
  BY DEF OnFrame, Frame, NewPackets
<1>3. Len(made) \in Nat /\ frame_seed \in Nat /\ U16_MAX \in Nat
  BY WidthsOK DEF MadeOK
<1>4. ASSUME NEW i \in 1..n
      PROVE  /\ Segment(splits, i) \in Segments /\ Segment(splits, i).data = Len(made) + i
             /\ Segment(splits, i).transport_seq = (Len(made) + i) % W16
             /\ Segment(splits, i).index < Segment(splits, i).total
  <2>1. i \in Nat \ {0} /\ i <= n /\ n \in Nat
    <3> HIDE DEF n, splits
    <3>1. n \in Nat
      BY <1>1, <1>3
    <3> QED
      BY <3>1
  <2>2. splits[i] \in 0..SIM_VIDEO_SIZE
    <3> HIDE DEF splits
    <3> QED
      BY <1>1, ElementOfSeq
  <2>3. (Len(made) + i) % W16 \in 0..U16_MAX
    BY <1>3, <2>1, WidthsOK
  <2> HIDE DEF n, splits
  <2>4. Segment(splits, i) \in Segments
    BY <1>1, <1>3, <2>1, <2>2, <2>3 DEF Segment, Segments, n
  <2>5. Segment(splits, i).index < Segment(splits, i).total
    BY <2>1 DEF Segment, n
  <2> QED
    BY <2>4, <2>5 DEF Segment
<1>5. NewSegments(segs)
  <2>1. n \in Nat
    BY <1>1, <1>3
  <2> HIDE DEF n, splits
  <2>2. segs \in Seq(Segments) /\ Len(segs) = n
    BY <1>4, <2>1
  <2>3. \A i \in 1..n : segs[i] = Segment(splits, i)
    OBVIOUS
  <2> HIDE DEF segs
  <2> QED
    BY <1>4, <2>1, <2>2, <2>3 DEF NewSegments
<1> QED
  BY <1>2, <1>5

\* The segments made before keep their place in made, the new ones follow.
LEMMA FrameMade ==
    ASSUME MadeOK, NEW segs, NewSegments(segs), Frame(segs)
    PROVE  /\ MadeOK'
           /\ Len(made') = Len(made) + Len(segs) /\ Len(made) \in Nat /\ Len(segs) \in Nat
           /\ \A i \in 1..Len(made) : made'[i] = made[i]
           /\ \A i \in 1..Len(segs) : made'[Len(made) + i] = segs[i]
<1> DEFINE m == Len(made)
           n == Len(segs)
           all == made'
<1>1. /\ all \in Seq(Segments) /\ Len(all) = m + n /\ m \in Nat /\ n \in Nat
      /\ \A k \in 1..m : all[k] = made[k]
      /\ \A k \in 1..n : all[m + k] = segs[k]
  <2>1. made \in Seq(Segments) /\ segs \in Seq(Segments) /\ all = made \o segs
    BY DEF MadeOK, NewSegments, Frame
  <2> QED
    BY <2>1, Joined
<1>2. frame_seed' \in Nat
  BY DEF MadeOK, Frame
<1>3. ASSUME NEW i \in 1..Len(all)
      PROVE  all[i].data = i /\ all[i].transport_seq = i % W16 /\ all[i].index < all[i].total
  <2> HIDE DEF all
  <2>1. CASE i \in 1..m
    BY <1>1, <2>1 DEF MadeOK
  <2>2. CASE i \notin 1..m
    <3> DEFINE k == i - m
    <3>1. k \in 1..n /\ i = m + k
      BY <1>1, <2>2
    <3> HIDE DEF k
    <3>2. segs[k].data = m + k /\ segs[k].transport_seq = (m + k) % W16
          /\ segs[k].index < segs[k].total
      BY <3>1 DEF NewSegments
    <3> QED
      BY <1>1, <3>1, <3>2
  <2> QED
    BY <2>1, <2>2
<1> QED
  BY <1>1, <1>2, <1>3 DEF MadeOK

\* A number that is new in buf_ is that of one of the new segments.
LEMMA BufferOK ==
    ASSUME NEW segs, NewSegments(segs), NEW X, buf \in Maps(X)
    PROVE  /\ DOMAIN Buffer(segs) = DOMAIN buf \cup {segs[i].transport_seq : i \in 1..Len(segs)}
           /\ DOMAIN Buffer(segs) \subseteq Nat
           /\ \A q \in DOMAIN Buffer(segs) :
                 \/ q \in DOMAIN buf /\ Buffer(segs)[q] = buf[q]
                 \/ \E i \in 1..Len(segs) : /\ segs[i].transport_seq = q
                                            /\ Buffer(segs)[q] = segs[i].data
           /\ \A q \in DOMAIN buf : Buffer(segs)[q] = buf[q]
           /\ Buffer(segs) = [q \in DOMAIN Buffer(segs) |-> Buffer(segs)[q]]
<1> DEFINE with(q) == {i \in 1..Len(segs) : segs[i].transport_seq = q}
           D == DOMAIN buf \cup {segs[i].transport_seq : i \in 1..Len(segs)}
           b == Buffer(segs)
<1>1. b = [q \in D |-> IF q \in DOMAIN buf THEN buf[q] ELSE segs[Min(with(q))].data]
  BY DEF Buffer
<1>2. D \subseteq Nat
  <2>1. DOMAIN buf \subseteq Nat
    BY DEF Maps
  <2>2. \A i \in 1..Len(segs) : segs[i].transport_seq \in Nat
    <3>1. \A i \in 1..Len(segs) : segs[i] \in Segments
      BY DEF NewSegments
    <3>2. U16_MAX \in Nat
      BY WidthsOK
    <3> QED
      BY <3>1, <3>2 DEF Segments
  <2> QED
    BY <2>1, <2>2
<1> HIDE DEF b
<1>3. DOMAIN b = D /\ \A q \in DOMAIN buf : b[q] = buf[q]
  BY <1>1
<1>4. ASSUME NEW q \in D, q \notin DOMAIN buf
      PROVE  \E i \in 1..Len(segs) : segs[i].transport_seq = q /\ b[q] = segs[i].data
  <2>1. with(q) # {} /\ with(q) \in SUBSET Nat
    BY <1>4
  <2>2. b[q] = segs[Min(with(q))].data
    BY <1>1, <1>4
  <2> DEFINE w == with(q)
  <2>3. w # {} /\ w \in SUBSET Nat
    BY <2>1
  <2> HIDE DEF w
  <2>4. Min(w) \in w
    BY <2>3, LeastOf
  <2> QED
    BY <2>2, <2>4 DEF w
<1>5. b = [q \in DOMAIN b |-> b[q]]
  BY <1>1
<1> QED
  BY <1>2, <1>3, <1>4, <1>5 DEF b

\* Each segment is in one place after a frame too, and a slot is found taken only
\* after the numbers have come round.
LEMMA FramePlaces ==
    ASSUME MadeOK, Places(buf, sent), NEW segs, NewSegments(segs), Frame(segs), UNCHANGED sent
    PROVE  Places(buf, sent)' /\ leaked \subseteq leaked'
<1> DEFINE m == Len(made)
           n == Len(segs)
           b == Buffer(segs)
           new == {segs[i].data : i \in 1..n}
           all == made'
           lost == leaked'
<1>1. /\ MadeOK' /\ Len(all) = m + n /\ m \in Nat /\ n \in Nat
      /\ \A i \in 1..m : all[i] = made[i]
      /\ \A i \in 1..n : all[m + i] = segs[i]
  BY FrameMade
<1>2. lost = leaked \cup (new \ Range(b)) /\ buf' = b
  BY DEF Frame
<1>3. /\ buf \in Maps(1..m) /\ sent \in Seq(1..m) /\ leaked \in SUBSET (1..m)
      /\ \A j, k \in 1..Len(sent) : sent[j] = sent[k] => j = k
      /\ \A q \in DOMAIN buf : made[buf[q]].transport_seq = q /\ buf[q] \notin leaked
      /\ \A k \in 1..Len(sent) : sent[k] \notin leaked /\ \A q \in DOMAIN buf : buf[q] # sent[k]
      /\ \A i \in 1..m : \/ i \in leaked
                         \/ \E k \in 1..Len(sent) : sent[k] = i
                         \/ \E q \in DOMAIN buf : buf[q] = i
      /\ leaked # {} => m > W16
  BY DEF Places
<1>4. /\ \A q \in DOMAIN buf : buf[q] \in 1..m
      /\ \A k \in 1..Len(sent) : sent[k] \in 1..m
  <2>1. \A q \in DOMAIN buf : buf[q] \in 1..m
    BY <1>3, Mapped
  <2>2. \A k \in 1..Len(sent) : sent[k] \in 1..m
    BY <1>3, ElementOfSeq
  <2> QED
    BY <2>1, <2>2
<1>5. \A i \in 1..n : segs[i].data = m + i /\ segs[i].data \notin 1..m /\ segs[i].data \in 1..(m + n)
  BY <1>1 DEF NewSegments
<1>6. /\ DOMAIN b = DOMAIN buf \cup {segs[i].transport_seq : i \in 1..n}
      /\ DOMAIN b \subseteq Nat
      /\ \A q \in DOMAIN b :
            \/ q \in DOMAIN buf /\ b[q] = buf[q]
            \/ \E i \in 1..n : segs[i].transport_seq = q /\ b[q] = segs[i].data
      /\ \A q \in DOMAIN buf : b[q] = buf[q]
      /\ b = [q \in DOMAIN b |-> b[q]]
  BY <1>3, BufferOK
<1> HIDE DEF b, all, lost, m, n
<1>7. ASSUME NEW q \in DOMAIN b
      PROVE  /\ b[q] \in 1..(m + n) /\ all[b[q]].transport_seq = q
             /\ b[q] \notin lost /\ \A k \in 1..Len(sent) : b[q] # sent[k]
  <2>1. CASE q \in DOMAIN buf /\ b[q] = buf[q]
    <3>1. buf[q] \in 1..m /\ buf[q] \in 1..(m + n) /\ buf[q] \notin new /\ all[buf[q]] = made[buf[q]]
      BY <1>1, <1>4, <1>5, <2>1
    <3>2. buf[q] \notin lost
      BY <1>2, <1>3, <2>1, <3>1
    <3> QED
      BY <1>3, <2>1, <3>1, <3>2
  <2>2. CASE \E i \in 1..n : segs[i].transport_seq = q /\ b[q] = segs[i].data
    <3>1. PICK i \in 1..n : segs[i].transport_seq = q /\ b[q] = segs[i].data
      BY <2>2
    <3>2. b[q] = m + i /\ b[q] \notin 1..m /\ b[q] \in 1..(m + n) /\ all[m + i] = segs[i]
      BY <1>1, <1>5, <3>1
    <3>3. b[q] \in Range(b)
      BY DEF Range
    <3>4. b[q] \notin lost
      BY <1>2, <1>3, <3>2, <3>3
    <3> QED
      BY <1>4, <3>1, <3>2, <3>4
  <2> QED
    BY <1>6, <2>1, <2>2
<1>8. lost \in SUBSET (1..(m + n)) /\ leaked \subseteq lost
  <2>1. 1..m \subseteq 1..(m + n) /\ new \subseteq 1..(m + n)
    BY <1>1, <1>5
  <2> QED
    BY <1>2, <1>3, <2>1
<1>9. \A k \in 1..Len(sent) : sent[k] \notin lost
  BY <1>2, <1>3, <1>4, <1>5
<1>10. ASSUME NEW i \in 1..(m + n)
       PROVE  \/ i \in lost
              \/ \E k \in 1..Len(sent) : sent[k] = i
              \/ \E q \in DOMAIN b : b[q] = i
  <2>1. CASE i \in 1..m
    <3>1. \A q \in DOMAIN buf : q \in DOMAIN b /\ b[q] = buf[q]
      BY <1>6
    <3> QED
      BY <1>3, <1>8, <2>1, <3>1
  <2>2. CASE i \notin 1..m
    <3> DEFINE k == i - m
    <3>1. k \in 1..n /\ i = m + k
      BY <1>1, <2>2
    <3> HIDE DEF k
    <3>2. i \in new
      BY <1>5, <3>1
    <3>3. CASE i \in Range(b)
      BY <3>3 DEF Range
    <3> QED
      BY <1>2, <3>2, <3>3
  <2> QED
    BY <2>1, <2>2
<1>11. ASSUME lost # {} PROVE m + n > W16
  <2>1. CASE leaked # {}
    <3>1. m > W16 /\ W16 \in Nat
      BY <1>3, <2>1, WidthsOK
    <3> QED
      BY <1>1, <3>1
  <2>2. CASE leaked = {}
    <3>1. PICK x \in new : x \notin Range(b)
      BY <1>2, <1>11, <2>2
    <3>2. PICK i \in 1..n : x = segs[i].data
      BY <3>1
    <3> DEFINE q == segs[i].transport_seq
               y == b[q]
    <3>3. x = m + i /\ x \in 1..(m + n) /\ all[x].transport_seq = q
      BY <1>1, <1>5, <3>2
    <3>4. q \in DOMAIN b
      BY <1>6
    <3>5. y \in 1..(m + n) /\ all[y].transport_seq = q
      BY <1>7, <3>4
    <3>6. y # x
      BY <3>1, <3>4 DEF Range
    <3>7. \A j \in 1..(m + n) : all[j].transport_seq = j % W16
      BY <1>1 DEF MadeOK, all
    <3>8. x % W16 = y % W16
      BY <3>3, <3>5, <3>7
    <3> HIDE DEF y, q
    <3>9. x \in Nat /\ y \in Nat /\ x > 0 /\ y > 0 /\ x <= m + n /\ y <= m + n /\ W16 \in Nat \ {0}
      BY <1>1, <3>3, <3>5, WidthsOK
    <3>10. x > W16 \/ y > W16
      BY <3>6, <3>8, <3>9, Meet
    <3> QED
      BY <1>1, <3>9, <3>10
  <2> QED
    BY <2>1, <2>2
<1>12. b \in Maps(1..(m + n))
  <2>1. b \in [DOMAIN b -> 1..(m + n)]
    BY <1>6, <1>7
  <2> QED
    BY <1>6, <2>1 DEF Maps
<1>13. sent \in Seq(1..(m + n))
  <2>1. 1..m \subseteq 1..(m + n)
    BY <1>1
  <2>2. sent \in Seq(1..m)
    BY <1>3
  <2> HIDE DEF m, n
  <2> QED
    BY <2>1, <2>2, MoreSeq
<1> QED
  BY <1>1, <1>2, <1>3, <1>7, <1>8, <1>9, <1>10, <1>11, <1>12, <1>13 DEF Places, all, lost

LEMMA FramePending ==
    ASSUME MadeOK, Places(buf, sent), Pending(pending_len, sent), NEW segs, NewSegments(segs),
           Frame(segs), UNCHANGED sent
    PROVE  Pending(pending_len, sent)'
<1> DEFINE m == Len(made)
           n == Len(segs)
           all == made'
           s == [k \in 1..m |-> Overhead(made[k])]
           t == [k \in 1..n |-> Overhead(segs[k])]
           u == [k \in 1..(m + n) |-> Overhead(all[k])]
<1>1. /\ MadeOK' /\ Len(all) = m + n /\ m \in Nat /\ n \in Nat
      /\ \A i \in 1..m : all[i] = made[i]
      /\ \A i \in 1..n : all[m + i] = segs[i]
  BY FrameMade
<1>2. Largest \in Nat
  BY PaceNumbers
<1>3. /\ \A k \in 1..m : Overhead(made[k]) \in Int
      /\ \A k \in 1..n : Overhead(segs[k]) \in Int
      /\ \A k \in 1..(m + n) : Overhead(all[k]) \in Int
  <2>1. \A seg \in Segments : Overhead(seg) \in Int
    BY <1>2, Overheads
  <2>2. /\ \A k \in 1..m : made[k] \in Segments
        /\ \A k \in 1..n : segs[k] \in Segments
        /\ \A k \in 1..Len(all) : all[k] \in Segments
    BY <1>1 DEF MadeOK, NewSegments
  <2> QED
    BY <1>1, <2>1, <2>2
<1> HIDE DEF m, n, all
<1>4. /\ Ints(s) /\ Ints(t) /\ Ints(u) /\ Len(s) = m /\ Len(t) = n /\ Len(u) = m + n
      /\ \A k \in 1..m : u[k] = s[k]
      /\ \A k \in 1..n : u[m + k] = t[k]
  <2>1. Len(s) = m /\ Len(t) = n /\ Len(u) = m + n
    BY <1>1
  <2>2. Ints(s) /\ Ints(t) /\ Ints(u)
    BY <1>1, <1>3, <2>1 DEF Ints
  <2>3. 1..m \subseteq 1..(m + n) /\ \A k \in 1..n : m + k \in 1..(m + n)
    BY <1>1
  <2> QED
    BY <1>1, <2>1, <2>2, <2>3
<1>5. /\ Total([i \in 1..Len(made) |-> i]) = Sum(s)
      /\ Total([i \in 1..Len(made) |-> i])' = Sum(u)
      /\ pending_len' = pending_len + Sum(t)
  <2>1. Total([i \in 1..Len(made) |-> i]) = Sum(s)
    BY <1>1 DEF Total, m
  <2>2. Total([i \in 1..Len(made) |-> i])' = Sum(u)
    BY <1>1 DEF Total, all
  <2> QED
    BY <2>1, <2>2 DEF Frame, n
<1> HIDE DEF s, t, u
<1>6. Sum(u) = Sum(s) + Sum(t) /\ Sum(s) \in Int /\ Sum(t) \in Int
  BY <1>4, SumConcat, SumInt
<1>7. Total(sent)' = Total(sent)
  <2>1. \A k \in 1..Len(sent) : all[sent[k]] = made[sent[k]]
    <3>1. \A k \in 1..Len(sent) : sent[k] \in 1..m
      BY ElementOfSeq DEF Places, m
    <3> QED
      BY <1>1, <3>1
  <2> QED
    BY <2>1 DEF Total, all
<1>8. HasObserver => Total(sent) \in Int
  BY TotalInt DEF Places
<1> QED
  BY <1>5, <1>6, <1>7, <1>8 DEF Pending

LEMMA FrameQueue ==
    ASSUME MadeOK, Places(buf, sent), QueueInv, NEW segs, NewSegments(segs), Frame(segs),
           UNCHANGED <<sent, skipped>>
    PROVE  QueueInv'
<1> DEFINE m == Len(made)
           n == Len(segs)
           l == Len(packets)
           all == made'
           ps == packets'
           new == NewPackets(segs)
           R == [seq : Nat, bytes : 0..(HeaderSize + SIM_VIDEO_SIZE)]
<1>1. /\ MadeOK' /\ Len(all) = m + n /\ m \in Nat /\ n \in Nat
      /\ \A i \in 1..m : all[i] = made[i]
      /\ \A i \in 1..n : all[m + i] = segs[i]
  BY FrameMade
<1>2. /\ \A i \in 1..n : new[i] = [seq |-> segs[i].transport_seq, bytes |-> Overhead(segs[i])]
      /\ new \in Seq(R) /\ Len(new) = n
  <2>1. ASSUME NEW i \in 1..n
        PROVE  [seq |-> segs[i].transport_seq, bytes |-> Overhead(segs[i])] \in R
    <3>1. segs[i] \in Segments
      BY ElementOfSeq DEF NewSegments
    <3>2. segs[i].transport_seq \in Nat
      BY <3>1, WidthsOK DEF Segments
    <3>3. Overhead(segs[i]) \in 0..(HeaderSize + SIM_VIDEO_SIZE)
      BY <3>1, Overheads DEF Largest
    <3> QED
      BY <3>2, <3>3
  <2> HIDE DEF R
  <2>2. new \in [1..n -> R]
    BY <2>1 DEF NewPackets
  <2> HIDE DEF n
  <2> QED
    BY <1>1, <2>2 DEF NewPackets, n
<1>3. /\ ps \in Seq(R) /\ Len(ps) = l + n /\ l \in Nat
      /\ \A k \in 1..l : ps[k] = packets[k]
      /\ \A k \in 1..n : ps[l + k] = new[k]
  <2>1. packets \in Seq(R) /\ ps = packets \o new /\ new \in Seq(R)
    BY <1>2 DEF QueueInv, Frame
  <2> HIDE DEF R, new, ps, l
  <2>2. /\ packets \o new \in Seq(R) /\ Len(packets \o new) = Len(packets) + Len(new)
        /\ Len(packets) \in Nat
        /\ \A k \in 1..Len(packets) : (packets \o new)[k] = packets[k]
        /\ \A k \in 1..Len(new) : (packets \o new)[Len(packets) + k] = new[k]
    BY <2>1, Joined
  <2> QED
    BY <1>2, <2>1, <2>2 DEF l
<1>4. l <= m /\ Done = m - l /\ Done \in Nat /\ Done' = m + n - (l + n) /\ Done' = Done
  BY <1>1, <1>3 DEF Done, QueueInv
<1>5. ASSUME NEW k \in 1..(l + n)
      PROVE  ps[k].seq = all[Done + k].transport_seq /\ ps[k].bytes = Overhead(all[Done + k])
  <2> DEFINE d == Done
  <2> HIDE DEF d
  <2>1. CASE k \in 1..l
    <3>1. d + k \in 1..m
      <4>1. d \in Nat /\ d = m - l
        BY <1>4 DEF d
      <4>2. m \in Nat /\ l \in Nat /\ k \in 1..l
        BY <1>1, <1>3, <2>1
      <4> HIDE DEF m, l
      <4> QED
        BY <4>1, <4>2
    <3>2. all[d + k] = made[d + k]
      BY <1>1, <3>1
    <3> QED
      BY <1>3, <2>1, <3>2 DEF QueueInv, d
  <2>2. CASE k \notin 1..l
    <3> DEFINE j == k - l
    <3>1. j \in 1..n /\ k = l + j
      <4>1. l \in Nat /\ n \in Nat /\ k \in 1..(l + n) /\ k \notin 1..l
        BY <1>1, <1>3, <2>2
      <4> HIDE DEF n, l
      <4> QED
        BY <4>1
    <3>2. d + k = m + j
      <4>1. m \in Nat /\ l \in Nat /\ d = m - l
        BY <1>1, <1>3, <1>4 DEF d
      <4> HIDE DEF j, n, m, l
      <4> QED
        BY <3>1, <4>1
    <3> HIDE DEF j, n, m, l
    <3>3. ps[k] = new[j] /\ all[d + k] = segs[j]
      BY <1>1, <1>3, <3>1, <3>2
    <3> HIDE DEF ps, new, all
    <3> QED
      BY <1>2, <3>1, <3>3 DEF d
  <2> QED
    BY <2>1, <2>2
<1>6. leaked \subseteq leaked'
  BY DEF Frame
<1>7. InOrder(sent, Done)'
  BY <1>4, <1>6 DEF InOrder, QueueInv
<1>8. ASSUME NEW q \in DOMAIN buf'
      PROVE  q \in Queued' \/ buf'[q] \in skipped
  <2>1. Queued \subseteq Queued'
    <3>1. DOMAIN packets = 1..l /\ DOMAIN ps = 1..(l + n)
      BY <1>3 DEF QueueInv
    <3>2. 1..l \subseteq 1..(l + n)
      BY <1>1, <1>3
    <3> QED
      BY <1>3, <3>1, <3>2 DEF Queued
  <2>2. \/ q \in DOMAIN buf /\ buf'[q] = buf[q]
        \/ \E i \in 1..n : segs[i].transport_seq = q
    <3>1. buf' = Buffer(segs) /\ buf \in Maps(1..Len(made))
      BY DEF Frame, Places
    <3> QED
      BY <3>1, BufferOK
  <2>3. CASE q \in DOMAIN buf /\ buf'[q] = buf[q]
    BY <2>1, <2>3 DEF QueueInv
  <2>4. CASE \E i \in 1..n : segs[i].transport_seq = q
    <3>1. PICK i \in 1..n : segs[i].transport_seq = q
      BY <2>4
    <3>2. l + i \in DOMAIN ps /\ ps[l + i] = new[i]
      <4>1. DOMAIN ps = 1..(l + n)
        BY <1>3
      <4>2. ps[l + i] = new[i]
        BY <1>3
      <4>3. i \in 1..n /\ l \in Nat /\ n \in Nat
        BY <1>1, <1>3
      <4> HIDE DEF ps, n, l
      <4>4. l + i \in 1..(l + n)
        BY <4>3
      <4> QED
        BY <4>1, <4>2, <4>4
    <3>3. ps[l + i].seq = q
      <4>1. new[i] = [seq |-> segs[i].transport_seq, bytes |-> Overhead(segs[i])]
        BY <1>2
      <4> HIDE DEF new
      <4>2. new[i].seq = q
        BY <3>1, <4>1
      <4> QED
        BY <3>2, <4>2
    <3> QED
      BY <3>2, <3>3 DEF Queued
  <2> QED
    BY <2>2, <2>3, <2>4
<1>9. packets' \in Seq(R) /\ Len(packets') <= Len(made')
  BY <1>1, <1>3, <1>4
<1>10. \A k \in 1..Len(packets') :
          packets'[k].seq = made'[Done' + k].transport_seq /\ packets'[k].bytes = Overhead(made'[Done' + k])
  BY <1>3, <1>4, <1>5
<1> QED
  BY <1>7, <1>8, <1>9, <1>10 DEF QueueInv

LEMMA FrameIInv ==
    ASSUME IInv, NEW length \in Lengths, OnFrame(length)
    PROVE  IInv'
<1>1. PICK segs : NewSegments(segs) /\ Frame(segs)
  BY FrameMakes DEF IInv, SenderInv
<1>2. /\ UNCHANGED <<rate, target, budget, seg_net, fb_net, arrived, received, sent, sent_ts_map, history,
                     stale, skipped, ahead, reports>>
  BY DEF OnFrame, netVars, recvVars, sentVars
<1>3. /\ MadeOK /\ Places(buf, sent) /\ Pending(pending_len, sent) /\ QueueInv /\ PaceInv
      /\ Times(sent_ts_map, history, stale, sent) /\ WayInv /\ Reported(reports, history)
  BY DEF IInv, SenderInv
<1>4. /\ MadeOK' /\ Len(made') = Len(made) + Len(segs) /\ Len(made) \in Nat /\ Len(segs) \in Nat
      /\ \A i \in 1..Len(made) : made'[i] = made[i]
  BY <1>1, <1>3, FrameMade
<1>5. Places(buf, sent)' /\ leaked \subseteq leaked'
  BY <1>1, <1>2, <1>3, FramePlaces
<1>6. Pending(pending_len, sent)'
  BY <1>1, <1>2, <1>3, FramePending
<1>7. QueueInv'
  BY <1>1, <1>2, <1>3, FrameQueue
<1>8. PaceInv'
  BY <1>2, <1>3, <1>5 DEF PaceInv
<1>9. \A t \in 1..Len(sent) : sent[t] \in 1..Len(made) /\ made'[sent[t]] = made[sent[t]]
  <2>1. \A t \in 1..Len(sent) : sent[t] \in 1..Len(made)
    BY <1>3, ElementOfSeq DEF Places
  <2> QED
    BY <1>4, <2>1
<1>10. \A t \in 1..Len(sent) : Number(sent, t)' = Number(sent, t)
  BY <1>2, <1>9 DEF Number
<1>11. Times(sent_ts_map, history, stale, sent)'
  <2>1. Len(made) > W16 => Len(made') > W16
    BY <1>4, WidthsOK
  <2>2. Times(sent_ts_map, history, stale, sent)
    BY <1>3
  <2>3. \A q \in DOMAIN sent_ts_map : sent_ts_map[q] \in 1..Len(sent)
    BY <2>2, Mapped DEF Times
  <2>4. history \subseteq 1..Len(sent) /\ stale \subseteq 1..Len(sent)
    BY <2>2 DEF Times
  <2>5. \A t \in 1..Len(sent) : made'[sent'[t]].transport_seq = made[sent[t]].transport_seq
    BY <1>2, <1>9
  <2>6. /\ sent_ts_map' \in Maps(1..Len(sent')) /\ history' \in SUBSET (1..Len(sent'))
        /\ stale' \in SUBSET (1..Len(sent'))
    BY <1>2, <2>2 DEF Times
  <2>7. ASSUME NEW q \in DOMAIN sent_ts_map'
        PROVE  sent_ts_map'[q] \in history' /\ Number(sent, sent_ts_map[q])' = q
    <3>1. q \in DOMAIN sent_ts_map /\ sent_ts_map' = sent_ts_map /\ history' = history
      BY <1>2
    <3>2. sent_ts_map[q] \in history /\ Number(sent, sent_ts_map[q]) = q
      BY <2>2, <3>1 DEF Times
    <3>3. made'[sent'[sent_ts_map[q]]].transport_seq = q
      BY <2>3, <2>5, <3>1, <3>2 DEF Number
    <3> QED
      BY <3>1, <3>2, <3>3 DEF Number
  <2>8. ASSUME NEW t \in history'
        PROVE  \/ \E l \in stale' : Number(sent, l)' = Number(sent, t)'
               \/ Number(sent, t)' \in DOMAIN sent_ts_map' /\ sent_ts_map'[Number(sent, t)'] = t
    <3>1. t \in history /\ t \in 1..Len(sent) /\ Number(sent, t)' = Number(sent, t)
      BY <1>2, <1>10, <2>4
    <3>2. \A l \in stale : Number(sent, l)' = Number(sent, l)
      BY <1>10, <2>4
    <3>3. \/ \E l \in stale : Number(sent, l) = Number(sent, t)
          \/ Number(sent, t) \in DOMAIN sent_ts_map /\ sent_ts_map[Number(sent, t)] = t
      BY <2>2, <3>1 DEF Times
    <3>4. CASE \E l \in stale : Number(sent, l) = Number(sent, t)
      <4>1. PICK l \in stale : Number(sent, l) = Number(sent, t)
        BY <3>4
      <4>2. l \in stale' /\ Number(sent, l)' = Number(sent, t)'
        BY <1>2, <3>1, <3>2, <4>1
      <4> QED
        BY <4>2
    <3>5. CASE Number(sent, t) \in DOMAIN sent_ts_map /\ sent_ts_map[Number(sent, t)] = t
      BY <1>2, <3>1, <3>5
    <3> QED
      BY <3>3, <3>4, <3>5
  <2>9. stale' # {} => Len(made') > W16
    BY <1>2, <2>1, <2>2 DEF Times
  <2> QED
    BY <2>6, <2>7, <2>8, <2>9 DEF Times
<1>12. SegmentMessages' = SegmentMessages /\ Arrivals' = Arrivals
       /\ FeedbackMessages' = FeedbackMessages
  <2>1. \A t \in 1..Len(sent) : SendToNetwork(sent[t])' = SendToNetwork(sent[t])
    BY <1>2, <1>9 DEF SendToNetwork
  <2>2. SegmentMessages' = SegmentMessages
    BY <1>2, <2>1 DEF SegmentMessages
  <2>3. Arrivals' = Arrivals
    BY <1>2 DEF Arrivals
  <2> QED
    BY <2>2, <2>3 DEF FeedbackMessages
<1>13. WayInv'
  <2>1. \A seg \in received : \E t \in 1..Len(sent) :
            seg.data = sent[t] /\ Same(seg, made'[seg.data])
    BY <1>3, <1>9 DEF WayInv
  <2> QED
    BY <1>2, <1>3, <1>12, <2>1 DEF WayInv
<1>14. Reported(reports, history)'
  <2>1. \A k \in 1..Len(reports) : reports[k].tx \in 1..Len(sent)
    BY <1>3 DEF Reported, Arrivals
  <2>2. stale \subseteq 1..Len(sent)
    BY <1>3 DEF Times
  <2>3. \A t \in 1..Len(sent) : made'[sent[t]].transport_seq = made[sent[t]].transport_seq
    BY <1>9
  <2>4. ASSUME NEW k \in 1..Len(reports)
        PROVE  /\ reports[k].tx \in Arrivals' /\ reports[k].tx \notin history
               /\ reports[k].seq = made'[sent[reports[k].tx]].transport_seq
               /\ \/ reports[k].sent_ts = reports[k].tx
                  \/ \E l \in stale : made'[sent[l]].transport_seq = reports[k].seq
               /\ \A j \in 1..Len(reports) : reports[j].tx = reports[k].tx => j = k
    <3>1. /\ reports[k].tx \in Arrivals /\ reports[k].tx \notin history
          /\ \A j \in 1..Len(reports) : reports[j].tx = reports[k].tx => j = k
      BY <1>3 DEF Reported
    <3>2. reports[k].tx \in Arrivals'
      BY <1>12, <3>1
    <3>3. reports[k].seq = made'[sent[reports[k].tx]].transport_seq
      BY <1>3, <2>1, <2>3 DEF Reported, Number
    <3>4. \/ reports[k].sent_ts = reports[k].tx
          \/ \E l \in stale : Number(sent, l) = reports[k].seq
      BY <1>3 DEF Reported
    <3>5. \A l \in stale : made'[sent[l]].transport_seq = Number(sent, l)
      BY <2>2, <2>3 DEF Number
    <3> QED
      BY <3>1, <3>2, <3>3, <3>4, <3>5
  <2>5. reports \in Seq([seq : Nat, tx : 1..Len(sent), sent_ts : Nat])
    BY <1>3 DEF Reported
  <2> QED
    BY <1>2, <2>4, <2>5 DEF Reported, Number
<1> QED
  BY <1>4, <1>5, <1>6, <1>7, <1>8, <1>11, <1>13, <1>14 DEF IInv, SenderInv

-----------------------------------------------------------------------------
(***************************************************************************)
(* Process: the budget.                                                    *)
(***************************************************************************)
\* The budget after the time since the last call makes up for what the agent is
\* still ahead then.
LEMMA IncreaseOK ==
    ASSUME PaceInv, NEW e \in Nat, NEW b, b = IncreaseBudget(rate, Least(e, MaxInterval)),
           NEW d, d = Greatest(0, ahead - rate * e)
    PROVE  /\ b \in Int /\ b <= Most /\ d \in Nat
           /\ leaked = {} => d <= Most - b /\ d <= Most + Largest - 1
<1> DEFINE i == Least(e, MaxInterval)
           I == rate * i
           R == rate * e
           W == rate * Window
<1>1. /\ rate \in Rates /\ budget \in Int /\ ahead \in Nat /\ budget <= Most
      /\ leaked = {} => ahead <= Most - budget /\ ahead <= Most + Largest - 1
  BY DEF PaceInv
<1>2. i \in 0..MaxInterval /\ i \in Nat /\ i <= e /\ rate \in Nat
  BY <1>1, PaceNumbers DEF Least
<1>3. /\ W \in Nat /\ W >= Largest /\ Largest \in Nat \ {0} /\ Most \in Nat
      /\ I \in Nat /\ I <= Most /\ R \in Nat
  BY <1>1, <1>2, PaceNumbers
<1>4. I <= R
  <2>1. rate <= rate
    BY <1>2
  <2> HIDE DEF i
  <2> QED
    BY <1>2, <2>1, Products
<1>5. d = IF 0 > ahead - R THEN 0 ELSE ahead - R
  BY DEF Greatest
<1>6. \/ b = budget
      \/ \E owed : /\ owed = IF budget > -W THEN budget ELSE -W
                   /\ \E g : /\ g = IF owed < 0 THEN owed + I ELSE I
                             /\ b = IF W < g THEN W ELSE g
  BY DEF IncreaseBudget, Greatest, Least
<1> HIDE DEF I, R, W, i
<1>7. d \in Nat /\ d <= ahead
  BY <1>1, <1>3, <1>5
<1>8. CASE b = budget
  BY <1>1, <1>3, <1>7, <1>8
<1>9. CASE b # budget
  <2>1. PICK owed : /\ owed = IF budget > -W THEN budget ELSE -W
                    /\ \E g : /\ g = IF owed < 0 THEN owed + I ELSE I
                              /\ b = IF W < g THEN W ELSE g
    BY <1>6, <1>9
  <2>2. PICK g : g = (IF owed < 0 THEN owed + I ELSE I) /\ b = IF W < g THEN W ELSE g
    BY <2>1
  <2>3. owed \in Int /\ (owed = budget \/ owed = -W) /\ owed >= budget
    BY <1>1, <1>3, <2>1
  <2>4. g \in Int /\ g <= I /\ b \in Int /\ b <= g /\ (owed < 0 => g = owed + I)
    BY <1>3, <2>2, <2>3
  <2>5. b <= Most
    BY <1>3, <2>4
  <2>6. ASSUME leaked = {} PROVE d <= Most - b
    <3>1. CASE d = 0
      BY <1>3, <2>4, <2>5, <3>1
    <3>2. CASE d = ahead - R /\ owed = budget
      <4>1. ahead <= Most - budget
        BY <1>1, <2>6
      <4>2. b <= budget + R \/ budget >= 0
        BY <1>1, <1>3, <1>4, <2>3, <2>4, <3>2
      <4>3. CASE budget >= 0
        BY <1>1, <1>3, <1>4, <2>4, <3>2, <4>1, <4>3
      <4>4. CASE b <= budget + R
        BY <1>1, <1>3, <2>4, <3>2, <4>1, <4>4
      <4> QED
        BY <4>2, <4>3, <4>4
    <3>3. CASE d = ahead - R /\ owed = -W
      <4>1. ahead <= Most + Largest - 1
        BY <1>1, <2>6
      <4>2. b <= -W + I
        BY <1>3, <2>3, <2>4, <3>3
      <4> QED
        BY <1>1, <1>3, <1>4, <2>4, <3>3, <4>1, <4>2
    <3> QED
      BY <1>5, <2>3, <3>1, <3>2, <3>3
  <2> QED
    BY <1>1, <1>3, <1>7, <2>4, <2>5, <2>6
<1> QED
  BY <1>8, <1>9

\* The budget stays within what its target rate allows.
LEMMA TargetOK ==
    ASSUME PaceInv, NEW i \in Nat, NEW b, b = IncreaseBudget(rate, i),
           NEW r, r = IF i = 0 THEN target ELSE rate
    PROVE  Within(r, b)
<1> DEFINE I == rate * i
           W == rate * Window
<1>1. rate \in Rates /\ budget \in Int /\ Within(target, budget)
  BY DEF PaceInv
<1>2. CASE i = 0
  BY <1>1, <1>2 DEF IncreaseBudget
<1>3. CASE i # 0
  <2>1. I \in Nat /\ W \in Nat
    BY <1>1, PaceNumbers
  <2>2. PICK owed : /\ owed = IF budget > -W THEN budget ELSE -W
                    /\ \E g : /\ g = IF owed < 0 THEN owed + I ELSE I
                              /\ b = IF W < g THEN W ELSE g
    BY <1>3 DEF IncreaseBudget, Greatest, Least
  <2> HIDE DEF I, W
  <2>3. PICK g : g = (IF owed < 0 THEN owed + I ELSE I) /\ b = IF W < g THEN W ELSE g
    BY <2>2
  <2>4. owed \in Int /\ owed >= -W
    BY <1>1, <2>1, <2>2
  <2>5. g \in Int /\ g >= -W
    BY <2>1, <2>3, <2>4
  <2>6. -W <= b /\ b <= W
    BY <2>1, <2>3, <2>5
  <2> QED
    BY <1>1, <1>3, <2>6 DEF Within, W
<1> QED
  BY <1>2, <1>3

\* The bytes of the first packets of the queue.
LEMMA BytesOK ==
    ASSUME QueueInv
    PROVE  /\ Len(packets) \in Nat /\ Bytes(0) = 0
           /\ \A k \in 0..Len(packets) : Bytes(k) \in Nat
           /\ \A k \in 1..Len(packets) : /\ packets[k].bytes \in 0..Largest
                                         /\ Bytes(k) = Bytes(k - 1) + packets[k].bytes
<1> DEFINE n == Len(packets)
           first(k) == [j \in 1..k |-> packets[j].bytes]
           R == [seq : Nat, bytes : 0..(HeaderSize + SIM_VIDEO_SIZE)]
<1>1. packets \in Seq(R) /\ n \in Nat
  BY DEF QueueInv
<1>2. \A k \in 1..n : packets[k].bytes \in 0..Largest /\ packets[k].bytes \in Nat
  <2>1. \A k \in 1..n : packets[k] \in R
    <3> HIDE DEF R
    <3> QED
      BY <1>1, ElementOfSeq
  <2>2. Largest \in Nat
    BY PaceNumbers
  <2> QED
    BY <2>1, <2>2 DEF Largest
<1>3. ASSUME NEW k \in 0..n
      PROVE  Ints(first(k)) /\ Len(first(k)) = k /\ Bytes(k) = Sum(first(k))
  <2>1. k \in Nat /\ Len(first(k)) = k
    BY <1>1
  <2>2. \A j \in 1..k : first(k)[j] = packets[j].bytes /\ packets[j].bytes \in Int
    <3>1. \A j \in 1..k : j \in 1..n
      BY <1>1
    <3> QED
      BY <1>2, <3>1
  <2> HIDE DEF first
  <2>3. Ints(first(k))
    BY <2>1, <2>2 DEF Ints
  <2> QED
    BY <2>1, <2>3 DEF Bytes, first
<1>4. Bytes(0) = 0
  <2>1. 0 \in 0..n
    BY <1>1
  <2> DEFINE s == first(0)
  <2>2. Len(s) = 0 /\ Bytes(0) = Sum(s)
    <3> HIDE DEF first
    <3> QED
      BY <1>3, <2>1
  <2> HIDE DEF s
  <2> QED
    BY <2>2, SumEmpty
<1>5. ASSUME NEW k \in 1..n PROVE Bytes(k) = Bytes(k - 1) + packets[k].bytes
  <2>1. k \in 0..n /\ k - 1 \in 0..n /\ k \in Nat
    BY <1>1
  <2>2. Ints(first(k)) /\ Len(first(k)) = k /\ Bytes(k) = Sum(first(k))
    BY <1>3, <2>1
  <2>3. Ints(first(k - 1)) /\ Len(first(k - 1)) = k - 1 /\ Bytes(k - 1) = Sum(first(k - 1))
    BY <1>3, <2>1
  <2>4. /\ \A j \in 1..(k - 1) : first(k)[j] = first(k - 1)[j]
        /\ first(k)[k] = packets[k].bytes
    BY <2>1
  <2>5. Len(first(k)) = Len(first(k - 1)) + 1
    BY <2>1, <2>2, <2>3
  <2> DEFINE u == first(k)
             s == first(k - 1)
  <2>6. /\ Ints(s) /\ Ints(u) /\ Len(u) = Len(s) + 1
        /\ \A j \in 1..Len(s) : u[j] = s[j]
    BY <2>2, <2>3, <2>4, <2>5
  <2>7. u[Len(u)] = packets[k].bytes
    BY <2>2, <2>4
  <2> HIDE DEF u, s, first
  <2>8. Sum(u) = Sum(s) + u[Len(u)]
    BY <2>6, SumMore
  <2> QED
    BY <2>2, <2>3, <2>7, <2>8 DEF u, s
<1> DEFINE P == {k \in 0..n : Bytes(k) \in Nat}
<1>6. \A k \in 0..n : k \in P
  <2>1. 0 \in P
    BY <1>1, <1>4
  <2>2. ASSUME NEW k \in 1..n, k - 1 \in P PROVE k \in P
    <3>1. k \in 0..n
      BY <1>1
    <3>2. Bytes(k - 1) \in Nat
      BY <2>2
    <3> HIDE DEF n
    <3> QED
      BY <1>2, <1>5, <3>1, <3>2
  <2> HIDE DEF P, n
  <2> QED
    BY <1>1, <2>1, <2>2, UpTo
<1> QED
  BY <1>1, <1>2, <1>4, <1>5, <1>6

\* Without its last packet what is popped would not use up the budget.
LEMMA PoppedOK ==
    ASSUME QueueInv, NEW b \in Int, NEW n, n = Popped(b)
    PROVE  n \in 0..Len(packets) /\ (n # 0 => Bytes(n) <= b + Largest - 1 /\ b > 0)
<1> DEFINE l == Len(packets)
           K == {k \in 0..l : k = l \/ Bytes(k) >= b}
<1>1. l \in Nat /\ l \in K /\ K \in SUBSET Nat /\ K # {}
  BY BytesOK
<1>2. n = Min(K)
  BY DEF Popped
<1> HIDE DEF K
<1>3. n \in K /\ \A k \in K : n <= k
  BY <1>1, <1>2, LeastOf
<1>4. n \in 0..l
  BY <1>3 DEF K
<1>5. ASSUME n # 0 PROVE Bytes(n) <= b + Largest - 1 /\ b > 0
  <2>1. n \in 1..l /\ n - 1 \in 0..l /\ ~(n <= n - 1)
    BY <1>1, <1>4, <1>5
  <2>2. n - 1 \notin K
    BY <1>3, <2>1
  <2>3. ~(Bytes(n - 1) >= b)
    BY <2>1, <2>2 DEF K
  <2>4. /\ Bytes(n - 1) \in Nat /\ packets[n].bytes \in 0..Largest
        /\ Bytes(n) = Bytes(n - 1) + packets[n].bytes
    BY <2>1, BytesOK
  <2>5. Largest \in Nat
    BY PaceNumbers
  <2>6. b > 0
    BY <2>3, <2>4
  <2> QED
    BY <2>3, <2>4, <2>5, <2>6
<1> QED
  BY <1>4, <1>5

-----------------------------------------------------------------------------
(***************************************************************************)
(* Process: the segments.                                                  *)
(***************************************************************************)
\* What there is after the first k packets were asked for, d being what the
\* agent was ahead before.
Sending(s, k, d) ==
    /\ Places(s.buf, s.sent) /\ Pending(s.pending, s.sent) /\ InOrder(s.sent, Done + k)
    /\ Times(s.ts, history \cup ((Len(sent) + 1)..Len(s.sent)), s.stale, s.sent)
    /\ Len(sent) <= Len(s.sent) /\ \A t \in 1..Len(sent) : s.sent[t] = sent[t]
    /\ \A q \in DOMAIN s.buf : q \in DOMAIN buf /\ s.buf[q] = buf[q]
    /\ sender = "running" => \A j \in 1..k : packets[j].seq \notin DOMAIN s.buf
    /\ stale \subseteq s.stale
    /\ s.ahead \in Nat /\ (leaked = {} => s.ahead <= d + Bytes(k))

\* As long as nothing is lost a packet asks for the next segment.
LEMMA NextSegment ==
    ASSUME MadeOK, QueueInv, leaked = {}, NEW s, NEW k \in 1..Len(packets),
           Places(s.buf, s.sent), InOrder(s.sent, Done + (k - 1)), packets[k].seq \in DOMAIN s.buf
    PROVE  s.buf[packets[k].seq] = Done + k
<1>1. /\ Len(packets) \in Nat /\ Len(made) \in Nat /\ Len(packets) <= Len(made)
      /\ Done = Len(made) - Len(packets)
  BY DEF QueueInv, MadeOK, Done
<1> DEFINE i == Done + k
<1>2. i \in 1..Len(made) /\ i > Done + (k - 1) /\ packets[k].seq = made[i].transport_seq
  <2>1. packets[k].seq = made[i].transport_seq
    BY DEF QueueInv
  <2> QED
    BY <1>1, <2>1
<1> HIDE DEF i
<1>3. ASSUME NEW j \in 1..Len(s.sent) PROVE s.sent[j] # i
  <2>1. s.sent[j] <= Done + (k - 1) /\ s.sent[j] \in Nat
    BY ElementOfSeq DEF InOrder, Places
  <2> QED
    BY <1>1, <1>2, <2>1
<1>4. PICK q \in DOMAIN s.buf : s.buf[q] = i
  BY <1>2, <1>3 DEF Places
<1>5. q = packets[k].seq
  BY <1>2, <1>4 DEF Places
<1> QED
  BY <1>4, <1>5 DEF i

\* The segment goes from buf_ to what is sent.
Moved(b, s, q, b2, s2) ==
    /\ q \in DOMAIN b
    /\ b2 \in Maps(1..Len(made)) /\ DOMAIN b2 = DOMAIN b \ {q}
    /\ \A r \in DOMAIN b2 : b2[r] = b[r]
    /\ s2 \in Seq(1..Len(made)) /\ Len(s2) = Len(s) + 1 /\ Len(s) \in Nat
    /\ \A k \in 1..Len(s) : s2[k] = s[k]
    /\ s2[Len(s) + 1] = b[q]

LEMMA SendPlaces ==
    ASSUME NEW b, NEW s, NEW q, NEW b2, NEW s2, Places(b, s), Moved(b, s, q, b2, s2)
    PROVE  Places(b2, s2)
<1> USE DEF Moved
<1> DEFINE X == 1..Len(made)
           n == Len(s)
           i == b[q]
<1>1. /\ b \in Maps(X) /\ s \in Seq(X) /\ leaked \in SUBSET X
      /\ \A j, k \in 1..n : s[j] = s[k] => j = k
      /\ \A r \in DOMAIN b : made[b[r]].transport_seq = r /\ b[r] \notin leaked
      /\ \A k \in 1..n : s[k] \notin leaked /\ \A r \in DOMAIN b : b[r] # s[k]
      /\ \A x \in X : \/ x \in leaked
                      \/ \E k \in 1..n : s[k] = x
                      \/ \E r \in DOMAIN b : b[r] = x
      /\ leaked # {} => Len(made) > W16
  BY DEF Places
<1>2. DOMAIN b \subseteq Nat /\ \A r \in DOMAIN b : b[r] \in X
  BY <1>1, Mapped
<1>3. b2 \in Maps(X) /\ DOMAIN b2 = DOMAIN b \ {q} /\ \A r \in DOMAIN b2 : b2[r] = b[r]
  OBVIOUS
<1>5. /\ s2 \in Seq(X) /\ Len(s2) = n + 1 /\ n \in Nat
      /\ \A k \in 1..n : s2[k] = s[k]
      /\ s2[n + 1] = i
  OBVIOUS
<1>6. i \in X /\ i \notin leaked /\ \A k \in 1..n : s[k] # i
  BY <1>1, <1>2
<1>7. \A r \in DOMAIN b2 : b2[r] # i
  <2> SUFFICES ASSUME NEW r \in DOMAIN b2, b2[r] = i PROVE FALSE
    OBVIOUS
  <2>1. r \in DOMAIN b /\ r # q /\ b[r] = b[q]
    BY <1>3
  <2> QED
    BY <1>1, <2>1
<1> HIDE DEF i, n, X
<1>8. \A k \in 1..Len(s2) : k \in 1..n \/ k = n + 1
  BY <1>5
<1>9. ASSUME NEW j \in 1..Len(s2), NEW k \in 1..Len(s2), s2[j] = s2[k] PROVE j = k
  <2>1. CASE j \in 1..n /\ k \in 1..n
    BY <1>1, <1>5, <1>9, <2>1
  <2>2. CASE j \in 1..n /\ k = n + 1
    BY <1>5, <1>6, <1>9, <2>2
  <2>3. CASE j = n + 1 /\ k \in 1..n
    BY <1>5, <1>6, <1>9, <2>3
  <2> QED
    BY <1>8, <2>1, <2>2, <2>3
<1>10. ASSUME NEW k \in 1..Len(s2)
       PROVE  s2[k] \notin leaked /\ \A r \in DOMAIN b2 : b2[r] # s2[k]
  <2>1. CASE k \in 1..n
    <3>1. s2[k] = s[k] /\ s[k] \notin leaked
      BY <1>1, <1>5, <2>1
    <3>2. ASSUME NEW r \in DOMAIN b2 PROVE b2[r] # s[k]
      <4>1. r \in DOMAIN b /\ b2[r] = b[r]
        BY <1>3
      <4>2. b[r] # s[k]
        BY <1>1, <2>1, <4>1
      <4> QED
        BY <4>1, <4>2
    <3> QED
      BY <3>1, <3>2
  <2>2. CASE k = n + 1
    BY <1>5, <1>6, <1>7, <2>2
  <2> QED
    BY <1>8, <2>1, <2>2
<1>11. \A x \in X : \/ x \in leaked
                    \/ \E k \in 1..Len(s2) : s2[k] = x
                    \/ \E r \in DOMAIN b2 : b2[r] = x
  <2> TAKE x \in X
  <2>1. CASE \E k \in 1..n : s[k] = x
    <3>1. 1..n \subseteq 1..Len(s2)
      BY <1>5
    <3> QED
      BY <1>5, <2>1, <3>1
  <2>2. CASE x = i
    <3>1. n + 1 \in 1..Len(s2)
      BY <1>5
    <3> QED
      BY <1>5, <2>2, <3>1
  <2>3. CASE x # i /\ \E r \in DOMAIN b : b[r] = x
    <3>1. PICK r \in DOMAIN b : b[r] = x
      BY <2>3
    <3>2. r # q
      BY <2>3, <3>1 DEF i
    <3> QED
      BY <1>3, <3>1, <3>2
  <2> QED
    BY <1>1, <2>1, <2>2, <2>3
<1>12. Places(b2, s2)
  <2>1. /\ b2 \in Maps(1..Len(made)) /\ s2 \in Seq(1..Len(made)) /\ leaked \in SUBSET (1..Len(made))
        /\ leaked # {} => Len(made) > W16
    BY <1>1, <1>3, <1>5 DEF X
  <2>2. \A r \in DOMAIN b2 : made[b2[r]].transport_seq = r /\ b2[r] \notin leaked
    BY <1>1, <1>3
  <2>3. X = 1..Len(made)
    BY DEF X
  <2> QED
    BY <1>9, <1>10, <1>11, <2>1, <2>2, <2>3 DEF Places
<1> QED
  BY <1>12

\* Its transmission has the next number of the adapter.
Timed(ts, h, late, s, q, t, ts2, h2, late2, s2) ==
    /\ s \in Seq(1..Len(made)) /\ q \in Nat /\ t = Len(s) + 1
    /\ s2 \in Seq(1..Len(made)) /\ Len(s2) = t
    /\ \A k \in 1..Len(s) : s2[k] = s[k] /\ s[k] # s2[t]
    /\ Number(s2, t) = q
    /\ h2 \subseteq h \cup {t} /\ h \subseteq h2 /\ t \in h2
    /\ ts2 \in Maps(1..t) /\ DOMAIN ts2 = DOMAIN ts \cup {q}
    /\ \A r \in DOMAIN ts : ts2[r] = ts[r]
    /\ q \notin DOMAIN ts => ts2[q] = t
    /\ late \subseteq late2 /\ late2 \subseteq late \cup {t}
    /\ IF q \in DOMAIN ts THEN t \in late2 ELSE late2 = late

LEMMA SendTimes ==
    ASSUME MadeOK, NEW ts, NEW h, NEW late, NEW s, NEW q, NEW t, NEW ts2, NEW h2, NEW late2,
           NEW s2, Times(ts, h, late, s), Timed(ts, h, late, s, q, t, ts2, h2, late2, s2)
    PROVE  Times(ts2, h2, late2, s2)
<1> USE DEF Timed
<1> DEFINE n == Len(s)
<1>1. /\ n \in Nat /\ t \in 1..t /\ 1..n \subseteq 1..t /\ t \notin 1..n
  OBVIOUS
<1>2. /\ ts \in Maps(1..n) /\ h \in SUBSET (1..n) /\ late \in SUBSET (1..n)
      /\ \A r \in DOMAIN ts : ts[r] \in h /\ Number(s, ts[r]) = r
      /\ \A x \in h : \/ \E l \in late : Number(s, l) = Number(s, x)
                      \/ Number(s, x) \in DOMAIN ts /\ ts[Number(s, x)] = x
      /\ late # {} => Len(made) > W16
  BY DEF Times
<1>3. DOMAIN ts \subseteq Nat /\ \A r \in DOMAIN ts : ts[r] \in 1..n
  BY <1>2, Mapped
<1>4. \A k \in 1..n : Number(s2, k) = Number(s, k)
  BY DEF Number
<1>5. /\ DOMAIN ts2 = DOMAIN ts \cup {q}
      /\ \A r \in DOMAIN ts : ts2[r] = ts[r]
      /\ q \notin DOMAIN ts => ts2[q] = t
  OBVIOUS
<1>6. ts2 \in Maps(1..t)
  OBVIOUS
<1> HIDE DEF n
<1>7. h2 \in SUBSET (1..t) /\ late2 \in SUBSET (1..t)
  BY <1>1, <1>2
<1>8. ASSUME NEW r \in DOMAIN ts2 PROVE ts2[r] \in h2 /\ Number(s2, ts2[r]) = r
  <2>1. CASE r \in DOMAIN ts
    <3>1. ts2[r] = ts[r] /\ ts[r] \in h /\ ts[r] \in 1..n /\ Number(s, ts[r]) = r
      BY <1>2, <1>3, <1>5, <2>1
    <3> QED
      BY <1>4, <3>1
  <2>2. CASE r \notin DOMAIN ts
    <3>1. r = q /\ ts2[r] = t
      BY <1>5, <2>2
    <3> QED
      BY <3>1
  <2> QED
    BY <2>1, <2>2
<1>9. ASSUME NEW x \in h2
      PROVE  \/ \E l \in late2 : Number(s2, l) = Number(s2, x)
             \/ Number(s2, x) \in DOMAIN ts2 /\ ts2[Number(s2, x)] = x
  <2>1. CASE x \in h
    <3>1. x \in 1..n /\ Number(s2, x) = Number(s, x)
      BY <1>2, <1>4, <2>1
    <3>2. CASE \E l \in late : Number(s, l) = Number(s, x)
      <4>1. PICK l \in late : Number(s, l) = Number(s, x)
        BY <3>2
      <4>2. l \in late2 /\ l \in 1..n
        BY <1>2
      <4> QED
        BY <1>4, <3>1, <4>1, <4>2
    <3>3. CASE Number(s, x) \in DOMAIN ts /\ ts[Number(s, x)] = x
      BY <1>5, <3>1, <3>3
    <3> QED
      BY <1>2, <2>1, <3>2, <3>3
  <2>2. CASE x = t
    <3>1. CASE q \in DOMAIN ts
      <4>1. t \in late2
        BY <3>1
      <4> QED
        BY <2>2, <4>1
    <3>2. CASE q \notin DOMAIN ts
      BY <1>5, <2>2, <3>2
    <3> QED
      BY <3>1, <3>2
  <2> QED
    BY <2>1, <2>2
<1>10. ASSUME late2 # {} PROVE Len(made) > W16
  <2>1. CASE q \in DOMAIN ts
    <3> DEFINE x == s[ts[q]]
               y == s2[t]
    <3>1. ts[q] \in 1..n /\ Number(s, ts[q]) = q
      BY <1>2, <1>3, <2>1
    <3>2. x \in 1..Len(made) /\ y \in 1..Len(made) /\ x # y
      <4>1. x \in 1..Len(made)
        BY <3>1, ElementOfSeq DEF n
      <4>2. y \in 1..Len(made)
        BY <1>1, ElementOfSeq
      <4>3. x # y
        BY <3>1 DEF n
      <4> QED
        BY <4>1, <4>2, <4>3
    <3>3. made[x].transport_seq = made[y].transport_seq
      BY <3>1 DEF Number
    <3> HIDE DEF x, y
    <3>4. x % W16 = y % W16
      BY <3>2, <3>3 DEF MadeOK
    <3>5. x \in Nat /\ y \in Nat /\ x > 0 /\ y > 0 /\ W16 \in Nat \ {0} /\ Len(made) \in Nat
      BY <3>2, WidthsOK DEF MadeOK
    <3>6. x > W16 \/ y > W16
      BY <3>2, <3>4, <3>5, Meet
    <3> QED
      BY <3>2, <3>5, <3>6
  <2>2. CASE q \notin DOMAIN ts
    BY <1>2, <1>10, <2>2
  <2> QED
    BY <2>1, <2>2
<1> QED
  BY <1>6, <1>7, <1>8, <1>9, <1>10 DEF Times

\* What is not sent is still in pending_len_.
LEMMA SendPending ==
    ASSUME MadeOK, NEW p, NEW s, s \in Seq(1..Len(made)), Pending(p, s),
           NEW i \in 1..Len(made), NEW s2, s2 = Append(s, i), NEW p2,
           p2 = IF HasObserver THEN p - Overhead(made[i]) ELSE p
    PROVE  Pending(p2, s2)
<1> DEFINE n == Len(s)
           u == [k \in 1..n |-> Overhead(made[s[k]])]
           v == [k \in 1..(n + 1) |-> Overhead(made[s2[k]])]
<1>1. /\ s2 \in Seq(1..Len(made)) /\ Len(s2) = n + 1 /\ n \in Nat
      /\ \A k \in 1..n : s2[k] = s[k]
      /\ s2[n + 1] = i
  OBVIOUS
<1>2. \A j \in 1..Len(made) : Overhead(made[j]) \in Int
  <2>1. \A j \in 1..Len(made) : made[j] \in Segments
    BY ElementOfSeq DEF MadeOK
  <2>2. Largest \in Nat
    BY PaceNumbers
  <2> QED
    BY <2>1, <2>2, Overheads
<1>3. Total(s) = Sum(u) /\ Total(s2) = Sum(v)
  BY <1>1 DEF Total
<1>4. (\A k \in 1..n : s[k] \in 1..Len(made)) /\ \A k \in 1..(n + 1) : s2[k] \in 1..Len(made)
  BY <1>1, ElementOfSeq
<1> HIDE DEF n
<1>5. /\ Ints(u) /\ Ints(v) /\ Len(v) = Len(u) + 1 /\ v[Len(v)] = Overhead(made[i])
      /\ \A k \in 1..Len(u) : v[k] = u[k]
  <2>1. Len(u) = n /\ Len(v) = n + 1
    BY <1>1
  <2>2. \A k \in 1..n : u[k] \in Int
    BY <1>2, <1>4
  <2>3. \A k \in 1..(n + 1) : v[k] \in Int
    BY <1>2, <1>4
  <2>4. n \in Nat /\ n + 1 \in Nat
    BY <1>1
  <2>5. n + 1 \in 1..(n + 1) /\ \A k \in 1..n : k \in 1..(n + 1)
    BY <2>4
  <2>6. v[n + 1] = Overhead(made[i]) /\ \A k \in 1..n : v[k] = u[k]
    BY <1>1, <2>5
  <2> HIDE DEF u, v
  <2>7. Ints(u) /\ Ints(v)
    BY <2>1, <2>2, <2>3, <2>4 DEF Ints
  <2> QED
    BY <2>1, <2>6, <2>7
<1> HIDE DEF u, v
<1>6. Sum(v) = Sum(u) + Overhead(made[i]) /\ Sum(u) \in Int
  BY <1>5, SumMore, SumInt
<1> DEFINE o == Overhead(made[i])
           all == Total([k \in 1..Len(made) |-> k])
<1>7. o \in Int /\ p \in Int /\ p = all - (IF HasObserver THEN Total(s) ELSE 0)
  BY <1>2 DEF Pending
<1>8. all \in Int
  <2>1. Len(made) \in Nat
    BY DEF MadeOK
  <2>2. [k \in 1..Len(made) |-> k] \in Seq(1..Len(made))
    BY <2>1
  <2> QED
    BY <2>2, TotalInt
<1>9. p2 = IF HasObserver THEN p - o ELSE p
  OBVIOUS
<1> HIDE DEF o, all
<1>10. p2 \in Int /\ p2 = all - (IF HasObserver THEN Total(s2) ELSE 0)
  <2>1. Total(s2) = Total(s) + o /\ Total(s) \in Int
    BY <1>3, <1>6 DEF o
  <2> QED
    BY <1>7, <1>8, <1>9, <2>1
<1> QED
  BY <1>10 DEF Pending, all

\* One packet.
LEMMA SendStep ==
    ASSUME MadeOK, QueueInv, sent \in Seq(1..Len(made)), NEW d \in Nat,
           NEW k \in 1..Len(packets), NEW s, Sending(s, k - 1, d)
    PROVE  Sending(TimeToSendPacket(s, packets[k]), k, d)
<1> DEFINE q == packets[k].seq
           n == Len(s.sent)
           t == n + 1
           i == s.buf[q]
           r == TimeToSendPacket(s, packets[k])
           new == (Len(sent) + 1)..n
<1>1. /\ Places(s.buf, s.sent) /\ Pending(s.pending, s.sent) /\ InOrder(s.sent, Done + (k - 1))
      /\ Times(s.ts, history \cup new, s.stale, s.sent)
      /\ Len(sent) <= n /\ \A x \in 1..Len(sent) : s.sent[x] = sent[x]
      /\ \A x \in DOMAIN s.buf : x \in DOMAIN buf /\ s.buf[x] = buf[x]
      /\ sender = "running" => \A j \in 1..(k - 1) : packets[j].seq \notin DOMAIN s.buf
      /\ stale \subseteq s.stale
      /\ s.ahead \in Nat /\ (leaked = {} => s.ahead <= d + Bytes(k - 1))
  BY DEF Sending
<1>2. /\ Len(packets) \in Nat /\ Len(made) \in Nat /\ Done \in Nat /\ k \in Nat /\ k > 0
      /\ Len(sent) \in Nat /\ n \in Nat
  <2>1. Len(packets) \in Nat /\ Len(packets) <= Len(made) /\ Len(made) \in Nat
    BY DEF QueueInv, MadeOK
  <2>2. s.sent \in Seq(1..Len(made))
    BY <1>1 DEF Places
  <2> QED
    BY <2>1, <2>2 DEF Done
<1>3. /\ Bytes(k - 1) \in Nat /\ Bytes(k) \in Nat /\ packets[k].bytes \in Nat
      /\ Bytes(k) = Bytes(k - 1) + packets[k].bytes
  <2>1. k - 1 \in 0..Len(packets) /\ k \in 0..Len(packets)
    BY <1>2
  <2>2. Largest \in Nat
    BY PaceNumbers
  <2> QED
    BY <2>1, <2>2, BytesOK
<1>4. \A j \in 1..k : j \in 1..(k - 1) \/ j = k
  BY <1>2
<1>5. CASE sender # "running" \/ q \notin DOMAIN s.buf
  <2>1. r = s
    BY <1>5 DEF TimeToSendPacket
  <2>2. InOrder(s.sent, Done + k)
    <3>1. \A j \in 1..n : s.sent[j] \in Nat
      <4>1. \A j \in 1..n : s.sent[j] \in 1..Len(made)
        BY <1>1, ElementOfSeq DEF Places
      <4> QED
        BY <1>2, <4>1
    <3>2. \A j \in 1..n : s.sent[j] <= Done + (k - 1) => s.sent[j] <= Done + k
      BY <1>2, <3>1
    <3> QED
      BY <1>1, <3>2 DEF InOrder
  <2>3. sender = "running" => \A j \in 1..k : packets[j].seq \notin DOMAIN s.buf
    BY <1>1, <1>4, <1>5
  <2>4. ASSUME leaked = {} PROVE s.ahead <= d + Bytes(k)
    <3>1. s.ahead \in Nat /\ s.ahead <= d + Bytes(k - 1)
      BY <1>1, <2>4
    <3>2. Bytes(k - 1) <= Bytes(k) /\ Bytes(k) \in Nat /\ Bytes(k - 1) \in Nat
      BY <1>3
    <3> QED
      BY <3>1, <3>2
  <2> HIDE DEF r
  <2> QED
    BY <1>1, <2>1, <2>2, <2>3, <2>4 DEF Sending, r
<1>6. CASE sender = "running" /\ q \in DOMAIN s.buf
  <2>1. /\ r.buf = Restrict(s.buf, DOMAIN s.buf \ {q})
        /\ r.sent = Append(s.sent, i)
        /\ r.pending = IF HasObserver THEN s.pending - Overhead(made[i]) ELSE s.pending
        /\ r.ts = [x \in DOMAIN s.ts \cup {q} |-> IF x \in DOMAIN s.ts THEN s.ts[x] ELSE t]
        /\ r.stale = IF q \in DOMAIN s.ts THEN s.stale \cup {t} ELSE s.stale
        /\ r.ahead = s.ahead + Overhead(made[i])
    BY <1>6 DEF TimeToSendPacket
  <2> HIDE DEF r
  <2>2. /\ Places(r.buf, r.sent)
        /\ Len(r.sent) = n + 1 /\ i \in 1..Len(made)
        /\ \A x \in 1..n : r.sent[x] = s.sent[x]
        /\ r.sent[n + 1] = i
        /\ DOMAIN r.buf = DOMAIN s.buf \ {q} /\ \A x \in DOMAIN r.buf : r.buf[x] = s.buf[x]
    <3> DEFINE b == s.buf
               w == s.sent
               b2 == r.buf
               w2 == r.sent
    <3>1. /\ Places(b, w) /\ q \in DOMAIN b /\ b2 = Restrict(b, DOMAIN b \ {q})
          /\ w2 = Append(w, b[q])
      BY <1>1, <1>6, <2>1
    <3> HIDE DEF b, w, b2, w2, q
    <3>2. /\ DOMAIN b2 = DOMAIN b \ {q} /\ \A x \in DOMAIN b2 : b2[x] = b[x]
          /\ b2 = [x \in DOMAIN b2 |-> b2[x]]
      BY <3>1 DEF Restrict
    <3> DEFINE X == 1..Len(made)
    <3>3. b \in Maps(X) /\ w \in Seq(X)
      BY <3>1 DEF Places
    <3> HIDE DEF X
    <3>4. DOMAIN b \subseteq Nat /\ \A x \in DOMAIN b : b[x] \in X
      BY <3>3, Mapped
    <3>5. b2 \in Maps(X)
      <4>1. b2 \in [DOMAIN b2 -> X]
        BY <3>2, <3>4
      <4> QED
        BY <3>2, <3>4, <4>1 DEF Maps
    <3>6. /\ w2 \in Seq(X) /\ Len(w2) = Len(w) + 1 /\ Len(w) \in Nat
          /\ \A x \in 1..Len(w) : w2[x] = w[x]
          /\ w2[Len(w) + 1] = b[q]
      <4>1. b[q] \in X
        BY <3>1, <3>4
      <4> QED
        BY <3>1, <3>3, <4>1, Added
    <3>7. Places(b2, w2)
      <4>1. /\ Places(b, w) /\ q \in DOMAIN b
            /\ b2 \in Maps(1..Len(made)) /\ DOMAIN b2 = DOMAIN b \ {q}
            /\ \A x \in DOMAIN b2 : b2[x] = b[x]
        BY <3>1, <3>2, <3>5 DEF X
      <4>2. /\ w2 \in Seq(1..Len(made)) /\ Len(w2) = Len(w) + 1 /\ Len(w) \in Nat
            /\ \A x \in 1..Len(w) : w2[x] = w[x]
            /\ w2[Len(w) + 1] = b[q]
        BY <3>6 DEF X
      <4>3. Moved(b, w, q, b2, w2)
        BY <4>1, <4>2 DEF Moved
      <4> QED
        BY <4>1, <4>3, SendPlaces
    <3>8. b[q] \in 1..Len(made)
      BY <3>1, <3>4 DEF X
    <3> QED
      BY <3>2, <3>6, <3>7, <3>8 DEF b, w, b2, w2
  <2>3. s.sent \in Seq(1..Len(made)) /\ r.sent \in Seq(1..Len(made)) /\ made[i].transport_seq = q
        /\ \A x \in 1..n : s.sent[x] # i
    <3>1. s.sent \in Seq(1..Len(made)) /\ r.sent \in Seq(1..Len(made))
      BY <1>1, <2>2 DEF Places
    <3>2. made[i].transport_seq = q
      BY <1>1, <1>6 DEF Places
    <3>3. \A x \in 1..n : s.sent[x] # i
      BY <1>1, <1>6 DEF Places
    <3> QED
      BY <3>1, <3>2, <3>3
  <2>4. Pending(r.pending, r.sent)
    <3> DEFINE p == s.pending
               w == s.sent
               p2 == r.pending
               w2 == r.sent
    <3>1. /\ w \in Seq(1..Len(made)) /\ Pending(p, w) /\ i \in 1..Len(made) /\ w2 = Append(w, i)
          /\ p2 = IF HasObserver THEN p - Overhead(made[i]) ELSE p
      BY <1>1, <2>1, <2>2, <2>3
    <3> HIDE DEF p, w, p2, w2, i
    <3>2. Pending(p2, w2)
      BY <3>1, SendPending
    <3> QED
      BY <3>2 DEF p2, w2
  <2>5. Overhead(made[i]) \in Nat
    <3>1. made[i] \in Segments
      BY <2>2, ElementOfSeq DEF MadeOK
    <3>2. Largest \in Nat
      BY PaceNumbers
    <3> QED
      BY <3>1, <3>2, Overheads
  <2>6. leaked = {} => i = Done + k
    <3>1. ASSUME leaked = {} PROVE i = Done + k
      BY <1>1, <1>6, <3>1, NextSegment
    <3> QED
      BY <3>1
  <2>7. InOrder(r.sent, Done + k)
    <3> SUFFICES ASSUME leaked = {}
                 PROVE  /\ \A j, l \in 1..Len(r.sent) : j < l => r.sent[j] < r.sent[l]
                        /\ \A l \in 1..Len(r.sent) : r.sent[l] <= Done + k
      BY DEF InOrder
    <3> HIDE DEF i, q
    <3>1. \A l \in 1..n : r.sent[l] \in Nat /\ r.sent[l] <= Done + (k - 1)
      <4>1. \A l \in 1..n : s.sent[l] \in 1..Len(made)
        BY <2>3, ElementOfSeq
      <4>2. \A l \in 1..n : s.sent[l] <= Done + (k - 1)
        BY <1>1 DEF InOrder
      <4>3. \A l \in 1..n : s.sent[l] \in Nat
        BY <4>1
      <4>4. \A l \in 1..n : r.sent[l] = s.sent[l]
        BY <2>2
      <4> HIDE DEF n
      <4> QED
        BY <4>2, <4>3, <4>4
    <3>2. r.sent[n + 1] = Done + k
      BY <2>2, <2>6
    <3>3. \A j, l \in 1..n : j < l => r.sent[j] < r.sent[l]
      BY <1>1, <2>2 DEF InOrder
    <3> HIDE DEF n, i
    <3>4. \A l \in 1..Len(r.sent) : l \in 1..n \/ l = n + 1
      BY <1>2, <2>2
    <3>5. ASSUME NEW l \in 1..Len(r.sent) PROVE r.sent[l] <= Done + k
      <4>1. CASE l \in 1..n
        <5>1. r.sent[l] \in Nat /\ r.sent[l] <= Done + (k - 1)
          BY <3>1, <4>1
        <5> QED
          BY <1>2, <5>1
      <4>2. CASE l = n + 1
        BY <1>2, <3>2, <4>2
      <4> QED
        BY <3>4, <4>1, <4>2
    <3>6. ASSUME NEW j \in 1..Len(r.sent), NEW l \in 1..Len(r.sent), j < l
          PROVE  r.sent[j] < r.sent[l]
      <4>1. j \in 1..n
        BY <1>2, <2>2, <3>6
      <4>2. CASE l \in 1..n
        BY <3>3, <3>6, <4>1, <4>2
      <4>3. CASE l = n + 1
        BY <1>2, <3>1, <3>2, <4>1, <4>3
      <4> QED
        BY <3>4, <4>2, <4>3
    <3> QED
      BY <3>5, <3>6
  <2>8. Times(r.ts, history \cup ((Len(sent) + 1)..Len(r.sent)), r.stale, r.sent)
    <3> DEFINE h == history \cup new
               h2 == history \cup ((Len(sent) + 1)..Len(r.sent))
    <3>1. h2 = h \cup {t}
      <4>1. (Len(sent) + 1)..(n + 1) = new \cup {n + 1}
        <5> DEFINE m == Len(sent)
        <5>1. m \in Nat /\ m <= n
          BY <1>1, <1>2
        <5> HIDE DEF m, n
        <5> QED
          BY <1>2, <5>1 DEF m
      <4> QED
        BY <2>2, <4>1
    <3>2. q \in Nat /\ t = Len(s.sent) + 1 /\ Len(r.sent) = t /\ Number(r.sent, t) = q
          /\ (\A x \in 1..Len(s.sent) : s.sent[x] # r.sent[t])
          /\ \A x \in 1..Len(s.sent) : r.sent[x] = s.sent[x]
      <4>1. q \in Nat
        BY <1>1, <1>6, Mapped DEF Places
      <4> QED
        BY <2>2, <2>3, <4>1 DEF Number
    <3>3. Times(s.ts, h, s.stale, s.sent)
      BY <1>1
    <3>4. /\ r.ts = [x \in DOMAIN s.ts \cup {q} |-> IF x \in DOMAIN s.ts THEN s.ts[x] ELSE t]
          /\ r.stale = IF q \in DOMAIN s.ts THEN s.stale \cup {t} ELSE s.stale
      BY <2>1
    <3> DEFINE ts == s.ts
               late == s.stale
               w == s.sent
               ts2 == r.ts
               late2 == r.stale
               w2 == r.sent
    <3> HIDE DEF h, h2, t, q, i
    <3>5. /\ w \in Seq(1..Len(made)) /\ Times(ts, h, late, w) /\ q \in Nat /\ t = Len(w) + 1
          /\ w2 \in Seq(1..Len(made)) /\ Len(w2) = t /\ (\A x \in 1..Len(w) : w2[x] = w[x])
          /\ Number(w2, t) = q /\ (\A x \in 1..Len(w) : w[x] # w2[t]) /\ h2 = h \cup {t}
          /\ ts2 = [x \in DOMAIN ts \cup {q} |-> IF x \in DOMAIN ts THEN ts[x] ELSE t]
          /\ late2 = IF q \in DOMAIN ts THEN late \cup {t} ELSE late
      BY <2>3, <3>1, <3>2, <3>3, <3>4
    <3> HIDE DEF ts, late, w, ts2, late2, w2
    <3>6. /\ DOMAIN ts2 = DOMAIN ts \cup {q} /\ \A x \in DOMAIN ts : ts2[x] = ts[x]
          /\ q \notin DOMAIN ts => ts2[q] = t
          /\ late \subseteq late2 /\ late2 \subseteq late \cup {t}
          /\ IF q \in DOMAIN ts THEN t \in late2 ELSE late2 = late
          /\ h2 \subseteq h \cup {t} /\ h \subseteq h2 /\ t \in h2
      BY <3>5
    <3>7. ts2 \in Maps(1..t)
      <4>1. ts \in Maps(1..Len(w)) /\ Len(w) \in Nat
        BY <3>5 DEF Times
      <4>2. DOMAIN ts \subseteq Nat /\ \A x \in DOMAIN ts : ts[x] \in 1..Len(w)
        BY <4>1, Mapped
      <4>3. t \in 1..t /\ 1..Len(w) \subseteq 1..t
        BY <3>5, <4>1
      <4>4. ts2 \in [DOMAIN ts2 -> 1..t]
        BY <3>5, <3>6, <4>2, <4>3
      <4>5. DOMAIN ts2 \in SUBSET Nat
        BY <3>5, <3>6, <4>2
      <4> QED
        BY <4>4, <4>5 DEF Maps
    <3>8. Times(ts2, h2, late2, w2)
      <4>1. /\ w \in Seq(1..Len(made)) /\ Times(ts, h, late, w) /\ q \in Nat /\ t = Len(w) + 1
            /\ w2 \in Seq(1..Len(made)) /\ Len(w2) = t /\ (\A x \in 1..Len(w) : w2[x] = w[x])
            /\ Number(w2, t) = q /\ (\A x \in 1..Len(w) : w[x] # w2[t])
        BY <3>5
      <4>2. MadeOK
        OBVIOUS
      <4>3. Timed(ts, h, late, w, q, t, ts2, h2, late2, w2)
        BY <3>6, <3>7, <4>1 DEF Timed
      <4> QED
        BY <4>1, <4>2, <4>3, SendTimes
    <3> QED
      BY <3>8 DEF h2, ts2, late2, w2
  <2>9. Len(sent) <= Len(r.sent) /\ \A x \in 1..Len(sent) : r.sent[x] = sent[x]
    <3>1. 1..Len(sent) \subseteq 1..n
      BY <1>1, <1>2
    <3>2. Len(sent) <= n + 1
      BY <1>1, <1>2
    <3> QED
      BY <1>1, <2>2, <3>1, <3>2
  <2>10. /\ \A x \in DOMAIN r.buf : x \in DOMAIN buf /\ r.buf[x] = buf[x]
         /\ \A j \in 1..k : packets[j].seq \notin DOMAIN r.buf
    BY <1>1, <1>4, <1>6, <2>2
  <2>11. stale \subseteq r.stale
    BY <1>1, <2>1
  <2>12. r.ahead \in Nat /\ (leaked = {} => r.ahead <= d + Bytes(k))
    <3>1. leaked = {} => packets[k].bytes = Overhead(made[i])
      BY <2>6 DEF QueueInv
    <3> DEFINE o == Overhead(made[i])
               a == s.ahead
               y == Bytes(k - 1)
    <3>2. o \in Nat /\ r.ahead = a + o /\ (leaked = {} => packets[k].bytes = o)
      BY <2>1, <2>5, <3>1
    <3>3. a \in Nat /\ (leaked = {} => a <= d + y) /\ y \in Nat /\ Bytes(k) = y + packets[k].bytes
      BY <1>1, <1>3
    <3> HIDE DEF o, a, y
    <3> QED
      BY <3>2, <3>3
  <2> QED
    BY <2>2, <2>4, <2>7, <2>8, <2>9, <2>10, <2>11, <2>12 DEF Sending, r
<1> QED
  BY <1>5, <1>6

\* What Process hands from packet to packet.
SendStates ==
    [buf : Maps(1..Len(made)), sent : Seq(1..Len(made)), pending : Int, ts : Maps(Nat),
     stale : SUBSET Nat, ahead : Int]

LEMMA SendType ==
    ASSUME MadeOK, QueueInv, NEW s \in SendStates, NEW k \in 1..Len(packets)
    PROVE  TimeToSendPacket(s, packets[k]) \in SendStates
<1> DEFINE q == packets[k].seq
           X == 1..Len(made)
           b == s.buf
           ts == s.ts
           t == Len(s.sent) + 1
           R == [seq : Nat, bytes : 0..(HeaderSize + SIM_VIDEO_SIZE)]
<1>1. /\ b \in Maps(X) /\ s.sent \in Seq(X) /\ s.pending \in Int /\ ts \in Maps(Nat)
      /\ s.stale \in SUBSET Nat /\ s.ahead \in Int
  BY DEF SendStates
<1>2. q \in Nat
  <2>1. packets \in Seq(R)
    BY DEF QueueInv
  <2> HIDE DEF R
  <2>2. packets[k] \in R
    BY <2>1, ElementOfSeq
  <2> QED
    BY <2>2 DEF R
<1>3. t \in Nat
  BY <1>1
<1>4. CASE sender # "running" \/ q \notin DOMAIN b
  BY <1>4 DEF TimeToSendPacket
<1>5. CASE sender = "running" /\ q \in DOMAIN b
  <2> DEFINE i == b[q]
             b2 == Restrict(b, DOMAIN b \ {q})
             ts2 == [x \in DOMAIN ts \cup {q} |-> IF x \in DOMAIN ts THEN ts[x] ELSE t]
  <2> HIDE DEF b, ts, t, q, X
  <2>1. DOMAIN b \subseteq Nat /\ \A x \in DOMAIN b : b[x] \in X
    BY <1>1, Mapped
  <2>2. i \in X
    BY <1>5, <2>1
  <2>3. Overhead(made[i]) \in Int
    <3>1. made[i] \in Segments
      BY <2>2, ElementOfSeq DEF MadeOK, X
    <3>2. Largest \in Nat
      BY PaceNumbers
    <3> QED
      BY <3>1, <3>2, Overheads
  <2>4. b2 \in Maps(X)
    <3>1. b2 \in [DOMAIN b \ {q} -> X]
      BY <2>1 DEF Restrict
    <3> QED
      BY <2>1, <3>1 DEF Maps
  <2>5. ts2 \in Maps(Nat)
    <3>1. DOMAIN ts \subseteq Nat /\ \A x \in DOMAIN ts : ts[x] \in Nat
      BY <1>1, Mapped
    <3>2. ts2 \in [DOMAIN ts \cup {q} -> Nat]
      BY <1>3, <3>1
    <3>3. DOMAIN ts \cup {q} \in SUBSET Nat
      BY <1>2, <3>1
    <3> QED
      BY <3>2, <3>3 DEF Maps
  <2>6. Append(s.sent, i) \in Seq(X)
    <3> HIDE DEF i
    <3> QED
      BY <1>1, <2>2
  <2> DEFINE p == IF HasObserver THEN s.pending - Overhead(made[i]) ELSE s.pending
             a == s.ahead + Overhead(made[i])
             l == IF q \in DOMAIN ts THEN s.stale \cup {t} ELSE s.stale
             more == Append(s.sent, i)
  <2>7. p \in Int /\ a \in Int
    <3> HIDE DEF i
    <3> QED
      BY <1>1, <2>3
  <2>8. l \in SUBSET Nat
    BY <1>1, <1>3
  <2>9. TimeToSendPacket(s, packets[k])
            = [buf |-> b2, sent |-> more, pending |-> p, ts |-> ts2, stale |-> l, ahead |-> a]
    BY <1>5 DEF TimeToSendPacket, b, ts, t, q
  <2> HIDE DEF b2, more, p, ts2, l, a
  <2> QED
    BY <2>4, <2>5, <2>6, <2>7, <2>8, <2>9 DEF SendStates, X, more
<1> QED
  BY <1>4, <1>5

\* All packets of one call.
LEMMA SendAll ==
    ASSUME MadeOK, QueueInv, Places(buf, sent), Pending(pending_len, sent),
           Times(sent_ts_map, history, stale, sent), NEW d \in Nat,
           NEW n \in 0..Len(packets), NEW after,
           after = CHOOSE f : f = [k \in 0..n |->
                       IF k = 0
                       THEN [buf |-> buf, sent |-> sent, pending |-> pending_len,
                             ts |-> sent_ts_map, stale |-> stale, ahead |-> d]
                       ELSE TimeToSendPacket(f[k - 1], packets[k])]
    PROVE  Sending(after[n], n, d)
<1> DEFINE base == [buf |-> buf, sent |-> sent, pending |-> pending_len, ts |-> sent_ts_map,
                    stale |-> stale, ahead |-> d]
           step == [q \in (1..n) \X SendStates |-> TimeToSendPacket(q[2], packets[q[1]])]
           Is(f) == f = [k \in 0..n |->
                       IF k = 0
                       THEN [buf |-> buf, sent |-> sent, pending |-> pending_len,
                             ts |-> sent_ts_map, stale |-> stale, ahead |-> d]
                       ELSE TimeToSendPacket(f[k - 1], packets[k])]
<1>1. n \in Nat /\ 1..n \subseteq 1..Len(packets) /\ Len(packets) \in Nat
  BY BytesOK
<1>2. PICK g : Recurs(g, n, SendStates, base, step)
  <2>1. base \in SendStates
    <3>1. buf \in Maps(1..Len(made)) /\ sent \in Seq(1..Len(made)) /\ pending_len \in Int
      BY DEF Places, Pending
    <3>2. sent_ts_map \in Maps(Nat) /\ stale \in SUBSET Nat
      <4>1. sent_ts_map \in Maps(1..Len(sent)) /\ stale \in SUBSET (1..Len(sent))
        BY DEF Times
      <4>2. /\ DOMAIN sent_ts_map \subseteq Nat
            /\ sent_ts_map = [q \in DOMAIN sent_ts_map |-> sent_ts_map[q]]
            /\ \A q \in DOMAIN sent_ts_map : sent_ts_map[q] \in 1..Len(sent)
        BY <4>1, Mapped
      <4>3. sent_ts_map \in [DOMAIN sent_ts_map -> Nat]
        BY <4>2
      <4> QED
        BY <4>1, <4>2, <4>3 DEF Maps
    <3> QED
      BY <3>1, <3>2 DEF SendStates
  <2>2. step \in [(1..n) \X SendStates -> SendStates]
    <3>1. ASSUME NEW k \in 1..n, NEW s \in SendStates
          PROVE  TimeToSendPacket(s, packets[k]) \in SendStates
      BY <1>1, SendType
    <3> QED
      BY <3>1
  <2> HIDE DEF base, step
  <2> QED
    BY <1>1, <2>1, <2>2, RecursionExists
<1>3. /\ g \in [0..n -> SendStates] /\ g[0] = base
      /\ \A k \in 1..n : g[k] = TimeToSendPacket(g[k - 1], packets[k])
  <2>1. g \in [0..n -> SendStates] /\ g[0] = base /\ \A k \in 1..n : g[k] = step[<<k, g[k - 1]>>]
    <3> HIDE DEF step, base
    <3> QED
      BY <1>2 DEF Recurs
  <2>2. ASSUME NEW k \in 1..n PROVE g[k] = TimeToSendPacket(g[k - 1], packets[k])
    <3>1. k - 1 \in 0..n
      BY <1>1
    <3>2. g[k - 1] \in SendStates
      BY <2>1, <3>1
    <3>3. <<k, g[k - 1]>> \in (1..n) \X SendStates
      BY <3>2
    <3> QED
      BY <2>1, <3>3
  <2> QED
    BY <2>1, <2>2
<1>4. Is(after)
  <2>1. \A k \in 0..n : k = 0 \/ (k \in 1..n /\ k # 0)
    BY <1>1
  <2>2. Is(g)
    <3>1. g = [k \in 0..n |-> IF k = 0 THEN base ELSE TimeToSendPacket(g[k - 1], packets[k])]
      <4> HIDE DEF base
      <4> QED
        BY <1>3, <2>1
    <3> QED
      BY <3>1
  <2>3. after = CHOOSE f : Is(f)
    OBVIOUS
  <2> HIDE DEF Is
  <2> QED
    BY <2>2, <2>3
<1>5. after[0] = base /\ \A k \in 1..n : after[k] = TimeToSendPacket(after[k - 1], packets[k])
  <2>1. after = [k \in 0..n |-> IF k = 0 THEN base ELSE TimeToSendPacket(after[k - 1], packets[k])]
    BY <1>4
  <2>2. 0 \in 0..n /\ \A k \in 1..n : k \in 0..n /\ k # 0
    BY <1>1
  <2> HIDE DEF base
  <2> QED
    BY <2>1, <2>2
<1> HIDE DEF Is, step
<1> DEFINE P == {k \in 0..n : Sending(after[k], k, d)}
<1>6. 0 \in P
  <2> DEFINE s == after[0]
  <2>1. /\ s.buf = buf /\ s.sent = sent /\ s.pending = pending_len /\ s.ts = sent_ts_map
        /\ s.stale = stale /\ s.ahead = d
    BY <1>5
  <2> HIDE DEF s
  <2>2. Len(sent) \in Nat /\ Done + 0 = Done
    <3>1. sent \in Seq(1..Len(made)) /\ Len(made) \in Nat /\ Len(packets) \in Nat
      BY <1>1 DEF Places, MadeOK
    <3> QED
      BY <3>1 DEF Done
  <2>3. history \cup ((Len(sent) + 1)..Len(sent)) = history
    BY <2>2
  <2>4. d <= d + Bytes(0)
    BY BytesOK
  <2>5. InOrder(s.sent, Done + 0)
    BY <2>1, <2>2 DEF QueueInv
  <2>6. Times(s.ts, history \cup ((Len(sent) + 1)..Len(s.sent)), s.stale, s.sent)
    BY <2>1, <2>3
  <2>7. Sending(s, 0, d)
    BY <2>1, <2>2, <2>4, <2>5, <2>6 DEF Sending
  <2> QED
    BY <1>1, <2>7 DEF s
<1>7. ASSUME NEW k \in 1..n, k - 1 \in P PROVE k \in P
  <2> DEFINE s == after[k - 1]
  <2>1. Sending(s, k - 1, d) /\ k \in 1..Len(packets) /\ after[k] = TimeToSendPacket(s, packets[k])
    BY <1>1, <1>5, <1>7
  <2> HIDE DEF s
  <2>2. sent \in Seq(1..Len(made))
    BY DEF Places
  <2>3. Sending(TimeToSendPacket(s, packets[k]), k, d)
    BY <2>1, <2>2, SendStep
  <2> QED
    BY <2>1, <2>3
<1> HIDE DEF P
<1>8. n \in P
  <2>1. \A k \in 0..n : k \in P
    BY <1>1, <1>6, <1>7, UpTo
  <2> QED
    BY <1>1, <2>1
<1> QED
  BY <1>8 DEF P

-----------------------------------------------------------------------------
(***************************************************************************)
(* Process: the step.                                                      *)
(***************************************************************************)
\* What Process does when n packets are popped with the budget b, s being what
\* TimeToSendPacket made of them.
Paced(s, n, b) ==
    /\ packets' = SubSeq(packets, n + 1, Len(packets))
    /\ budget' = IF n = 0 THEN b ELSE UseBudget(target', b, Bytes(n))
    /\ buf' = s.buf /\ sent' = s.sent /\ pending_len' = s.pending /\ sent_ts_map' = s.ts
    /\ stale' = s.stale /\ ahead' = s.ahead
    /\ history' = history \cup ((Len(sent) + 1)..Len(s.sent))
    /\ seg_net' = seg_net \o [k \in 1..Cardinality((Len(sent) + 1)..Len(s.sent)) |->
                                  SendToNetwork(s.sent[Len(sent) + k])]
    /\ skipped' = IF sender = "running" THEN skipped
                  ELSE skipped \cup {buf[q] : q \in DOMAIN buf \cap {packets[k].seq : k \in 1..n}}
    /\ UNCHANGED <<rate, fb_net, arrived, received, made, frame_seed, leaked, reports>>

LEMMA PaceMakes ==
    ASSUME IInv, NEW e \in Elapses, Process(e), ~paused
    PROVE  \E n \in 0..Len(packets), b \in Int, d \in Nat : \E s :
              /\ Paced(s, n, b) /\ Sending(s, n, d)
              /\ b <= Most /\ (n # 0 => Bytes(n) <= b + Largest - 1 /\ b > 0)
              /\ Within(target', b)
              /\ leaked = {} => d <= Most - b /\ d <= Most + Largest - 1
<1> DEFINE i == Least(e, MaxInterval)
           b == IncreaseBudget(rate, i)
           n == Popped(b)
           d == Greatest(0, ahead - rate * e)
           after == CHOOSE f : f = [k \in 0..n |->
                       IF k = 0
                       THEN [buf |-> buf, sent |-> sent, pending |-> pending_len,
                             ts |-> sent_ts_map, stale |-> stale, ahead |-> d]
                       ELSE TimeToSendPacket(f[k - 1], packets[k])]
           s == after[n]
<1>1. /\ MadeOK /\ QueueInv /\ Places(buf, sent) /\ Pending(pending_len, sent) /\ PaceInv
      /\ Times(sent_ts_map, history, stale, sent) /\ e \in Nat
  BY AgentsAssumption DEF IInv, SenderInv
<1>2. Pace(i, e) /\ UNCHANGED <<rate, fb_net, arrived, received, made, frame_seed, leaked, reports>>
  BY DEF Process, recvVars
<1>3. Paced(s, n, b)
  <2> HIDE DEF i
  <2>1. Pace(i, e)
    BY <1>2
  <2> QED
    BY <1>2, <2>1 DEF Pace, Paced
<1>4. b \in Int /\ b <= Most /\ d \in Nat
      /\ (leaked = {} => d <= Most - b /\ d <= Most + Largest - 1)
  <2> DEFINE bb == b
             dd == d
  <2>1. bb = IncreaseBudget(rate, Least(e, MaxInterval)) /\ dd = Greatest(0, ahead - rate * e)
    OBVIOUS
  <2> HIDE DEF bb, dd
  <2>2. bb \in Int /\ bb <= Most /\ dd \in Nat
        /\ (leaked = {} => dd <= Most - bb /\ dd <= Most + Largest - 1)
    BY <1>1, <2>1, IncreaseOK
  <2> QED
    BY <2>2 DEF bb, dd
<1>5. n \in 0..Len(packets) /\ (n # 0 => Bytes(n) <= b + Largest - 1 /\ b > 0)
  <2> HIDE DEF b
  <2> DEFINE nn == n
  <2>1. nn = Popped(b)
    OBVIOUS
  <2> HIDE DEF nn
  <2>2. nn \in 0..Len(packets) /\ (nn # 0 => Bytes(nn) <= b + Largest - 1 /\ b > 0)
    BY <1>1, <1>4, <2>1, PoppedOK
  <2> QED
    BY <2>2 DEF nn
<1>6. Sending(s, n, d)
  <2> HIDE DEF n, d
  <2>1. after = CHOOSE f : f = [k \in 0..n |->
                       IF k = 0
                       THEN [buf |-> buf, sent |-> sent, pending |-> pending_len,
                             ts |-> sent_ts_map, stale |-> stale, ahead |-> d]
                       ELSE TimeToSendPacket(f[k - 1], packets[k])]
    OBVIOUS
  <2> HIDE DEF after
  <2> QED
    BY <1>1, <1>4, <1>5, <2>1, SendAll
<1>7. Within(target', b)
  <2> DEFINE bb == b
             ii == i
  <2>1. bb = IncreaseBudget(rate, ii) /\ target' = IF ii = 0 THEN target ELSE rate
    BY <1>2 DEF Pace
  <2>2. ii \in Nat
    BY <1>1, PaceNumbers DEF Least
  <2> HIDE DEF bb, ii
  <2>3. Within(target', bb)
    BY <1>1, <2>1, <2>2, TargetOK
  <2> QED
    BY <2>3 DEF bb
<1> HIDE DEF i, b, n, d, s
<1> QED
  BY <1>3, <1>4, <1>5, <1>6, <1>7

\* What is still queued is what was made last.
LEMMA PacedQueue ==
    ASSUME MadeOK, QueueInv, NEW n \in 0..Len(packets), NEW b, NEW d, NEW s,
           Paced(s, n, b), Sending(s, n, d)
    PROVE  QueueInv'
<1> DEFINE R == [seq : Nat, bytes : 0..(HeaderSize + SIM_VIDEO_SIZE)]
           l == Len(packets)
<1>1. /\ packets \in Seq(R) /\ l \in Nat /\ l <= Len(made) /\ Len(made) \in Nat /\ n \in 0..l
      /\ \A k \in 1..l : /\ packets[k].seq = made[Done + k].transport_seq
                         /\ packets[k].bytes = Overhead(made[Done + k])
      /\ \A q \in DOMAIN buf : q \in Queued \/ buf[q] \in skipped
  BY DEF QueueInv, MadeOK
<1>2. /\ packets' = SubSeq(packets, n + 1, l) /\ buf' = s.buf /\ sent' = s.sent
      /\ made' = made /\ leaked' = leaked
      /\ skipped' = IF sender = "running" THEN skipped
                    ELSE skipped \cup {buf[q] : q \in DOMAIN buf \cap {packets[k].seq : k \in 1..n}}
  BY DEF Paced
<1> HIDE DEF R
<1>3. /\ packets' \in Seq(R) /\ Len(packets') = l - n
      /\ \A k \in 1..(l - n) : packets'[k] = packets[n + k]
  <2>1. SubSeq(packets, n + 1, l) \in Seq(R) /\ Len(SubSeq(packets, n + 1, l)) = l - n
        /\ \A k \in 1..(l - n) : SubSeq(packets, n + 1, l)[k] = packets[n + k]
    BY <1>1, Dropped
  <2> QED
    BY <1>2, <2>1
<1> HIDE DEF l
<1>4. Done' = Done + n /\ Done \in Nat
  <2>1. Done = Len(made) - l /\ Done' = Len(made') - Len(packets')
    BY DEF Done, l
  <2>2. Len(made') = Len(made) /\ Len(packets') = l - n
    BY <1>2, <1>3
  <2> QED
    BY <1>1, <2>1, <2>2
<1>5. Len(packets') <= Len(made')
  BY <1>1, <1>2, <1>3
<1>6. ASSUME NEW k \in 1..Len(packets')
      PROVE  /\ packets'[k].seq = made'[Done' + k].transport_seq
             /\ packets'[k].bytes = Overhead(made'[Done' + k])
  <2>1. n + k \in 1..l /\ k \in 1..(l - n) /\ Done + (n + k) = Done' + k
    BY <1>1, <1>3, <1>4
  <2>2. packets[n + k].seq = made[Done + (n + k)].transport_seq
        /\ packets[n + k].bytes = Overhead(made[Done + (n + k)])
    BY <1>1, <2>1
  <2> QED
    BY <1>2, <1>3, <2>1, <2>2
<1>7. InOrder(sent, Done)'
  BY <1>2, <1>4 DEF InOrder, Sending
<1>8. ASSUME NEW q \in DOMAIN buf' PROVE q \in Queued' \/ buf'[q] \in skipped'
  <2>1. q \in DOMAIN buf /\ buf'[q] = buf[q]
    BY <1>2 DEF Sending
  <2>2. CASE buf[q] \in skipped
    BY <1>2, <2>1, <2>2
  <2>3. CASE q \in Queued
    <3>1. PICK k \in 1..l : q = packets[k].seq
      <4>1. DOMAIN packets = 1..l
        BY <1>1 DEF l
      <4> QED
        BY <2>3, <4>1 DEF Queued
    <3>2. CASE k \in 1..n
      <4>1. sender # "running"
        BY <1>2, <3>1, <3>2 DEF Sending
      <4>2. q \in DOMAIN buf \cap {packets[j].seq : j \in 1..n}
        BY <2>1, <3>1, <3>2
      <4> QED
        BY <1>2, <2>1, <4>1, <4>2
    <3>3. CASE k \notin 1..n
      <4>1. k - n \in 1..(l - n) /\ n + (k - n) = k
        BY <1>1, <3>1, <3>3
      <4>2. packets'[k - n] = packets[k]
        BY <1>3, <4>1
      <4>3. DOMAIN packets' = 1..(l - n)
        BY <1>3
      <4> QED
        BY <3>1, <4>1, <4>2, <4>3 DEF Queued
    <3> QED
      BY <3>2, <3>3
  <2> QED
    BY <1>1, <2>1, <2>2, <2>3
<1> QED
  BY <1>3, <1>5, <1>6, <1>7, <1>8 DEF QueueInv, R

\* The budget lacks what was sent ahead.
LEMMA PacedPace ==
    ASSUME PaceInv, QueueInv, NEW n \in 0..Len(packets), NEW b \in Int, NEW d \in Nat, NEW s,
           Paced(s, n, b), Sending(s, n, d),
           b <= Most, n # 0 => Bytes(n) <= b + Largest - 1 /\ b > 0, Within(target', b),
           leaked = {} => d <= Most - b /\ d <= Most + Largest - 1
    PROVE  PaceInv'
<1> DEFINE W == target' * Window
           m == Bytes(n)
           a == s.ahead
<1>1. /\ rate \in Rates /\ W \in Nat /\ (target' # 0 => W >= Largest) /\ (target' = 0 => W = 0)
      /\ Largest \in Nat \ {0} /\ Most \in Nat
      /\ target' \in Rates \cup {0} /\ -W <= b /\ b <= W
  <2>1. rate \in Rates /\ target' \in Rates \cup {0} /\ -W <= b /\ b <= W
    BY DEF PaceInv, Within
  <2>2. CASE target' = 0
    <3>1. W = 0
      BY <2>2, AgentsAssumption
    <3> QED
      BY <2>1, <2>2, <3>1, PaceNumbers
  <2>3. CASE target' \in Rates
    <3>1. W \in Nat /\ W >= Largest /\ target' # 0
      BY <2>3, AgentsAssumption, PaceNumbers
    <3> QED
      BY <2>1, <3>1, PaceNumbers
  <2> QED
    BY <2>1, <2>2, <2>3
<1>2. m \in Nat /\ (n = 0 => m = 0)
  BY BytesOK
<1>3. a \in Nat /\ (leaked = {} => a <= d + m)
  BY DEF Sending
<1>4. /\ ahead' = a /\ rate' = rate /\ leaked' = leaked
      /\ budget' = IF n = 0 THEN b ELSE IF b - m > -W THEN b - m ELSE -W
  BY DEF Paced, UseBudget, Greatest
<1>5. n # 0 => m <= b + Largest - 1 /\ b > 0
  OBVIOUS
<1> HIDE DEF W, m, a
<1>6. /\ budget' \in Int /\ budget' <= Most /\ -W <= budget' /\ budget' <= W
      /\ n # 0 => W >= Largest
  BY <1>1, <1>2, <1>4, <1>5
<1>7. ASSUME leaked = {} PROVE a <= Most - budget' /\ a <= Most + Largest - 1
  <2>1. d <= Most - b /\ d <= Most + Largest - 1 /\ a <= d + m
    BY <1>3, <1>7
  <2>2. CASE n = 0
    BY <1>1, <1>2, <1>3, <1>4, <2>1, <2>2
  <2>3. CASE n # 0
    <3>1. a <= Most + Largest - 1
      BY <1>1, <1>2, <1>3, <1>5, <2>1, <2>3
    <3>2. a <= Most - budget'
      BY <1>1, <1>2, <1>3, <1>4, <1>6, <2>1, <2>3, <3>1
    <3> QED
      BY <3>1, <3>2
  <2> QED
    BY <2>2, <2>3
<1>8. Within(target, budget)'
  BY <1>1, <1>6 DEF Within, W
<1> QED
  BY <1>1, <1>3, <1>4, <1>6, <1>7, <1>8 DEF PaceInv

\* The new messages are about the new transmissions.
LEMMA PacedWay ==
    ASSUME WayInv, Places(buf, sent), NEW n, NEW b, NEW d, NEW s, Paced(s, n, b), Sending(s, n, d)
    PROVE  WayInv' /\ Arrivals \subseteq Arrivals'
<1> DEFINE l == Len(sent)
           m == Cardinality((l + 1)..Len(s.sent))
           add == [k \in 1..m |-> SendToNetwork(s.sent[l + k])]
<1>1. /\ sent \in Seq(1..Len(made)) /\ s.sent \in Seq(1..Len(made)) /\ l <= Len(s.sent)
      /\ \A t \in 1..l : s.sent[t] = sent[t]
  BY DEF Sending, Places
<1>2. /\ sent' = s.sent /\ seg_net' = seg_net \o add
      /\ UNCHANGED <<made, fb_net, arrived, received>>
  BY DEF Paced
<1>3. /\ SegmentMessages \subseteq SegmentMessages' /\ Arrivals \subseteq Arrivals'
      /\ FeedbackMessages \subseteq FeedbackMessages'
  <2>1. /\ received \subseteq received' /\ made' = made
        /\ sent' \in Seq(1..Len(made)) /\ Len(sent) <= Len(sent')
        /\ \A t \in 1..Len(sent) : sent'[t] = sent[t]
    BY <1>1, <1>2
  <2> QED
    BY <1>1, <2>1, MoreMessages
<1>4. l \in Nat /\ Len(s.sent) \in Nat /\ m = Len(s.sent) - l /\ m \in Nat
  <2>1. l \in Nat /\ Len(s.sent) \in Nat
    BY <1>1
  <2> DEFINE z == Len(s.sent)
  <2>2. l \in Nat /\ z \in Nat /\ l <= z
    BY <1>1, <2>1
  <2> HIDE DEF l, z
  <2>3. l + 1 \in Int /\ z \in Int
    BY <2>2
  <2>4. Cardinality((l + 1)..z) = IF l + 1 > z THEN 0 ELSE z - (l + 1) + 1
    BY <2>3, FS_Interval
  <2>5. Cardinality((l + 1)..z) = z - l
    BY <2>2, <2>4
  <2> QED
    BY <2>2, <2>5 DEF z
<1>5. add \in Seq(SegmentMessages')
  <2>1. ASSUME NEW k \in 1..m PROVE SendToNetwork(s.sent[l + k]) \in SegmentMessages'
    <3>1. l + k \in 1..Len(sent')
      <4> HIDE DEF l, m
      <4> QED
        BY <1>2, <1>4
    <3> HIDE DEF l
    <3> QED
      BY <3>1, <1>2 DEF SegmentMessages, SendToNetwork
  <2>2. add \in [1..m -> SegmentMessages']
    BY <2>1
  <2> HIDE DEF m, l, add
  <2> QED
    BY <1>4, <2>2
<1> HIDE DEF add, l, m
<1>6. seg_net' \in Seq(SegmentMessages')
  <2>1. seg_net \in Seq(SegmentMessages)
    BY DEF WayInv
  <2>2. seg_net \in Seq(SegmentMessages')
    BY <1>3, <2>1, MoreSeq
  <2>3. seg_net \o add \in Seq(SegmentMessages')
    BY <1>5, <2>2, Joined
  <2> QED
    BY <1>2, <2>3
<1>7. fb_net' \in Seq(FeedbackMessages')
  <2>1. fb_net \in Seq(FeedbackMessages)
    BY DEF WayInv
  <2>2. fb_net \in Seq(FeedbackMessages')
    BY <1>3, <2>1, MoreSeq
  <2> QED
    BY <1>2, <2>2
<1>8. arrived' \in SUBSET Arrivals'
  BY <1>2, <1>3 DEF WayInv
<1>9. ASSUME NEW seg \in received'
      PROVE  \E t \in 1..Len(sent') : seg.data = sent'[t] /\ Same(seg, made'[seg.data])
  <2>1. PICK t \in 1..l : seg.data = sent[t] /\ Same(seg, made[seg.data])
    BY <1>2 DEF WayInv, l
  <2>2. sent'[t] = sent[t]
    BY <1>1, <1>2, <2>1
  <2>3. t \in 1..Len(s.sent)
    <3>1. l \in Nat /\ Len(s.sent) \in Nat /\ l <= Len(s.sent) /\ t \in 1..l
      BY <1>1, <1>4, <2>1
    <3> HIDE DEF l
    <3> QED
      BY <3>1
  <2>4. t \in 1..Len(sent')
    BY <1>2, <2>3
  <2> QED
    BY <1>2, <2>1, <2>2, <2>4
<1> QED
  BY <1>3, <1>6, <1>7, <1>8, <1>9 DEF WayInv

\* What was reported stays what it was.
LEMMA PacedReported ==
    ASSUME Reported(reports, history), Places(buf, sent), Times(sent_ts_map, history, stale, sent),
           NEW n, NEW b, NEW d, NEW s, Paced(s, n, b), Sending(s, n, d),
           Arrivals \subseteq Arrivals'
    PROVE  Reported(reports, history)'
<1> DEFINE l == Len(sent)
           R == [seq : Nat, tx : 1..Len(sent), sent_ts : Nat]
           R2 == [seq : Nat, tx : 1..Len(sent'), sent_ts : Nat]
<1>1. /\ l \in Nat /\ Len(sent') \in Nat /\ l <= Len(sent')
      /\ \A t \in 1..l : sent'[t] = sent[t]
      /\ history' = history \cup ((l + 1)..Len(sent'))
      /\ reports' = reports /\ stale \subseteq stale' /\ stale \subseteq 1..l /\ made' = made
  <2>1. sent \in Seq(1..Len(made)) /\ s.sent \in Seq(1..Len(made))
    BY DEF Sending, Places
  <2>2. /\ sent' = s.sent /\ history' = history \cup ((l + 1)..Len(s.sent))
        /\ reports' = reports /\ made' = made /\ stale' = s.stale
    BY DEF Paced
  <2>3. Len(sent) <= Len(s.sent) /\ (\A t \in 1..l : s.sent[t] = sent[t]) /\ stale \subseteq s.stale
    BY DEF Sending
  <2>4. stale \subseteq 1..l
    BY DEF Times
  <2>5. Len(sent) \in Nat /\ Len(s.sent) \in Nat
    BY <2>1
  <2> QED
    BY <2>2, <2>3, <2>4, <2>5
<1> HIDE DEF l
<1>2. \A t \in 1..l : t \in 1..Len(sent') /\ t \notin (l + 1)..Len(sent')
  BY <1>1
<1>3. \A t \in 1..l : made'[sent'[t]].transport_seq = Number(sent, t)
  BY <1>1 DEF Number
<1>4. reports' \in Seq(R2)
  <2>1. R \subseteq R2
    BY <1>2 DEF l
  <2>2. reports \in Seq(R)
    BY DEF Reported
  <2> HIDE DEF R, R2
  <2>3. reports \in Seq(R2)
    BY <2>1, <2>2, MoreSeq
  <2> QED
    BY <1>1, <2>3
<1>5. ASSUME NEW k \in 1..Len(reports)
      PROVE  /\ reports[k].tx \in Arrivals' /\ reports[k].tx \notin history'
             /\ reports[k].seq = made'[sent'[reports[k].tx]].transport_seq
             /\ \/ reports[k].sent_ts = reports[k].tx
                \/ \E x \in stale' : made'[sent'[x]].transport_seq = reports[k].seq
             /\ \A j \in 1..Len(reports) : reports[j].tx = reports[k].tx => j = k
  <2> DEFINE t == reports[k].tx
  <2>1. /\ t \in Arrivals /\ t \notin history /\ reports[k].seq = Number(sent, t)
        /\ reports[k].sent_ts = t \/ \E x \in stale : Number(sent, x) = reports[k].seq
        /\ \A j \in 1..Len(reports) : reports[j].tx = t => j = k
    BY DEF Reported
  <2>2. t \in 1..l
    BY <2>1 DEF Arrivals, l
  <2>3. reports[k].sent_ts = t \/ \E x \in stale' : made'[sent'[x]].transport_seq = reports[k].seq
    BY <1>1, <1>3, <2>1
  <2>4. t \notin history'
    BY <1>1, <1>2, <2>1, <2>2
  <2> QED
    BY <1>3, <2>1, <2>2, <2>3, <2>4
<1> QED
  BY <1>1, <1>4, <1>5 DEF Reported, Number

LEMMA PaceIInv ==
    ASSUME IInv, NEW e \in Elapses, Process(e), ~paused
    PROVE  IInv'
<1>1. PICK n \in 0..Len(packets), b \in Int, d \in Nat : \E s :
              /\ Paced(s, n, b) /\ Sending(s, n, d)
              /\ b <= Most /\ (n # 0 => Bytes(n) <= b + Largest - 1 /\ b > 0)
              /\ Within(target', b)
              /\ leaked = {} => d <= Most - b /\ d <= Most + Largest - 1
  BY PaceMakes
<1>2. PICK s : /\ Paced(s, n, b) /\ Sending(s, n, d)
               /\ b <= Most /\ (n # 0 => Bytes(n) <= b + Largest - 1 /\ b > 0)
               /\ Within(target', b)
               /\ leaked = {} => d <= Most - b /\ d <= Most + Largest - 1
  BY <1>1
<1>3. /\ MadeOK /\ QueueInv /\ Places(buf, sent) /\ PaceInv
      /\ Times(sent_ts_map, history, stale, sent) /\ WayInv /\ Reported(reports, history)
  BY DEF IInv, SenderInv
<1>4. /\ buf' = s.buf /\ sent' = s.sent /\ pending_len' = s.pending /\ sent_ts_map' = s.ts
      /\ stale' = s.stale /\ history' = history \cup ((Len(sent) + 1)..Len(s.sent))
      /\ made' = made /\ frame_seed' = frame_seed /\ leaked' = leaked
  BY <1>2 DEF Paced
<1>5. /\ Places(s.buf, s.sent) /\ Pending(s.pending, s.sent)
      /\ Times(s.ts, history \cup ((Len(sent) + 1)..Len(s.sent)), s.stale, s.sent)
  BY <1>2 DEF Sending
<1>6. MadeOK'
  BY <1>3, <1>4 DEF MadeOK
<1>7. Places(buf, sent)'
  BY <1>4, <1>5 DEF Places
<1>8. Pending(pending_len, sent)'
  <2>1. Total([i \in 1..Len(made) |-> i])' = Total([i \in 1..Len(made) |-> i])
    BY <1>4 DEF Total
  <2>2. Total(sent)' = Total(s.sent)
    BY <1>4 DEF Total
  <2> QED
    BY <1>4, <1>5, <2>1, <2>2 DEF Pending
<1>9. QueueInv'
  BY <1>2, <1>3, PacedQueue
<1>10. PaceInv'
  BY <1>2, <1>3, PacedPace
<1>11. Times(sent_ts_map, history, stale, sent)'
  BY <1>4, <1>5 DEF Times, Number
<1>12. WayInv' /\ Arrivals \subseteq Arrivals'
  BY <1>2, <1>3, PacedWay
<1>13. Reported(reports, history)'
  BY <1>2, <1>3, <1>12, PacedReported
<1> QED
  BY <1>6, <1>7, <1>8, <1>9, <1>10, <1>11, <1>12, <1>13 DEF IInv, SenderInv

-----------------------------------------------------------------------------
(***************************************************************************)
(* The invariant holds, and what follows from it.                          *)
(***************************************************************************)
LEMMA NextIInv == IInv /\ [Next]_vars => IInv'
<1> SUFFICES ASSUME IInv, [Next]_vars PROVE IInv'
  OBVIOUS
<1>1. CASE \E length \in Lengths : OnFrame(length)
  BY <1>1, FrameIInv
<1>2. CASE \E e \in Elapses : Process(e)
  BY <1>2, PadIInv, PaceIInv
<1>3. CASE Switch \/ StartSender \/ StopSender \/ StartReceiver \/ StopReceiver
  BY <1>3, SwitchIInv
<1>4. CASE RecvSegment
  BY <1>4, RecvIInv
<1>5. CASE LoseSegment
  BY <1>5, LoseIInv
<1>6. CASE SendTransportFeedback
  BY <1>6, FeedbackIInv
<1>7. CASE IncomingFeedBack
  BY <1>7, IncomingIInv
<1>8. CASE UNCHANGED vars
  <2>1. UNCHANGED <<pacerVars, sentVars, frameVars, made, sent, seg_net, fb_net, arrived, received,
                    history, reports, stale>>
    BY <1>8 DEF vars, netVars, recvVars, sentVars, frameVars
  <2>2. SenderInv'
    BY <2>1, SenderKept DEF IInv
  <2>3. WayInv'
    BY <2>1, WayKept DEF IInv
  <2>4. Arrivals \subseteq Arrivals'
    BY <2>1 DEF Arrivals
  <2>5. Reported(reports, history)'
    BY <2>1, <2>4, ReportedKept DEF IInv
  <2> QED
    BY <2>2, <2>3, <2>5 DEF IInv
<1> QED
  BY <1>1, <1>2, <1>3, <1>4, <1>5, <1>6, <1>7, <1>8 DEF Next

LEMMA AlwaysIInv == Spec => []IInv
<1>1. Init => IInv
  BY InitInv
<1>2. IInv /\ [Next]_vars => IInv'
  BY NextIInv
<1> QED
  BY <1>1, <1>2, PTL DEF Spec

\* A function that takes no value twice has as many values as arguments.
LEMMA OneToOne ==
    ASSUME NEW X, IsFiniteSet(X), NEW f, f \in [DOMAIN f -> X],
           \A x, y \in DOMAIN f : f[x] = f[y] => x = y
    PROVE  /\ IsFiniteSet(DOMAIN f) /\ Range(f) \in SUBSET X /\ IsFiniteSet(Range(f))
           /\ Cardinality(Range(f)) = Cardinality(DOMAIN f)
<1> DEFINE D == DOMAIN f
           R == Range(f)
<1>1. R \in SUBSET X
  BY DEF Range
<1>2. f \in Injection(D, R) /\ f \in Surjection(D, R)
  BY DEF Injection, Surjection, IsInjective, Range
<1> HIDE DEF D, R
<1>3. IsFiniteSet(R)
  BY <1>1, FS_Subset
<1>4. IsFiniteSet(D) /\ Cardinality(D) = Cardinality(R)
  BY <1>2, <1>3, FS_Injection
<1> QED
  BY <1>1, <1>3, <1>4 DEF D, R

LEMMA SegmentsCounted ==
    ASSUME MadeOK, Places(buf, sent)
    PROVE  /\ IsInjective(sent)
           /\ UNION {Range(sent), Range(buf), leaked} = DOMAIN made
           /\ Len(sent) + Cardinality(DOMAIN buf) + Cardinality(leaked) = Len(made)
<1> DEFINE X == 1..Len(made)
           A == Range(sent)
           B == Range(buf)
<1>1. /\ buf \in Maps(X) /\ sent \in Seq(X) /\ leaked \in SUBSET X
      /\ \A j, k \in 1..Len(sent) : sent[j] = sent[k] => j = k
      /\ \A q \in DOMAIN buf : made[buf[q]].transport_seq = q /\ buf[q] \notin leaked
      /\ \A k \in 1..Len(sent) : sent[k] \notin leaked /\ \A q \in DOMAIN buf : buf[q] # sent[k]
      /\ \A i \in X : \/ i \in leaked
                      \/ \E k \in 1..Len(sent) : sent[k] = i
                      \/ \E q \in DOMAIN buf : buf[q] = i
  BY DEF Places
<1>2. Len(made) \in Nat /\ DOMAIN made = X
  BY DEF MadeOK
<1>3. IsFiniteSet(X) /\ Cardinality(X) = Len(made)
  <2>1. Len(made) \in Int /\ 1 \in Int
    BY <1>2
  <2>2. IsFiniteSet(1..Len(made))
        /\ Cardinality(1..Len(made)) = IF 1 > Len(made) THEN 0 ELSE Len(made) - 1 + 1
    BY <2>1, FS_Interval
  <2> QED
    BY <1>2, <2>2
<1> HIDE DEF X
<1>4. Len(sent) \in Nat /\ DOMAIN sent = 1..Len(sent) /\ sent \in [DOMAIN sent -> X]
  BY <1>1
<1>5. buf \in [DOMAIN buf -> X]
  <2>1. buf = [q \in DOMAIN buf |-> buf[q]] /\ \A q \in DOMAIN buf : buf[q] \in X
    BY <1>1, Mapped
  <2> QED
    BY <2>1
<1>6. /\ IsFiniteSet(DOMAIN sent) /\ A \in SUBSET X /\ IsFiniteSet(A)
      /\ Cardinality(A) = Cardinality(DOMAIN sent)
  <2>1. \A j, k \in DOMAIN sent : sent[j] = sent[k] => j = k
    BY <1>1, <1>4
  <2> QED
    BY <1>3, <1>4, <2>1, OneToOne
<1>7. /\ IsFiniteSet(DOMAIN buf) /\ B \in SUBSET X /\ IsFiniteSet(B)
      /\ Cardinality(B) = Cardinality(DOMAIN buf)
  <2>1. \A q, r \in DOMAIN buf : buf[q] = buf[r] => q = r
    <3> SUFFICES ASSUME NEW q \in DOMAIN buf, NEW r \in DOMAIN buf, buf[q] = buf[r] PROVE q = r
      OBVIOUS
    <3>1. made[buf[q]].transport_seq = q /\ made[buf[r]].transport_seq = r
      BY <1>1
    <3> QED
      BY <3>1
  <2> QED
    BY <1>3, <1>5, <2>1, OneToOne
<1>8. Cardinality(DOMAIN sent) = Len(sent)
  <2> DEFINE l == Len(sent)
  <2>1. l \in Nat /\ DOMAIN sent = 1..l
    BY <1>4
  <2> HIDE DEF l
  <2>2. 1 \in Int /\ l \in Int
    BY <2>1
  <2>3. Cardinality(1..l) = IF 1 > l THEN 0 ELSE l - 1 + 1
    BY <2>2, FS_Interval
  <2>4. Cardinality(1..l) = l
    BY <2>1, <2>3
  <2> QED
    BY <2>1, <2>4 DEF l
<1>9. A \cap B = {} /\ (A \cup B) \cap leaked = {} /\ (A \cup B) \cup leaked = X
  <2>1. A = {sent[k] : k \in 1..Len(sent)} /\ B = {buf[q] : q \in DOMAIN buf}
    BY <1>4 DEF Range
  <2>2. A \cap B = {} /\ (A \cup B) \cap leaked = {}
    BY <1>1, <2>1
  <2>3. X \subseteq (A \cup B) \cup leaked
    BY <1>1, <2>1
  <2> HIDE DEF A, B
  <2> QED
    BY <1>1, <1>6, <1>7, <2>2, <2>3
<1> HIDE DEF A, B
<1>10. IsFiniteSet(leaked)
  BY <1>1, <1>3, FS_Subset
<1>11. IsFiniteSet(A \cup B) /\ Cardinality(A \cup B) = Cardinality(A) + Cardinality(B)
  <2>1. Cardinality(A \cup B) = Cardinality(A) + Cardinality(B) - Cardinality(A \cap B)
        /\ IsFiniteSet(A \cup B)
    BY <1>6, <1>7, FS_Union
  <2>2. Cardinality(A \cap B) = 0
    BY <1>9, FS_EmptySet
  <2>3. Cardinality(A) \in Nat /\ Cardinality(B) \in Nat
    BY <1>6, <1>7, FS_CardinalityType
  <2> QED
    BY <2>1, <2>2, <2>3
<1>12. Cardinality(X) = Cardinality(A \cup B) + Cardinality(leaked)
  <2> DEFINE C == A \cup B
  <2>1. IsFiniteSet(C) /\ C \cap leaked = {} /\ C \cup leaked = X
    BY <1>9, <1>11
  <2> HIDE DEF C
  <2>2. Cardinality(C \cup leaked)
            = Cardinality(C) + Cardinality(leaked) - Cardinality(C \cap leaked)
    BY <1>10, <2>1, FS_Union
  <2>3. Cardinality(C \cap leaked) = 0
    BY <2>1, FS_EmptySet
  <2>4. Cardinality(C) \in Nat /\ Cardinality(leaked) \in Nat
    BY <1>10, <2>1, FS_CardinalityType
  <2>5. Cardinality(X) = Cardinality(C \cup leaked)
    BY <2>1
  <2>6. Cardinality(X) = Cardinality(C) + Cardinality(leaked)
    <3> DEFINE x == Cardinality(C \cup leaked)
               c == Cardinality(C)
               y == Cardinality(leaked)
               z == Cardinality(C \cap leaked)
    <3>1. x = c + y - z /\ z = 0 /\ c \in Nat /\ y \in Nat
      BY <2>2, <2>3, <2>4
    <3> HIDE DEF x, c, y, z
    <3>2. x = c + y
      BY <3>1
    <3> QED
      BY <2>5, <3>2 DEF x, c, y
  <2> QED
    BY <2>6 DEF C
<1>13. IsInjective(sent)
  BY <1>1, <1>4 DEF IsInjective
<1>14. UNION {A, B, leaked} = DOMAIN made
  BY <1>2, <1>9
<1>15. Len(sent) + Cardinality(DOMAIN buf) + Cardinality(leaked) = Len(made)
  BY <1>3, <1>6, <1>7, <1>8, <1>11, <1>12
<1> QED
  BY <1>13, <1>14, <1>15 DEF A, B

LEMMA InPlace == IInv => SegmentsInPlace
<1> SUFFICES ASSUME IInv PROVE SegmentsInPlace
  OBVIOUS
<1>1. MadeOK /\ Places(buf, sent) /\ Pending(pending_len, sent) /\ QueueInv
  BY DEF IInv, SenderInv
<1>2. /\ IsInjective(sent)
      /\ UNION {Range(sent), Range(buf), leaked} = DOMAIN made
      /\ Len(sent) + Cardinality(DOMAIN buf) + Cardinality(leaked) = Len(made)
  BY <1>1, SegmentsCounted
<1>3. leaked # {} => Len(made) > W16
  BY <1>1 DEF Places
<1>4. leaked = {} => \A j, k \in DOMAIN sent : j < k => sent[j] < sent[k]
  <2>1. DOMAIN sent = 1..Len(sent)
    BY <1>1 DEF Places
  <2> QED
    BY <1>1, <2>1 DEF QueueInv, InOrder
<1>5. \A q \in DOMAIN buf : q \in Queued \/ buf[q] \in skipped
  BY <1>1 DEF QueueInv
<1>6. pending_len = Total([i \in 1..Len(made) |-> i]) - (IF HasObserver THEN Total(sent) ELSE 0)
  BY <1>1 DEF Pending
<1> QED
  BY <1>2, <1>3, <1>4, <1>5, <1>6 DEF SegmentsInPlace

LEMMA TrueReports == IInv => ReportsAreTrue
<1> SUFFICES ASSUME IInv PROVE ReportsAreTrue
  OBVIOUS
<1>1. Places(buf, sent) /\ Times(sent_ts_map, history, stale, sent) /\ WayInv
      /\ Reported(reports, history)
  BY DEF IInv, SenderInv
<1>2. DOMAIN sent = 1..Len(sent) /\ DOMAIN reports = 1..Len(reports)
  BY <1>1 DEF Places, Reported
<1>3. ASSUME NEW seg \in received PROVE seg.data \in Range(sent) /\ Same(seg, made[seg.data])
  <2>1. PICK t \in 1..Len(sent) : seg.data = sent[t] /\ Same(seg, made[seg.data])
    BY <1>1 DEF WayInv
  <2> QED
    BY <1>2, <2>1 DEF Range
<1>4. \A t : NumberOf(t) = Number(sent, t)
  BY DEF NumberOf, Number
<1>5. ASSUME NEW k \in 1..Len(reports)
      PROVE  /\ \A j \in 1..Len(reports) : reports[j].tx = reports[k].tx => j = k
             /\ reports[k].tx \in 1..Len(sent) /\ reports[k].seq = NumberOf(reports[k].tx)
             /\ \E seg \in received : seg.data = sent[reports[k].tx]
             /\ \/ reports[k].sent_ts = reports[k].tx
                \/ \E t \in stale : NumberOf(t) = reports[k].seq
  <2>1. /\ reports[k].tx \in Arrivals /\ reports[k].seq = Number(sent, reports[k].tx)
        /\ reports[k].sent_ts = reports[k].tx \/ \E l \in stale : Number(sent, l) = reports[k].seq
        /\ \A j \in 1..Len(reports) : reports[j].tx = reports[k].tx => j = k
    BY <1>1 DEF Reported
  <2>2. reports[k].tx \in 1..Len(sent) /\ \E seg \in received : seg.data = sent[reports[k].tx]
    BY <2>1 DEF Arrivals
  <2> QED
    BY <1>4, <2>1, <2>2
<1>6. stale # {} => Len(made) > W16
  BY <1>1 DEF Times
<1>7. \A q \in DOMAIN sent_ts_map : sent_ts_map[q] \in history
  BY <1>1 DEF Times
<1> QED
  BY <1>2, <1>3, <1>5, <1>6, <1>7 DEF ReportsAreTrue

\* Every segment of OnFrame is sent once, waits in buf_ or has lost its slot,
\* in the order of the frames, and pending_len_ counts what is not sent.
THEOREM SegmentsAlwaysInPlace == Spec => []SegmentsInPlace
<1>1. Spec => []IInv
  BY AlwaysIInv
<1>2. IInv => SegmentsInPlace
  BY InPlace
<1> QED
  BY <1>1, <1>2, PTL

\* However Process is called, paused and switched, the agent is never ahead of
\* its greatest rate by more than one capped interval and one packet.
THEOREM AlwaysPaced == Spec => []PacedRate
<1>1. Spec => []IInv
  BY AlwaysIInv
<1>2. IInv => PacedRate
  <2> SUFFICES ASSUME IInv, leaked = {}
               PROVE  ahead <= MaxRate * MaxInterval + HeaderSize + SIM_VIDEO_SIZE - 1
    BY DEF PacedRate
  <2>1. ahead \in Nat /\ ahead <= Most + Largest - 1
    BY DEF IInv, SenderInv, PaceInv
  <2>2. Most \in Nat /\ HeaderSize \in Nat /\ SIM_VIDEO_SIZE \in Nat
    BY PaceNumbers, AgentsAssumption, WireAssumption
  <2>3. Most + Largest - 1 = Most + HeaderSize + SIM_VIDEO_SIZE - 1
    BY <2>2 DEF Largest
  <2> QED
    BY <2>1, <2>3 DEF Most
<1> QED
  BY <1>1, <1>2, PTL

\* What is decoded is what was made, and what is reported arrived, is reported
\* once and with its own time.
THEOREM ReportsAlwaysTrue == Spec => []ReportsAreTrue
<1>1. Spec => []IInv
  BY AlwaysIInv
<1>2. IInv => ReportsAreTrue
  BY TrueReports
<1> QED
  BY <1>1, <1>2, PTL
=============================================================================
