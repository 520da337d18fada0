----------------------- MODULE MultipathReceiverProofs ----------------------
(***************************************************************************)
(* Proofs about MultipathReceiver, for every number of paths and frames    *)
(* and every split of the frames over the paths.                           *)
(***************************************************************************)
EXTENDS MultipathReceiver, PathReceiverProofs

\* A non-empty set of naturals up to n has a greatest element, which Max finds.
LEMMA MaxIsGreatest ==
    ASSUME NEW n \in Nat, NEW S \in SUBSET (0..n), S # {}
    PROVE  Max(S) \in S /\ \A y \in S : y <= Max(S)
<1> DEFINE T == {n - x : x \in S}
           z == Min(T)
<1>1. T \in SUBSET Nat /\ T # {}
  <2>1. \A x \in S : n - x \in Nat /\ n - x \in T
    OBVIOUS
  <2> QED
    BY <2>1
<1>2. z \in T /\ \A y \in T : z <= y
  BY <1>1, MinIsLeast
<1> HIDE DEF z
<1>3. PICK x \in S : z = n - x
  BY <1>2
<1>4. \A y \in S : x >= y
  <2> SUFFICES ASSUME NEW y \in S PROVE x >= y
    OBVIOUS
  <2>1. z <= n - y
    BY <1>2
  <2>2. x \in Int /\ y \in Int
    OBVIOUS
  <2> HIDE DEF T
  <2> QED
    BY <1>3, <2>1, <2>2
<1> QED
  BY <1>4 DEF Max

\* A packet is a path and an id on it, and belongs to a frame.
LEMMA PacketParts ==
    ASSUME NEW pk \in PathPackets
    PROVE  /\ pk[1] \in Paths /\ pk[2] \in 1..Len(Layout[pk[1]])
           /\ pk = <<pk[1], pk[2]>>
           /\ Fid(pk) \in Frames /\ Idx(pk) \in Nat /\ Idx(pk) < Total[Fid(pk)]
<1>1. pk[1] \in Paths /\ pk[2] \in 1..Len(Layout[pk[1]]) /\ pk = <<pk[1], pk[2]>>
  BY DEF PathPackets
<1>2. Layout[pk[1]] \in Seq([fid : Frames, index : Nat])
  BY <1>1, LayoutAssumption
<1> DEFINE R == [fid : Frames, index : Nat]
           q == Layout[pk[1]]
           k == pk[2]
<1>3. Layout[pk[1]][pk[2]] \in R
  <2>1. q \in Seq(R) /\ k \in 1..Len(q)
    BY <1>1, <1>2
  <2> HIDE DEF R, q, k
  <2>2. q[k] \in R
    BY <2>1
  <2> QED
    BY <2>2 DEF q, k
<1>4. Idx(pk) < Total[Fid(pk)]
  BY LayoutAssumption
<1> QED
  BY <1>1, <1>3, <1>4 DEF Fid, Idx

\* The id of a packet of a path makes a packet.
LEMMA PacketOf ==
    ASSUME NEW p \in Paths, NEW s \in 1..Len(Layout[p])
    PROVE  <<p, s>> \in PathPackets
  BY DEF PathPackets

\* A path carries its packets in the order of frames.
LEMMA FidsAscend ==
    ASSUME NEW p \in Paths, NEW s \in 1..Len(Layout[p]), NEW m \in 1..Len(Layout[p]), s <= m
    PROVE  Fid(<<p, s>>) <= Fid(<<p, m>>)
<1> DEFINE a == <<p, s>>
           b == <<p, m>>
<1>1. a \in PathPackets /\ b \in PathPackets
  BY PacketOf
<1>2. a[1] = p /\ b[1] = p /\ a[2] = s /\ b[2] = m
  OBVIOUS
<1>3. Fid(a) \in Nat /\ Fid(b) \in Nat
  <2> HIDE DEF a, b
  <2>1. Fid(a) \in Frames /\ Fid(b) \in Frames
    BY <1>1, PacketParts
  <2>2. NumFrames \in Nat
    BY LayoutAssumption
  <2> QED
    BY <2>1, <2>2 DEF Frames
<1>4. CASE s = m
  BY <1>3, <1>4
<1>5. CASE s # m
  <2> HIDE DEF a, b
  <2>1. s \in Int /\ m \in Int /\ s < m
    <3>1. Len(Layout[p]) \in Nat
      BY LayoutAssumption
    <3> QED
      BY <1>5, <3>1
  <2>2. Fid(a) < Fid(b) \/ Fid(a) = Fid(b)
    BY <1>1, <1>2, <2>1, LayoutAssumption
  <2>3. Fid(a) <= Fid(b)
    BY <1>3, <2>2
  <2> QED
    BY <2>3 DEF a, b
<1> QED
  BY <1>4, <1>5

\* OnReceiveSegment puts the origin before the frame of the first segment: as many
\* packets before the segment as its index says would all have smaller indexes of
\* the same frame, and one more does not fit.
LEMMA EarlierFrame ==
    ASSUME NEW p \in Paths, NEW s \in 1..Len(Layout[p]), NEW t, t.max = 0, t.base = 0,
           NEW x \in 1..Len(Layout[p]), x <= StartAt(t, s, Idx(<<p, s>>)).base
    PROVE  Fid(<<p, x>>) < Fid(<<p, s>>)
<1> DEFINE n == Len(Layout[p])
           i == Idx(<<p, s>>)
           fid(k) == Fid(<<p, k>>)
           idx(k) == Idx(<<p, k>>)
<1>1. \A k \in 1..n : fid(k) \in Nat /\ idx(k) \in Nat
  <2>1. \A k \in 1..n : fid(k) \in Frames /\ idx(k) \in Nat
    BY PacketOf, PacketParts
  <2>2. NumFrames \in Nat
    BY LayoutAssumption
  <2> HIDE DEF fid, idx
  <2> QED
    BY <2>1, <2>2 DEF Frames
<1>2. \A k, m \in 1..n : k < m => fid(k) < fid(m) \/ (fid(k) = fid(m) /\ idx(k) < idx(m))
  <2> SUFFICES ASSUME NEW k \in 1..n, NEW m \in 1..n, k < m
               PROVE  fid(k) < fid(m) \/ (fid(k) = fid(m) /\ idx(k) < idx(m))
    OBVIOUS
  <2> DEFINE a == <<p, k>>
             b == <<p, m>>
  <2>1. a \in PathPackets /\ b \in PathPackets /\ a[1] = b[1] /\ a[2] < b[2]
    BY PacketOf
  <2> HIDE DEF a, b
  <2>2. Fid(a) < Fid(b) \/ (Fid(a) = Fid(b) /\ Idx(a) < Idx(b))
    BY <2>1, LayoutAssumption
  <2> QED
    BY <2>2 DEF a, b
<1>3. n \in Nat /\ i = idx(s)
  BY LayoutAssumption
<1>4. x <= s - i - 1
  <2>1. n \in Nat /\ s \in 1..n /\ x \in 1..n /\ i \in Nat
    BY <1>1, <1>3
  <2> HIDE DEF n, i
  <2>2. CASE s > i
    <3>1. StartAt(t, s, i) = [t EXCEPT !.max = s - i - 1, !.base = s - i - 1]
      BY <2>2 DEF StartAt
    <3>2. StartAt(t, s, i).base \in {s - i - 1, t.base}
      BY <3>1
    <3> QED
      BY <2>1, <2>2, <3>2 DEF i
  <2>3. CASE ~(s > i)
    <3>1. StartAt(t, s, i).base = 0
      BY <2>3 DEF StartAt
    <3> QED
      BY <2>1, <3>1 DEF i
  <2> QED
    BY <2>2, <2>3
<1> HIDE DEF n, i, fid, idx
<1>5. SUFFICES ASSUME ~(fid(x) < fid(s)) PROVE FALSE
  BY DEF fid
<1>6. s \in Nat /\ x \in Nat /\ i \in Nat /\ x \in 1..n /\ s \in 1..n /\ x < s /\ i < s - x
  BY <1>1, <1>3, <1>4 DEF n
<1> DEFINE S == x..(s - 1)
           T == 0..(i - 1)
           h == [k \in S |-> idx(k)]
\* Every packet from x up to the segment is of its frame, with a smaller index.
<1>7. \A k \in S : k \in 1..n /\ fid(k) = fid(s) /\ idx(k) \in T
  <2> SUFFICES ASSUME NEW k \in S PROVE k \in 1..n /\ fid(k) = fid(s) /\ idx(k) \in T
    OBVIOUS
  <2>1. k \in 1..n /\ k < s /\ x <= k
    BY <1>3, <1>6
  <2>2. fid(k) < fid(s) \/ (fid(k) = fid(s) /\ idx(k) < idx(s))
    BY <1>2, <1>6, <2>1
  <2>3. fid(x) <= fid(k)
    <3>1. CASE x = k
      BY <1>1, <2>1, <3>1
    <3>2. CASE x # k
      <4>1. x < k
        BY <1>6, <2>1, <3>2
      <4>2. fid(x) < fid(k) \/ fid(x) = fid(k)
        BY <1>2, <1>6, <2>1, <4>1
      <4> QED
        BY <1>1, <1>6, <2>1, <4>2
    <3> QED
      BY <3>1, <3>2
  <2>4. fid(x) \in Nat /\ fid(k) \in Nat /\ fid(s) \in Nat /\ idx(k) \in Nat /\ idx(s) \in Nat
    BY <1>1, <1>6, <2>1
  <2>5. fid(k) = fid(s) /\ idx(k) < idx(s)
    BY <1>5, <2>2, <2>3, <2>4
  <2> QED
    BY <1>3, <1>6, <2>1, <2>4, <2>5
<1>8. /\ IsFiniteSet(S) /\ Cardinality(S) = s - x
      /\ IsFiniteSet(T) /\ Cardinality(T) = i
  <2> DEFINE y == s - 1
             z == i - 1
  <2>1. x \in Int /\ y \in Int /\ z \in Int /\ 0 \in Int /\ S = x..y /\ T = 0..z
    BY <1>6
  <2>2. ~(x > y) /\ y - x + 1 = s - x /\ (IF 0 > z THEN 0 ELSE z - 0 + 1) = i
    BY <1>6
  <2> HIDE DEF S, T, y, z
  <2>3. IsFiniteSet(S) /\ Cardinality(S) = IF x > y THEN 0 ELSE y - x + 1
    BY ONLY <2>1, FS_Interval
  <2>4. IsFiniteSet(T) /\ Cardinality(T) = IF 0 > z THEN 0 ELSE z - 0 + 1
    BY ONLY <2>1, FS_Interval
  <2> QED
    BY <2>2, <2>3, <2>4
<1>9. h \in [S -> T] /\ Cardinality(T) < Cardinality(S)
  <2>1. h \in [S -> T]
    BY <1>7
  <2> HIDE DEF S, T, h
  <2> QED
    BY <1>6, <1>8, <2>1
<1>10. PICK k, m \in S : k # m /\ h[k] = h[m]
  <2> HIDE DEF S, T, h
  <2> QED
    BY <1>8, <1>9, FS_PigeonHole
<1>11. /\ k \in 1..n /\ m \in 1..n /\ fid(k) = fid(m) /\ idx(k) = idx(m)
       /\ k < m \/ m < k
  BY <1>3, <1>6, <1>7, <1>10
<1>12. fid(k) \in Nat /\ fid(m) \in Nat /\ idx(k) \in Nat /\ idx(m) \in Nat
  BY <1>1, <1>11
<1> QED
  BY <1>2, <1>11, <1>12

-----------------------------------------------------------------------------
\* What holds of the tables of one path: they are exact for what it handed
\* over, and a path that handed over nothing has not begun.
TabOK(t, G, o, p) ==
    /\ Exact(t, G)
    /\ G \in SUBSET (1..Len(Layout[p]))
    /\ t.max <= Len(Layout[p])
    /\ o \in 0..NumFrames
    /\ t.max = 0 => t.base = 0 /\ o = 0

TabsOK(tabs, G, O) == \A p \in Paths : TabOK(tabs[p], G[p], O[p], p)

\* What holds of a cached frame: it was made for a packet, each of its packets
\* was handed over by its path, and they are counted.
FrameOK(fr, f, G) ==
    /\ fr \in [recv : Nat, packets : SUBSET PathPackets]
    /\ fr.packets # {}
    /\ IsFiniteSet(fr.packets)
    /\ fr.recv = Cardinality(fr.packets)
    /\ \A pk \in fr.packets : Fid(pk) = f /\ pk[2] \in G[pk[1]]

CacheOK(cache, G) ==
    /\ DOMAIN cache \in SUBSET Frames
    /\ \A f \in DOMAIN cache : FrameOK(cache[f], f, G)

HeldIn(cache) == UNION {cache[f].packets : f \in DOMAIN cache}

\* SkippedIsGone for any tables and histories.
Skipped(tabs, G, O, rel) ==
    \A p \in Paths : \A s \in 1..tabs[p].base :
        s \in G[p] \/ Fid(<<p, s>>) < O[p] \/ Fid(<<p, s>>) <= rel

Ahead(cache, fid) == \A f \in DOMAIN cache : f > fid

ForwardedOK == forwarded \in Seq([fid : Frames, recv : Nat])

\* The inductive invariant.
IInv ==
    /\ {DOMAIN tables, DOMAIN got, DOMAIN begun} = {Paths}
    /\ TabsOK(tables, got, begun)
    /\ CacheOK(frame_cache, got)
    /\ Skipped(tables, got, begun, released)
    /\ Ahead(frame_cache, min_fid)
    /\ {min_fid, released, clock} \subseteq 0..NumFrames
    /\ discarded \in Nat
    /\ recv_buf_len = Cardinality(HeldIn(frame_cache)) + discarded
    /\ ForwardedOK

\* The frames of a cache that CheckDeliverFrame takes are in front of the others.
LEMMA LeavingInFront ==
    ASSUME NEW cache, DOMAIN cache \in SUBSET Frames
    PROVE  /\ Leaving(cache) \in SUBSET (DOMAIN cache)
           /\ Leaving(cache) \in SUBSET (0..NumFrames) /\ NumFrames \in Nat
           /\ \A f \in DOMAIN cache \ Leaving(cache), l \in Leaving(cache) : f > l
<1>1. Leaving(cache) \in SUBSET (DOMAIN cache)
  BY DEF Leaving
<1>2. NumFrames \in Nat /\ DOMAIN cache \in SUBSET (1..NumFrames)
  BY LayoutAssumption DEF Frames
<1>3. ASSUME NEW f \in DOMAIN cache \ Leaving(cache), NEW l \in Leaving(cache)
      PROVE  f > l
  <2>1. PICK g \in DOMAIN cache : g <= f /\ ~Ready(cache, g)
    BY DEF Leaving
  <2>2. ~(g <= l)
    BY <2>1 DEF Leaving
  <2>3. f \in Int /\ g \in Int /\ l \in Int
    BY <1>1, <1>2
  <2> QED
    BY <2>1, <2>2, <2>3
<1> QED
  BY <1>1, <1>2, <1>3

\* Frames that are different hold different packets, and finitely many.
LEMMA HeldFinite ==
    ASSUME NEW cache, NEW G, CacheOK(cache, G), NEW S \in SUBSET (DOMAIN cache)
    PROVE  IsFiniteSet(UNION {cache[f].packets : f \in S})
<1>1. IsFiniteSet(Frames)
  BY LayoutAssumption, FS_Interval DEF Frames
<1>2. IsFiniteSet(S)
  BY <1>1, FS_Subset DEF CacheOK
<1> DEFINE F == [f \in S |-> cache[f].packets]
           U == {cache[f].packets : f \in S}
<1>3. IsFiniteSet(U)
  <2>1. F \in Surjection(S, U)
    BY DEF Surjection
  <2> HIDE DEF F, U
  <2> QED
    BY <1>2, <2>1, FS_Surjection
<1>4. \A A \in U : IsFiniteSet(A)
  BY DEF CacheOK, FrameOK
<1> HIDE DEF U
<1>5. IsFiniteSet(UNION U)
  BY <1>3, <1>4, FS_UNION
<1> QED
  BY <1>5 DEF U

\* PacketConsumed: what the paths give up has left the buffer.
LEMMA PacketConsumedOK ==
    ASSUME NEW tabs, NEW G, NEW O, NEW consumed \in SUBSET PathPackets,
           NEW rel \in Nat, NEW rel2 \in Nat, rel <= rel2,
           TabsOK(tabs, G, O), Skipped(tabs, G, O, rel),
           \A c \in consumed : c[2] \in G[c[1]] /\ Fid(c) <= rel2
    PROVE  /\ TabsOK(PacketConsumed(tabs, consumed), G, O)
           /\ Skipped(PacketConsumed(tabs, consumed), G, O, rel2)
<1> SUFFICES ASSUME NEW p \in Paths
             PROVE  /\ TabOK(PacketConsumed(tabs, consumed)[p], G[p], O[p], p)
                    /\ \A s \in 1..PacketConsumed(tabs, consumed)[p].base :
                          s \in G[p] \/ Fid(<<p, s>>) < O[p] \/ Fid(<<p, s>>) <= rel2
  BY DEF TabsOK, Skipped
<1> DEFINE ids == {pk[2] : pk \in {c \in consumed : c[1] = p}}
           t == tabs[p]
           u == IF ids = {} THEN t ELSE Consume(t, Max(ids))
           n == Len(Layout[p])
<1>1. PacketConsumed(tabs, consumed)[p] = u
  BY DEF PacketConsumed
<1>2. /\ Exact(t, G[p]) /\ G[p] \in SUBSET (1..n) /\ t.max <= n /\ O[p] \in 0..NumFrames
      /\ t.max = 0 => t.base = 0 /\ O[p] = 0
      /\ TabOK(t, G[p], O[p], p)
  BY DEF TabsOK, TabOK
<1>3. /\ t.base \in Nat /\ t.max \in Nat /\ t.base <= t.max /\ n \in Nat
      /\ G[p] \in SUBSET (1..t.max)
  <2>1. n \in Nat
    BY LayoutAssumption
  <2> QED
    BY <1>2, <2>1 DEF Exact, NearlyExact, TableRecords
<1>4. \A s \in 1..t.base : s \in G[p] \/ Fid(<<p, s>>) < O[p] \/ Fid(<<p, s>>) <= rel2
  <2> SUFFICES ASSUME NEW s \in 1..t.base, s \notin G[p], ~(Fid(<<p, s>>) < O[p])
               PROVE  Fid(<<p, s>>) <= rel2
    OBVIOUS
  <2>1. Fid(<<p, s>>) <= rel
    BY DEF Skipped
  <2>2. Fid(<<p, s>>) \in Frames
    <3>1. s \in 1..Len(Layout[p])
      BY <1>2, <1>3
    <3> QED
      BY <3>1, PacketOf, PacketParts
  <2>3. Fid(<<p, s>>) \in Nat
    <3>1. NumFrames \in Nat
      BY LayoutAssumption
    <3> QED
      BY <2>2, <3>1 DEF Frames
  <2> QED
    BY <2>1, <2>3
<1>5. CASE ids = {}
  BY <1>1, <1>2, <1>4, <1>5
<1>6. CASE ids # {}
  <2> DEFINE m == Max(ids)
  <2>1. \A x \in ids : x \in G[p]
    OBVIOUS
  <2>2. ids \in SUBSET (0..n)
    BY <1>2, <2>1
  <2>3. m \in ids /\ \A x \in ids : x <= m
    <3> HIDE DEF ids, n
    <3> QED
      BY <1>3, <1>6, <2>2, MaxIsGreatest
  <2>4. PICK c \in consumed : c[1] = p /\ c[2] = m
    BY <2>3
  <2>5. m \in G[p] /\ Fid(<<p, m>>) <= rel2 /\ m \in 1..n
    <3>1. c = <<p, m>>
      BY <2>4, PacketParts
    <3> QED
      BY <1>2, <2>1, <2>3, <2>4, <3>1
  <2>6. u = Consume(t, m)
    BY <1>6
  <2> HIDE DEF ids, t, u, m
  <2>7. /\ Exact(u, G[p])
        /\ u.base >= t.base /\ u.max = t.max
        /\ \A s \in (t.base + 1)..u.base : s \in G[p] \/ s <= m
    BY <1>2, <2>5, <2>6, ConsumeExact
  <2>8. u.base \in Nat /\ u.base <= u.max
    BY <2>7 DEF Exact, NearlyExact, TableRecords
  <2>9. t.max # 0
    BY <1>3, <2>5
  <2>10. TabOK(u, G[p], O[p], p)
    BY <1>2, <2>7, <2>9 DEF TabOK
  <2>11. ASSUME NEW s \in 1..u.base, s \notin G[p], ~(Fid(<<p, s>>) < O[p])
         PROVE  Fid(<<p, s>>) <= rel2
    <3>1. CASE s <= t.base
      <4>1. s \in 1..t.base
        BY <1>3, <2>8, <3>1
      <4> QED
        BY <1>4, <2>11, <4>1
    <3>2. CASE ~(s <= t.base)
      <4>1. s \in (t.base + 1)..u.base
        BY <1>3, <2>8, <3>2
      <4>2. s <= m
        BY <2>7, <2>11, <4>1
      <4>3. s \in 1..n /\ m \in 1..n
        BY <1>2, <1>3, <2>5, <2>7, <2>8
      <4>4. Fid(<<p, s>>) <= Fid(<<p, m>>)
        BY <4>2, <4>3, FidsAscend
      <4>5. Fid(<<p, s>>) \in Int /\ Fid(<<p, m>>) \in Int
        <5>1. Fid(<<p, s>>) \in Frames /\ Fid(<<p, m>>) \in Frames
          BY <4>3, PacketOf, PacketParts
        <5>2. NumFrames \in Nat
          BY LayoutAssumption
        <5> QED
          BY <5>1, <5>2 DEF Frames
      <4> QED
        BY <2>5, <4>4, <4>5
    <3> QED
      BY <3>1, <3>2
  <2> QED
    BY <1>1, <2>10, <2>11
<1> QED
  BY <1>5, <1>6

\* DeliverFrame takes the packets of the frames that leave out of the count, and
\* they are packets of no other frame.
LEMMA HeldAfter ==
    ASSUME NEW cache, NEW G, CacheOK(cache, G), NEW leaving \in SUBSET (DOMAIN cache)
    PROVE  LET rest == [f \in DOMAIN cache \ leaving |-> cache[f]]
               consumed == UNION {cache[f].packets : f \in leaving}
           IN  /\ CacheOK(rest, G)
               /\ IsFiniteSet(consumed) /\ IsFiniteSet(HeldIn(rest))
               /\ Cardinality(consumed) \in Nat
               /\ consumed \in SUBSET HeldIn(cache)
               /\ Cardinality(HeldIn(rest)) = Cardinality(HeldIn(cache)) - Cardinality(consumed)
<1> DEFINE rest == [f \in DOMAIN cache \ leaving |-> cache[f]]
           consumed == UNION {cache[f].packets : f \in leaving}
           all == HeldIn(cache)
           left == HeldIn(rest)
<1>1. CacheOK(rest, G)
  BY DEF CacheOK
<1>2. IsFiniteSet(consumed) /\ IsFiniteSet(all) /\ IsFiniteSet(left)
  <2>1. IsFiniteSet(consumed)
    BY HeldFinite
  <2>2. IsFiniteSet(all)
    <3>1. DOMAIN cache \in SUBSET (DOMAIN cache)
      OBVIOUS
    <3> QED
      BY <3>1, HeldFinite DEF HeldIn
  <2>3. left \in SUBSET all
    BY DEF HeldIn
  <2> QED
    BY <2>1, <2>2, <2>3, FS_Subset
<1>3. consumed \in SUBSET all
  BY DEF HeldIn
<1>4. left = all \ consumed
  <2>1. ASSUME NEW pk \in left PROVE pk \in all /\ pk \notin consumed
    BY DEF HeldIn, CacheOK, FrameOK
  <2>2. ASSUME NEW pk \in all, pk \notin consumed PROVE pk \in left
    BY <2>2 DEF HeldIn
  <2> QED
    BY <2>1, <2>2
<1> HIDE DEF consumed, all, left
<1>5. Cardinality(left) = Cardinality(all) - Cardinality(all \cap consumed)
  BY <1>2, <1>4, FS_Difference
<1>6. all \cap consumed = consumed
  BY <1>3
<1>7. Cardinality(consumed) \in Nat
  BY <1>2, FS_CardinalityType
<1> QED
  BY <1>1, <1>2, <1>3, <1>5, <1>6, <1>7 DEF consumed, all, left

\* CheckDeliverFrame keeps the invariant whatever cache and tables it is given,
\* with what they say about the histories G and O.
LEMMA CheckDeliverKeeps ==
    ASSUME NEW cache, NEW tabs, NEW G, NEW O, NEW len,
           TabsOK(tabs, G, O), CacheOK(cache, G), Skipped(tabs, G, O, released),
           Ahead(cache, min_fid), {min_fid, released} \subseteq 0..NumFrames,
           discarded \in Nat, len = Cardinality(HeldIn(cache)) + discarded,
           ForwardedOK, CheckDeliverFrame(cache, tabs, len)
    PROVE  /\ DOMAIN tables' = Paths
           /\ TabsOK(tables', G, O)
           /\ CacheOK(frame_cache', G)
           /\ Skipped(tables', G, O, released')
           /\ Ahead(frame_cache', min_fid')
           /\ {min_fid', released'} \subseteq 0..NumFrames
           /\ discarded' \in Nat
           /\ recv_buf_len' = Cardinality(HeldIn(frame_cache')) + discarded'
           /\ ForwardedOK'
<1> DEFINE leaving == Leaving(cache)
           consumed == UNION {cache[f].packets : f \in leaving}
           rest == [f \in DOMAIN cache \ leaving |-> cache[f]]
<1>1. /\ frame_cache' = rest
      /\ tables' = PacketConsumed(tabs, consumed)
      /\ released' = Max(leaving \cup {released})
  BY DEF CheckDeliverFrame
<1>2. /\ leaving \in SUBSET (DOMAIN cache)
      /\ leaving \in SUBSET (0..NumFrames) /\ NumFrames \in Nat
      /\ \A f \in DOMAIN cache \ leaving, l \in leaving : f > l
      /\ leaving \in SUBSET Frames
  BY LeavingInFront DEF CacheOK
<1>3. \/ /\ deliver
         /\ \E run \in Ascending(leaving) :
               forwarded' = forwarded \o
                 [k \in DOMAIN run |-> [fid |-> run[k], recv |-> cache[run[k]].recv]]
         /\ recv_buf_len' = len - Cardinality(consumed)
         /\ min_fid' = Max(leaving \cup {min_fid})
         /\ discarded' = discarded
      \/ /\ recv_buf_len' = len
         /\ discarded' = discarded + Cardinality(consumed)
         /\ min_fid' = min_fid /\ forwarded' = forwarded
  BY DEF CheckDeliverFrame
<1>4. /\ CacheOK(rest, G)
      /\ Cardinality(consumed) \in Nat
      /\ Cardinality(HeldIn(rest)) = Cardinality(HeldIn(cache)) - Cardinality(consumed)
      /\ Cardinality(HeldIn(cache)) \in Nat
  <2>1. IsFiniteSet(HeldIn(cache))
    <3>1. DOMAIN cache \in SUBSET (DOMAIN cache)
      OBVIOUS
    <3> QED
      BY <3>1, HeldFinite DEF HeldIn
  <2> QED
    BY <1>2, <2>1, HeldAfter, FS_CardinalityType
<1>5. \A c \in consumed : c \in PathPackets /\ c[2] \in G[c[1]] /\ Fid(c) \in leaving
  BY <1>2 DEF CacheOK, FrameOK
<1> HIDE DEF leaving, consumed, rest
<1>6. ASSUME NEW low \in 0..NumFrames
      PROVE  /\ Max(leaving \cup {low}) \in leaving \cup {low}
             /\ Max(leaving \cup {low}) \in 0..NumFrames
             /\ \A l \in leaving \cup {low} : l <= Max(leaving \cup {low})
  <2> DEFINE S == leaving \cup {low}
  <2>1. S \in SUBSET (0..NumFrames) /\ S # {}
    BY <1>2
  <2> HIDE DEF S
  <2>2. Max(S) \in S /\ \A y \in S : y <= Max(S)
    BY <1>2, <2>1, MaxIsGreatest
  <2> QED
    BY <2>1, <2>2 DEF S
<1>7. /\ released' \in 0..NumFrames /\ released <= released'
      /\ \A l \in leaving : l <= released'
  BY <1>1, <1>6
<1>8. TabsOK(tables', G, O) /\ Skipped(tables', G, O, released')
  <2>1. released \in Nat /\ released' \in Nat
    BY <1>2, <1>7
  <2>2. PICK rel2 : rel2 = released'
    OBVIOUS
  <2>3. /\ consumed \in SUBSET PathPackets /\ rel2 \in Nat /\ released <= rel2
        /\ \A c \in consumed : c[2] \in G[c[1]] /\ Fid(c) <= rel2
    BY <1>5, <1>7, <2>1, <2>2
  <2>4. /\ TabsOK(PacketConsumed(tabs, consumed), G, O)
        /\ Skipped(PacketConsumed(tabs, consumed), G, O, rel2)
    BY <2>1, <2>3, PacketConsumedOK
  <2> QED
    BY <1>1, <2>2, <2>4
<1>9. DOMAIN tables' = Paths
  BY <1>1 DEF PacketConsumed
<1>10. CacheOK(frame_cache', G)
  BY <1>1, <1>4
<1>11. discarded' \in Nat /\ recv_buf_len' = Cardinality(HeldIn(frame_cache')) + discarded'
  BY <1>1, <1>3, <1>4
<1>12. min_fid' \in 0..NumFrames /\ Ahead(frame_cache', min_fid')
  <2>1. ASSUME NEW f \in DOMAIN cache \ leaving, NEW l \in leaving \cup {min_fid}
        PROVE  f > l
    BY <1>2 DEF Ahead
  <2>2. DOMAIN frame_cache' = DOMAIN cache \ leaving
    BY <1>1 DEF rest
  <2>3. min_fid' \in leaving \cup {min_fid} /\ min_fid' \in 0..NumFrames
    BY <1>3, <1>6
  <2> QED
    BY <2>1, <2>2, <2>3 DEF Ahead
<1>13. ForwardedOK'
  <2>1. CASE forwarded' = forwarded
    BY <2>1 DEF ForwardedOK
  <2>2. CASE \E run \in Ascending(leaving) :
               forwarded' = forwarded \o
                 [k \in DOMAIN run |-> [fid |-> run[k], recv |-> cache[run[k]].recv]]
    <3>1. PICK run \in Ascending(leaving) :
               forwarded' = forwarded \o
                 [k \in DOMAIN run |-> [fid |-> run[k], recv |-> cache[run[k]].recv]]
      BY <2>2
    <3> DEFINE gone == [k \in DOMAIN run |-> [fid |-> run[k], recv |-> cache[run[k]].recv]]
               R == [fid : Frames, recv : Nat]
    <3>2. DOMAIN run = 1..Cardinality(leaving) /\ \A k \in DOMAIN run : run[k] \in leaving
      BY DEF Ascending
    <3>3. Cardinality(leaving) \in Nat
      <4>1. IsFiniteSet(Frames)
        BY <1>2, FS_Interval DEF Frames
      <4> QED
        BY <1>2, <4>1, FS_Subset, FS_CardinalityType
    <3>4. \A k \in DOMAIN run : gone[k] \in R
      BY <1>2, <3>2 DEF CacheOK, FrameOK
    <3>5. gone \in Seq(R)
      <4>1. DOMAIN gone = 1..Cardinality(leaving)
        BY <3>2
      <4>2. gone = [k \in DOMAIN gone |-> gone[k]]
        OBVIOUS
      <4> HIDE DEF gone, R
      <4>3. \A k \in 1..Cardinality(leaving) : gone[k] \in R
        BY <3>2, <3>4
      <4> QED
        BY <3>3, <4>1, <4>2, <4>3
    <3> HIDE DEF gone
    <3> QED
      BY <3>1, <3>5 DEF ForwardedOK, gone
  <2> QED
    BY <1>3, <2>1, <2>2
<1> QED
  BY <1>7, <1>8, <1>9, <1>10, <1>11, <1>12, <1>13
-----------------------------------------------------------------------------
\* Before anything has happened.
LEMMA InitIInv == Init => IInv
<1> SUFFICES ASSUME Init PROVE IInv
  OBVIOUS
<1>1. \A p \in Paths : tables[p] = NoTables /\ got[p] = {} /\ begun[p] = 0
  BY DEF Init
<1>2. Exact(NoTables, {})
  BY DEF Exact, NearlyExact, Above, NoTables, TableRecords
<1>3. TabsOK(tables, got, begun)
  <2> SUFFICES ASSUME NEW p \in Paths PROVE TabOK(tables[p], got[p], begun[p], p)
    BY DEF TabsOK
  <2> DEFINE n == Len(Layout[p])
  <2>1. n \in Nat /\ NumFrames \in Nat
    BY LayoutAssumption
  <2>2. NoTables.max = 0 /\ NoTables.base = 0
    BY DEF NoTables
  <2> HIDE DEF n
  <2>3. {} \in SUBSET (1..n) /\ 0 <= n /\ 0 \in 0..NumFrames
    BY <2>1
  <2> QED
    BY <1>1, <1>2, <2>2, <2>3 DEF TabOK, n
<1>4. Skipped(tables, got, begun, released)
  BY <1>1 DEF Skipped, NoTables
<1>5. DOMAIN frame_cache = {}
  BY DEF Init
<1>6. CacheOK(frame_cache, got) /\ Ahead(frame_cache, min_fid)
  BY <1>5 DEF CacheOK, Ahead
<1>7. recv_buf_len = Cardinality(HeldIn(frame_cache)) + discarded /\ discarded \in Nat
  <2>1. HeldIn(frame_cache) = {}
    BY <1>5 DEF HeldIn
  <2> QED
    BY <2>1, FS_EmptySet DEF Init
<1>8. {min_fid, released, clock} \subseteq 0..NumFrames
  <2>1. NumFrames \in Nat
    BY LayoutAssumption
  <2> QED
    BY <2>1 DEF Init
<1>9. {DOMAIN tables, DOMAIN got, DOMAIN begun} = {Paths} /\ ForwardedOK
  BY DEF Init, ForwardedOK
<1> QED
  BY <1>3, <1>4, <1>6, <1>7, <1>8, <1>9 DEF IInv

\* OnReceiveSegment up to DeliverToCache: the tables of the path take the packet
\* in, and what is cached was still handed over.
LEMMA PathAcceptsKeeps ==
    ASSUME IInv, NEW p \in Paths, NEW s \in 1..Len(Layout[p]), PathAccepts(p, s)
    PROVE  /\ TabsOK(TablesAfter(p, s), got', begun')
           /\ Skipped(TablesAfter(p, s), got', begun', released)
           /\ {DOMAIN TablesAfter(p, s), DOMAIN got', DOMAIN begun'} = {Paths}
           /\ CacheOK(frame_cache, got')
           /\ s \in got'[p]
<1> DEFINE t == tables[p]
           i == Idx(<<p, s>>)
           u == Accept(t, s, i)
           n == Len(Layout[p])
           first == StartAt(t, s, i).base
           f == Fid(<<p, s>>)
<1>1. /\ ~Refused(t, s)
      /\ got' = [got EXCEPT ![p] = @ \cup {s}]
      /\ begun' = [begun EXCEPT ![p] = IF t.max = 0 THEN f ELSE @]
      /\ TablesAfter(p, s) = [tables EXCEPT ![p] = u]
  BY DEF PathAccepts, TablesAfter
<1>2. DOMAIN tables = Paths /\ DOMAIN got = Paths /\ DOMAIN begun = Paths
  BY DEF IInv
<1>3. /\ got'[p] = got[p] \cup {s}
      /\ begun'[p] = IF t.max = 0 THEN f ELSE begun[p]
      /\ TablesAfter(p, s)[p] = u
  BY <1>1, <1>2
<1>4. \A q \in Paths \ {p} :
         got'[q] = got[q] /\ begun'[q] = begun[q] /\ TablesAfter(p, s)[q] = tables[q]
  BY <1>1, <1>2
<1>5. i \in Nat /\ s \in Nat \ {0} /\ n \in Nat /\ s <= n
  <2>1. n \in Nat
    BY LayoutAssumption
  <2>2. i \in Nat
    BY PacketOf, PacketParts
  <2> HIDE DEF i, n
  <2>3. s \in 1..n
    BY DEF n
  <2> QED
    BY <2>1, <2>2, <2>3
<1>6. /\ Exact(t, got[p]) /\ got[p] \in SUBSET (1..n) /\ t.max <= n
      /\ begun[p] \in 0..NumFrames
      /\ t.max = 0 => t.base = 0 /\ begun[p] = 0
  BY DEF IInv, TabsOK, TabOK
<1>7. \A x \in 1..t.base : x \in got[p] \/ Fid(<<p, x>>) < begun[p] \/ Fid(<<p, x>>) <= released
  BY DEF IInv, Skipped
<1>15. f \in 0..NumFrames
  <2>1. f \in Frames /\ NumFrames \in Nat
    BY PacketOf, PacketParts, LayoutAssumption
  <2> HIDE DEF f
  <2> QED
    BY <2>1 DEF Frames
<1>16. \A x \in 1..n : t.max = 0 /\ x <= first => Fid(<<p, x>>) < f
  <2> SUFFICES ASSUME NEW x \in 1..n, t.max = 0, x <= first PROVE Fid(<<p, x>>) < f
    OBVIOUS
  <2>1. t.base = 0
    BY <1>6
  <2> HIDE DEF t
  <2> QED
    BY <2>1, EarlierFrame
<1> HIDE DEF t, i, u, n, first, f
<1>8. /\ Exact(u, got[p] \cup {s})
      /\ u.base >= t.base
      /\ u.max = IF s > t.max THEN s ELSE t.max
      /\ \A x \in (t.base + 1)..u.base : x \in got[p] \cup {s} \/ (t.max = 0 /\ x <= first)
      /\ t.max = 0 => first \in 0..(s - 1)
  BY <1>1, <1>5, <1>6, AcceptExact DEF u, first
<1>9. t.max \in Nat /\ t.base \in Nat /\ u.base \in Nat
  BY <1>6, <1>8 DEF Exact, NearlyExact, TableRecords
<1>10. TabOK(u, got'[p], begun'[p], p)
  <2>1. got'[p] \in SUBSET (1..n)
    BY <1>3, <1>5, <1>6
  <2>2. u.max <= n /\ u.max # 0
    BY <1>5, <1>6, <1>8, <1>9
  <2>3. begun'[p] \in 0..NumFrames
    BY <1>3, <1>6, <1>15
  <2> QED
    BY <1>3, <1>8, <2>1, <2>2, <2>3 DEF TabOK, n
<1>11. \A x \in 1..u.base :
          x \in got'[p] \/ Fid(<<p, x>>) < begun'[p] \/ Fid(<<p, x>>) <= released
  <2> SUFFICES ASSUME NEW x \in 1..u.base, x \notin got[p] \cup {s}
               PROVE  Fid(<<p, x>>) < begun'[p] \/ Fid(<<p, x>>) <= released
    BY <1>3
  <2>1. CASE x \in 1..t.base
    <3>1. t.max # 0
      BY <1>6, <1>9, <2>1
    <3> QED
      BY <1>3, <1>7, <2>1, <3>1
  <2>2. CASE x \notin 1..t.base
    <3>1. x \in (t.base + 1)..u.base
      BY <1>9, <2>2
    <3>2. t.max = 0 /\ x <= first /\ x \in 1..n
      BY <1>5, <1>8, <3>1
    <3> QED
      BY <1>3, <1>16, <3>2
  <2> QED
    BY <2>1, <2>2
<1>12. TabsOK(TablesAfter(p, s), got', begun')
  <2> SUFFICES ASSUME NEW q \in Paths
               PROVE  TabOK(TablesAfter(p, s)[q], got'[q], begun'[q], q)
    BY DEF TabsOK
  <2>1. q # p => TabOK(tables[q], got[q], begun[q], q)
    BY DEF IInv, TabsOK
  <2> QED
    BY <1>3, <1>4, <1>10, <2>1
<1>13. Skipped(TablesAfter(p, s), got', begun', released)
  <2> SUFFICES ASSUME NEW q \in Paths, NEW x \in 1..TablesAfter(p, s)[q].base
               PROVE  x \in got'[q] \/ Fid(<<q, x>>) < begun'[q] \/ Fid(<<q, x>>) <= released
    BY DEF Skipped
  <2>1. CASE q = p
    BY <1>3, <1>11, <2>1
  <2>2. CASE q # p
    BY <1>4, <2>2 DEF IInv, Skipped
  <2> QED
    BY <2>1, <2>2
<1>14. CacheOK(frame_cache, got')
  <2> SUFFICES ASSUME NEW g \in DOMAIN frame_cache, NEW pk \in frame_cache[g].packets
               PROVE  pk[2] \in got'[pk[1]]
    BY DEF IInv, CacheOK, FrameOK
  <2>1. pk \in PathPackets /\ pk[2] \in got[pk[1]]
    BY DEF IInv, CacheOK, FrameOK
  <2>2. pk[1] \in Paths
    BY <2>1, PacketParts
  <2> QED
    BY <1>3, <1>4, <2>1, <2>2
<1> QED
  BY <1>1, <1>2, <1>3, <1>12, <1>13, <1>14

\* DeliverToCache puts the packet in its slot: one packet more in one frame.
LEMMA StorePacketKeeps ==
    ASSUME IInv, NEW G, CacheOK(frame_cache, G), NEW pk \in PathPackets,
           pk[2] \in G[pk[1]], ~CheckLateFrame(Fid(pk)), ~Collides(pk)
    PROVE  /\ CacheOK(StorePacket(pk), G)
           /\ Ahead(StorePacket(pk), min_fid)
           /\ Cardinality(HeldIn(StorePacket(pk))) = Cardinality(HeldIn(frame_cache)) + 1
           /\ Cardinality(HeldIn(frame_cache)) \in Nat
<1> DEFINE f == Fid(pk)
           cache == StorePacket(pk)
           old == IF f \in DOMAIN frame_cache THEN frame_cache[f]
                                              ELSE [recv |-> 0, packets |-> {}]
           new == [recv |-> old.recv + 1, packets |-> old.packets \cup {pk}]
<1>1. /\ DOMAIN cache = DOMAIN frame_cache \cup {f}
      /\ cache[f] = new
      /\ \A g \in DOMAIN cache \ {f} : cache[g] = frame_cache[g]
  BY DEF StorePacket
<1>2. f \in Frames
  BY PacketParts
<1>3. /\ old.recv \in Nat /\ old.packets \in SUBSET PathPackets
      /\ IsFiniteSet(old.packets) /\ old.recv = Cardinality(old.packets)
      /\ \A q \in old.packets : Fid(q) = f /\ q[2] \in G[q[1]]
  <2>1. CASE f \in DOMAIN frame_cache
    <3>1. FrameOK(frame_cache[f], f, G) /\ old = frame_cache[f]
      BY <2>1 DEF CacheOK
    <3> HIDE DEF old
    <3> QED
      BY <3>1 DEF FrameOK
  <2>2. CASE f \notin DOMAIN frame_cache
    BY <2>2, FS_EmptySet
  <2> QED
    BY <2>1, <2>2
<1>4. pk \notin old.packets
  BY DEF Collides
<1> HIDE DEF old
<1>5. FrameOK(new, f, G)
  <2>1. IsFiniteSet(new.packets) /\ Cardinality(new.packets) = old.recv + 1
    BY <1>3, <1>4, FS_AddElement
  <2>2. /\ new.packets # {} /\ new.packets \in SUBSET PathPackets
        /\ new.recv = old.recv + 1 /\ new.recv \in Nat
        /\ new \in [recv : Nat, packets : SUBSET PathPackets]
    BY <1>3
  <2>3. \A q \in new.packets : Fid(q) = f /\ q[2] \in G[q[1]]
    BY <1>3
  <2> HIDE DEF new
  <2> QED
    BY <2>1, <2>2, <2>3 DEF FrameOK
<1> HIDE DEF cache, new
<1>6. CacheOK(cache, G)
  <2>1. \A g \in DOMAIN cache : FrameOK(cache[g], g, G)
    BY <1>1, <1>5 DEF CacheOK
  <2> QED
    BY <1>1, <1>2, <2>1 DEF CacheOK
<1>7. Ahead(cache, min_fid)
  <2>1. f > min_fid
    <3>1. NumFrames \in Nat
      BY LayoutAssumption
    <3>2. f \in Nat /\ min_fid \in Nat
      BY <1>2, <3>1 DEF Frames, IInv
    <3> HIDE DEF f
    <3> QED
      BY <3>2 DEF CheckLateFrame, f
  <2> QED
    BY <1>1, <2>1 DEF Ahead, IInv
<1>8. HeldIn(cache) = HeldIn(frame_cache) \cup {pk}
  <2>1. new.packets = old.packets \cup {pk}
    BY DEF new
  <2>2. old.packets = IF f \in DOMAIN frame_cache THEN frame_cache[f].packets ELSE {}
    BY DEF old
  <2> QED
    BY <1>1, <2>1, <2>2 DEF HeldIn
<1>9. pk \notin HeldIn(frame_cache)
  <2> SUFFICES ASSUME NEW g \in DOMAIN frame_cache, pk \in frame_cache[g].packets
               PROVE  FALSE
    BY DEF HeldIn
  <2>1. g = f
    BY DEF CacheOK, FrameOK
  <2> QED
    BY <1>4, <2>1 DEF old
<1>10. IsFiniteSet(HeldIn(frame_cache))
  <2>1. DOMAIN frame_cache \in SUBSET (DOMAIN frame_cache)
    OBVIOUS
  <2> QED
    BY <2>1, HeldFinite DEF HeldIn
<1>11. Cardinality(HeldIn(cache)) = Cardinality(HeldIn(frame_cache)) + 1
  BY <1>8, <1>9, <1>10, FS_AddElement
<1> QED
  BY <1>6, <1>7, <1>10, <1>11, FS_CardinalityType DEF cache

\* Every handler keeps the invariant.
LEMMA NextIInv == IInv /\ [Next]_vars => IInv'
<1> SUFFICES ASSUME IInv, [Next]_vars PROVE IInv'
  OBVIOUS
<1>1. ASSUME NEW p \in Paths, NEW s \in 1..Len(Layout[p]),
             RecvLate(p, s) \/ RecvCollision(p, s)
      PROVE  IInv'
  <2>1. /\ PathAccepts(p, s) /\ tables' = TablesAfter(p, s)
        /\ UNCHANGED cacheVars /\ UNCHANGED clock
    BY <1>1 DEF RecvLate, RecvCollision
  <2> QED
    BY <2>1, PathAcceptsKeeps DEF IInv, cacheVars, ForwardedOK
<1>2. ASSUME NEW p \in Paths, NEW s \in 1..Len(Layout[p]), RecvStored(p, s)
      PROVE  IInv'
  <2> DEFINE pk == <<p, s>>
  <2>1. /\ PathAccepts(p, s) /\ ~CheckLateFrame(Fid(pk)) /\ ~Collides(pk)
        /\ CheckDeliverFrame(StorePacket(pk), TablesAfter(p, s), recv_buf_len + 1)
        /\ UNCHANGED clock
    BY <1>2 DEF RecvStored
  <2>2. /\ TabsOK(TablesAfter(p, s), got', begun')
        /\ Skipped(TablesAfter(p, s), got', begun', released)
        /\ {DOMAIN TablesAfter(p, s), DOMAIN got', DOMAIN begun'} = {Paths}
        /\ CacheOK(frame_cache, got')
        /\ s \in got'[p]
    BY <2>1, PathAcceptsKeeps
  <2>3. pk \in PathPackets /\ pk[1] = p /\ pk[2] = s
    BY PacketOf
  <2> HIDE DEF pk
  <2>4. PICK cache, tabs, len, G, O :
           /\ cache = StorePacket(pk) /\ tabs = TablesAfter(p, s)
           /\ len = recv_buf_len + 1 /\ G = got' /\ O = begun'
    OBVIOUS
  <2>5. /\ CacheOK(cache, G) /\ Ahead(cache, min_fid)
        /\ Cardinality(HeldIn(cache)) = Cardinality(HeldIn(frame_cache)) + 1
        /\ Cardinality(HeldIn(frame_cache)) \in Nat
    <3>1. CacheOK(frame_cache, G) /\ pk[2] \in G[pk[1]]
      BY <2>2, <2>3, <2>4
    <3> QED
      BY <2>1, <2>3, <2>4, <3>1, StorePacketKeeps
  <2>6. len = Cardinality(HeldIn(cache)) + discarded /\ discarded \in Nat
    BY <2>4, <2>5 DEF IInv
  <2>7. /\ {min_fid, released} \subseteq 0..NumFrames /\ ForwardedOK
        /\ TabsOK(tabs, G, O) /\ Skipped(tabs, G, O, released)
        /\ CheckDeliverFrame(cache, tabs, len)
    BY <2>1, <2>2, <2>4 DEF IInv
  <2>8. /\ DOMAIN tables' = Paths
        /\ TabsOK(tables', G, O)
        /\ CacheOK(frame_cache', G)
        /\ Skipped(tables', G, O, released')
        /\ Ahead(frame_cache', min_fid')
        /\ {min_fid', released'} \subseteq 0..NumFrames
        /\ discarded' \in Nat
        /\ recv_buf_len' = Cardinality(HeldIn(frame_cache')) + discarded'
        /\ ForwardedOK'
    BY <2>5, <2>6, <2>7, CheckDeliverKeeps
  <2> QED
    BY <2>1, <2>2, <2>4, <2>8 DEF IInv
<1>3. ASSUME HeartBeat PROVE IInv'
  <2>1. /\ CheckDeliverFrame(frame_cache, tables, recv_buf_len)
        /\ got' = got /\ begun' = begun /\ clock' = clock
    BY <1>3 DEF HeartBeat
  <2>2. PICK cache, tabs, len, G, O :
           cache = frame_cache /\ tabs = tables /\ len = recv_buf_len /\ G = got /\ O = begun
    OBVIOUS
  <2>3. /\ TabsOK(tabs, G, O) /\ CacheOK(cache, G) /\ Skipped(tabs, G, O, released)
        /\ Ahead(cache, min_fid) /\ {min_fid, released} \subseteq 0..NumFrames
        /\ discarded \in Nat /\ len = Cardinality(HeldIn(cache)) + discarded
        /\ ForwardedOK /\ CheckDeliverFrame(cache, tabs, len)
    BY <2>1, <2>2 DEF IInv
  <2>4. /\ DOMAIN tables' = Paths
        /\ TabsOK(tables', G, O)
        /\ CacheOK(frame_cache', G)
        /\ Skipped(tables', G, O, released')
        /\ Ahead(frame_cache', min_fid')
        /\ {min_fid', released'} \subseteq 0..NumFrames
        /\ discarded' \in Nat
        /\ recv_buf_len' = Cardinality(HeldIn(frame_cache')) + discarded'
        /\ ForwardedOK'
    BY <2>3, CheckDeliverKeeps
  <2> QED
    BY <2>1, <2>2, <2>4 DEF IInv
<1>4. ASSUME UNCHANGED <<tableVars, cacheVars>>, clock' = clock \/ Tick PROVE IInv'
  <2>1. clock' \in 0..NumFrames
    BY <1>4, LayoutAssumption DEF IInv, Tick
  <2> QED
    BY <1>4, <2>1 DEF IInv, tableVars, cacheVars, ForwardedOK
<1> QED
  BY <1>1, <1>2, <1>3, <1>4
     DEF Next, RecvPacket, RegisterDataSink, Stop, Tick, vars

LEMMA Invariance == Spec => []IInv
  BY InitIInv, NextIInv, PTL DEF Spec

\* The flags are flags.
FlagsOK == {first_packet, deliver, stop, collided} \subseteq BOOLEAN

LEMMA FlagsAlwaysOK == Spec => []FlagsOK
<1>1. Init => FlagsOK
  BY DEF Init, FlagsOK
<1>2. FlagsOK /\ [Next]_vars => FlagsOK'
  BY ZenonT(60) DEF FlagsOK, Next, vars, RecvPacket, RecvLate, RecvCollision, RecvStored,
     HeartBeat, RegisterDataSink, Stop, Tick, PathAccepts
<1> QED
  BY <1>1, <1>2, PTL DEF Spec

\* The invariant gives the types.
LEMMA TypesFollow == IInv /\ FlagsOK => TypeOK
<1> SUFFICES ASSUME IInv, FlagsOK PROVE TypeOK
  OBVIOUS
<1>1. ASSUME NEW p \in Paths
      PROVE  LET ids == 1..Len(Layout[p]) IN
             /\ tables[p] \in [base : {0} \cup ids, max : {0} \cup ids,
                               loss : SUBSET ids, recv : SUBSET ids]
             /\ got[p] \subseteq ids
             /\ begun[p] \in 0..NumFrames
  <2> DEFINE n == Len(Layout[p])
             t == tables[p]
  <2>1. TabOK(t, got[p], begun[p], p)
    BY DEF IInv, TabsOK
  <2>2. n \in Nat
    BY LayoutAssumption
  <2>3. /\ Exact(t, got[p]) /\ got[p] \in SUBSET (1..n) /\ t.max <= n /\ begun[p] \in 0..NumFrames
    BY <2>1 DEF TabOK
  <2> HIDE DEF n, t
  <2>4. /\ t \in TableRecords /\ t.base \in Nat /\ t.max \in Nat
        /\ t.base <= t.max
    BY <2>3 DEF Exact, NearlyExact, TableRecords
  <2>5. t.loss \in SUBSET (1..n) /\ t.recv \in SUBSET (1..n)
    BY <2>2, <2>3, <2>4 DEF Exact, NearlyExact, Above
  <2>6. t.base \in {0} \cup 1..n /\ t.max \in {0} \cup 1..n
    BY <2>2, <2>3, <2>4
  <2>7. t \in [base : {0} \cup 1..n, max : {0} \cup 1..n,
               loss : SUBSET (1..n), recv : SUBSET (1..n)]
    BY <2>4, <2>5, <2>6 DEF TableRecords
  <2> QED
    BY <2>3, <2>6, <2>7 DEF n, t
<1>2. Cached \subseteq Frames
      /\ \A f \in Cached : frame_cache[f] \in [recv : Nat, packets : SUBSET PathPackets]
  BY DEF IInv, CacheOK, FrameOK, Cached
<1>3. {recv_buf_len, discarded} \subseteq Nat
  <2>1. IsFiniteSet(HeldIn(frame_cache))
    <3>1. CacheOK(frame_cache, got) /\ DOMAIN frame_cache \in SUBSET (DOMAIN frame_cache)
      BY DEF IInv
    <3> QED
      BY <3>1, HeldFinite DEF HeldIn
  <2>2. Cardinality(HeldIn(frame_cache)) \in Nat
    BY <2>1, FS_CardinalityType
  <2> QED
    BY <2>2 DEF IInv
<1>4. {min_fid, released, clock} \subseteq 0..NumFrames /\ forwarded \in Seq([fid : Frames, recv : Nat])
  BY DEF IInv, ForwardedOK
<1> QED
  BY <1>1, <1>2, <1>3, <1>4 DEF TypeOK, FlagsOK

\* A cached frame counts each of its packets once: no two have the same index,
\* and there are no more indexes than the total.
LEMMA FrameCounts ==
    ASSUME NEW fr, NEW f \in Frames, NEW G, FrameOK(fr, f, G)
    PROVE  /\ fr.recv = Cardinality({Idx(pk) : pk \in fr.packets})
           /\ fr.recv \in 1..Total[f]
<1> DEFINE P == fr.packets
           I == {Idx(pk) : pk \in P}
           g == [pk \in P |-> Idx(pk)]
           n == Total[f]
<1>1. n \in Nat \ {0}
  BY LayoutAssumption
<1>2. P \in SUBSET PathPackets /\ P # {} /\ IsFiniteSet(P) /\ fr.recv = Cardinality(P)
      /\ \A pk \in P : Fid(pk) = f
  BY DEF FrameOK
<1>3. \A a, b \in P : Idx(a) = Idx(b) => a = b
  BY <1>2, LayoutAssumption
<1>4. g \in Surjection(P, I) /\ g \in Injection(P, I)
  BY <1>3 DEF Surjection, Injection, IsInjective
<1>5. I \in SUBSET (0..(n - 1))
  <2> SUFFICES ASSUME NEW pk \in P PROVE Idx(pk) \in 0..(n - 1)
    OBVIOUS
  <2>1. Idx(pk) \in Nat /\ Idx(pk) < Total[Fid(pk)] /\ Fid(pk) = f
    BY <1>2, PacketParts
  <2> QED
    BY <1>1, <2>1
<1> HIDE DEF g, I, P, n
<1>6. IsFiniteSet(I) /\ Cardinality(I) = Cardinality(P)
  BY <1>2, <1>4, FS_Surjection
<1>7. IsFiniteSet(0..(n - 1)) /\ Cardinality(0..(n - 1)) = n
  <2>1. n - 1 \in Int /\ ~(0 > n - 1) /\ (n - 1) - 0 + 1 = n
    BY <1>1
  <2> QED
    BY <2>1, FS_Interval
<1>8. Cardinality(I) <= n
  BY <1>5, <1>7, FS_Subset
<1>9. Cardinality(P) \in Nat /\ Cardinality(P) # 0
  BY <1>2, FS_CardinalityType, FS_EmptySet
<1> QED
  BY <1>1, <1>2, <1>6, <1>8, <1>9 DEF P, I, n

\* DeliverToCache and DeliverFrame: every counter of the buffer counts what is
\* there, however packets arrive over the paths and whether or not anybody
\* listens.
THEOREM CountersAlwaysOK == Spec => []CountersOK
<1>1. IInv => CountsAreExact
  <2> SUFFICES ASSUME IInv, NEW f \in Cached
               PROVE  /\ frame_cache[f].recv = Cardinality({Idx(pk) : pk \in frame_cache[f].packets})
                      /\ frame_cache[f].recv = Cardinality(frame_cache[f].packets)
                      /\ frame_cache[f].recv \in 1..Total[f]
                      /\ \A pk \in frame_cache[f].packets : Fid(pk) = f
    BY DEF CountsAreExact
  <2>1. f \in Frames /\ FrameOK(frame_cache[f], f, got)
    BY DEF IInv, CacheOK, Cached
  <2>2. /\ frame_cache[f].recv = Cardinality({Idx(pk) : pk \in frame_cache[f].packets})
        /\ frame_cache[f].recv \in 1..Total[f]
    BY <2>1, FrameCounts
  <2> QED
    BY <2>1, <2>2 DEF FrameOK
<1>2. IInv => BufLenIsExact
  BY DEF IInv, BufLenIsExact, Held, HeldIn, Cached
<1> QED
  BY <1>1, <1>2, Invariance, FlagsAlwaysOK, TypesFollow, PTL DEF CountersOK

\* CheckLateFrame, PacketConsumed and the origin of a path: nothing at or below
\* min_fid_ is cached, and a path passes over a packet that never came only when
\* its frame has left the buffer or is older than the frame the path began with.
THEOREM SkippedAlwaysGone == Spec => []SkippedIsGone
<1>1. IInv => SkippedIsGone
  BY DEF IInv, SkippedIsGone, CacheIsAhead, Skipped, Ahead, Cached
<1> QED
  BY <1>1, Invariance, PTL
-----------------------------------------------------------------------------
(***************************************************************************)
(* The receiver implements InOrderDelivery.                                *)
(***************************************************************************)
HaveIn(cache) == [f \in Frames |-> IF f \in DOMAIN cache THEN cache[f].recv ELSE 0]
Outs == [fid : Frames, recv : Nat]

\* Nothing above min_fid_ has been forwarded.
LastOK == Promise!LastOut \in Nat /\ Promise!LastOut <= min_fid

RInv == IInv /\ FlagsOK /\ LastOK

\* The records of the two modules are the same.
LEMMA SameNames ==
    /\ Promise!Frames = Frames
    /\ \A S : Promise!Ascending(S) = Ascending(S)
    /\ Promise!Arrivals =
          {HaveIn(frame_cache)} \cup
          {[HaveIn(frame_cache) EXCEPT ![f] = @ + 1] :
              f \in {g \in Frames : g > Promise!LastOut /\ HaveIn(frame_cache)[g] < Total[g]}}
<1>1. Promise!Frames = Frames
  BY DEF Promise!Frames, Frames
<1>2. ASSUME NEW S PROVE Promise!Ascending(S) = Ascending(S)
  <2>1. Promise!Cardinality(S) = Cardinality(S)
    BY DEF Promise!Cardinality, Cardinality
  <2> QED
    BY <2>1 DEF Ascending, Promise!Ascending
<1>3. Promise!Arrivals =
          {HaveIn(frame_cache)} \cup
          {[HaveIn(frame_cache) EXCEPT ![f] = @ + 1] :
              f \in {g \in Frames : g > Promise!LastOut /\ HaveIn(frame_cache)[g] < Total[g]}}
  BY <1>1 DEF Promise!Arrivals, HaveIn, Cached
<1> QED
  BY <1>1, <1>2, <1>3

\* The conjuncts of a step of the promise, with the frames that leave.
LEMMA AdvanceFrom ==
    ASSUME NEW h \in Promise!Arrivals, NEW leaving \in SUBSET Frames,
           \A f \in leaving : h[f] > 0 /\ (h[f] = Total[f] \/ (f \notin Key /\ f <= clock)),
           \A f \in leaving, g \in Frames : g < f /\ h[g] > 0 => g \in leaving,
           HaveIn(frame_cache)' = [f \in Frames |-> IF f \in leaving THEN 0 ELSE h[f]],
           NEW run \in Ascending(leaving),
           forwarded' = IF deliver
                        THEN forwarded \o
                             [k \in DOMAIN run |-> [fid |-> run[k], recv |-> h[run[k]]]]
                        ELSE forwarded,
           deliver' = deliver, clock \in Nat, clock' \in 0..NumFrames
    PROVE  Promise!Advance
<1>1. Promise!Frames = Frames /\ run \in Promise!Ascending(leaving)
  BY SameNames
<1>2. Promise!Deadlines
  <2>1. NumFrames \in Nat
    BY LayoutAssumption
  <2>2. 1..clock' \in SUBSET Frames
    BY <2>1 DEF Frames
  <2> QED
    BY <1>1, <2>2 DEF Promise!Deadlines
<1>3. \A f \in leaving : h[f] > 0 /\ Promise!MayLeave(h, f)
  <2>1. NumFrames \in Nat
    BY LayoutAssumption
  <2>2. ASSUME NEW f \in leaving, f \notin Key, f <= clock PROVE f \in (1..clock) \ Key
    <3>1. f \in Frames
      OBVIOUS
    <3> QED
      BY <2>1, <2>2, <3>1 DEF Frames
  <2> QED
    BY <2>2 DEF Promise!MayLeave
<1>4. [f \in Frames |-> IF f \in Cached THEN frame_cache[f].recv ELSE 0]'
         = [f \in Promise!Frames |-> IF f \in leaving THEN 0 ELSE h[f]]
  BY <1>1 DEF HaveIn, Cached
<1>5. \A f \in leaving, g \in Promise!Frames : g < f /\ h[g] > 0 => g \in leaving
  BY <1>1
<1>6. leaving \in SUBSET Promise!Frames
  BY <1>1
<1>7. \E r \in Promise!Ascending(leaving) :
         forwarded' = IF deliver
                      THEN forwarded \o
                           [k \in DOMAIN r |-> [fid |-> r[k], recv |-> h[r[k]]]]
                      ELSE forwarded
  BY <1>1
<1>8. UNCHANGED deliver
  OBVIOUS
<1> QED
  BY <1>2, <1>3, <1>4, <1>5, <1>6, <1>7, <1>8 DEF Promise!Advance

\* A finite set of numbers can be written in ascending order.
LEMMA AscendingExists ==
    ASSUME NEW n \in Nat, NEW S \in SUBSET (0..n)
    PROVE  \E run \in Ascending(S) : TRUE
<1> DEFINE Bad == {c \in Nat : \E T \in SUBSET (0..n) : Cardinality(T) = c /\ Ascending(T) = {}}
           least == Min(Bad)
<1>1. ASSUME NEW T \in SUBSET (0..n) PROVE IsFiniteSet(T) /\ Cardinality(T) \in Nat
  <2>1. IsFiniteSet(0..n)
    BY FS_Interval
  <2> QED
    BY <2>1, FS_Subset, FS_CardinalityType
<1>2. Bad = {}
  <2> SUFFICES ASSUME Bad # {} PROVE FALSE
    OBVIOUS
  <2>1. least \in Bad /\ \A c \in Bad : least <= c
    <3>1. Bad \in SUBSET Nat
      OBVIOUS
    <3> HIDE DEF Bad
    <3> QED
      BY <3>1, MinIsLeast
  <2> HIDE DEF least
  <2>2. PICK T \in SUBSET (0..n) : Cardinality(T) = least /\ Ascending(T) = {}
    BY <2>1
  <2>3. least \in Nat
    BY <2>1
  <2>4. CASE T = {}
    <3>1. Cardinality(T) = 0
      BY <2>4, FS_EmptySet
    <3>2. <<>> \in Ascending(T)
      BY <3>1 DEF Ascending
    <3> QED
      BY <2>2, <3>2
  <2>5. CASE T # {}
    <3> DEFINE m == Max(T)
               R == T \ {m}
    <3>1. m \in T /\ \A y \in T : y <= m
      BY <2>5, MaxIsGreatest
    <3> HIDE DEF m
    <3>2. Cardinality(R) = least - 1 /\ Cardinality(R) \in Nat
      BY <1>1, <2>2, <3>1, FS_RemoveElement
    <3>3. R \in SUBSET (0..n) /\ least - 1 \notin Bad
      <4>1. least - 1 \notin Bad
        <5> HIDE DEF Bad
        <5> QED
          BY <2>1, <2>3
      <4> QED
        BY <4>1
    <3>4. PICK q : q \in Ascending(R)
      BY <3>2, <3>3
    <3>5. /\ q \in [1..(least - 1) -> R]
          /\ \A i, j \in DOMAIN q : i < j => q[i] < q[j]
      BY <3>2, <3>4 DEF Ascending
    <3> DEFINE longer == [i \in 1..least |-> IF i = least THEN m ELSE q[i]]
    <3>6. longer \in [1..least -> T]
      BY <2>3, <3>1, <3>5
    <3>7. ASSUME NEW i \in 1..least, NEW j \in 1..least, i < j
          PROVE  longer[i] < longer[j]
      <4>1. i \in 1..(least - 1)
        BY <2>3, <3>7
      <4>2. q[i] \in R /\ q[i] <= m /\ q[i] # m /\ q[i] \in Int /\ m \in Int
        <5>1. q[i] \in R
          BY <3>5, <4>1
        <5>2. q[i] \in T /\ q[i] # m
          BY <5>1
        <5> HIDE DEF R
        <5>3. m \in 0..n /\ q[i] \in 0..n /\ q[i] <= m
          BY <3>1, <5>2
        <5> QED
          BY <5>1, <5>2, <5>3
      <4>3. CASE j = least
        BY <2>3, <3>7, <4>1, <4>2, <4>3
      <4>4. CASE j # least
        BY <2>3, <3>5, <3>7, <4>1, <4>4
      <4> QED
        BY <4>3, <4>4
    <3>8. DOMAIN longer = 1..least
      OBVIOUS
    <3> HIDE DEF longer
    <3>9. longer \in Ascending(T)
      BY <2>2, <3>6, <3>7, <3>8 DEF Ascending
    <3> QED
      BY <2>2, <3>9
  <2> QED
    BY <2>4, <2>5
<1>3. Ascending(S) # {}
  BY <1>1, <1>2
<1> QED
  BY <1>3

\* CheckDeliverFrame is a step of the promise for a cache that holds what the
\* receiver has, or that and one packet more.
LEMMA CheckDeliverRefines ==
    ASSUME NEW cache, NEW tabs, NEW G, NEW len, CacheOK(cache, G),
           HaveIn(cache) \in Promise!Arrivals,
           CheckDeliverFrame(cache, tabs, len), deliver' = deliver, deliver \in BOOLEAN,
           clock \in Nat, clock' \in 0..NumFrames, min_fid \in 0..NumFrames,
           ForwardedOK, LastOK
    PROVE  Promise!Advance /\ LastOK'
<1> DEFINE h == HaveIn(cache)
           leaving == Leaving(cache)
<1>1. /\ leaving \in SUBSET (DOMAIN cache)
      /\ leaving \in SUBSET (0..NumFrames) /\ NumFrames \in Nat
      /\ \A f \in DOMAIN cache \ leaving, l \in leaving : f > l
      /\ DOMAIN cache \in SUBSET Frames
      /\ leaving \in SUBSET Frames
  BY LeavingInFront DEF CacheOK
<1>2. \A f \in DOMAIN cache :
         h[f] = cache[f].recv /\ cache[f].recv \in 1..Total[f] /\ cache[f].recv \in Nat
  <2> SUFFICES ASSUME NEW f \in DOMAIN cache
               PROVE  h[f] = cache[f].recv /\ cache[f].recv \in 1..Total[f]
                      /\ cache[f].recv \in Nat
    OBVIOUS
  <2>1. f \in Frames /\ FrameOK(cache[f], f, G)
    BY DEF CacheOK
  <2>2. cache[f].recv \in Nat
    BY <2>1 DEF FrameOK
  <2> QED
    BY <2>1, <2>2, FrameCounts DEF HaveIn
<1>3. \A f \in Frames \ DOMAIN cache : h[f] = 0
  BY DEF HaveIn
<1>4. \A f \in leaving : h[f] > 0 /\ (h[f] = Total[f] \/ (f \notin Key /\ f <= clock))
  <2> SUFFICES ASSUME NEW f \in leaving
               PROVE  h[f] > 0 /\ (h[f] = Total[f] \/ (f \notin Key /\ f <= clock))
    OBVIOUS
  <2>1. f \in DOMAIN cache /\ f <= f
    BY <1>1 DEF Frames
  <2>2. Ready(cache, f)
    BY <2>1 DEF Leaving
  <2>3. h[f] > 0
    <3>1. Total[f] \in Nat
      BY <1>1, LayoutAssumption
    <3> QED
      BY <1>2, <2>1, <3>1
  <2> QED
    BY <1>2, <2>1, <2>2, <2>3 DEF Ready
<1>5. \A f \in leaving, g \in Frames : g < f /\ h[g] > 0 => g \in leaving
  <2> SUFFICES ASSUME NEW f \in leaving, NEW g \in Frames, g < f, h[g] > 0, g \notin leaving
               PROVE  FALSE
    OBVIOUS
  <2>1. g \in DOMAIN cache
    BY <1>3
  <2>2. g > f
    BY <1>1, <2>1
  <2>3. g \in Int /\ f \in Int
    BY <1>1 DEF Frames
  <2> HIDE DEF h, leaving
  <2> QED
    BY <2>2, <2>3
<1>6. frame_cache' = [f \in DOMAIN cache \ leaving |-> cache[f]]
  BY DEF CheckDeliverFrame
<1> HIDE DEF leaving
<1>7. HaveIn(frame_cache)' = [f \in Frames |-> IF f \in leaving THEN 0 ELSE h[f]]
  BY <1>1, <1>6 DEF HaveIn
<1> HIDE DEF h
<1>8. PICK run \in Ascending(leaving) :
         forwarded' = IF deliver
                      THEN forwarded \o
                           [k \in DOMAIN run |-> [fid |-> run[k], recv |-> cache[run[k]].recv]]
                      ELSE forwarded
  <2>1. CASE deliver
    BY <2>1 DEF CheckDeliverFrame, leaving
  <2>2. CASE ~deliver
    <3>1. PICK run \in Ascending(leaving) : TRUE
      BY <1>1, AscendingExists
    <3>2. forwarded' = forwarded
      BY <2>2 DEF CheckDeliverFrame
    <3> QED
      BY <2>2, <3>1, <3>2
  <2> QED
    BY <2>1, <2>2
<1> DEFINE gone == [k \in DOMAIN run |-> [fid |-> run[k], recv |-> h[run[k]]]]
<1>9. DOMAIN run = 1..Cardinality(leaving) /\ \A k \in DOMAIN run : run[k] \in leaving
  BY DEF Ascending
<1>10. gone = [k \in DOMAIN run |-> [fid |-> run[k], recv |-> cache[run[k]].recv]]
  BY <1>1, <1>2, <1>9
<1>11. forwarded' = IF deliver THEN forwarded \o gone ELSE forwarded
  BY <1>8, <1>10
<1>12. Promise!Advance
  <2>1. h \in Promise!Arrivals
    BY DEF h
  <2> QED
    BY <1>1, <1>4, <1>5, <1>7, <1>11, <2>1, AdvanceFrom
<1>13. IsFiniteSet(leaving) /\ Cardinality(leaving) \in Nat
  <2>1. IsFiniteSet(Frames)
    BY <1>1, FS_Interval DEF Frames
  <2> QED
    BY <1>1, <2>1, FS_Subset, FS_CardinalityType
<1>14. gone \in Seq(Outs) /\ DOMAIN gone = 1..Cardinality(leaving)
  <2>1. \A k \in DOMAIN run : gone[k] \in Outs
    <3> SUFFICES ASSUME NEW k \in DOMAIN run PROVE gone[k] \in Outs
      OBVIOUS
    <3>1. run[k] \in Frames /\ h[run[k]] \in Nat
      BY <1>1, <1>2, <1>9
    <3> QED
      BY <3>1 DEF Outs
  <2>2. DOMAIN gone = 1..Cardinality(leaving) /\ gone = [k \in DOMAIN gone |-> gone[k]]
    BY <1>9
  <2>3. \A k \in 1..Cardinality(leaving) : gone[k] \in Outs
    BY <1>9, <2>1
  <2> HIDE DEF gone
  <2> QED
    BY <1>13, <2>2, <2>3
<1>15. \A k \in DOMAIN gone : gone[k].fid \in leaving
  BY <1>9
<1>16. CASE ~deliver
  <2>1. forwarded' = forwarded /\ min_fid' = min_fid
    BY <1>11, <1>16 DEF CheckDeliverFrame
  <2>2. LastOK'
    BY <2>1 DEF LastOK, Promise!LastOut
  <2> QED
    BY <1>12, <2>2
<1>17. CASE deliver
  <2> HIDE DEF gone
  <2> DEFINE S == leaving \cup {min_fid}
  <2>1. min_fid' = Max(S)
    BY <1>17 DEF CheckDeliverFrame, leaving
  <2>2. S \in SUBSET (0..NumFrames) /\ S # {}
    BY <1>1
  <2>3. \A y \in S : y <= min_fid'
    <3> HIDE DEF S
    <3> QED
      BY <1>1, <2>1, <2>2, MaxIsGreatest
  <2>4. min_fid' \in 0..NumFrames
    <3> HIDE DEF S
    <3> QED
      BY <1>1, <2>1, <2>2, MaxIsGreatest
  <2>5. forwarded' = forwarded \o gone /\ forwarded \in Seq(Outs)
    BY <1>11, <1>17 DEF ForwardedOK, Outs
  <2>6. CASE leaving = {}
    <3>1. gone = <<>>
      BY <1>14, <2>6, FS_EmptySet
    <3>2. forwarded' = forwarded
      BY <2>5, <3>1
    <3>3. min_fid <= min_fid'
      BY <2>3
    <3>4. Promise!LastOut' = Promise!LastOut
      BY <3>2 DEF Promise!LastOut
    <3> QED
      BY <1>1, <1>12, <2>4, <3>3, <3>4 DEF LastOK
  <2>7. CASE leaving # {}
    <3> DEFINE n == Len(gone)
    <3>1. n \in Nat \ {0} /\ n \in DOMAIN gone
      <4>1. Cardinality(leaving) # 0
        BY <1>13, <2>7, FS_EmptySet
      <4>2. n = Cardinality(leaving)
        BY <1>13, <1>14
      <4> HIDE DEF n
      <4> QED
        BY <1>13, <1>14, <4>1, <4>2
    <3>2. forwarded' # <<>> /\ Last(forwarded') = gone[n]
      BY <1>14, <2>5, <3>1 DEF Last
    <3>3. Promise!LastOut' = gone[n].fid
      BY <3>2 DEF Promise!LastOut, Promise!Last, Last
    <3> HIDE DEF n
    <3>4. gone[n].fid \in S /\ gone[n].fid \in Nat
      BY <1>1, <1>15, <3>1 DEF Frames
    <3>5. LastOK'
      BY <2>3, <3>3, <3>4 DEF LastOK
    <3> QED
      BY <1>12, <3>5
  <2> QED
    BY <2>6, <2>7
<1> QED
  BY <1>16, <1>17

\* A step in which nothing is stored and nothing leaves.
LEMMA NothingLeaves ==
    ASSUME RInv, frame_cache' = frame_cache, forwarded' = forwarded, deliver' = deliver,
           min_fid' = min_fid, clock' \in 0..NumFrames
    PROVE  Promise!Advance /\ LastOK'
<1> DEFINE h == HaveIn(frame_cache)
           none == {f \in Frames : FALSE}
<1>1. h \in Promise!Arrivals
  BY SameNames
<1>2. HaveIn(frame_cache)' = [f \in Frames |-> IF f \in none THEN 0 ELSE h[f]]
  BY DEF HaveIn
<1>3. <<>> \in Ascending(none)
  BY FS_EmptySet DEF Ascending
<1> HIDE DEF h
<1>4. forwarded' = IF deliver
                   THEN forwarded \o
                        [k \in DOMAIN <<>> |-> [fid |-> <<>>[k], recv |-> h[<<>>[k]]]]
                   ELSE forwarded
  BY DEF RInv, IInv, ForwardedOK
<1>5. clock \in Nat
  BY DEF RInv, IInv
<1>6. Promise!Advance
  BY <1>1, <1>2, <1>3, <1>4, <1>5, AdvanceFrom
<1>7. LastOK'
  BY DEF RInv, LastOK, Promise!LastOut
<1> QED
  BY <1>6, <1>7

\* At first nothing is held and nothing has left.
LEMMA InitRefines == Init => Promise!Init /\ RInv
<1> SUFFICES ASSUME Init PROVE Promise!Init /\ RInv
  OBVIOUS
<1>1. Cached = {} /\ forwarded = <<>> /\ clock = 0 /\ deliver = FALSE /\ min_fid = 0
  BY DEF Init, Cached
<1>2. Promise!Init
  <2>1. Promise!Frames = Frames
    BY SameNames
  <2>2. [f \in Frames |-> IF f \in Cached THEN frame_cache[f].recv ELSE 0]
           = [f \in Promise!Frames |-> 0]
    BY <1>1, <2>1
  <2>3. (1..clock) \ Key = {}
    BY <1>1
  <2>4. deliver \in BOOLEAN
    BY <1>1
  <2> QED
    BY <1>1, <2>2, <2>3, <2>4 DEF Promise!Init
<1>3. LastOK
  BY <1>1 DEF LastOK, Promise!LastOut
<1>4. FlagsOK
  BY DEF Init, FlagsOK
<1> QED
  BY <1>2, <1>3, <1>4, InitIInv DEF RInv

\* A packet that is stored is one arrival.
LEMMA RecvStoredRefines ==
    ASSUME RInv, NEW p \in Paths, NEW s \in 1..Len(Layout[p]), RecvStored(p, s)
    PROVE  Promise!Advance /\ LastOK'
<1> DEFINE pk == <<p, s>>
           f == Fid(pk)
<1>1. /\ PathAccepts(p, s) /\ ~CheckLateFrame(f) /\ ~Collides(pk)
      /\ CheckDeliverFrame(StorePacket(pk), TablesAfter(p, s), recv_buf_len + 1)
      /\ deliver' = deliver /\ clock' = clock
  BY DEF RecvStored
<1>2. CacheOK(frame_cache, got') /\ s \in got'[p]
  BY <1>1, PathAcceptsKeeps DEF RInv
<1>3. pk \in PathPackets /\ pk[1] = p /\ pk[2] = s /\ f \in Frames
  BY PacketOf, PacketParts
<1> HIDE DEF pk
<1>4. PICK cache, tabs, len, G :
         /\ cache = StorePacket(pk) /\ tabs = TablesAfter(p, s)
         /\ len = recv_buf_len + 1 /\ G = got'
  OBVIOUS
<1>5. CacheOK(cache, G)
  <2>1. CacheOK(frame_cache, G) /\ pk[2] \in G[pk[1]]
    BY <1>2, <1>3, <1>4
  <2> QED
    BY <1>1, <1>3, <1>4, <2>1, StorePacketKeeps DEF RInv
<1>6. /\ DOMAIN cache = DOMAIN frame_cache \cup {f}
      /\ cache[f].recv = (IF f \in DOMAIN frame_cache THEN frame_cache[f].recv ELSE 0) + 1
      /\ \A g \in DOMAIN cache \ {f} : cache[g] = frame_cache[g]
  BY <1>4 DEF StorePacket
<1>7. cache[f].recv \in 1..Total[f]
  BY <1>3, <1>5, <1>6, FrameCounts DEF CacheOK
<1>8. HaveIn(cache) = [HaveIn(frame_cache) EXCEPT ![f] = @ + 1]
  BY <1>3, <1>6 DEF HaveIn
<1>9. HaveIn(frame_cache)[f] < Total[f]
  <2>1. HaveIn(frame_cache)[f] \in Nat /\ HaveIn(frame_cache)[f] + 1 = cache[f].recv
    BY <1>3, <1>6 DEF HaveIn, RInv, IInv, CacheOK, FrameOK
  <2>2. Total[f] \in Nat
    BY <1>3, LayoutAssumption
  <2> QED
    BY <1>7, <2>1, <2>2
<1>10. f > Promise!LastOut
  <2>1. NumFrames \in Nat
    BY LayoutAssumption
  <2>2. f \in Nat /\ min_fid \in Nat /\ Promise!LastOut \in Nat /\ Promise!LastOut <= min_fid
    BY <1>3, <2>1 DEF Frames, RInv, IInv, LastOK
  <2> HIDE DEF f
  <2>3. ~(f <= min_fid)
    BY <1>1 DEF CheckLateFrame
  <2> QED
    BY <2>2, <2>3
<1> HIDE DEF f
<1>11. HaveIn(cache) \in Promise!Arrivals
  BY <1>3, <1>8, <1>9, <1>10, SameNames
<1>12. /\ deliver \in BOOLEAN /\ clock \in Nat /\ clock' \in 0..NumFrames
       /\ min_fid \in 0..NumFrames /\ ForwardedOK /\ LastOK
  BY <1>1 DEF RInv, IInv, FlagsOK
<1>13. CheckDeliverFrame(cache, tabs, len) /\ deliver' = deliver
  BY <1>1, <1>4
<1> QED
  BY <1>5, <1>11, <1>12, <1>13, CheckDeliverRefines

\* The heartbeat forwards what is ready in front.
LEMMA HeartBeatRefines ==
    ASSUME RInv, HeartBeat
    PROVE  Promise!Advance /\ LastOK'
<1>1. /\ CheckDeliverFrame(frame_cache, tables, recv_buf_len)
      /\ deliver' = deliver /\ clock' = clock
  BY DEF HeartBeat
<1>2. PICK cache, tabs, len, G :
         cache = frame_cache /\ tabs = tables /\ len = recv_buf_len /\ G = got
  OBVIOUS
<1>3. CacheOK(cache, G) /\ HaveIn(cache) \in Promise!Arrivals
  BY <1>2, SameNames DEF RInv, IInv
<1>4. /\ deliver \in BOOLEAN /\ clock \in Nat /\ clock' \in 0..NumFrames
      /\ min_fid \in 0..NumFrames /\ ForwardedOK /\ LastOK
  BY <1>1 DEF RInv, IInv, FlagsOK
<1>5. CheckDeliverFrame(cache, tabs, len) /\ deliver' = deliver
  BY <1>1, <1>2
<1> QED
  BY <1>3, <1>4, <1>5, CheckDeliverRefines

\* Every step of the receiver is a step of the promise or leaves it alone.
LEMMA NextRefines == RInv /\ IInv' /\ FlagsOK' /\ [Next]_vars
                        => [Promise!Next]_Promise!vars /\ RInv'
<1> SUFFICES ASSUME RInv, IInv', FlagsOK', [Next]_vars
             PROVE  [Promise!Next]_Promise!vars /\ LastOK'
  BY DEF RInv
<1>1. CASE UNCHANGED <<frame_cache, forwarded, min_fid, clock, deliver>>
  <2>1. UNCHANGED Promise!vars
    BY <1>1 DEF Promise!vars, Cached
  <2>2. LastOK'
    BY <1>1 DEF RInv, LastOK, Promise!LastOut
  <2> QED
    BY <2>1, <2>2
<1>2. ASSUME NEW p \in Paths, NEW s \in 1..Len(Layout[p]), RecvStored(p, s)
      PROVE  Promise!Next /\ LastOK'
  BY <1>2, RecvStoredRefines DEF Promise!Next
<1>3. CASE HeartBeat
  BY <1>3, HeartBeatRefines DEF Promise!Next
<1>4. CASE RegisterDataSink
  <2>1. deliver' = TRUE /\ UNCHANGED <<frame_cache, forwarded, min_fid, clock>>
    BY <1>4 DEF RegisterDataSink, cacheVars
  <2>2. Promise!Listen
    BY <2>1 DEF Promise!Listen, Cached
  <2>3. LastOK'
    BY <2>1 DEF RInv, LastOK, Promise!LastOut
  <2> QED
    BY <2>2, <2>3 DEF Promise!Next
<1>5. CASE Tick
  <2>1. UNCHANGED <<frame_cache, forwarded, min_fid, deliver>>
    BY <1>5 DEF Tick, cacheVars
  <2>2. clock' \in 0..NumFrames
    BY DEF IInv
  <2> QED
    BY <2>1, <2>2, NothingLeaves DEF Promise!Next
<1>6. ASSUME NEW p \in Paths, NEW s \in 1..Len(Layout[p]),
             RecvLate(p, s) \/ RecvCollision(p, s)
      PROVE  UNCHANGED <<frame_cache, forwarded, min_fid, clock, deliver>>
  BY <1>6 DEF RecvLate, RecvCollision, cacheVars
<1>7. Stop \/ UNCHANGED vars => UNCHANGED <<frame_cache, forwarded, min_fid, clock, deliver>>
  BY DEF Stop, vars, cacheVars
<1> QED
  BY <1>1, <1>2, <1>3, <1>4, <1>5, <1>6, <1>7 DEF Next, RecvPacket

\* MultipathReceiver hands frames to its sink as InOrderDelivery promises: in
\* order, each at most once, none jumped over while something of it is held,
\* and incomplete only when it is no key frame and its time is up.
THEOREM MultipathKeepsPromise == Spec => KeepsPromise
<1>1. RInv /\ IInv' /\ FlagsOK' /\ [Next]_vars => [Promise!Next]_Promise!vars /\ RInv'
  BY NextRefines
<1> QED
  BY <1>1, InitRefines, Invariance, FlagsAlwaysOK, PTL DEF Spec, KeepsPromise, Promise!Spec
=============================================================================
