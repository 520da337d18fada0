-------------------------- MODULE ReceiverV1Proofs --------------------------
(***************************************************************************)
(* Proofs about ReceiverV1, for every number of frames and every split of  *)
(* them into packets.                                                      *)
(***************************************************************************)
EXTENDS ReceiverV1, FiniteSetTheorems, WellFoundedInduction, TLAPS

LessThan == {ss \in Nat \X Nat : ss[1] < ss[2]}

\* A non-empty set of naturals up to n has a greatest element, which Max finds.
LEMMA MaxIsGreatest ==
    ASSUME NEW n \in Nat, NEW S \in SUBSET (0..n), S # {}
    PROVE  Max(S) \in S /\ \A y \in S : y <= Max(S)
<1> DEFINE T == {n - x : x \in S}
<1>1. T \in SUBSET Nat /\ T # {}
  <2>1. \A x \in S : n - x \in Nat /\ n - x \in T
    OBVIOUS
  <2> QED
    BY <2>1
<1>2. IsWellFoundedOn(LessThan, Nat)
  BY NatLessThanWellFounded DEF OpToRel, LessThan
<1>3. PICK z \in T : \A y \in T : <<y, z>> \notin LessThan
  BY <1>1, <1>2, WFMin
<1>4. PICK x \in S : z = n - x
  OBVIOUS
<1>5. \A y \in S : x >= y
  <2> SUFFICES ASSUME NEW y \in S PROVE x >= y
    OBVIOUS
  <2>1. n - y \in T
    OBVIOUS
  <2>2. ~(n - y < z)
    BY <1>1, <1>3, <2>1 DEF LessThan
  <2> QED
    BY <1>4, <2>2
<1> QED
  BY <1>5 DEF Max

\* What a VideoFrameBuffer b of frame f satisfies after every call.
BufferOK(b, f) ==
    /\ b.packets \in SUBSET Indexes(f)
    /\ b.received = Cardinality(b.packets)
    /\ b.is_completed \in BOOLEAN
    /\ b.is_completed <=> b.packets = Indexes(f)

\* A frame of n packets has n indexes.
LEMMA IndexesCount ==
    ASSUME NEW f \in Frames
    PROVE  /\ IsFiniteSet(Indexes(f))
           /\ Cardinality(Indexes(f)) = Total[f]
           /\ Total[f] \in Nat
           /\ Indexes(f) # {}
<1>1. Total[f] \in 1..255
  BY ReceiverV1Assumption
<1> DEFINE n == Total[f]
<1> HIDE DEF n
<1>2. n \in 1..255 /\ n - 1 \in Int /\ 0 \in Int /\ ~(0 > n - 1) /\ (n - 1) - 0 + 1 = n
  BY <1>1 DEF n
<1>3. IsFiniteSet(0..(n - 1)) /\ Cardinality(0..(n - 1)) = n
  BY <1>2, FS_Interval
<1>4. 0 \in 0..(n - 1) /\ n \in Nat
  BY <1>2
<1>5. Indexes(f) = 0..(n - 1) /\ Total[f] = n
  BY DEF Indexes, n
<1> QED
  BY <1>3, <1>4, <1>5

\* A buffer starts without packets, and a frame has at least one.
LEMMA NoPacketsOK ==
    ASSUME NEW f \in Frames
    PROVE  BufferOK(NoPackets, f)
  BY IndexesCount, FS_EmptySet DEF BufferOK, NoPackets

\* OnNewPacket keeps the counter and the flag of a buffer right: the total is
\* reached by different packets only, hence by all of them.
LEMMA OnNewPacketOK ==
    ASSUME NEW f \in Frames, NEW i \in Indexes(f), NEW b, BufferOK(b, f)
    PROVE  BufferOK(OnNewPacket(b, i, Total[f]), f)
<1>1. CASE i \in b.packets
  BY <1>1 DEF OnNewPacket
<1>2. CASE i \notin b.packets
  <2> DEFINE all == b.packets \cup {i}
             new == OnNewPacket(b, i, Total[f])
  <2>1. /\ new.packets = all
        /\ new.received = b.received + 1
        /\ new.is_completed = (b.is_completed \/ b.received + 1 = Total[f])
    BY <1>2 DEF OnNewPacket, OnNewPacketCounting
  <2>2. b.packets \in SUBSET Indexes(f) /\ all \in SUBSET Indexes(f)
    BY DEF BufferOK
  <2>3. IsFiniteSet(b.packets)
    BY <2>2, IndexesCount, FS_Subset
  <2>4. Cardinality(all) = b.received + 1
    BY <1>2, <2>3, FS_AddElement DEF BufferOK
  <2>5. ~b.is_completed
    BY <1>2 DEF BufferOK
  <2>6. new.is_completed <=> b.received + 1 = Total[f]
    BY <2>1, <2>5
  <2>7. b.received + 1 = Total[f] <=> all = Indexes(f)
    <3>1. ASSUME Cardinality(all) = Cardinality(Indexes(f)) PROVE all = Indexes(f)
      BY <2>2, <3>1, IndexesCount, FS_Subset
    <3> QED
      BY <2>4, <3>1, IndexesCount
  <2>8. new.is_completed \in BOOLEAN
    BY <2>1
  <2> HIDE DEF new, all
  <2>9. BufferOK(new, f)
    BY <2>1, <2>2, <2>4, <2>6, <2>7, <2>8 DEF BufferOK
  <2> QED
    BY <2>9 DEF new
<1> QED
  BY <1>1, <1>2

\* The inductive invariant.
IInv ==
    /\ Buffered \in SUBSET Frames
    /\ \A f \in Buffered : BufferOK(frames[f], f)
    /\ delivered_fid \in Nat
    /\ BufferIsAhead

\* The invariant holds before anything has happened.
LEMMA InitIInv == Init => IInv
  BY DEF Init, IInv, Buffered, BufferIsAhead

\* A packet of a frame that is still awaited: one buffer grows or is made.
LEMMA OnVideoPacketIInv ==
    ASSUME NEW f \in Frames, NEW i \in Indexes(f), IInv, OnVideoPacket(f, i)
    PROVE  IInv'
<1> DEFINE new == OnNewPacket(BufferOf(f), i, Total[f])
<1>1. BufferOK(BufferOf(f), f)
  BY NoPacketsOK DEF IInv, BufferOf, Buffered
<1>2. BufferOK(new, f)
  BY <1>1, OnNewPacketOK
<1>3. /\ frames' = [g \in DOMAIN frames \cup {f} |-> IF g = f THEN new ELSE frames[g]]
      /\ delivered_fid' = delivered_fid
      /\ ~(f <= delivered_fid)
  BY DEF OnVideoPacket, Delivered
<1> HIDE DEF new
<1>4. Buffered' = Buffered \cup {f}
  BY <1>3 DEF Buffered
<1>5. \A g \in Buffered' : BufferOK(frames'[g], g)
  BY <1>2, <1>3, <1>4 DEF IInv, Buffered
<1>6. BufferIsAhead'
  BY <1>3, <1>4 DEF IInv, BufferIsAhead, Frames
<1> QED
  BY <1>3, <1>4, <1>5, <1>6 DEF IInv

\* The heartbeat: what stays behind is above everything that leaves, since the
\* loop stops at the first frame that must wait.
LEMMA HeartBeatIInv ==
    ASSUME IInv, HeartBeat
    PROVE  IInv'
<1>1. /\ frames' = [f \in DOMAIN frames \ Leaving |-> frames[f]]
      /\ delivered_fid' = IF Leaving = {} THEN delivered_fid ELSE Max(Leaving)
  BY DEF HeartBeat
<1>2. Leaving \in SUBSET Buffered /\ Buffered' = Buffered \ Leaving
  BY <1>1 DEF Buffered, Leaving
<1>3. \A f \in Buffered' : BufferOK(frames'[f], f)
  BY <1>1, <1>2 DEF IInv, Buffered
<1>4. ASSUME NEW f \in Buffered', NEW l \in Leaving PROVE f > l
  <2>1. f \in Buffered /\ f \notin Leaving
    BY <1>2
  <2>2. PICK g \in Buffered : g <= f /\ ~Deliverable(g)
    BY <2>1 DEF Leaving, Buffered
  <2>3. ~(g <= l)
    BY <2>2 DEF Leaving, Buffered
  <2>4. f \in Nat /\ g \in Nat /\ l \in Nat
    BY <1>2, <2>1, ReceiverV1Assumption DEF IInv, Frames
  <2> QED
    BY <2>2, <2>3, <2>4
<1>5. CASE Leaving = {}
  BY <1>1, <1>2, <1>3, <1>5 DEF IInv, BufferIsAhead
<1>6. CASE Leaving # {}
  <2>1. NumFrames \in Nat /\ Leaving \in SUBSET (0..NumFrames)
    BY <1>2, ReceiverV1Assumption DEF IInv, Frames
  <2>2. Max(Leaving) \in Leaving
    BY <1>6, <2>1, MaxIsGreatest
  <2>3. delivered_fid' \in Leaving
    BY <1>1, <1>6, <2>2
  <2>4. BufferIsAhead'
    BY <1>4, <2>3 DEF BufferIsAhead
  <2> QED
    BY <1>2, <1>3, <2>1, <2>3, <2>4 DEF IInv
<1> QED
  BY <1>5, <1>6

\* Every step keeps the invariant.
LEMMA NextIInv == IInv /\ [Next]_vars => IInv'
<1> SUFFICES ASSUME IInv, [Next]_vars PROVE IInv'
  OBVIOUS
<1>1. CASE \E f \in Frames : \E i \in Indexes(f) : OnVideoPacket(f, i)
  BY <1>1, OnVideoPacketIInv
<1>2. CASE HeartBeat
  BY <1>2, HeartBeatIInv
<1>3. CASE UNCHANGED <<frames, delivered_fid>>
  BY <1>3 DEF IInv, Buffered, BufferIsAhead
<1> QED
  BY <1>1, <1>2, <1>3 DEF Next, vars, RecvLate, Expire, StopReceiver

\* It holds in every state of every behaviour.
LEMMA Invariance == Spec => []IInv
  BY InitIInv, NextIInv, PTL DEF Spec

\* OnNewPacket: whatever copies arrive, a frame is marked complete exactly when
\* all its packets are there.
THEOREM CompletionAlwaysExact == Spec => []CompletionIsExact
<1>1. IInv => CompletionIsExact
  BY DEF IInv, BufferOK, CompletionIsExact
<1> QED
  BY <1>1, Invariance, PTL

\* CheckDeliverable and OnVideoPacket: what left or was jumped over is never
\* buffered again.
THEOREM BufferAlwaysAhead == Spec => []BufferIsAhead
<1>1. IInv => BufferIsAhead
  BY DEF IInv
<1> QED
  BY <1>1, Invariance, PTL
-----------------------------------------------------------------------------
(***************************************************************************)
(* The receiver implements InOrderDelivery.                                *)
(***************************************************************************)
Outs == [fid : Nat, recv : Nat]
Have == [f \in Frames |-> IF f \in Buffered THEN frames[f].received ELSE 0]

\* What the refinement needs beyond IInv: a buffer is made for a packet, and
\* nothing above delivered_fid_ has left.
RInv ==
    /\ IInv
    /\ \A f \in Buffered : frames[f].packets # {}
    /\ out \in Seq(Outs)
    /\ Promise!LastOut \in Nat /\ Promise!LastOut <= delivered_fid

\* Both modules order a set in the same way.
LEMMA SameOrder ==
    ASSUME NEW S
    PROVE  Promise!Ascending(S) = Ascending(S)
<1>1. Promise!Cardinality(S) = Cardinality(S)
  BY DEF Promise!Cardinality, Cardinality
<1> QED
  BY <1>1 DEF Ascending, Promise!Ascending

\* Nothing is ordered by the empty sequence only.
LEMMA AscendingEmpty == <<>> \in Ascending({})
  BY FS_EmptySet DEF Ascending

\* A buffered frame holds between one packet and all of them.
LEMMA HaveBounds ==
    ASSUME RInv, NEW f \in Buffered
    PROVE  /\ f \in Frames
           /\ IsFiniteSet(frames[f].packets)
           /\ frames[f].received \in Nat /\ frames[f].received > 0
           /\ frames[f].received <= Total[f]
           /\ frames[f].received = Total[f] <=> frames[f].is_completed
<1>1. f \in Frames /\ BufferOK(frames[f], f) /\ frames[f].packets # {}
  BY DEF RInv, IInv
<1> DEFINE P == frames[f].packets
<1>2. P \in SUBSET Indexes(f) /\ frames[f].received = Cardinality(P) /\ P # {}
  BY <1>1 DEF BufferOK
<1> HIDE DEF P
<1>3. IsFiniteSet(Indexes(f)) /\ Cardinality(Indexes(f)) = Total[f]
  BY <1>1, IndexesCount
<1>4. /\ IsFiniteSet(P) /\ Cardinality(P) <= Total[f]
      /\ Cardinality(P) = Total[f] => P = Indexes(f)
  BY <1>2, <1>3, FS_Subset
<1>5. Cardinality(P) \in Nat /\ Cardinality(P) # 0
  BY <1>2, <1>4, FS_CardinalityType, FS_EmptySet
<1>6. P = Indexes(f) <=> frames[f].is_completed
  BY <1>1 DEF BufferOK, P
<1> QED
  BY <1>1, <1>2, <1>3, <1>4, <1>5, <1>6 DEF P

\* The conjuncts of a step of the promise, with the frames that leave.
LEMMA AdvanceFrom ==
    ASSUME NEW h \in Promise!Arrivals, NEW leaving \in SUBSET Frames,
           \A f \in leaving : h[f] > 0 /\ Promise!MayLeave(h, f),
           \A f \in leaving, g \in Frames : g < f /\ h[g] > 0 => g \in leaving,
           Have' = [f \in Frames |-> IF f \in leaving THEN 0 ELSE h[f]],
           NEW run \in Ascending(leaving),
           out' = out \o [k \in DOMAIN run |-> [fid |-> run[k], recv |-> h[run[k]]]],
           Buffered' \in SUBSET Frames
    PROVE  Promise!Advance
<1>1. Promise!Frames = Frames
  BY DEF Promise!Frames, Frames
<1>2. Promise!Deadlines
  BY <1>1 DEF Promise!Deadlines
<1>3. \E r \in Promise!Ascending(leaving) :
         out' = IF TRUE
                THEN out \o [k \in DOMAIN r |-> [fid |-> r[k], recv |-> h[r[k]]]]
                ELSE out
  BY SameOrder
<1>4. Have' = [f \in Promise!Frames |-> IF f \in leaving THEN 0 ELSE h[f]]
  BY <1>1
<1>5. UNCHANGED TRUE
  OBVIOUS
<1> QED
  BY <1>1, <1>2, <1>3, <1>4, <1>5 DEF Promise!Advance, Have

\* A step in which at most one packet arrives and nothing leaves.
LEMMA NothingLeaves ==
    ASSUME RInv, Have' \in Promise!Arrivals, out' = out, Buffered' \in SUBSET Frames
    PROVE  Promise!Advance
<1> DEFINE h == Have'
<1>1. out \o [k \in DOMAIN <<>> |-> [fid |-> <<>>[k], recv |-> h[<<>>[k]]]] = out
  BY DEF RInv
<1>2. h = [f \in Frames |-> IF f \in {} THEN 0 ELSE h[f]]
  BY DEF Have
<1> HIDE DEF h
<1>3. h \in Promise!Arrivals /\ Have' = [f \in Frames |-> IF f \in {} THEN 0 ELSE h[f]]
  BY <1>2 DEF h
<1> QED
  BY <1>1, <1>3, AscendingEmpty, AdvanceFrom

\* At first nothing is held and nothing has left.
LEMMA InitRefines == Init => Promise!Init /\ RInv
<1> SUFFICES ASSUME Init PROVE Promise!Init /\ RInv
  OBVIOUS
<1>1. Buffered = {}
  BY DEF Init, Buffered
<1>2. Promise!Init
  BY <1>1 DEF Init, Promise!Init, Promise!Frames, Frames
<1>3. out \in Seq(Outs) /\ Promise!LastOut = 0 /\ delivered_fid = 0
  BY DEF Init, Promise!LastOut
<1> QED
  BY <1>1, <1>2, <1>3, InitIInv DEF RInv

\* A packet of an awaited frame is one arrival or a copy.
LEMMA OnVideoPacketRefines ==
    ASSUME RInv, NEW f \in Frames, NEW i \in Indexes(f), OnVideoPacket(f, i)
    PROVE  Promise!Advance /\ RInv'
<1> DEFINE old == BufferOf(f)
           new == OnNewPacket(old, i, Total[f])
<1>1. /\ frames' = [g \in DOMAIN frames \cup {f} |-> IF g = f THEN new ELSE frames[g]]
      /\ delivered_fid' = delivered_fid /\ out' = out
      /\ ~(f <= delivered_fid)
  BY DEF OnVideoPacket, Delivered
<1>2. Buffered' = Buffered \cup {f} /\ Buffered' \in SUBSET Frames
  BY <1>1 DEF Buffered, RInv, IInv
<1>3. IInv'
  BY OnVideoPacketIInv DEF RInv
<1>4. /\ f \in Buffered => old = frames[f]
      /\ f \notin Buffered => old.received = 0 /\ i \notin old.packets
  BY DEF BufferOf, NoPackets, Buffered
<1>5. new.packets # {}
  BY DEF OnNewPacket, OnNewPacketCounting
<1>6. IF i \in old.packets THEN new = old ELSE new.received = old.received + 1
  BY DEF OnNewPacket, OnNewPacketCounting
<1>7. Have[f] = old.received
  BY <1>4 DEF Have
<1>8. Have' = [Have EXCEPT ![f] = new.received]
  BY <1>1, <1>2 DEF Have, Buffered
<1>9. i \notin old.packets => old.received < Total[f] /\ old.received \in Nat
  <2>1. CASE f \notin Buffered
    BY <1>4, <2>1, ReceiverV1Assumption
  <2>2. CASE f \in Buffered /\ i \notin old.packets
    <3>1. BufferOK(old, f)
      BY <1>4, <2>2 DEF RInv, IInv
    <3>2. ~old.is_completed
      BY <2>2, <3>1 DEF BufferOK
    <3>3. Total[f] \in Nat
      BY ReceiverV1Assumption
    <3> QED
      BY <1>4, <2>2, <3>2, <3>3, HaveBounds
  <2> QED
    BY <2>1, <2>2
<1>10. f > Promise!LastOut
  BY <1>1, ReceiverV1Assumption DEF RInv, IInv, Frames
<1> HIDE DEF old, new
<1>11. Have' \in Promise!Arrivals
  <2>1. Have \in [Frames -> Int] /\ Promise!Frames = Frames
    <3>1. \A g \in Frames : Have[g] \in Int
      BY HaveBounds DEF Have
    <3> QED
      BY <3>1 DEF Have, Promise!Frames, Frames
  <2>2. CASE i \in old.packets
    <3>1. Have' = Have
      BY <1>6, <1>7, <1>8, <2>1, <2>2
    <3> QED
      BY <3>1 DEF Promise!Arrivals, Have
  <2>3. CASE i \notin old.packets
    <3>1. Have' = [Have EXCEPT ![f] = @ + 1]
      BY <1>6, <1>7, <1>8, <2>1, <2>3
    <3>2. Have[f] < Total[f]
      BY <1>7, <1>9, <2>3
    <3> QED
      BY <1>10, <2>1, <3>1, <3>2 DEF Promise!Arrivals, Have
  <2> QED
    BY <2>2, <2>3
<1>12. Promise!Advance
  BY <1>1, <1>2, <1>11, NothingLeaves
<1>13. \A g \in Buffered' : frames'[g].packets # {}
  BY <1>1, <1>2, <1>5 DEF RInv, Buffered
<1>14. Promise!LastOut' = Promise!LastOut
  BY <1>1 DEF Promise!LastOut
<1> QED
  BY <1>1, <1>3, <1>12, <1>13, <1>14 DEF RInv

\* The heartbeat: the frames in front that may leave do, in order.
LEMMA HeartBeatRefines ==
    ASSUME RInv, HeartBeat
    PROVE  Promise!Advance /\ RInv'
<1>1. PICK run \in Ascending(Leaving) :
         out' = out \o [k \in DOMAIN run |->
                            [fid |-> run[k], recv |-> frames[run[k]].received]]
  BY DEF HeartBeat
<1>2. /\ frames' = [f \in DOMAIN frames \ Leaving |-> frames[f]]
      /\ delivered_fid' = IF Leaving = {} THEN delivered_fid ELSE Max(Leaving)
  BY DEF HeartBeat
<1>3. /\ Leaving \in SUBSET Buffered /\ Leaving \in SUBSET Frames
      /\ Buffered' = Buffered \ Leaving /\ Buffered' \in SUBSET Frames
  BY <1>2 DEF Buffered, Leaving, RInv, IInv
<1> DEFINE gone == [k \in DOMAIN run |-> [fid |-> run[k], recv |-> Have[run[k]]]]
<1>5. \A k \in DOMAIN run : run[k] \in Leaving
  BY <1>1 DEF Ascending
<1>6. out' = out \o gone
  <2>1. gone = [k \in DOMAIN run |-> [fid |-> run[k], recv |-> frames[run[k]].received]]
    BY <1>3, <1>5 DEF Have
  <2> QED
    BY <1>1, <2>1
<1>7. Have' = [f \in Frames |-> IF f \in Leaving THEN 0 ELSE Have[f]]
  BY <1>2, <1>3 DEF Have, Buffered
<1>8. \A f \in Leaving : Have[f] > 0 /\ (Have[f] = Total[f] \/ (f \in Buffered /\ Expired(f)))
  <2> SUFFICES ASSUME NEW f \in Leaving
               PROVE  Have[f] > 0 /\ (Have[f] = Total[f] \/ (f \in Buffered /\ Expired(f)))
    OBVIOUS
  <2>1. f \in Buffered /\ Have[f] = frames[f].received
    BY <1>3 DEF Have
  <2>2. f \in DOMAIN frames /\ f <= f => Deliverable(f)
    BY DEF Leaving
  <2>3. f <= f
    BY <1>3 DEF Frames
  <2>4. frames[f].is_completed \/ Expired(f)
    BY <2>1, <2>2, <2>3 DEF Buffered, Deliverable
  <2> QED
    BY <2>1, <2>4, HaveBounds
<1>9. \A f \in Leaving, g \in Frames : g < f /\ Have[g] > 0 => g \in Leaving
  <2> SUFFICES ASSUME NEW f \in Leaving, NEW g \in Frames, g < f, Have[g] > 0
               PROVE  g \in Leaving
    OBVIOUS
  <2>1. g \in Buffered
    BY DEF Have
  <2>2. ASSUME NEW e \in Buffered, e <= g PROVE Deliverable(e)
    <3>1. e \in Int /\ g \in Int /\ f \in Int
      BY <1>3, <2>2 DEF RInv, IInv, Frames
    <3>2. e <= f
      BY <2>2, <3>1
    <3> QED
      BY <2>2, <3>2 DEF Leaving, Buffered
  <2> QED
    BY <2>1, <2>2 DEF Leaving, Buffered
<1>10. IInv'
  BY HeartBeatIInv DEF RInv
<1>11. Promise!Advance
  <2>1. Have \in Promise!Arrivals
    BY DEF Promise!Arrivals, Have
  <2>2. \A f \in Leaving : Have[f] > 0 /\ Promise!MayLeave(Have, f)
    BY <1>8 DEF Promise!MayLeave
  <2> HIDE DEF gone
  <2>3. out' = out \o [k \in DOMAIN run |-> [fid |-> run[k], recv |-> Have[run[k]]]]
    BY <1>6 DEF gone
  <2> QED
    BY <1>1, <1>3, <1>7, <1>9, <2>1, <2>2, <2>3, AdvanceFrom
<1>12. gone \in Seq(Outs) /\ Len(gone) = Cardinality(Leaving)
  <2>1. DOMAIN run = 1..Cardinality(Leaving)
    BY <1>1 DEF Ascending
  <2>2. Cardinality(Leaving) \in Nat
    <3>1. IsFiniteSet(Frames)
      BY ReceiverV1Assumption, FS_Interval DEF Frames
    <3> QED
      BY <1>3, <3>1, FS_Subset, FS_CardinalityType
  <2>3. \A k \in DOMAIN run : gone[k] \in Outs
    <3> SUFFICES ASSUME NEW k \in DOMAIN run PROVE gone[k] \in Outs
      OBVIOUS
    <3>1. run[k] \in Buffered /\ run[k] \in Frames
      BY <1>3, <1>5
    <3>2. Have[run[k]] \in Nat
      BY <3>1, HaveBounds DEF Have
    <3>3. run[k] \in Nat
      BY <3>1, ReceiverV1Assumption DEF Frames
    <3> QED
      BY <3>2, <3>3 DEF Outs
  <2> QED
    BY <2>1, <2>2, <2>3
<1>13. Promise!LastOut' \in Nat /\ Promise!LastOut' <= delivered_fid'
  <2>1. CASE Leaving = {}
    <3>1. gone = <<>>
      BY <1>12, <2>1, FS_EmptySet
    <3>2. out' = out
      BY <1>6, <3>1 DEF RInv
    <3> QED
      BY <1>2, <2>1, <3>2 DEF RInv, Promise!LastOut
  <2>2. CASE Leaving # {}
    <3> DEFINE n == Len(gone)
    <3>1. n \in Nat \ {0} /\ n \in DOMAIN run
      <4>1. Cardinality(Leaving) # 0
        <5>1. IsFiniteSet(Frames)
          BY ReceiverV1Assumption, FS_Interval DEF Frames
        <5> QED
          BY <1>3, <2>2, <5>1, FS_Subset, FS_EmptySet
      <4>2. DOMAIN run = 1..Cardinality(Leaving)
        BY <1>1 DEF Ascending
      <4>3. n = Cardinality(Leaving) /\ n \in Nat
        BY <1>12
      <4> HIDE DEF n
      <4> QED
        BY <4>1, <4>2, <4>3
    <3>2. out' \in Seq(Outs) /\ out' # <<>> /\ Last(out') = gone[n]
      <4>1. out \in Seq(Outs) /\ gone \in Seq(Outs)
        BY <1>12 DEF RInv
      <4> HIDE DEF gone
      <4> QED
        BY <1>6, <3>1, <4>1 DEF Last
    <3>3. Promise!LastOut' = run[n] /\ run[n] \in Leaving
      BY <1>5, <3>1, <3>2 DEF Promise!LastOut, Promise!Last, Last
    <3>4. NumFrames \in Nat /\ Leaving \in SUBSET (0..NumFrames)
      BY <1>3, ReceiverV1Assumption DEF Frames
    <3> QED
      <4>1. Max(Leaving) \in Leaving /\ \A y \in Leaving : y <= Max(Leaving)
        BY <2>2, <3>4, MaxIsGreatest
      <4>2. delivered_fid' = Max(Leaving)
        BY <1>2, <2>2
      <4> HIDE DEF n
      <4>3. \A x \in Leaving : x \in Nat /\ x <= Max(Leaving)
        BY <3>4, <4>1
      <4> QED
        BY ONLY <3>3, <4>2, <4>3
  <2> QED
    BY <2>1, <2>2
<1>14. out' \in Seq(Outs)
  BY <1>6, <1>12 DEF RInv
<1>15. \A f \in Buffered' : frames'[f].packets # {}
  BY <1>2, <1>3 DEF RInv, Buffered
<1> QED
  BY <1>10, <1>11, <1>13, <1>14, <1>15 DEF RInv

\* max_frame_wait passes: a deadline of the promise.
LEMMA ExpireRefines ==
    ASSUME RInv, Expire
    PROVE  Promise!Advance /\ RInv'
<1>1. UNCHANGED <<frames, delivered_fid, out>>
  BY DEF Expire
<1>2. Have' = Have /\ Buffered' = Buffered
  BY <1>1 DEF Have, Buffered
<1>3. Have' \in Promise!Arrivals
  BY <1>2 DEF Promise!Arrivals, Have
<1>4. Promise!Advance
  BY <1>1, <1>2, <1>3, NothingLeaves DEF RInv, IInv
<1>5. RInv'
  BY <1>1, <1>2 DEF RInv, IInv, Buffered, BufferIsAhead, Promise!LastOut
<1> QED
  BY <1>4, <1>5

\* Every step of the receiver is a step of the promise or leaves it alone.
LEMMA NextRefines == RInv /\ [Next]_vars => [Promise!Next]_Promise!vars /\ RInv'
<1> SUFFICES ASSUME RInv, [Next]_vars PROVE [Promise!Next]_Promise!vars /\ RInv'
  OBVIOUS
<1>1. CASE \E f \in Frames : \E i \in Indexes(f) : OnVideoPacket(f, i)
  BY <1>1, OnVideoPacketRefines DEF Promise!Next
<1>2. CASE HeartBeat
  BY <1>2, HeartBeatRefines DEF Promise!Next
<1>3. CASE Expire
  BY <1>3, ExpireRefines DEF Promise!Next
<1>4. CASE UNCHANGED <<frames, delivered_fid, recent, out>>
  <2>1. UNCHANGED Promise!vars
    BY <1>4 DEF Promise!vars, Buffered, Expired
  <2>2. RInv'
    BY <1>4 DEF RInv, IInv, Buffered, BufferIsAhead, Promise!LastOut
  <2> QED
    BY <2>1, <2>2
<1> QED
  BY <1>1, <1>2, <1>3, <1>4 DEF Next, vars, RecvLate, StopReceiver

\* MpReceiverV1 hands frames to the decoder as InOrderDelivery promises: in order,
\* each at most once, none jumped over while something of it is held, and
\* incomplete only when it has expired.
THEOREM ReceiverKeepsPromise == Spec => KeepsPromise
  BY InitRefines, NextRefines, PTL DEF Spec, KeepsPromise, Promise!Spec
=============================================================================
