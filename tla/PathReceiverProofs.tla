------------------------- MODULE PathReceiverProofs -------------------------
(***************************************************************************)
(* Proofs about PathReceiver, for every number of packets, every split of  *)
(* frames over the paths and every size of a segment ack.                  *)
(*                                                                         *)
(* The first part has what the member functions of PathTables return; the  *)
(* proofs about MultipathReceiver cite it too, which is why PathReceiver   *)
(* has names of its own for its variables and its specification.           *)
(***************************************************************************)
EXTENDS PathReceiver, FiniteSetTheorems, WellFoundedInduction, TLAPS

LessThan == {ss \in Nat \X Nat : ss[1] < ss[2]}

\* A non-empty set of naturals has a least element, which Min finds.
LEMMA MinIsLeast ==
    ASSUME NEW S \in SUBSET Nat, S # {}
    PROVE  Min(S) \in S /\ \A y \in S : Min(S) <= y
<1>1. IsWellFoundedOn(LessThan, Nat)
  BY NatLessThanWellFounded DEF OpToRel, LessThan
<1>2. PICK x \in S : \A y \in S : <<y, x>> \notin LessThan
  BY <1>1, WFMin
<1>3. \A y \in S : x <= y
  <2> SUFFICES ASSUME NEW y \in S PROVE x <= y
    OBVIOUS
  <2>1. <<y, x>> \notin LessThan
    BY <1>2
  <2> QED
    BY <2>1 DEF LessThan
<1> QED
  BY <1>3 DEF Min

TableRecords == [base : Nat, max : Nat, loss : SUBSET Nat, recv : SUBSET Nat]

Above(t) == (t.base + 1)..t.max

\* Before the base moves over the run that follows it, G being what arrived:
\* loss_ is exact already, recv_table_ is exact above the base.
NearlyExact(t, G) ==
    /\ t \in TableRecords
    /\ t.base <= t.max
    /\ t.loss = Above(t) \ G
    /\ t.recv \cap Above(t) = Above(t) \cap G
    /\ \A r \in t.recv : r <= t.max
    /\ G \subseteq 1..t.max

\* TablesExact for any tables t and any set G of arrived packets.
Exact(t, G) ==
    /\ NearlyExact(t, G)
    /\ t.recv = Above(t) \cap G
    /\ t.base + 1 \notin G

\* AdvanceBase makes the tables exact: the base stops right before the first
\* packet that is missing, having moved over packets that arrived only.
LEMMA AdvanceBaseExact ==
    ASSUME NEW t, NEW G, NearlyExact(t, G)
    PROVE  /\ Exact(AdvanceBase(t), G)
           /\ AdvanceBase(t).base >= t.base
           /\ AdvanceBase(t).max = t.max
           /\ \A s \in (t.base + 1)..AdvanceBase(t).base : s \in G
<1> DEFINE gaps == {g \in (t.base + 1)..(t.max + 1) : g \notin t.recv}
           gap == Min(gaps)
           u == AdvanceBase(t)
<1>0. t \in TableRecords /\ t.base \in Nat /\ t.max \in Nat /\ t.base <= t.max
      /\ t.loss \in SUBSET Nat /\ t.recv \in SUBSET Nat
  BY DEF NearlyExact, TableRecords
<1>1. gaps \in SUBSET Nat
  BY <1>0
<1>2. t.max + 1 \in gaps
  BY <1>0 DEF NearlyExact
<1>3. gap \in gaps /\ \A g \in gaps : gap <= g
  BY <1>1, <1>2, MinIsLeast
<1>4. u = [t EXCEPT !.base = gap - 1, !.recv = {r \in @ : r > gap - 1}]
  BY DEF AdvanceBase
<1> HIDE DEF gap, u
<1>5. /\ gap \in (t.base + 1)..(t.max + 1)
      /\ gap \notin t.recv
      /\ \A s \in (t.base + 1)..(gap - 1) : s \in t.recv
  <2>1. gap \in (t.base + 1)..(t.max + 1) /\ gap \notin t.recv
    BY <1>3
  <2> SUFFICES ASSUME NEW s \in (t.base + 1)..(gap - 1), s \notin t.recv PROVE FALSE
    BY <2>1
  <2>3. s \in gaps
    BY <1>0, <2>1
  <2> QED
    BY <1>0, <1>3, <2>1, <2>3
<1> HIDE DEF gaps
<1>6. /\ u \in TableRecords
      /\ u.base = gap - 1
      /\ u.max = t.max
      /\ u.loss = t.loss
      /\ u.recv = {r \in t.recv : r > gap - 1}
  <2>1. gap - 1 \in Nat /\ {r \in t.recv : r > gap - 1} \in SUBSET Nat
    BY <1>0, <1>5
  <2> QED
    BY <1>0, <1>4, <2>1 DEF TableRecords
<1>7. \A s \in (t.base + 1)..u.base : s \in G
  BY <1>0, <1>5, <1>6 DEF NearlyExact, Above
<1>8. u.base <= u.max /\ u.base >= t.base
  BY <1>0, <1>5, <1>6
<1>9. u.loss = Above(u) \ G
  <2>1. t.loss = Above(t) \ G
    BY DEF NearlyExact
  <2>2. ASSUME NEW s \in Above(t), s \notin G PROVE s \in Above(u)
    BY <1>0, <1>6, <1>7, <1>8, <2>2 DEF Above, TableRecords
  <2>3. Above(u) \subseteq Above(t)
    BY <1>0, <1>6, <1>8 DEF Above, TableRecords
  <2> QED
    BY <1>6, <2>1, <2>2, <2>3
<1>10. u.recv = Above(u) \cap G
  BY <1>0, <1>5, <1>6, <1>8 DEF NearlyExact, Above
<1>11. u.base + 1 \notin G
  BY <1>0, <1>5, <1>6 DEF NearlyExact, Above
<1>12. Exact(u, G)
  <2>1. u.recv \cap Above(u) = Above(u) \cap G
    BY <1>10
  <2>2. \A r \in u.recv : r <= u.max
    BY <1>0, <1>6 DEF NearlyExact
  <2>3. G \subseteq 1..u.max
    BY <1>6 DEF NearlyExact
  <2> QED
    BY <1>6, <1>8, <1>9, <1>10, <1>11, <2>1, <2>2, <2>3 DEF Exact, NearlyExact
<1> QED
  BY <1>6, <1>7, <1>8, <1>12 DEF u

\* A segment that is not refused keeps the tables exact, with the segment among
\* what arrived, and moves the base over arrived packets only, once the origin
\* is set.
LEMMA AcceptExact ==
    ASSUME NEW t, NEW G, NEW seq \in Nat \ {0}, NEW index \in Nat,
           Exact(t, G), ~Refused(t, seq), t.max = 0 => t.base = 0
    PROVE  LET u == Accept(t, seq, index) IN
           /\ Exact(u, G \cup {seq})
           /\ u.base >= t.base
           /\ u.max = IF seq > t.max THEN seq ELSE t.max
           /\ \A s \in (t.base + 1)..u.base :
                 s \in G \cup {seq} \/ (t.max = 0 /\ s <= StartAt(t, seq, index).base)
           /\ t.max = 0 => StartAt(t, seq, index).base \in 0..(seq - 1)
<1> DEFINE t0 == StartAt(t, seq, index)
           t1 == UpdataLoss(t0, seq)
           t2 == RaiseMax(t1, seq)
           t3 == IF seq = t2.base + 1 THEN [t2 EXCEPT !.base = seq]
                                      ELSE [t2 EXCEPT !.recv = @ \cup {seq}]
           H == G \cup {seq}
<1>1. /\ t0 \in TableRecords
      /\ t0.base <= t0.max /\ t0.max >= t.max /\ t0.base >= t.base
      /\ t0.loss = Above(t0) \ G
      /\ t0.recv = Above(t0) \cap G
      /\ t0.base + 1 \notin G
      /\ G \subseteq 1..t0.max
      /\ seq \notin t0.recv /\ seq >= t0.base
      /\ t.max > 0 => t0 = t
      /\ t.max = 0 => t0.base \in 0..(seq - 1) /\ t0.max < seq
  <2>1. CASE t.max = 0 /\ seq > index
    <3>1. G = {} /\ t.base = 0 /\ t.loss = {} /\ t.recv = {}
      BY <2>1 DEF Exact, NearlyExact, Above, TableRecords
    <3>2. t0 = [t EXCEPT !.max = seq - index - 1, !.base = seq - index - 1]
      BY <2>1 DEF StartAt
    <3>3. t0 \in TableRecords /\ t0.base = seq - index - 1 /\ t0.max = seq - index - 1
          /\ t0.loss = {} /\ t0.recv = {}
      <4>1. seq - index - 1 \in Nat /\ t \in TableRecords
        BY <2>1 DEF Exact, NearlyExact
      <4> QED
        BY <3>1, <3>2, <4>1 DEF TableRecords
    <3> QED
      BY <2>1, <3>1, <3>3 DEF Above
  <2>2. CASE ~(t.max = 0 /\ seq > index)
    <3>1. t0 = t
      BY <2>2 DEF StartAt
    <3> QED
      BY <3>1 DEF Exact, NearlyExact, Refused, CheckRecvTableExist, TableRecords
  <2> QED
    BY <2>1, <2>2
<1> HIDE DEF t0
<1>2. /\ t1 \in TableRecords /\ t1.base = t0.base /\ t1.max = t0.max /\ t1.recv = t0.recv
      /\ t1.loss = (t0.loss \ {seq}) \cup ((t0.max + 1)..(seq - 1))
  BY <1>1 DEF UpdataLoss, TableRecords
<1> HIDE DEF t1
<1>3. /\ t2 \in TableRecords /\ t2.base = t0.base /\ t2.recv = t0.recv /\ t2.loss = t1.loss
      /\ t2.max = IF seq > t0.max THEN seq ELSE t0.max
  BY <1>2 DEF RaiseMax, TableRecords
<1> HIDE DEF t2
<1>4. t2.loss = Above(t2) \ H
  BY <1>1, <1>2, <1>3 DEF Above, TableRecords
<1>5. NearlyExact(t3, H) /\ t3.base >= t0.base /\ t3.max = t2.max
      /\ \A s \in (t0.base + 1)..t3.base : s \in H
  <2>1. CASE seq = t2.base + 1
    <3>1. t3 \in TableRecords /\ t3.base = seq /\ t3.max = t2.max /\ t3.loss = t2.loss
          /\ t3.recv = t2.recv
      BY <1>3, <2>1 DEF TableRecords
    <3> HIDE DEF t3
    <3>2. t3.base <= t3.max
      BY <1>1, <1>3, <3>1 DEF TableRecords
    <3>3. t3.loss = Above(t3) \ H
      BY <1>1, <1>3, <1>4, <2>1, <3>1 DEF Above, TableRecords
    <3>4. t3.recv \cap Above(t3) = Above(t3) \cap H
      BY <1>1, <1>3, <2>1, <3>1 DEF Above, TableRecords
    <3>5. (\A r \in t3.recv : r <= t3.max) /\ H \subseteq 1..t3.max
      BY <1>1, <1>3, <3>1 DEF Above, TableRecords
    <3> QED
      BY <1>1, <1>3, <2>1, <3>1, <3>2, <3>3, <3>4, <3>5 DEF NearlyExact, TableRecords
  <2>2. CASE seq # t2.base + 1
    <3>1. t3 \in TableRecords /\ t3.base = t2.base /\ t3.max = t2.max /\ t3.loss = t2.loss
          /\ t3.recv = t2.recv \cup {seq}
      BY <1>3, <2>2 DEF TableRecords
    <3> HIDE DEF t3
    <3>2. t3.base <= t3.max
      BY <1>1, <1>3, <3>1 DEF TableRecords
    <3>3. t3.loss = Above(t3) \ H
      BY <1>4, <3>1 DEF Above
    <3>4. t3.recv \cap Above(t3) = Above(t3) \cap H
      BY <1>1, <1>3, <3>1 DEF Above, TableRecords
    <3>5. \A r \in t3.recv : r <= t3.max
      BY <1>1, <1>3, <3>1 DEF Above, TableRecords
    <3>6. H \subseteq 1..t3.max
      <4>1. t0.max \in Nat /\ t3.max \in Nat /\ t0.max <= t3.max /\ seq \in 1..t3.max
        BY <1>1, <1>3, <3>1 DEF TableRecords
      <4>2. 1..t0.max \subseteq 1..t3.max
        BY <4>1
      <4>3. G \subseteq 1..t0.max
        BY <1>1
      <4> QED
        BY <4>1, <4>2, <4>3
    <3> QED
      BY <1>1, <1>3, <3>1, <3>2, <3>3, <3>4, <3>5, <3>6 DEF NearlyExact, TableRecords
  <2> QED
    BY <2>1, <2>2
<1> HIDE DEF t3
<1>6. /\ Exact(AdvanceBase(t3), H)
      /\ AdvanceBase(t3).base >= t3.base
      /\ AdvanceBase(t3).max = t3.max
      /\ \A s \in (t3.base + 1)..AdvanceBase(t3).base : s \in H
  BY <1>5, AdvanceBaseExact
<1>7. Accept(t, seq, index) = AdvanceBase(t3)
  BY DEF Accept, UpdataRecvTable, t0, t1, t2, t3
<1>8. /\ AdvanceBase(t3).base \in Nat /\ t3.base \in Nat /\ t0.base \in Nat /\ t.base \in Nat
      /\ t.max \in Nat /\ t0.max \in Nat
  BY <1>1, <1>5, <1>6 DEF Exact, NearlyExact, TableRecords
<1>9. \A s \in (t.base + 1)..AdvanceBase(t3).base : s \in H \/ (t.max = 0 /\ s <= t0.base)
  <2> SUFFICES ASSUME NEW s \in (t.base + 1)..AdvanceBase(t3).base, s \notin H
               PROVE  t.max = 0 /\ s <= t0.base
    OBVIOUS
  <2>1. s <= t0.base
    BY <1>5, <1>6, <1>8
  <2> QED
    BY <1>1, <1>8, <2>1
<1> QED
  BY <1>1, <1>3, <1>5, <1>6, <1>7, <1>8, <1>9 DEF t0

\* Consume, called with a packet that arrived, keeps the tables exact and moves
\* the base over no packet above seq that did not arrive.
LEMMA ConsumeExact ==
    ASSUME NEW t, NEW G, NEW seq \in G, Exact(t, G)
    PROVE  LET u == Consume(t, seq) IN
           /\ Exact(u, G)
           /\ u.base >= t.base /\ u.max = t.max
           /\ \A s \in (t.base + 1)..u.base : s \in G \/ s <= seq
<1> DEFINE t1 == LossTableRemoveUntil(t, seq)
           t2 == [t1 EXCEPT !.base = IF @ <= seq THEN seq ELSE @,
                            !.recv = {r \in @ : r > seq}]
<1>1. /\ t \in TableRecords /\ seq \in Nat /\ seq <= t.max /\ t.base <= t.max
      /\ t.base \in Nat /\ t.max \in Nat
  BY DEF Exact, NearlyExact, TableRecords
<1>2. /\ t2 \in TableRecords /\ t2.max = t.max
      /\ t2.base = IF t.base <= seq THEN seq ELSE t.base
      /\ t2.loss = {l \in t.loss : l > seq}
      /\ t2.recv = {r \in t.recv : r > seq}
  BY <1>1 DEF LossTableRemoveUntil, TableRecords
<1> HIDE DEF t1, t2
<1>3. NearlyExact(t2, G)
  <2>1. t2.loss = Above(t2) \ G
    BY <1>1, <1>2 DEF Exact, NearlyExact, Above
  <2>2. t2.recv \cap Above(t2) = Above(t2) \cap G
    BY <1>1, <1>2 DEF Exact, NearlyExact, Above
  <2>3. (\A r \in t2.recv : r <= t2.max) /\ G \subseteq 1..t2.max
    BY <1>1, <1>2 DEF Exact, NearlyExact
  <2> QED
    BY <1>1, <1>2, <2>1, <2>2, <2>3 DEF NearlyExact
<1>4. /\ Exact(AdvanceBase(t2), G)
      /\ AdvanceBase(t2).base >= t2.base
      /\ AdvanceBase(t2).max = t2.max
      /\ \A s \in (t2.base + 1)..AdvanceBase(t2).base : s \in G
  BY <1>3, AdvanceBaseExact
<1>5. Consume(t, seq) = AdvanceBase(t2)
  BY DEF Consume, RecvTableRemoveUntil, t1, t2
<1>6. AdvanceBase(t2).base \in Nat
  BY <1>4 DEF Exact, NearlyExact, TableRecords
<1> QED
  BY <1>1, <1>2, <1>4, <1>5, <1>6

-----------------------------------------------------------------------------
(***************************************************************************)
(* One path receiver.                                                      *)
(***************************************************************************)
\* The inductive invariant: types, the exactness of the tables relative to the
\* history of arrivals, the honesty of the base, and the facts that tie the
\* histories to the tables: an untouched path has origin 0, and only packets
\* that arrived are consumed.
Inv ==
    /\ PathTypeOK
    /\ Exact(table, taken)
    /\ BaseIsHonest
    /\ table.max = 0 => table.base = 0 /\ began = 0
    /\ consumed_to \in taken \cup {0}

LEMMA InitInv == PathInit => Inv
<1> SUFFICES ASSUME PathInit PROVE Inv
  OBVIOUS
<1>1. NoTables \in TableRecords /\ NoTables \in Tables
  BY PathReceiverAssumption DEF NoTables, TableRecords, Tables, Packets
<1>2. Exact(table, taken)
  BY <1>1 DEF PathInit, Exact, NearlyExact, Above, NoTables
<1>3. PathTypeOK
  <2>1. 0 \in 0..MaxSeq
    BY PathReceiverAssumption
  <2>2. /\ NoAck \in [base_packet_id : 0..MaxSeq, acked_packet_id : 0..MaxSeq,
                        nack : SUBSET Packets]
        /\ NoSegment \in [seq : 0..MaxSeq, accepted : BOOLEAN]
    BY <2>1 DEF NoAck, NoSegment
  <2> QED
    BY <1>1, <2>1, <2>2 DEF PathInit, PathTypeOK
<1>4. BaseIsHonest /\ table.base = 0
  BY DEF PathInit, NoTables, BaseIsHonest
<1> QED
  BY <1>2, <1>3, <1>4 DEF PathInit, Inv

\* Tables that are exact for packets of this path are in the range TypeOK gives.
LEMMA ExactInRange ==
    ASSUME NEW t, NEW G \in SUBSET Packets, Exact(t, G), t.max \in Packets
    PROVE  t \in Tables
<1>1. t \in TableRecords /\ t.base <= t.max /\ t.max <= MaxSeq
  BY PathReceiverAssumption DEF Exact, NearlyExact, Packets
<1>2. t.base \in 0..MaxSeq /\ t.max \in 0..MaxSeq
  BY <1>1, PathReceiverAssumption DEF TableRecords
<1>3. t.loss \in SUBSET Packets /\ t.recv \in SUBSET Packets
  BY <1>1, <1>2, PathReceiverAssumption DEF Exact, NearlyExact, Above, Packets, TableRecords
<1> QED
  BY <1>1, <1>2, <1>3 DEF Tables, TableRecords

\* A segment that is let in.
LEMMA SegmentInv ==
    ASSUME Inv, NEW seq \in Packets, RecvSegment(seq)
    PROVE  Inv' /\ NeverMovesBack
<1> DEFINE first == StartAt(table, seq, Index[seq]).base
<1>1. /\ seq \in Nat \ {0} /\ Index[seq] \in Nat /\ MaxSeq \in Nat /\ seq <= MaxSeq
  BY PathReceiverAssumption DEF Packets
<1>2. /\ table' = Accept(table, seq, Index[seq])
      /\ taken' = taken \cup {seq}
      /\ began' = IF table.max = 0 THEN first ELSE began
      /\ consumed_to' = consumed_to
      /\ ~Refused(table, seq)
  BY DEF RecvSegment
<1>3. /\ PathTypeOK /\ Exact(table, taken) /\ BaseIsHonest
      /\ table.max = 0 => table.base = 0 /\ began = 0
      /\ consumed_to \in taken \cup {0}
  BY DEF Inv
<1>4. /\ Exact(table', taken')
      /\ table'.base >= table.base
      /\ table'.max = IF seq > table.max THEN seq ELSE table.max
      /\ \A s \in (table.base + 1)..table'.base :
            s \in taken' \/ (table.max = 0 /\ s <= first)
      /\ table.max = 0 => first \in 0..(seq - 1)
  <2> DEFINE u == Accept(table, seq, Index[seq])
  <2>1. /\ Exact(u, taken \cup {seq})
        /\ u.base >= table.base
        /\ u.max = IF seq > table.max THEN seq ELSE table.max
        /\ \A s \in (table.base + 1)..u.base :
              s \in taken \cup {seq} \/ (table.max = 0 /\ s <= first)
        /\ table.max = 0 => first \in 0..(seq - 1)
    BY <1>1, <1>2, <1>3, AcceptExact
  <2> QED
    BY <1>2, <2>1
<1> HIDE DEF first
<1>5. /\ table.base \in Nat /\ table.max \in 0..MaxSeq /\ began \in 0..MaxSeq
      /\ table'.base \in Nat /\ table'.max \in Packets
  BY <1>1, <1>3, <1>4 DEF Exact, NearlyExact, TableRecords, PathTypeOK, Tables, Packets
<1>6. taken' \in SUBSET Packets
  BY <1>2, <1>3 DEF PathTypeOK
<1>7. table' \in Tables
  BY <1>4, <1>5, <1>6, ExactInRange
<1>8. began' \in 0..MaxSeq
  BY <1>1, <1>2, <1>4, <1>5
<1>9. ack' \in [base_packet_id : 0..MaxSeq, acked_packet_id : 0..MaxSeq, nack : SUBSET Packets]
  <2>1. SegmentAck(table', seq, NackNum)
          \in [base_packet_id : 0..MaxSeq, acked_packet_id : 0..MaxSeq, nack : SUBSET Packets]
    BY <1>1, <1>7 DEF SegmentAck, Nacks, Tables
  <2> QED
    BY <1>3, <2>1 DEF RecvSegment, PathTypeOK
<1>10. last' \in [seq : 0..MaxSeq, accepted : BOOLEAN]
  BY <1>1 DEF RecvSegment
<1>11. PathTypeOK'
  BY <1>2, <1>3, <1>6, <1>7, <1>8, <1>9, <1>10 DEF PathTypeOK, RecvSegment
<1>12. BaseIsHonest'
  <2> SUFFICES ASSUME NEW s \in 1..table'.base
               PROVE  s \in taken' \/ s <= began' \/ s <= consumed_to'
    BY DEF BaseIsHonest
  <2>1. CASE s <= table.base
    <3>1. s \in taken \/ s <= began \/ s <= consumed_to
      BY <1>3, <1>5, <2>1 DEF BaseIsHonest
    <3> QED
      BY <1>2, <1>3, <1>5, <2>1, <3>1
  <2>2. CASE s > table.base
    BY <1>2, <1>4, <1>5, <2>2
  <2> QED
    BY <1>5, <2>1, <2>2
<1> QED
  BY <1>1, <1>2, <1>3, <1>4, <1>5, <1>11, <1>12 DEF Inv, NeverMovesBack, Packets

\* A packet whose frame left the buffer.
LEMMA ConsumeInv ==
    ASSUME Inv, NEW seq \in Packets, ConsumePacket(seq)
    PROVE  Inv' /\ NeverMovesBack
<1>1. /\ table' = Consume(table, seq) /\ consumed_to' = seq /\ seq \in taken /\ seq > consumed_to
      /\ taken' = taken /\ began' = began
  BY DEF ConsumePacket
<1>2. /\ PathTypeOK /\ Exact(table, taken) /\ BaseIsHonest
      /\ table.max = 0 => table.base = 0 /\ began = 0
      /\ consumed_to \in taken \cup {0}
  BY DEF Inv
<1>3. /\ Exact(table', taken)
      /\ table'.base >= table.base /\ table'.max = table.max
      /\ \A s \in (table.base + 1)..table'.base : s \in taken \/ s <= seq
  BY <1>1, <1>2, ConsumeExact
<1>4. /\ table.base \in Nat /\ table.max \in 0..MaxSeq /\ table'.base \in Nat
      /\ seq \in 1..table.max /\ MaxSeq \in Nat
  BY <1>1, <1>2, <1>3, PathReceiverAssumption
     DEF Exact, NearlyExact, TableRecords, PathTypeOK, Tables
<1>5. table' \in Tables
  <2>1. table'.max \in Packets /\ taken \in SUBSET Packets
    BY <1>2, <1>3, <1>4 DEF Packets, PathTypeOK
  <2> QED
    BY <1>3, <2>1, ExactInRange
<1>6. PathTypeOK'
  BY <1>1, <1>2, <1>4, <1>5 DEF PathTypeOK, ConsumePacket
<1>7. BaseIsHonest'
  <2> SUFFICES ASSUME NEW s \in 1..table'.base
               PROVE  s \in taken' \/ s <= began' \/ s <= consumed_to'
    BY DEF BaseIsHonest
  <2>1. CASE s <= table.base
    <3>1. s \in taken \/ s <= began \/ s <= consumed_to
      BY <1>2, <1>4, <2>1 DEF BaseIsHonest
    <3>2. consumed_to \in Nat
      BY <1>2 DEF PathTypeOK
    <3> QED
      BY <1>1, <1>4, <3>1, <3>2
  <2>2. CASE s > table.base
    BY <1>1, <1>3, <1>4, <2>2
  <2> QED
    BY <1>4, <2>1, <2>2
<1> QED
  BY <1>1, <1>2, <1>3, <1>4, <1>6, <1>7 DEF Inv, NeverMovesBack

\* Every step of the path receiver keeps the invariant and moves neither the
\* base nor max_seq_ back.
LEMMA StepInv ==
    ASSUME Inv, [PathNext]_pathVars
    PROVE  Inv' /\ NeverMovesBack
<1> USE DEF Inv
<1>0. table.base \in Nat /\ table.max \in Nat
  BY DEF Exact, NearlyExact, TableRecords
<1>1. CASE RecvConnect
  BY <1>0, <1>1 DEF RecvConnect, PathTypeOK, BaseIsHonest, NeverMovesBack
<1>2. ASSUME NEW seq \in Packets, RecvRefused(seq) PROVE Inv' /\ NeverMovesBack
  <2>1. last' \in [seq : 0..MaxSeq, accepted : BOOLEAN]
    BY <1>2, PathReceiverAssumption DEF RecvRefused, Packets
  <2>2. UNCHANGED <<state_, stop_, crashed, table, ack, taken, began, consumed_to>>
        /\ first_packet_' = FALSE
    BY <1>2 DEF RecvRefused
  <2>3. PathTypeOK'
    BY <2>1, <2>2 DEF PathTypeOK
  <2> QED
    BY <1>0, <2>2, <2>3 DEF BaseIsHonest, NeverMovesBack
<1>3. ASSUME NEW seq \in Packets, RecvSegment(seq) PROVE Inv' /\ NeverMovesBack
  BY <1>3, SegmentInv
<1>4. ASSUME NEW seq \in Packets, ConsumePacket(seq) PROVE Inv' /\ NeverMovesBack
  BY <1>4, ConsumeInv
<1>5. CASE RecvPad
  BY <1>0, <1>5 DEF RecvPad, PathTypeOK, BaseIsHonest, NeverMovesBack
<1>6. CASE StopPath
  BY <1>0, <1>6 DEF StopPath, PathTypeOK, BaseIsHonest, NeverMovesBack
<1>7. CASE UNCHANGED pathVars
  BY <1>0, <1>7 DEF pathVars, PathTypeOK, BaseIsHonest, NeverMovesBack
<1> QED
  BY <1>1, <1>2, <1>3, <1>4, <1>5, <1>6, <1>7 DEF PathNext
LEMMA InvAlways == PathSpec => []Inv
<1>1. Inv /\ [PathNext]_pathVars => Inv'
  BY StepInv
<1> QED
  BY InitInv, <1>1, PTL DEF PathSpec

\* The fields of a path receiver stay in their ranges.
THEOREM TypeCorrect == PathSpec => []PathTypeOK
<1>1. Inv => PathTypeOK
  BY DEF Inv
<1> QED
  BY InvAlways, <1>1, PTL

\* loss_ and recv_table_ are at all times exactly what is missing and what has
\* arrived between the base and max_seq_, for any number of packets in any order.
THEOREM TablesAreExact == PathSpec => []TablesExact
<1>1. Inv => TablesExact
  BY DEF Inv, Exact, NearlyExact, Above, TablesExact, Window
<1> QED
  BY InvAlways, <1>1, PTL

\* The base acknowledges only what arrived or was given up.
THEOREM BaseAlwaysHonest == PathSpec => []BaseIsHonest
<1>1. Inv => BaseIsHonest
  BY DEF Inv
<1> QED
  BY InvAlways, <1>1, PTL

\* No handler moves the base or max_seq_ back.
THEOREM TablesOnlyAdvance == PathSpec => TablesAdvance
<1>1. Inv /\ [PathNext]_pathVars => [NeverMovesBack]_pathVars
  BY StepInv
<1> QED
  BY InvAlways, <1>1, PTL DEF PathSpec, TablesAdvance

\* What OnReceiveSegment turns away arrived before, was given up or lies at or
\* below the origin; what it accepts twice is the base.
THEOREM FilterAlwaysSound == PathSpec => FilterSound
<1>1. Inv /\ [PathNext]_pathVars => [last' # last => FilterIsSound]_pathVars
  <2> SUFFICES ASSUME Inv, PathNext, last' # last PROVE FilterIsSound
    OBVIOUS
  <2>1. /\ table.base \in Nat /\ table.recv = Above(table) \cap taken
        /\ taken \in SUBSET Packets /\ table.max \in Nat
        /\ taken \subseteq 1..table.max
    BY DEF Inv, PathTypeOK, Exact, NearlyExact, TableRecords
  <2>2. ASSUME NEW seq \in Packets, RecvRefused(seq) PROVE FilterIsSound
    <3>1. last' = [seq |-> seq, accepted |-> FALSE] /\ Refused(table, seq)
      BY <2>2 DEF RecvRefused
    <3>2. seq \in taken \/ seq \in 1..table.base
      BY <2>1, <3>1, PathReceiverAssumption DEF Refused, CheckRecvTableExist, Packets
    <3>3. seq \in taken \/ seq <= began \/ seq <= consumed_to
      BY <3>2 DEF Inv, BaseIsHonest
    <3> QED
      BY <3>1, <3>3 DEF FilterIsSound
  <2>3. ASSUME NEW seq \in Packets, RecvSegment(seq) PROVE FilterIsSound
    <3>1. last' = [seq |-> seq, accepted |-> TRUE] /\ ~Refused(table, seq)
      BY <2>3 DEF RecvSegment
    <3>2. seq \in taken => seq = table.base
      BY <2>1, <3>1, PathReceiverAssumption
         DEF Refused, CheckRecvTableExist, Above, Packets
    <3> QED
      BY <3>1, <3>2 DEF FilterIsSound
  <2> QED
    BY <2>2, <2>3 DEF PathNext, RecvConnect, ConsumePacket, RecvPad, StopPath
<1> QED
  BY InvAlways, <1>1, PTL DEF PathSpec, FilterSound
\* With no more than num ids missing, a segment ack asks for all of them.
LEMMA NacksAll ==
    ASSUME NEW t, NEW num \in Nat, t.loss \in SUBSET Nat, IsFiniteSet(t.loss),
           \A l \in t.loss : l >= t.base, Cardinality(t.loss) <= num
    PROVE  Nacks(t, num) = t.loss
<1> SUFFICES ASSUME NEW l \in t.loss PROVE Cardinality({m \in t.loss : m > l}) < num
  BY DEF Nacks
<1> DEFINE newer == {m \in t.loss : m > l}
<1>1. newer \in SUBSET t.loss /\ l \notin newer
  OBVIOUS
<1>2. Cardinality(newer) \in Nat /\ Cardinality(t.loss) \in Nat
  BY <1>1, FS_Subset, FS_CardinalityType
<1>3. Cardinality(newer) <= Cardinality(t.loss) /\ Cardinality(newer) # Cardinality(t.loss)
  BY <1>1, FS_Subset
<1> QED
  BY <1>2, <1>3

\* Every segment ack names the packet that caused it and asks only for packets
\* that are missing, for all of them if they fit.
THEOREM AcksAlwaysTrue == PathSpec => AcksAreTrue
<1>1. Inv /\ [PathNext]_pathVars => [ack' # ack => AckIsTrue]_pathVars
  <2> SUFFICES ASSUME Inv, PathNext, ack' # ack PROVE AckIsTrue
    OBVIOUS
  <2>1. PICK seq \in Packets : RecvSegment(seq)
    BY DEF PathNext, RecvConnect, RecvRefused, ConsumePacket, RecvPad, StopPath
  <2>2. ack' = SegmentAck(table', seq, NackNum) /\ seq \in taken'
    BY <2>1 DEF RecvSegment
  <2>3. Inv'
    BY <2>1, SegmentInv
  <2>4. /\ table'.loss = Window' \ taken'
        /\ table'.loss \in SUBSET Nat /\ table'.base \in Nat /\ table'.max \in Nat
        /\ \A l \in table'.loss : l >= table'.base /\ l <= table'.max
    BY <2>3 DEF Inv, Exact, NearlyExact, Above, Window, TableRecords
  <2>5. IsFiniteSet(table'.loss)
    BY <2>4, FS_BoundedSetOfNaturals
  <2>6. Cardinality(table'.loss) <= NackNum => Nacks(table', NackNum) = table'.loss
    BY <2>4, <2>5, NacksAll, PathReceiverAssumption
  <2>7. Nacks(table', NackNum) \subseteq table'.loss
    BY DEF Nacks
  <2> QED
    BY <2>2, <2>4, <2>6, <2>7 DEF AckIsTrue, SegmentAck
<1> QED
  BY InvAlways, <1>1, PTL DEF PathSpec, AcksAreTrue
=============================================================================
