--------------------------- MODULE SenderV1Proofs ---------------------------
(***************************************************************************)
(* Proofs about SenderV1, for any paths and any number of packets and      *)
(* transmissions: the sequence numbers, then the queues and what becomes   *)
(* of losses, then the places where a packet may be.                       *)
(***************************************************************************)
EXTENDS SenderV1, TLAPS, SequenceTheorems, FiniteSetTheorems

\* The inductive invariant: with the types of the sequence state, acks come
\* only for what was sent, so that an ack never moves recv_seq_ past seq_.
IInv ==
    /\ seq \in [Paths -> Nat]
    /\ recv_seq \in [Paths -> Nat]
    /\ DOMAIN seq_id_map = Paths
    /\ DOMAIN flight = Paths
    /\ \A p \in Paths : recv_seq[p] < seq[p]
    /\ \A p \in Paths : flight[p] \in SUBSET (1..(seq[p] - 1))
    /\ OutstandingAhead

\* An interval grows by its next element.
LEMMA IntervalNext ==
    ASSUME NEW a \in Nat, NEW b \in Nat, a < b
    PROVE  ((a + 1)..(b - 1)) \cup {b} = (a + 1)..((b + 1) - 1)
  OBVIOUS

\* What is left of an interval above s.
LEMMA IntervalAbove ==
    ASSUME NEW a \in Nat, NEW b \in Nat, NEW s \in Nat
    PROVE  {j \in (a + 1)..(b - 1) : j > s}
           = ((IF s > a THEN s ELSE a) + 1)..(b - 1)
<1>1. CASE s > a
  BY <1>1
<1>2. CASE ~(s > a)
  BY <1>2
<1> QED
  BY <1>1, <1>2

\* The invariant holds before anything has happened.
LEMMA InitIInv == Init => IInv
  BY DEF Init, IInv, OutstandingAhead, Outstanding

\* SendStreamPacket and SendPaddingPacket add the next number to seq_id_map_.
LEMMA TransmitIInv ==
    ASSUME NEW p \in Paths, NEW id, IInv, Transmit(p, id)
    PROVE  IInv'
<1>1. /\ seq' = [seq EXCEPT ![p] = @ + 1]
      /\ recv_seq' = recv_seq
      /\ flight' = [flight EXCEPT ![p] = @ \cup {seq[p]}]
      /\ DOMAIN seq_id_map' = Paths
      /\ DOMAIN seq_id_map'[p] = DOMAIN seq_id_map[p] \cup {seq[p]}
      /\ \A q \in Paths \ {p} : seq_id_map'[q] = seq_id_map[q]
  BY DEF IInv, Transmit
<1>2. /\ seq' \in [Paths -> Nat] /\ recv_seq' \in [Paths -> Nat]
      /\ DOMAIN flight' = Paths
      /\ \A q \in Paths : recv_seq'[q] < seq'[q]
  BY <1>1 DEF IInv
<1>3. \A q \in Paths : flight'[q] \in SUBSET (1..(seq'[q] - 1))
  <2> SUFFICES ASSUME NEW q \in Paths PROVE flight'[q] \in SUBSET (1..(seq'[q] - 1))
    OBVIOUS
  <2>1. CASE q = p
    BY <1>1, <2>1 DEF IInv
  <2>2. CASE q # p
    BY <1>1, <2>2 DEF IInv
  <2> QED
    BY <2>1, <2>2
<1>4. OutstandingAhead'
  <2> SUFFICES ASSUME NEW q \in Paths
               PROVE  DOMAIN seq_id_map'[q] = (recv_seq'[q] + 1)..(seq'[q] - 1)
    BY DEF OutstandingAhead, Outstanding
  <2>1. DOMAIN seq_id_map[q] = (recv_seq[q] + 1)..(seq[q] - 1)
    BY DEF IInv, OutstandingAhead, Outstanding
  <2>2. CASE q = p
    <3>1. recv_seq'[p] = recv_seq[p] /\ seq'[p] = seq[p] + 1
      BY <1>1 DEF IInv
    <3>2. recv_seq[p] \in Nat /\ seq[p] \in Nat /\ recv_seq[p] < seq[p]
      BY DEF IInv
    <3>3. DOMAIN seq_id_map'[p] = ((recv_seq[p] + 1)..(seq[p] - 1)) \cup {seq[p]}
      BY <1>1, <2>1, <2>2
    <3> QED
      BY <2>2, <3>1, <3>2, <3>3, IntervalNext
  <2>3. CASE q # p
    BY <1>1, <2>1, <2>3 DEF IInv
  <2> QED
    BY <2>2, <2>3
<1> QED
  BY <1>1, <1>2, <1>3, <1>4 DEF IInv

\* OnAck: RemoveSeqIdMapLe erases exactly what recv_seq_ moves over, and
\* nothing when the ack was overtaken by one of a later transmission.
LEMMA OnAckIInv ==
    ASSUME NEW p \in Paths, NEW s \in 1..MaxSeq, IInv, OnAck(p, s)
    PROVE  IInv'
<1>1. /\ s \in flight[p]
      /\ flight' = [flight EXCEPT ![p] = @ \ {s}]
      /\ recv_seq' = [recv_seq EXCEPT ![p] = RecvSeqAfter(p, s)]
      /\ seq_id_map' = [seq_id_map EXCEPT ![p] = RemoveSeqIdMapLe(p, s)]
      /\ seq' = seq
  BY DEF OnAck
<1>2. /\ recv_seq[p] \in Nat /\ seq[p] \in Nat /\ recv_seq[p] < seq[p]
      /\ s \in Nat /\ s < seq[p]
  BY <1>1 DEF IInv
<1>3. RecvSeqAfter(p, s) \in Nat /\ RecvSeqAfter(p, s) < seq[p]
  BY <1>2 DEF RecvSeqAfter
<1>4. /\ recv_seq' \in [Paths -> Nat]
      /\ DOMAIN seq_id_map' = Paths /\ DOMAIN flight' = Paths
      /\ \A q \in Paths : recv_seq'[q] < seq'[q]
  BY <1>1, <1>3 DEF IInv
<1>5. \A q \in Paths : flight'[q] \in SUBSET (1..(seq'[q] - 1))
  BY <1>1 DEF IInv
<1>6. OutstandingAhead'
  <2> SUFFICES ASSUME NEW q \in Paths
               PROVE  DOMAIN seq_id_map'[q] = (recv_seq'[q] + 1)..(seq'[q] - 1)
    BY DEF OutstandingAhead, Outstanding
  <2>1. DOMAIN seq_id_map[q] = (recv_seq[q] + 1)..(seq[q] - 1)
    BY DEF IInv, OutstandingAhead, Outstanding
  <2>2. CASE q = p
    <3>1. DOMAIN seq_id_map'[p] = {j \in DOMAIN seq_id_map[p] : j > s}
      BY <1>1 DEF IInv, RemoveSeqIdMapLe
    <3>2. recv_seq'[p] = IF s > recv_seq[p] THEN s ELSE recv_seq[p]
      BY <1>1 DEF IInv, RecvSeqAfter
    <3>3. {j \in (recv_seq[p] + 1)..(seq[p] - 1) : j > s}
          = ((IF s > recv_seq[p] THEN s ELSE recv_seq[p]) + 1)..(seq[p] - 1)
      BY <1>2, IntervalAbove
    <3>4. DOMAIN seq_id_map'[p] = (recv_seq'[p] + 1)..(seq[p] - 1)
      BY <2>1, <2>2, <3>1, <3>2, <3>3
    <3> QED
      BY <1>1, <2>2, <3>4
  <2>3. CASE q # p
    BY <1>1, <2>1, <2>3 DEF IInv
  <2> QED
    BY <2>2, <2>3
<1> QED
  BY <1>1, <1>4, <1>5, <1>6 DEF IInv

\* Every step keeps the invariant; the other actions leave the sequence state.
LEMMA NextIInv == IInv /\ [Next]_vars => IInv'
<1> SUFFICES ASSUME IInv, [Next]_vars PROVE IInv'
  OBVIOUS
<1>1. CASE \E p \in Paths : \E id : Transmit(p, id)
  BY <1>1, TransmitIInv
<1>2. CASE \E p \in Paths : \E s \in 1..MaxSeq : OnAck(p, s)
  BY <1>2, OnAckIInv
<1>3. CASE UNCHANGED seqVars
  BY <1>3 DEF IInv, OutstandingAhead, Outstanding, seqVars
<1>4. ASSUME NEW p \in Paths, Resend(p) \/ Send(p) \/ SendPaddingPacket(p)
      PROVE  \E id : Transmit(p, id)
  BY <1>4 DEF Resend, Send, SendPaddingPacket
<1>5. ASSUME NEW p \in Paths, StartApplication(p) \/ StopApplication(p)
      PROVE  UNCHANGED seqVars
  BY <1>5 DEF StartApplication, StopApplication
<1>6. ASSUME NEW n, NEW to, OnVideoFrame(n, to)
      PROVE  UNCHANGED seqVars
  BY <1>6 DEF OnVideoFrame
<1>7. CheckStalePacket \/ Age \/ UNCHANGED vars => UNCHANGED seqVars
  BY DEF CheckStalePacket, Age, vars
<1> QED
  BY <1>1, <1>2, <1>3, <1>4, <1>5, <1>6, <1>7 DEF Next

\* DetectLoss: seq_id_map_ always has exactly the transmissions above recv_seq_,
\* in whatever order the acks arrive, so each loss is found at most once and
\* nothing acknowledged is found lost.
THEOREM OutstandingAlwaysAhead == Spec => []OutstandingAhead
<1>1. IInv => OutstandingAhead
  BY DEF IInv
<1> QED
  BY <1>1, InitIInv, NextIInv, PTL DEF Spec
-----------------------------------------------------------------------------
(***************************************************************************)
(* Where the packets of SenderV1 are, and what becomes of those that are   *)
(* lost.                                                                   *)
(***************************************************************************)
\* The scheduler knows exactly the paths that run, and nothing was sent on a
\* path that was never available.
PathsInv ==
    /\ waitting_paths \subseteq Paths /\ usable_paths \subseteq Paths
    /\ pids = timers /\ timers \subseteq usable_paths
    /\ \A p \in Paths : seq[p] > 1 => p \in usable_paths

FlagsInv == runing \in BOOLEAN /\ path_bug \in BOOLEAN

\* sent_buf_ has at least what is not stale.
IdsInv ==
    /\ packet_id \in Nat \ {0} /\ packet_id <= MaxPackets + 1
    /\ stale \in Nat /\ stale < packet_id
    /\ sent_buf \subseteq PacketIds /\ acked \subseteq PacketIds
    /\ abandoned \subseteq PacketIds
    /\ \A id \in PacketIds : id > stale => id \in sent_buf

QueuesInv ==
    /\ sending_queue \in [Paths -> Seq(PacketIds)]
    /\ resending_queue \in [Paths -> Seq(PacketIds)]
    /\ pending_bytes = [p \in Paths |-> Len(sending_queue[p]) + Len(resending_queue[p])]

SeqsInv ==
    /\ \A p \in Paths : seq[p] <= MaxSeq + 1
    /\ \A p \in Paths : \A i \in Outstanding(p) : seq_id_map[p][i] \in PacketIds \cup {0}

\* The inductive invariant of the queues and flags.
QInv == IInv /\ PathsInv /\ FlagsInv /\ IdsInv /\ QueuesInv /\ SeqsInv

\* A sequence of S in ascending order has every element once.
LEMMA AscendingSeq ==
    ASSUME NEW S, IsFiniteSet(S), NEW q \in Ascending(S)
    PROVE  /\ q \in Seq(S) /\ DOMAIN q = 1..Len(q)
           /\ \A x \in S : \E i \in 1..Len(q) : q[i] = x
           /\ \A i, j \in 1..Len(q) : i < j => q[i] < q[j]
<1>1. Cardinality(S) \in Nat
  BY FS_CardinalityType
<1>2. q \in [1..Cardinality(S) -> S] /\ ToSet(q) = S
  BY DEF Ascending
<1>3. q \in Seq(S) /\ Len(q) = Cardinality(S) /\ DOMAIN q = 1..Len(q)
  BY <1>1, <1>2
<1>4. \A x \in S : \E i \in DOMAIN q : q[i] = x
  BY <1>2 DEF ToSet
<1>5. \A i, j \in DOMAIN q : i < j => q[i] < q[j]
  BY DEF Ascending
<1> QED
  BY <1>3, <1>4, <1>5

\* The invariant holds before anything has happened.
LEMMA InitQInv == Init => QInv
<1> SUFFICES ASSUME Init PROVE QInv
  OBVIOUS
<1>1. IInv
  BY InitIInv
<1>2. PathsInv
  BY DEF Init, PathsInv
<1>3. FlagsInv
  BY Zenon DEF Init, FlagsInv
<1>4. IdsInv
  BY SenderV1Assumption DEF Init, IdsInv, PacketIds
<1>5. QueuesInv
  BY EmptySeq DEF Init, QueuesInv
<1>6. SeqsInv
  BY SenderV1Assumption DEF Init, SeqsInv, Outstanding
<1> QED
  BY <1>1, <1>2, <1>3, <1>4, <1>5, <1>6 DEF QInv

\* A path comes or goes: pids_ and the timers change together.
LEMMA PathStepQInv ==
    ASSUME QInv, NEW p \in Paths, StartApplication(p) \/ StopApplication(p)
    PROVE  QInv'
<1> USE DEF QInv
<1>1. IInv'
  BY NextIInv DEF Next
<1>2. PathsInv'
  BY DEF PathsInv, StartApplication, StopApplication, seqVars
<1>3. FlagsInv'
  BY Zenon DEF FlagsInv, StartApplication, StopApplication, lossVars
<1>4. IdsInv'
  BY DEF IdsInv, PacketIds, StartApplication, StopApplication, lossVars
<1>5. QueuesInv'
  BY DEF QueuesInv, PacketIds, StartApplication, StopApplication, queueVars
<1>6. SeqsInv'
  BY DEF SeqsInv, Outstanding, PacketIds, StartApplication, StopApplication, seqVars
<1> QED
  BY <1>1, <1>2, <1>3, <1>4, <1>5, <1>6

\* CheckStalePacket and the clock: Fresh keeps what is not stale.
LEMMA AgeStepQInv ==
    ASSUME QInv, CheckStalePacket \/ Age
    PROVE  QInv'
<1> USE DEF QInv
<1>1. IInv'
  BY NextIInv DEF Next
<1>2. PathsInv'
  BY DEF PathsInv, CheckStalePacket, Age, seqVars, pathVars
<1>3. FlagsInv'
  BY Zenon DEF FlagsInv, CheckStalePacket, Age, pathVars, lossVars
<1>4. IdsInv'
  <2>1. CASE CheckStalePacket
    <3>1. /\ packet_id' = packet_id /\ stale' = stale /\ acked' = acked
          /\ abandoned' = abandoned /\ sent_buf' = {id \in sent_buf : id > stale}
      BY <2>1 DEF CheckStalePacket, lossVars, Fresh
    <3> QED
      BY <3>1 DEF IdsInv, PacketIds
  <2>2. CASE Age
    <3>1. /\ packet_id' = packet_id /\ stale + 1 < packet_id /\ stale' = stale + 1
          /\ acked' = acked /\ abandoned' = abandoned /\ sent_buf' = sent_buf
      BY <2>2 DEF Age, lossVars
    <3> QED
      BY <3>1 DEF IdsInv, PacketIds
  <2> QED
    BY <2>1, <2>2
<1>5. QueuesInv'
  BY DEF QueuesInv, PacketIds, CheckStalePacket, Age, queueVars
<1>6. SeqsInv'
  BY DEF SeqsInv, Outstanding, PacketIds, CheckStalePacket, Age, seqVars
<1> QED
  BY <1>1, <1>2, <1>3, <1>4, <1>5, <1>6

\* What Given gives each path.
LEMMA GivenSeq ==
    ASSUME IdsInv, NEW n \in Nat, NEW to, NEW p \in Paths,
           NEW given \in Given(packet_id..(packet_id + n - 1), to)
    PROVE  LET mine == {id \in packet_id..(packet_id + n - 1) : to[id - packet_id] = p}
           IN  IsFiniteSet(mine) /\ given[p] \in Ascending(mine)
<1> DEFINE ids == packet_id..(packet_id + n - 1)
<1> DEFINE mine == {id \in ids : to[id - packet_id] = p}
<1>1. IsFiniteSet(ids)
  BY FS_Interval DEF IdsInv
<1>2. IsFiniteSet(mine)
  BY <1>1, FS_Subset
<1>3. given[p] \in Ascending(mine)
  BY Zenon DEF Given
<1> QED
  BY <1>2, <1>3

\* OnVideoFrame: what is put on the queues is counted.
LEMMA FrameQInv ==
    ASSUME QInv, NEW n \in 1..MaxSplit, NEW to \in [0..(n - 1) -> pids],
           OnVideoFrame(n, to)
    PROVE  QInv'
<1> USE DEF QInv
<1>0. n \in Nat
  BY SenderV1Assumption
<1>1. IInv'
  BY NextIInv DEF Next
<1>2. PathsInv'
  BY DEF PathsInv, OnVideoFrame, seqVars, pathVars
<1>3. FlagsInv'
  BY Zenon DEF FlagsInv, OnVideoFrame, pathVars, lossVars
<1>4. IdsInv'
  BY <1>0 DEF IdsInv, PacketIds, OnVideoFrame, lossVars
<1> DEFINE ids == packet_id..(packet_id + n - 1)
<1>5. PICK given \in Given(ids, to) :
          /\ sending_queue' = [p \in Paths |-> sending_queue[p] \o given[p]]
          /\ pending_bytes' = [p \in Paths |-> pending_bytes[p] + Len(given[p])]
  BY Zenon DEF OnVideoFrame
<1>6. packet_id' = packet_id + n /\ resending_queue' = resending_queue
  BY DEF OnVideoFrame
<1>7. PacketIds \subseteq PacketIds' /\ ids \subseteq PacketIds'
  BY <1>0, <1>6 DEF PacketIds, IdsInv
<1>8. QueuesInv'
  <2>1. ASSUME NEW p \in Paths
        PROVE  /\ sending_queue'[p] \in Seq(PacketIds')
               /\ Len(sending_queue'[p]) = Len(sending_queue[p]) + Len(given[p])
               /\ resending_queue'[p] \in Seq(PacketIds')
               /\ Len(given[p]) \in Nat
    <3>1. given[p] \in Seq(ids)
      <4> DEFINE mine == {id \in ids : to[id - packet_id] = p}
      <4>1. IsFiniteSet(mine) /\ given[p] \in Ascending(mine)
        BY <1>0, GivenSeq
      <4>2. mine \subseteq ids
        OBVIOUS
      <4> HIDE DEF mine
      <4>3. given[p] \in Seq(mine)
        BY <4>1, AscendingSeq
      <4> QED
        BY <4>2, <4>3, SeqMonotonic
    <3>2. given[p] \in Seq(PacketIds') /\ Len(given[p]) \in Nat
      BY <3>1, <1>7, SeqMonotonic, LenProperties
    <3>3. sending_queue[p] \in Seq(PacketIds') /\ resending_queue[p] \in Seq(PacketIds')
      BY <1>7, SeqMonotonic DEF QueuesInv
    <3> QED
      BY <3>2, <3>3, <1>5, <1>6, ConcatProperties
  <2>2. sending_queue' \in [Paths -> Seq(PacketIds')]
    BY <1>5, <2>1
  <2>3. resending_queue' \in [Paths -> Seq(PacketIds')]
    BY <1>6, <2>1 DEF QueuesInv
  <2>4. pending_bytes' = [p \in Paths |-> Len(sending_queue'[p]) + Len(resending_queue'[p])]
    <3>1. ASSUME NEW p \in Paths
          PROVE  pending_bytes[p] + Len(given[p])
                 = Len(sending_queue'[p]) + Len(resending_queue'[p])
      <4>1. sending_queue[p] \in Seq(PacketIds) /\ resending_queue[p] \in Seq(PacketIds)
        BY DEF QueuesInv
      <4>2. Len(sending_queue[p]) \in Nat /\ Len(resending_queue[p]) \in Nat
        BY <4>1, LenProperties
      <4>3. pending_bytes[p] = Len(sending_queue[p]) + Len(resending_queue[p])
        BY DEF QueuesInv
      <4>4. resending_queue'[p] = resending_queue[p]
        BY <1>6
      <4>5. /\ Len(sending_queue'[p]) = Len(sending_queue[p]) + Len(given[p])
            /\ Len(given[p]) \in Nat
        BY <2>1
      <4>6. Len(resending_queue'[p]) = Len(resending_queue[p])
        BY <4>4
      <4> DEFINE a == Len(sending_queue[p])  b == Len(resending_queue[p])
      <4> DEFINE c == Len(given[p])
      <4>7. a \in Nat /\ b \in Nat /\ c \in Nat
        BY <4>2, <4>5
      <4>8. /\ pending_bytes[p] = a + b /\ Len(sending_queue'[p]) = a + c
            /\ Len(resending_queue'[p]) = b
        BY <4>3, <4>5, <4>6
      <4> HIDE DEF a, b, c
      <4>9. pending_bytes[p] + c = Len(sending_queue'[p]) + Len(resending_queue'[p])
        BY <4>7, <4>8
      <4> QED
        BY <4>9 DEF c
    <3> QED
      BY <1>5, <3>1
  <2> QED
    BY <2>2, <2>3, <2>4 DEF QueuesInv
<1>9. SeqsInv'
  BY <1>7 DEF SeqsInv, Outstanding, OnVideoFrame, seqVars
<1> QED
  BY <1>1, <1>2, <1>3, <1>4, <1>8, <1>9

\* What a transmission adds to seq_id_map_ is a packet or padding.
LEMMA TransmitSeqs ==
    ASSUME IInv, SeqsInv, PathsInv, NEW p \in timers, NEW id \in PacketIds \cup {0},
           Transmit(p, id), packet_id' = packet_id, pathVars' = pathVars
    PROVE  SeqsInv' /\ PathsInv'
<1>0. p \in Paths /\ p \in usable_paths
  BY DEF PathsInv
<1>1. /\ seq[p] <= MaxSeq
      /\ seq' = [seq EXCEPT ![p] = @ + 1]
      /\ DOMAIN seq_id_map'[p] = DOMAIN seq_id_map[p] \cup {seq[p]}
      /\ \A i \in DOMAIN seq_id_map'[p] :
            seq_id_map'[p][i] = IF i = seq[p] THEN id ELSE seq_id_map[p][i]
      /\ \A q \in Paths \ {p} : seq_id_map'[q] = seq_id_map[q]
  BY <1>0 DEF IInv, Transmit
<1>2. \A q \in Paths : seq'[q] <= MaxSeq + 1
  BY <1>0, <1>1, SenderV1Assumption DEF IInv, SeqsInv
<1>3. ASSUME NEW q \in Paths, NEW i \in DOMAIN seq_id_map'[q]
      PROVE  seq_id_map'[q][i] \in PacketIds \cup {0}
  BY <1>1, <1>3 DEF SeqsInv, Outstanding
<1>4. PacketIds' = PacketIds
  BY DEF PacketIds
<1>5. SeqsInv'
  BY <1>2, <1>3, <1>4 DEF SeqsInv, Outstanding
<1>6. \A q \in Paths : seq'[q] > 1 => q \in usable_paths
  BY <1>0, <1>1 DEF IInv, PathsInv
<1>7. PathsInv'
  BY <1>6 DEF PathsInv, pathVars
<1> QED
  BY <1>5, <1>7

\* What leaves a queue is no longer counted.
LEMMA Dequeue ==
    ASSUME NEW S, NEW q \in Seq(S), q # <<>>
    PROVE  /\ Head(q) \in S /\ Tail(q) \in Seq(S)
           /\ Len(Tail(q)) = Len(q) - 1 /\ Len(q) \in Nat
  BY HeadTailProperties, LenProperties

\* SendStreamPacket of what is sent first.
LEMMA SendQInv ==
    ASSUME QInv, NEW p \in Paths, Send(p)
    PROVE  QInv'
<1> USE DEF QInv
<1>1. IInv'
  BY NextIInv DEF Next
<1>2. p \in timers /\ packet_id' = packet_id /\ pathVars' = pathVars
  BY DEF Send
<1>3. /\ sending_queue[p] # <<>>
      /\ sending_queue' = [sending_queue EXCEPT ![p] = Tail(@)]
      /\ pending_bytes' = [pending_bytes EXCEPT ![p] = @ - 1]
      /\ resending_queue' = resending_queue
      /\ Transmit(p, Head(sending_queue[p]))
  BY DEF Send
<1>4. sending_queue[p] \in Seq(PacketIds) /\ resending_queue[p] \in Seq(PacketIds)
  BY DEF QueuesInv
<1>5. /\ Head(sending_queue[p]) \in PacketIds /\ Tail(sending_queue[p]) \in Seq(PacketIds)
      /\ Len(Tail(sending_queue[p])) = Len(sending_queue[p]) - 1
      /\ Len(sending_queue[p]) \in Nat
  BY <1>3, <1>4, Dequeue
<1>6. SeqsInv' /\ PathsInv'
  BY <1>2, <1>3, <1>5, TransmitSeqs
<1>7. FlagsInv'
  BY Zenon DEF FlagsInv, Send, pathVars, lossVars
<1>8. IdsInv'
  BY DEF IdsInv, PacketIds, Send, lossVars
<1>9. QueuesInv'
  <2>1. PacketIds' = PacketIds
    BY <1>2 DEF PacketIds
  <2>2. sending_queue' \in [Paths -> Seq(PacketIds)]
    BY <1>3, <1>5 DEF QueuesInv
  <2>3. ASSUME NEW q \in Paths
        PROVE  pending_bytes'[q] = Len(sending_queue'[q]) + Len(resending_queue'[q])
    <3> DEFINE a == Len(sending_queue[p])  b == Len(resending_queue[p])
    <3>1. pending_bytes[q] = Len(sending_queue[q]) + Len(resending_queue[q])
      BY DEF QueuesInv
    <3>2. CASE q = p
      <4>1. a \in Nat /\ b \in Nat
        BY <1>4, LenProperties
      <4>2. /\ pending_bytes[p] = a + b /\ pending_bytes'[p] = pending_bytes[p] - 1
            /\ Len(sending_queue'[p]) = a - 1 /\ Len(resending_queue'[p]) = b
        BY <1>3, <1>5, <3>1, <3>2 DEF QueuesInv
      <4> HIDE DEF a, b
      <4> QED
        BY <3>2, <4>1, <4>2
    <3>3. CASE q # p
      <4>1. /\ pending_bytes'[q] = pending_bytes[q] /\ sending_queue'[q] = sending_queue[q]
            /\ resending_queue'[q] = resending_queue[q]
        BY <1>3, <3>3 DEF QueuesInv
      <4> QED
        BY <3>1, <4>1
    <3> QED
      BY <3>2, <3>3
  <2>4. pending_bytes' = [q \in Paths |-> Len(sending_queue'[q]) + Len(resending_queue'[q])]
    <3>1. DOMAIN pending_bytes' = Paths
      BY <1>3 DEF QueuesInv
    <3>2. pending_bytes' = [q \in Paths |-> pending_bytes'[q]]
      BY <1>3, <3>1 DEF QueuesInv
    <3> QED
      BY <2>3, <3>2
  <2> QED
    BY <1>3, <2>1, <2>2, <2>4 DEF QueuesInv
<1> QED
  BY <1>1, <1>6, <1>7, <1>8, <1>9
\* SendStreamPacket of what is sent again.
LEMMA ResendQInv ==
    ASSUME QInv, NEW p \in Paths, Resend(p)
    PROVE  QInv'
<1> USE DEF QInv
<1>1. IInv'
  BY NextIInv DEF Next
<1>2. p \in timers /\ packet_id' = packet_id /\ pathVars' = pathVars
  BY DEF Resend
<1>3. /\ resending_queue[p] # <<>>
      /\ resending_queue' = [resending_queue EXCEPT ![p] = Tail(@)]
      /\ pending_bytes' = [pending_bytes EXCEPT ![p] = @ - 1]
      /\ sending_queue' = sending_queue
      /\ Transmit(p, Head(resending_queue[p]))
  BY DEF Resend
<1>4. resending_queue[p] \in Seq(PacketIds) /\ sending_queue[p] \in Seq(PacketIds)
  BY DEF QueuesInv
<1>5. /\ Head(resending_queue[p]) \in PacketIds /\ Tail(resending_queue[p]) \in Seq(PacketIds)
      /\ Len(Tail(resending_queue[p])) = Len(resending_queue[p]) - 1
      /\ Len(resending_queue[p]) \in Nat
  BY <1>3, <1>4, Dequeue
<1>6. SeqsInv' /\ PathsInv'
  BY <1>2, <1>3, <1>5, TransmitSeqs
<1>7. FlagsInv'
  BY Zenon DEF FlagsInv, Resend, pathVars, lossVars
<1>8. IdsInv'
  BY DEF IdsInv, PacketIds, Resend, lossVars
<1>9. QueuesInv'
  <2>1. PacketIds' = PacketIds
    BY <1>2 DEF PacketIds
  <2>2. resending_queue' \in [Paths -> Seq(PacketIds)]
    BY <1>3, <1>5 DEF QueuesInv
  <2>3. ASSUME NEW q \in Paths
        PROVE  pending_bytes'[q] = Len(sending_queue'[q]) + Len(resending_queue'[q])
    <3> DEFINE a == Len(resending_queue[p])  b == Len(sending_queue[p])
    <3>1. pending_bytes[q] = Len(sending_queue[q]) + Len(resending_queue[q])
      BY DEF QueuesInv
    <3>2. CASE q = p
      <4>1. a \in Nat /\ b \in Nat
        BY <1>4, LenProperties
      <4>2. /\ pending_bytes[p] = a + b /\ pending_bytes'[p] = pending_bytes[p] - 1
            /\ Len(resending_queue'[p]) = a - 1 /\ Len(sending_queue'[p]) = b
        BY <1>3, <1>5, <3>1, <3>2 DEF QueuesInv
      <4> HIDE DEF a, b
      <4> QED
        BY <3>2, <4>1, <4>2
    <3>3. CASE q # p
      <4>1. /\ pending_bytes'[q] = pending_bytes[q] /\ resending_queue'[q] = resending_queue[q]
            /\ sending_queue'[q] = sending_queue[q]
        BY <1>3, <3>3 DEF QueuesInv
      <4> QED
        BY <3>1, <4>1
    <3> QED
      BY <3>2, <3>3
  <2>4. pending_bytes' = [q \in Paths |-> Len(sending_queue'[q]) + Len(resending_queue'[q])]
    <3>1. DOMAIN pending_bytes' = Paths
      BY <1>3 DEF QueuesInv
    <3>2. pending_bytes' = [q \in Paths |-> pending_bytes'[q]]
      BY <1>3, <3>1 DEF QueuesInv
    <3> QED
      BY <2>3, <3>2
  <2> QED
    BY <1>3, <2>1, <2>2, <2>4 DEF QueuesInv
<1> QED
  BY <1>1, <1>6, <1>7, <1>8, <1>9

\* SendPaddingPacket, when both queues are empty.
LEMMA PaddingQInv ==
    ASSUME QInv, NEW p \in Paths, SendPaddingPacket(p)
    PROVE  QInv'
<1> USE DEF QInv
<1>1. IInv'
  BY NextIInv DEF Next
<1>2. p \in timers /\ packet_id' = packet_id /\ pathVars' = pathVars /\ Transmit(p, 0)
  BY DEF SendPaddingPacket
<1>3. SeqsInv' /\ PathsInv'
  BY <1>2, TransmitSeqs
<1>4. FlagsInv'
  BY Zenon DEF FlagsInv, SendPaddingPacket, pathVars, lossVars
<1>5. IdsInv'
  BY DEF IdsInv, PacketIds, SendPaddingPacket, lossVars
<1>6. QueuesInv'
  BY DEF QueuesInv, PacketIds, SendPaddingPacket, queueVars
<1> QED
  BY <1>1, <1>3, <1>4, <1>5, <1>6
-----------------------------------------------------------------------------
\* What DetectLoss finds and OnPacketLost still has.
FreshLost(p, s) == {i \in LostSeqs(p, s) : seq_id_map[p][i] \in sent_buf}

\* The packets carried by the transmissions run of p.
Carried(p, run) == [k \in DOMAIN run |-> seq_id_map[p][run[k]]]

\* A loss is an outstanding transmission below the one acknowledged.
LEMMA LossesAreCarried ==
    ASSUME IInv, NEW p \in Paths, NEW s \in Nat, NEW run \in Ascending(FreshLost(p, s))
    PROVE  /\ IsFiniteSet(FreshLost(p, s))
           /\ run \in Seq(FreshLost(p, s)) /\ DOMAIN run = 1..Len(run) /\ Len(run) \in Nat
           /\ Carried(p, run) \in Seq(sent_buf) /\ Len(Carried(p, run)) = Len(run)
           /\ \A k \in 1..Len(run) : Carried(p, run)[k] = seq_id_map[p][run[k]]
<1>1. recv_seq[p] \in Nat
  BY DEF IInv
<1>2. IsFiniteSet((recv_seq[p] + 1)..(s - 1))
  <2>1. recv_seq[p] + 1 \in Int /\ s - 1 \in Int
    BY <1>1
  <2> QED
    BY ONLY <2>1, FS_Interval
<1>3. FreshLost(p, s) \subseteq (recv_seq[p] + 1)..(s - 1)
  BY DEF FreshLost, LostSeqs
<1>4. IsFiniteSet(FreshLost(p, s))
  BY <1>2, <1>3, FS_Subset
<1>5. run \in Seq(FreshLost(p, s)) /\ DOMAIN run = 1..Len(run)
  BY <1>4, AscendingSeq
<1>6. Len(run) \in Nat
  BY <1>5, LenProperties
<1>7. \A k \in 1..Len(run) : seq_id_map[p][run[k]] \in sent_buf
  BY <1>5, ElementOfSeq DEF FreshLost
<1>8. Carried(p, run) = [k \in 1..Len(run) |-> seq_id_map[p][run[k]]]
  BY <1>5 DEF Carried
<1>9. Carried(p, run) \in Seq(sent_buf) /\ Len(Carried(p, run)) = Len(run)
  BY <1>6, <1>7, <1>8
<1> QED
  BY <1>4, <1>5, <1>6, <1>8, <1>9

\* OnAck: what is put on the queues again is counted.
LEMMA AckQInv ==
    ASSUME QInv, NEW p \in Paths, NEW s \in 1..MaxSeq, OnAck(p, s)
    PROVE  QInv'
<1> USE DEF QInv
<1>0. s \in Nat
  BY SenderV1Assumption
<1>1. IInv'
  BY NextIInv DEF Next
<1> DEFINE lostIds == {seq_id_map[p][i] : i \in LostSeqs(p, s)}
<1>2. PICK target \in RetransPaths(p), run \in Ascending(FreshLost(p, s)) :
          IF target \in usable_paths
          THEN /\ Requeue(target, Carried(p, run))
               /\ abandoned' = abandoned \cup (lostIds \ sent_buf)
               /\ UNCHANGED path_bug
          ELSE /\ abandoned' = abandoned \cup lostIds
               /\ path_bug' = (path_bug \/ FreshLost(p, s) # {})
               /\ UNCHANGED queueVars
  BY Zenon DEF OnAck, FreshLost, Carried
<1>3. /\ pathVars' = pathVars /\ packet_id' = packet_id /\ stale' = stale
      /\ sent_buf' = sent_buf /\ seq' = seq
      /\ seq_id_map' = [seq_id_map EXCEPT ![p] = RemoveSeqIdMapLe(p, s)]
      /\ acked' = acked \cup ({seq_id_map[p][i] : i \in DOMAIN seq_id_map[p] \cap {s}} \ {0})
  BY DEF OnAck
<1>4. PathsInv'
  BY <1>3 DEF PathsInv, pathVars
<1>5. FlagsInv'
  <2>1. path_bug' \in BOOLEAN
    BY <1>2, Zenon DEF FlagsInv
  <2>2. runing' \in BOOLEAN
    BY <1>3, Zenon DEF FlagsInv, pathVars
  <2> QED
    BY <2>1, <2>2, Zenon DEF FlagsInv
<1>6. PacketIds' = PacketIds
  BY <1>3 DEF PacketIds
<1>7. IdsInv'
  <2>1. acked' \subseteq PacketIds
    BY <1>3 DEF IdsInv, SeqsInv, Outstanding
  <2>2. lostIds \subseteq PacketIds
    BY DEF LostSeqs, SeqsInv, Outstanding
  <2>3. abandoned' \subseteq PacketIds
    BY <1>2, <2>2 DEF IdsInv
  <2> QED
    BY <1>3, <1>6, <2>1, <2>3 DEF IdsInv
<1>8. SeqsInv'
  <2>1. ASSUME NEW q \in Paths, NEW i \in DOMAIN seq_id_map'[q]
        PROVE  seq_id_map'[q][i] \in PacketIds \cup {0}
    BY <1>3, <2>1 DEF IInv, SeqsInv, Outstanding, RemoveSeqIdMapLe
  <2> QED
    BY <1>3, <1>6, <2>1 DEF SeqsInv, Outstanding
<1>9. QueuesInv'
  <2>1. CASE UNCHANGED queueVars
    BY <1>6, <2>1 DEF QueuesInv, queueVars
  <2>2. CASE target \in usable_paths
    <3> DEFINE ids == Carried(p, run)
    <3>1. /\ resending_queue' = [resending_queue EXCEPT ![target] = @ \o ids]
          /\ pending_bytes' = [pending_bytes EXCEPT ![target] = @ + Len(ids)]
          /\ sending_queue' = sending_queue
      BY <1>2, <2>2 DEF Requeue
    <3>2. ids \in Seq(PacketIds)
      BY <1>0, LossesAreCarried, SeqMonotonic DEF IdsInv
    <3>3. target \in Paths
      BY <2>2 DEF PathsInv
    <3> HIDE DEF ids
    <3>4. /\ resending_queue[target] \in Seq(PacketIds)
          /\ sending_queue[target] \in Seq(PacketIds)
      BY <3>3 DEF QueuesInv
    <3>5. /\ resending_queue[target] \o ids \in Seq(PacketIds)
          /\ Len(resending_queue[target] \o ids) = Len(resending_queue[target]) + Len(ids)
      BY <3>2, <3>4, ConcatProperties
    <3>6. resending_queue' \in [Paths -> Seq(PacketIds)]
      BY <3>1, <3>5 DEF QueuesInv
    <3>7. ASSUME NEW q \in Paths
          PROVE  pending_bytes'[q] = Len(sending_queue'[q]) + Len(resending_queue'[q])
      <4> DEFINE a == Len(sending_queue[target])  b == Len(resending_queue[target])
      <4> DEFINE c == Len(ids)
      <4>1. pending_bytes[q] = Len(sending_queue[q]) + Len(resending_queue[q])
        BY DEF QueuesInv
      <4>2. CASE q = target
        <5>1. a \in Nat /\ b \in Nat /\ c \in Nat
          BY <3>2, <3>4, LenProperties
        <5>2. /\ pending_bytes[q] = a + b /\ pending_bytes'[q] = pending_bytes[q] + c
              /\ Len(sending_queue'[q]) = a /\ Len(resending_queue'[q]) = b + c
          BY <3>1, <3>5, <4>1, <4>2 DEF QueuesInv
        <5> HIDE DEF a, b, c
        <5> QED
          BY <5>1, <5>2
      <4>3. CASE q # target
        <5>1. /\ pending_bytes'[q] = pending_bytes[q] /\ sending_queue'[q] = sending_queue[q]
              /\ resending_queue'[q] = resending_queue[q]
          BY <3>1, <4>3 DEF QueuesInv
        <5> QED
          BY <4>1, <5>1
      <4> QED
        BY <4>2, <4>3
    <3>8. pending_bytes' = [q \in Paths |-> pending_bytes'[q]]
      BY <3>1 DEF QueuesInv
    <3>9. pending_bytes' = [q \in Paths |-> Len(sending_queue'[q]) + Len(resending_queue'[q])]
      BY <3>7, <3>8
    <3> QED
      BY <1>6, <3>1, <3>6, <3>9 DEF QueuesInv
  <2> QED
    BY <1>2, <2>1, <2>2
<1> QED
  BY <1>1, <1>4, <1>5, <1>7, <1>8, <1>9

\* Every step keeps the invariant.
LEMMA NextQInv == QInv /\ [Next]_vars => QInv'
<1> SUFFICES ASSUME QInv, [Next]_vars PROVE QInv'
  OBVIOUS
<1>1. ASSUME UNCHANGED vars PROVE QInv'
  <2>1. IInv'
    BY NextIInv DEF QInv
  <2>2. FlagsInv'
    BY <1>1, Zenon DEF QInv, FlagsInv, vars, pathVars, lossVars
  <2>3. PathsInv' /\ IdsInv' /\ QueuesInv' /\ SeqsInv'
    BY <1>1 DEF QInv, PathsInv, IdsInv, QueuesInv, SeqsInv, PacketIds, Outstanding,
                vars, pathVars, queueVars, seqVars, lossVars
  <2> QED
    BY <2>1, <2>2, <2>3 DEF QInv
<1>2. ASSUME NEW p \in Paths, StartApplication(p) \/ StopApplication(p) PROVE QInv'
  BY <1>2, PathStepQInv
<1>3. ASSUME NEW p \in Paths, Resend(p) \/ Send(p) \/ SendPaddingPacket(p) PROVE QInv'
  BY <1>3, ResendQInv, SendQInv, PaddingQInv
<1>4. ASSUME NEW p \in Paths, NEW s \in 1..MaxSeq, OnAck(p, s) PROVE QInv'
  BY <1>4, AckQInv
<1>5. ASSUME NEW n \in 1..MaxSplit, NEW to \in [0..(n - 1) -> pids], OnVideoFrame(n, to)
      PROVE  QInv'
  BY <1>5, FrameQInv
<1>6. CheckStalePacket \/ Age => QInv'
  BY AgeStepQInv
<1> QED
  BY <1>1, <1>2, <1>3, <1>4, <1>5, <1>6 DEF Next

\* What QueuesOK says follows from the invariant.
LEMMA QueuesFollow == QInv => QueuesOK
<1> SUFFICES ASSUME QInv PROVE QueuesOK
  OBVIOUS
<1> USE DEF QInv
<1>1. runing \in BOOLEAN /\ path_bug \in BOOLEAN
  BY Zenon DEF FlagsInv
<1>2. waitting_paths \cup usable_paths \cup pids \cup timers \subseteq Paths
  BY DEF PathsInv
<1>3. /\ packet_id \in 1..(MaxPackets + 1) /\ stale \in 0..MaxPackets
      /\ sent_buf \cup acked \cup abandoned \subseteq PacketIds
  BY SenderV1Assumption DEF IdsInv
<1>4. ASSUME NEW p \in Paths
      PROVE  /\ sending_queue[p] \in Seq(PacketIds) /\ resending_queue[p] \in Seq(PacketIds)
             /\ pending_bytes[p] = Len(sending_queue[p]) + Len(resending_queue[p])
             /\ pending_bytes[p] \in Nat
  <2>1. sending_queue[p] \in Seq(PacketIds) /\ resending_queue[p] \in Seq(PacketIds)
    BY DEF QueuesInv
  <2>2. Len(sending_queue[p]) \in Nat /\ Len(resending_queue[p]) \in Nat
    BY <2>1, LenProperties
  <2>3. pending_bytes[p] = Len(sending_queue[p]) + Len(resending_queue[p])
    BY DEF QueuesInv
  <2> DEFINE a == Len(sending_queue[p])  b == Len(resending_queue[p])
  <2>4. a \in Nat /\ b \in Nat /\ pending_bytes[p] = a + b
    BY <2>2, <2>3
  <2> HIDE DEF a, b
  <2>5. pending_bytes[p] \in Nat
    BY <2>4
  <2> QED
    BY <2>1, <2>3, <2>5
<1>5. ASSUME NEW p \in Paths
      PROVE  /\ seq[p] \in 1..(MaxSeq + 1) /\ recv_seq[p] \in 0..MaxSeq
             /\ Outstanding(p) \cup flight[p] \subseteq 1..MaxSeq
             /\ \A i \in Outstanding(p) : seq_id_map[p][i] \in PacketIds \cup {0}
  <2>1. /\ seq[p] \in Nat /\ recv_seq[p] \in Nat /\ recv_seq[p] < seq[p]
        /\ seq[p] <= MaxSeq + 1 /\ flight[p] \subseteq 1..(seq[p] - 1)
        /\ Outstanding(p) = (recv_seq[p] + 1)..(seq[p] - 1)
    BY DEF IInv, SeqsInv, OutstandingAhead
  <2> QED
    BY <2>1, SenderV1Assumption DEF SeqsInv
<1> QED
  BY <1>1, <1>2, <1>3, <1>4, <1>5 DEF QueuesOK, TypeOK

\* OnVideoPacket, SendStreamPacket and the retransmissions: pending_bytes_ is what
\* the two queues hold, always.
THEOREM QueuesAlwaysOK == Spec => []QueuesOK
  BY InitQInv, NextQInv, QueuesFollow, PTL DEF Spec

\* The path RetransPackets chooses runs, or the path that lost the packet is
\* chosen because one path is registered, or no path is.
LEMMA RetransChoice ==
    ASSUME PathsInv, NEW p \in Paths, NEW target \in RetransPaths(p)
    PROVE  \/ target \in timers
           \/ target = p /\ Cardinality(pids) = 1
           \/ target = 0 /\ pids = {}
<1>1. CASE Cardinality(pids) = 1
  BY <1>1 DEF RetransPaths
<1>2. CASE Cardinality(pids) # 1 /\ pids \ {p} = {}
  <2>1. target = 0
    BY <1>2 DEF RetransPaths
  <2>2. pids # {p}
    BY <1>2, FS_Singleton
  <2> QED
    BY <1>2, <2>1, <2>2
<1>3. CASE Cardinality(pids) # 1 /\ pids \ {p} # {}
  BY <1>3 DEF RetransPaths, PathsInv
<1> QED
  BY <1>1, <1>2, <1>3

\* What OnAck does with the losses, given the path that was chosen.
LEMMA AckEffect ==
    ASSUME QInv, NEW p \in Paths, NEW s \in 1..MaxSeq, OnAck(p, s)
    PROVE  \E target \in RetransPaths(p) :
              IF target \in usable_paths
              THEN /\ \E ids : /\ resending_queue' =
                                     [resending_queue EXCEPT ![target] = @ \o ids]
                               /\ ids \in Seq(PacketIds)
                   /\ \A id \in abandoned' \ abandoned : id \in PacketIds \ sent_buf
              ELSE resending_queue' = resending_queue
<1> USE DEF QInv
<1>0. s \in Nat
  BY SenderV1Assumption
<1> DEFINE lostIds == {seq_id_map[p][i] : i \in LostSeqs(p, s)}
<1>1. PICK target \in RetransPaths(p), run \in Ascending(FreshLost(p, s)) :
          IF target \in usable_paths
          THEN /\ Requeue(target, Carried(p, run))
               /\ abandoned' = abandoned \cup (lostIds \ sent_buf)
               /\ UNCHANGED path_bug
          ELSE /\ abandoned' = abandoned \cup lostIds
               /\ path_bug' = (path_bug \/ FreshLost(p, s) # {})
               /\ UNCHANGED queueVars
  BY Zenon DEF OnAck, FreshLost, Carried
<1>2. lostIds \subseteq PacketIds
  BY DEF LostSeqs, SeqsInv, Outstanding
<1>3. CASE target \in usable_paths
  <2>1. Carried(p, run) \in Seq(PacketIds)
    BY <1>0, LossesAreCarried, SeqMonotonic DEF IdsInv
  <2>2. resending_queue' = [resending_queue EXCEPT ![target] = @ \o Carried(p, run)]
    BY <1>1, <1>3 DEF Requeue
  <2>3. \A id \in abandoned' \ abandoned : id \in PacketIds \ sent_buf
    BY <1>1, <1>2, <1>3
  <2> QED
    BY <1>3, <2>1, <2>2, <2>3
<1>4. CASE target \notin usable_paths
  <2>1. resending_queue' = resending_queue
    BY <1>1, <1>4 DEF queueVars
  <2> QED
    BY <1>4, <2>1
<1> QED
  BY <1>3, <1>4

\* Whatever is acknowledged for has a path that was available.
LEMMA AckedPathUsable ==
    ASSUME QInv, NEW p \in Paths, NEW s, OnAck(p, s)
    PROVE  p \in usable_paths
<1>1. s \in flight[p]
  BY DEF OnAck
<1>2. s \in 1..(seq[p] - 1) /\ seq[p] \in Nat
  BY <1>1 DEF QInv, IInv
<1>3. seq[p] > 1
  BY <1>2
<1> QED
  BY <1>3 DEF QInv, PathsInv

\* Only OnAck changes what is given up or queued again, but for what Resend takes.
LEMMA OthersKeep ==
    ASSUME QInv, [Next]_vars, ~\E p \in Paths : \E s \in 1..MaxSeq : OnAck(p, s)
    PROVE  /\ abandoned' = abandoned
           /\ \A q \in Paths : Len(resending_queue'[q]) <= Len(resending_queue[q])
<1>0. ASSUME NEW q \in Paths PROVE Len(resending_queue[q]) \in Nat
  BY LenProperties DEF QInv, QueuesInv
<1>1. ASSUME NEW p \in Paths, Resend(p)
      PROVE  /\ abandoned' = abandoned
             /\ \A q \in Paths : Len(resending_queue'[q]) <= Len(resending_queue[q])
  <2>1. /\ resending_queue' = [resending_queue EXCEPT ![p] = Tail(@)]
        /\ abandoned' = abandoned /\ resending_queue[p] # <<>>
    BY <1>1 DEF Resend, lossVars
  <2>2. Len(Tail(resending_queue[p])) = Len(resending_queue[p]) - 1
    BY <2>1, Dequeue DEF QInv, QueuesInv
  <2>3. ASSUME NEW q \in Paths PROVE Len(resending_queue'[q]) <= Len(resending_queue[q])
    <3>1. CASE q = p
      <4> DEFINE a == Len(resending_queue[q])  b == Len(resending_queue'[q])
      <4>1. a \in Nat /\ b = a - 1
        BY <1>0, <2>1, <2>2, <3>1 DEF QInv, QueuesInv
      <4> HIDE DEF a, b
      <4>2. b <= a
        BY <4>1
      <4> QED
        BY <4>2 DEF a, b
    <3>2. CASE q # p
      <4>1. resending_queue'[q] = resending_queue[q]
        BY <2>1, <3>2 DEF QInv, QueuesInv
      <4> QED
        BY <1>0, <4>1
    <3> QED
      BY <3>1, <3>2
  <2> QED
    BY <2>1, <2>3
<1>2. ASSUME abandoned' = abandoned, resending_queue' = resending_queue
      PROVE  /\ abandoned' = abandoned
             /\ \A q \in Paths : Len(resending_queue'[q]) <= Len(resending_queue[q])
  BY <1>0, <1>2
<1>3. ASSUME NEW p \in Paths, StartApplication(p) \/ StopApplication(p) \/ Send(p)
                               \/ SendPaddingPacket(p)
      PROVE  abandoned' = abandoned /\ resending_queue' = resending_queue
  BY <1>3 DEF StartApplication, StopApplication, Send, SendPaddingPacket, queueVars, lossVars
<1>4. ASSUME NEW n, NEW to, OnVideoFrame(n, to)
      PROVE  abandoned' = abandoned /\ resending_queue' = resending_queue
  BY <1>4 DEF OnVideoFrame, lossVars
<1>5. CheckStalePacket \/ Age \/ UNCHANGED vars =>
        abandoned' = abandoned /\ resending_queue' = resending_queue
  BY DEF CheckStalePacket, Age, vars, queueVars, lossVars
<1> QED
  BY <1>1, <1>2, <1>3, <1>4, <1>5 DEF Next

\* PacketRetrans: a packet is given up only when it is stale, or no path is left.
THEOREM AlwaysGivenUpWhenStale == Spec => GivenUpWhenStale
<1> DEFINE A == \A id \in abandoned' \ abandoned : id <= stale \/ pids = {}
<1>1. QInv /\ [Next]_vars => A
  <2> SUFFICES ASSUME QInv, [Next]_vars, NEW id \in abandoned' \ abandoned
               PROVE  id <= stale \/ pids = {}
    OBVIOUS
  <2>1. PICK p \in Paths, s \in 1..MaxSeq : OnAck(p, s)
    BY OthersKeep
  <2>2. PICK target \in RetransPaths(p) :
            target \in usable_paths => \A i \in abandoned' \ abandoned : i \in PacketIds \ sent_buf
    BY <2>1, AckEffect
  <2>3. CASE target \in usable_paths
    <3>1. id \in PacketIds /\ id \notin sent_buf
      BY <2>2, <2>3
    <3>2. ~(id > stale)
      BY <3>1 DEF QInv, IdsInv
    <3>3. id \in Nat /\ stale \in Nat
      BY <3>1 DEF QInv, IdsInv, PacketIds
    <3> QED
      BY <3>2, <3>3
  <2>4. CASE target \notin usable_paths
    <3>1. p \in usable_paths
      BY <2>1, AckedPathUsable
    <3>2. target \notin timers
      BY <2>4 DEF QInv, PathsInv
    <3> QED
      BY <2>4, <3>1, <3>2, RetransChoice DEF QInv
  <2> QED
    BY <2>3, <2>4
<1>2. QInv /\ [Next]_vars => [A]_vars
  BY <1>1
<1> QED
  BY <1>2, InitQInv, NextQInv, PTL DEF Spec, GivenUpWhenStale

\* RetransPackets: a packet is queued again on a path that still sends, unless one
\* path is registered.
THEOREM AlwaysRetransOnLivePath == Spec => RetransOnLivePath
<1> DEFINE A == \A p \in Paths : Len(resending_queue'[p]) > Len(resending_queue[p]) =>
                                    p \in timers \/ Cardinality(pids) = 1
<1>1. QInv /\ [Next]_vars => A
  <2> SUFFICES ASSUME QInv, [Next]_vars, NEW q \in Paths,
                      Len(resending_queue'[q]) > Len(resending_queue[q])
               PROVE  q \in timers \/ Cardinality(pids) = 1
    OBVIOUS
  <2>0. ASSUME NEW r \in Seq(PacketIds) PROVE Len(r) \in Nat
    BY LenProperties
  <2>1. PICK p \in Paths, s \in 1..MaxSeq : OnAck(p, s)
    <3>1. resending_queue'[q] \in Seq(PacketIds') /\ resending_queue[q] \in Seq(PacketIds)
      BY NextQInv DEF QInv, QueuesInv
    <3>2. Len(resending_queue'[q]) \in Nat /\ Len(resending_queue[q]) \in Nat
      BY <3>1, LenProperties
    <3>3. ~(Len(resending_queue'[q]) <= Len(resending_queue[q]))
      BY <3>2
    <3> QED
      BY <3>3, OthersKeep
  <2>2. PICK target \in RetransPaths(p) :
            IF target \in usable_paths
            THEN \E ids : resending_queue' = [resending_queue EXCEPT ![target] = @ \o ids]
            ELSE resending_queue' = resending_queue
    BY <2>1, AckEffect
  <2>3. resending_queue'[q] # resending_queue[q]
    BY <2>0 DEF QInv, QueuesInv
  <2>4. q = target /\ target \in usable_paths
    BY <2>2, <2>3 DEF QInv, QueuesInv
  <2>5. target # 0
    BY <2>4, SenderV1Assumption
  <2> QED
    BY <2>4, <2>5, RetransChoice DEF QInv
<1>2. QInv /\ [Next]_vars => [A]_vars
  BY <1>1
<1> QED
  BY <1>2, InitQInv, NextQInv, PTL DEF Spec, RetransOnLivePath
-----------------------------------------------------------------------------
(***************************************************************************)
(* SenderV1 forgets no packet and has none twice.                          *)
(***************************************************************************)
\* Packet id is at place k of a queue of p, or is what transmission k of p
\* carried, that is not settled.
SendAt(p, k, id) == k \in 1..Len(sending_queue[p]) /\ sending_queue[p][k] = id
ResendAt(p, k, id) == k \in 1..Len(resending_queue[p]) /\ resending_queue[p][k] = id
SeqAt(p, k, id) == k \in Outstanding(p) /\ seq_id_map[p][k] = id

\* No two places have packet id.
OnePlace(id) ==
    \A p, q \in Paths : \A j, k \in Nat :
        /\ SendAt(p, j, id) /\ SendAt(q, k, id) => p = q /\ j = k
        /\ ResendAt(p, j, id) /\ ResendAt(q, k, id) => p = q /\ j = k
        /\ SeqAt(p, j, id) /\ SeqAt(q, k, id) => p = q /\ j = k
        /\ ~(SendAt(p, j, id) /\ ResendAt(q, k, id))
        /\ ~(SendAt(p, j, id) /\ SeqAt(q, k, id))
        /\ ~(ResendAt(p, j, id) /\ SeqAt(q, k, id))

SomePlace(id) ==
    \E p \in Paths : \E k \in Nat : SendAt(p, k, id) \/ ResendAt(p, k, id) \/ SeqAt(p, k, id)

Settled(id) == id \in acked \/ id \in abandoned

PlacesInv == \A id \in PacketIds : OnePlace(id) /\ (SomePlace(id) \/ Settled(id))

\* A place in a queue is a place of it.
LEMMA PlaceRanges ==
    ASSUME QInv, NEW p \in Paths, NEW k \in Nat, NEW id
    PROVE  /\ SendAt(p, k, id) => k >= 1 /\ id \in PacketIds
           /\ ResendAt(p, k, id) => k >= 1 /\ id \in PacketIds
           /\ SeqAt(p, k, id) => k < seq[p] /\ id \in PacketIds \cup {0}
<1>1. SendAt(p, k, id) => k >= 1 /\ id \in PacketIds
  BY ElementOfSeq, LenProperties DEF SendAt, QInv, QueuesInv
<1>2. ResendAt(p, k, id) => k >= 1 /\ id \in PacketIds
  BY ElementOfSeq, LenProperties DEF ResendAt, QInv, QueuesInv
<1>3. SeqAt(p, k, id) => k < seq[p] /\ id \in PacketIds \cup {0}
  <2>1. Outstanding(p) = (recv_seq[p] + 1)..(seq[p] - 1) /\ seq[p] \in Nat /\ recv_seq[p] \in Nat
    BY DEF QInv, IInv, OutstandingAhead
  <2> QED
    BY <2>1 DEF SeqAt, QInv, SeqsInv
<1> QED
  BY <1>1, <1>2, <1>3

\* No packet has been written at first.
LEMMA InitPlaces == Init => PlacesInv
  BY DEF Init, PlacesInv, PacketIds

\* A step that touches neither the queues nor seq_id_map_ keeps the places.
LEMMA SamePlaces ==
    ASSUME PlacesInv, packet_id' = packet_id, acked' = acked, abandoned' = abandoned,
           sending_queue' = sending_queue, resending_queue' = resending_queue,
           seq_id_map' = seq_id_map
    PROVE  PlacesInv'
  BY DEF PlacesInv, PacketIds, OnePlace, SomePlace, Settled, SendAt, ResendAt, SeqAt,
         Outstanding

\* Where the packets are after a transmission.
LEMMA TransmitPlaces ==
    ASSUME QInv, NEW p \in Paths, NEW id, Transmit(p, id),
           NEW q \in Paths, NEW k \in Nat, NEW x
    PROVE  SeqAt(q, k, x)' <=> SeqAt(q, k, x) \/ (q = p /\ k = seq[p] /\ x = id)
<1>1. /\ DOMAIN seq_id_map'[p] = DOMAIN seq_id_map[p] \cup {seq[p]}
      /\ \A i \in DOMAIN seq_id_map'[p] :
            seq_id_map'[p][i] = IF i = seq[p] THEN id ELSE seq_id_map[p][i]
      /\ \A r \in Paths \ {p} : seq_id_map'[r] = seq_id_map[r]
  BY DEF QInv, IInv, Transmit
<1>2. seq[p] \notin DOMAIN seq_id_map[p]
  BY DEF QInv, IInv, OutstandingAhead, Outstanding
<1> QED
  BY <1>1, <1>2 DEF SeqAt, Outstanding

\* Where the packets of a queue are when its head is gone.
LEMMA TailPlaces ==
    ASSUME NEW S, NEW w \in Seq(S), w # <<>>, NEW k \in Nat, NEW x
    PROVE  /\ k \in 1..Len(Tail(w)) /\ Tail(w)[k] = x
              <=> k >= 1 /\ k + 1 \in 1..Len(w) /\ w[k + 1] = x
           /\ 1 \in 1..Len(w) /\ Head(w) = w[1]
  BY HeadTailProperties, EmptySeq

\* SendStreamPacket moves the packet from the queue to seq_id_map_.
LEMMA SendPlaces ==
    ASSUME QInv, PlacesInv, NEW p \in Paths, Send(p)
    PROVE  PlacesInv'
<1>1. /\ sending_queue[p] # <<>>
      /\ sending_queue' = [sending_queue EXCEPT ![p] = Tail(@)]
      /\ resending_queue' = resending_queue
      /\ Transmit(p, Head(sending_queue[p]))
      /\ packet_id' = packet_id /\ acked' = acked /\ abandoned' = abandoned
  BY DEF Send, lossVars
<1>2. sending_queue[p] \in Seq(PacketIds) /\ DOMAIN sending_queue = Paths /\ seq[p] \in Nat
  BY DEF QInv, QueuesInv, IInv
<1> SUFFICES ASSUME NEW id \in PacketIds
             PROVE  OnePlace(id)' /\ (SomePlace(id)' \/ Settled(id)')
  BY <1>1 DEF PlacesInv, PacketIds
<1>3. \A q \in Paths : \A k \in Nat :
         SendAt(q, k, id)' <=> IF q = p THEN k >= 1 /\ SendAt(p, k + 1, id) ELSE SendAt(q, k, id)
  <2> SUFFICES ASSUME NEW q \in Paths, NEW k \in Nat
               PROVE  SendAt(q, k, id)'
                      <=> IF q = p THEN k >= 1 /\ SendAt(p, k + 1, id) ELSE SendAt(q, k, id)
    OBVIOUS
  <2>1. CASE q = p
    <3>1. sending_queue'[p] = Tail(sending_queue[p])
      BY <1>1, <1>2
    <3> QED
      BY <1>1, <1>2, <2>1, <3>1, TailPlaces DEF SendAt
  <2>2. CASE q # p
    BY <1>1, <1>2, <2>2 DEF SendAt
  <2> QED
    BY <2>1, <2>2
<1>4. \A q \in Paths : \A k \in Nat : ResendAt(q, k, id)' <=> ResendAt(q, k, id)
  BY <1>1 DEF ResendAt
<1>5. \A q \in Paths : \A k \in Nat :
         SeqAt(q, k, id)' <=> SeqAt(q, k, id) \/ (q = p /\ k = seq[p] /\ SendAt(p, 1, id))
  <2>1. id = Head(sending_queue[p]) <=> SendAt(p, 1, id)
    BY <1>1, <1>2, TailPlaces DEF SendAt
  <2> QED
    BY <1>1, <2>1, TransmitPlaces
<1>6. \A q \in Paths : \A k \in Nat :
         (SendAt(q, k, id) => k >= 1) /\ (SeqAt(q, k, id) => k < seq[q])
  BY PlaceRanges
<1>7. OnePlace(id) /\ (SomePlace(id) \/ Settled(id))
  BY DEF PlacesInv
<1>8. OnePlace(id)'
  <2> SUFFICES ASSUME NEW a \in Paths, NEW b \in Paths, NEW i \in Nat, NEW j \in Nat
               PROVE  /\ SendAt(a, i, id)' /\ SendAt(b, j, id)' => a = b /\ i = j
                      /\ ResendAt(a, i, id)' /\ ResendAt(b, j, id)' => a = b /\ i = j
                      /\ SeqAt(a, i, id)' /\ SeqAt(b, j, id)' => a = b /\ i = j
                      /\ ~(SendAt(a, i, id)' /\ ResendAt(b, j, id)')
                      /\ ~(SendAt(a, i, id)' /\ SeqAt(b, j, id)')
                      /\ ~(ResendAt(a, i, id)' /\ SeqAt(b, j, id)')
    BY DEF OnePlace
  <2>0. i + 1 \in Nat /\ j + 1 \in Nat /\ 1 \in Nat
    OBVIOUS
  <2>1. SendAt(a, i, id)' /\ SendAt(b, j, id)' => a = b /\ i = j
    BY <1>3, <1>7, <2>0 DEF OnePlace
  <2>2. ResendAt(a, i, id)' /\ ResendAt(b, j, id)' => a = b /\ i = j
    BY <1>4, <1>7 DEF OnePlace
  <2>3. SeqAt(a, i, id)' /\ SeqAt(b, j, id)' => a = b /\ i = j
    BY <1>5, <1>7, <2>0 DEF OnePlace
  <2>4. ~(SendAt(a, i, id)' /\ ResendAt(b, j, id)')
    BY <1>3, <1>4, <1>7, <2>0 DEF OnePlace
  <2>5. ~(SendAt(a, i, id)' /\ SeqAt(b, j, id)')
    BY <1>3, <1>5, <1>6, <1>7, <2>0 DEF OnePlace
  <2>6. ~(ResendAt(a, i, id)' /\ SeqAt(b, j, id)')
    BY <1>4, <1>5, <1>7, <2>0 DEF OnePlace
  <2> QED
    BY <2>1, <2>2, <2>3, <2>4, <2>5, <2>6
<1>9. SomePlace(id)' \/ Settled(id)'
  <2>1. CASE Settled(id)
    BY <1>1, <2>1 DEF Settled
  <2>2. ASSUME NEW q \in Paths, NEW k \in Nat,
               SendAt(q, k, id) \/ ResendAt(q, k, id) \/ SeqAt(q, k, id)
        PROVE  SomePlace(id)'
    <3>1. CASE q = p /\ SendAt(q, k, id) /\ k = 1
      BY <1>2, <1>5, <3>1 DEF SomePlace
    <3>2. CASE q = p /\ SendAt(q, k, id) /\ k # 1
      <4>1. k - 1 \in Nat /\ k - 1 >= 1 /\ (k - 1) + 1 = k
        BY <1>6, <3>2
      <4>2. SendAt(p, k - 1, id)'
        BY <1>3, <3>2, <4>1
      <4> QED
        BY <4>1, <4>2 DEF SomePlace
    <3>3. CASE q # p /\ SendAt(q, k, id)
      BY <1>3, <3>3 DEF SomePlace
    <3>4. CASE ResendAt(q, k, id) \/ SeqAt(q, k, id)
      BY <1>4, <1>5, <3>4 DEF SomePlace
    <3> QED
      BY <2>2, <3>1, <3>2, <3>3, <3>4
  <2> QED
    BY <1>7, <2>1, <2>2 DEF SomePlace
<1> QED
  BY <1>8, <1>9
\* SendStreamPacket moves a lost packet from its queue to seq_id_map_.
LEMMA ResendPlaces ==
    ASSUME QInv, PlacesInv, NEW p \in Paths, Resend(p)
    PROVE  PlacesInv'
<1>1. /\ resending_queue[p] # <<>>
      /\ resending_queue' = [resending_queue EXCEPT ![p] = Tail(@)]
      /\ sending_queue' = sending_queue
      /\ Transmit(p, Head(resending_queue[p]))
      /\ packet_id' = packet_id /\ acked' = acked /\ abandoned' = abandoned
  BY DEF Resend, lossVars
<1>2. resending_queue[p] \in Seq(PacketIds) /\ DOMAIN resending_queue = Paths /\ seq[p] \in Nat
  BY DEF QInv, QueuesInv, IInv
<1> SUFFICES ASSUME NEW id \in PacketIds
             PROVE  OnePlace(id)' /\ (SomePlace(id)' \/ Settled(id)')
  BY <1>1 DEF PlacesInv, PacketIds
<1>3. \A q \in Paths : \A k \in Nat :
         ResendAt(q, k, id)' <=> IF q = p THEN k >= 1 /\ ResendAt(p, k + 1, id) ELSE ResendAt(q, k, id)
  <2> SUFFICES ASSUME NEW q \in Paths, NEW k \in Nat
               PROVE  ResendAt(q, k, id)'
                      <=> IF q = p THEN k >= 1 /\ ResendAt(p, k + 1, id) ELSE ResendAt(q, k, id)
    OBVIOUS
  <2>1. CASE q = p
    <3>1. resending_queue'[p] = Tail(resending_queue[p])
      BY <1>1, <1>2
    <3> QED
      BY <1>1, <1>2, <2>1, <3>1, TailPlaces DEF ResendAt
  <2>2. CASE q # p
    BY <1>1, <1>2, <2>2 DEF ResendAt
  <2> QED
    BY <2>1, <2>2
<1>4. \A q \in Paths : \A k \in Nat : SendAt(q, k, id)' <=> SendAt(q, k, id)
  BY <1>1 DEF SendAt
<1>5. \A q \in Paths : \A k \in Nat :
         SeqAt(q, k, id)' <=> SeqAt(q, k, id) \/ (q = p /\ k = seq[p] /\ ResendAt(p, 1, id))
  <2>1. id = Head(resending_queue[p]) <=> ResendAt(p, 1, id)
    BY <1>1, <1>2, TailPlaces DEF ResendAt
  <2> QED
    BY <1>1, <2>1, TransmitPlaces
<1>6. \A q \in Paths : \A k \in Nat :
         (ResendAt(q, k, id) => k >= 1) /\ (SeqAt(q, k, id) => k < seq[q])
  BY PlaceRanges
<1>7. OnePlace(id) /\ (SomePlace(id) \/ Settled(id))
  BY DEF PlacesInv
<1>8. OnePlace(id)'
  <2> SUFFICES ASSUME NEW a \in Paths, NEW b \in Paths, NEW i \in Nat, NEW j \in Nat
               PROVE  /\ ResendAt(a, i, id)' /\ ResendAt(b, j, id)' => a = b /\ i = j
                      /\ SendAt(a, i, id)' /\ SendAt(b, j, id)' => a = b /\ i = j
                      /\ SeqAt(a, i, id)' /\ SeqAt(b, j, id)' => a = b /\ i = j
                      /\ ~(ResendAt(a, i, id)' /\ SendAt(b, j, id)')
                      /\ ~(ResendAt(a, i, id)' /\ SeqAt(b, j, id)')
                      /\ ~(SendAt(a, i, id)' /\ SeqAt(b, j, id)')
    BY DEF OnePlace
  <2>0. i + 1 \in Nat /\ j + 1 \in Nat /\ 1 \in Nat
    OBVIOUS
  <2>1. ResendAt(a, i, id)' /\ ResendAt(b, j, id)' => a = b /\ i = j
    BY <1>3, <1>7, <2>0 DEF OnePlace
  <2>2. SendAt(a, i, id)' /\ SendAt(b, j, id)' => a = b /\ i = j
    BY <1>4, <1>7 DEF OnePlace
  <2>3. SeqAt(a, i, id)' /\ SeqAt(b, j, id)' => a = b /\ i = j
    BY <1>5, <1>7, <2>0 DEF OnePlace
  <2>4. ~(ResendAt(a, i, id)' /\ SendAt(b, j, id)')
    BY <1>3, <1>4, <1>7, <2>0 DEF OnePlace
  <2>5. ~(ResendAt(a, i, id)' /\ SeqAt(b, j, id)')
    BY <1>3, <1>5, <1>6, <1>7, <2>0 DEF OnePlace
  <2>6. ~(SendAt(a, i, id)' /\ SeqAt(b, j, id)')
    BY <1>4, <1>5, <1>7, <2>0 DEF OnePlace
  <2> QED
    BY <2>1, <2>2, <2>3, <2>4, <2>5, <2>6
<1>9. SomePlace(id)' \/ Settled(id)'
  <2>1. CASE Settled(id)
    BY <1>1, <2>1 DEF Settled
  <2>2. ASSUME NEW q \in Paths, NEW k \in Nat,
               ResendAt(q, k, id) \/ SendAt(q, k, id) \/ SeqAt(q, k, id)
        PROVE  SomePlace(id)'
    <3>1. CASE q = p /\ ResendAt(q, k, id) /\ k = 1
      BY <1>2, <1>5, <3>1 DEF SomePlace
    <3>2. CASE q = p /\ ResendAt(q, k, id) /\ k # 1
      <4>1. k - 1 \in Nat /\ k - 1 >= 1 /\ (k - 1) + 1 = k
        BY <1>6, <3>2
      <4>2. ResendAt(p, k - 1, id)'
        BY <1>3, <3>2, <4>1
      <4> QED
        BY <4>1, <4>2 DEF SomePlace
    <3>3. CASE q # p /\ ResendAt(q, k, id)
      BY <1>3, <3>3 DEF SomePlace
    <3>4. CASE SendAt(q, k, id) \/ SeqAt(q, k, id)
      BY <1>4, <1>5, <3>4 DEF SomePlace
    <3> QED
      BY <2>2, <3>1, <3>2, <3>3, <3>4
  <2> QED
    BY <1>7, <2>1, <2>2 DEF SomePlace
<1> QED
  BY <1>8, <1>9

\* SendPaddingPacket puts no packet anywhere.
LEMMA PaddingPlaces ==
    ASSUME QInv, PlacesInv, NEW p \in Paths, SendPaddingPacket(p)
    PROVE  PlacesInv'
<1>1. /\ sending_queue' = sending_queue /\ resending_queue' = resending_queue
      /\ Transmit(p, 0)
      /\ packet_id' = packet_id /\ acked' = acked /\ abandoned' = abandoned
  BY DEF SendPaddingPacket, queueVars, lossVars
<1> SUFFICES ASSUME NEW id \in PacketIds
             PROVE  OnePlace(id)' /\ (SomePlace(id)' \/ Settled(id)')
  BY <1>1 DEF PlacesInv, PacketIds
<1>2. id # 0
  BY DEF PacketIds, QInv, IdsInv
<1>3. \A q \in Paths : \A k \in Nat : SendAt(q, k, id)' <=> SendAt(q, k, id)
  BY <1>1 DEF SendAt
<1>4. \A q \in Paths : \A k \in Nat : ResendAt(q, k, id)' <=> ResendAt(q, k, id)
  BY <1>1 DEF ResendAt
<1>5. \A q \in Paths : \A k \in Nat : SeqAt(q, k, id)' <=> SeqAt(q, k, id)
  BY <1>1, <1>2, TransmitPlaces
<1>6. OnePlace(id) /\ (SomePlace(id) \/ Settled(id))
  BY DEF PlacesInv
<1>7. OnePlace(id)'
  BY <1>3, <1>4, <1>5, <1>6 DEF OnePlace
<1>8. SomePlace(id)' \/ Settled(id)'
  BY <1>1, <1>3, <1>4, <1>5, <1>6 DEF SomePlace, Settled
<1> QED
  BY <1>7, <1>8

\* Where the packets of a queue are when others are put behind them.
LEMMA ConcatPlaces ==
    ASSUME NEW w \in Seq(Nat), NEW v \in Seq(Nat), NEW k \in Nat, NEW x
    PROVE  k \in 1..Len(w \o v) /\ (w \o v)[k] = x
           <=> \/ k \in 1..Len(w) /\ w[k] = x
               \/ k > Len(w) /\ k - Len(w) \in 1..Len(v) /\ v[k - Len(w)] = x
<1>1. Len(w) \in Nat /\ Len(v) \in Nat
  BY LenProperties
<1>2. /\ Len(w \o v) = Len(w) + Len(v)
      /\ \A i \in 1..(Len(w) + Len(v)) :
            (w \o v)[i] = IF i <= Len(w) THEN w[i] ELSE v[i - Len(w)]
  BY ConcatProperties
<1> DEFINE a == Len(w)  b == Len(v)
<1> DEFINE c == w \o v
<1>3. /\ a \in Nat /\ b \in Nat /\ Len(c) = a + b
      /\ \A i \in 1..(a + b) : c[i] = IF i <= a THEN w[i] ELSE v[i - a]
  BY <1>1, <1>2
<1> HIDE DEF a, b, c
<1>4. k \in 1..Len(c) /\ c[k] = x
      <=> \/ k \in 1..a /\ w[k] = x
          \/ k > a /\ k - a \in 1..b /\ v[k - a] = x
  BY <1>3
<1> QED
  BY <1>4 DEF a, b, c

\* OnVideoFrame puts each new packet on one queue, and nowhere else.
LEMMA FramePlaces ==
    ASSUME QInv, PlacesInv, NEW n \in 1..MaxSplit, NEW to \in [0..(n - 1) -> pids],
           OnVideoFrame(n, to)
    PROVE  PlacesInv'
<1>0. n \in Nat /\ packet_id \in Nat
  BY SenderV1Assumption DEF QInv, IdsInv
<1> DEFINE ids == packet_id..(packet_id + n - 1)
<1>1. PICK given \in Given(ids, to) :
          sending_queue' = [p \in Paths |-> sending_queue[p] \o given[p]]
  BY Zenon DEF OnVideoFrame
<1>2. /\ packet_id' = packet_id + n /\ resending_queue' = resending_queue
      /\ seq_id_map' = seq_id_map /\ acked' = acked /\ abandoned' = abandoned
  BY DEF OnVideoFrame, seqVars, lossVars
<1>3. ASSUME NEW p \in Paths
      PROVE  /\ given[p] \in Seq(ids) /\ sending_queue[p] \in Seq(PacketIds)
             /\ \A i \in 1..Len(given[p]) : to[given[p][i] - packet_id] = p
             /\ \A id \in ids : to[id - packet_id] = p =>
                                   \E i \in 1..Len(given[p]) : given[p][i] = id
             /\ \A i, j \in 1..Len(given[p]) : i < j => given[p][i] < given[p][j]
             /\ Len(given[p]) \in Nat /\ Len(sending_queue[p]) \in Nat
  <2> DEFINE mine == {id \in ids : to[id - packet_id] = p}
  <2>1. IsFiniteSet(mine) /\ given[p] \in Ascending(mine)
    BY <1>0, GivenSeq DEF QInv
  <2>2. mine \subseteq ids /\ (\A id \in mine : to[id - packet_id] = p)
        /\ \A id \in ids : to[id - packet_id] = p => id \in mine
    OBVIOUS
  <2> HIDE DEF mine
  <2>3. /\ given[p] \in Seq(mine)
        /\ \A x \in mine : \E i \in 1..Len(given[p]) : given[p][i] = x
        /\ \A i, j \in 1..Len(given[p]) : i < j => given[p][i] < given[p][j]
    BY <2>1, AscendingSeq
  <2>4. \A i \in 1..Len(given[p]) : given[p][i] \in mine
    BY <2>3, ElementOfSeq
  <2>5. given[p] \in Seq(ids)
    BY <2>2, <2>3, SeqMonotonic
  <2>6. sending_queue[p] \in Seq(PacketIds)
    BY DEF QInv, QueuesInv
  <2> QED
    BY <2>2, <2>3, <2>4, <2>5, <2>6, LenProperties
<1>4. ASSUME NEW p \in Paths, NEW k \in Nat, NEW id
      PROVE  SendAt(p, k, id)' <=>
                \/ SendAt(p, k, id)
                \/ /\ k > Len(sending_queue[p])
                   /\ k - Len(sending_queue[p]) \in 1..Len(given[p])
                   /\ given[p][k - Len(sending_queue[p])] = id
  <2>1. given[p] \in Seq(Nat) /\ sending_queue[p] \in Seq(Nat)
    <3>1. ids \subseteq Nat /\ PacketIds \subseteq Nat
      BY <1>0 DEF PacketIds
    <3> QED
      BY <1>3, <3>1, SeqMonotonic
  <2>2. sending_queue'[p] = sending_queue[p] \o given[p]
    BY <1>1
  <2> DEFINE w == sending_queue[p]  v == given[p]
  <2>3. w \in Seq(Nat) /\ v \in Seq(Nat)
    BY <2>1
  <2> HIDE DEF w, v
  <2>4. k \in 1..Len(w \o v) /\ (w \o v)[k] = id
        <=> \/ k \in 1..Len(w) /\ w[k] = id
            \/ k > Len(w) /\ k - Len(w) \in 1..Len(v) /\ v[k - Len(w)] = id
    BY <2>3, ConcatPlaces
  <2>5. SendAt(p, k, id)' <=> k \in 1..Len(w \o v) /\ (w \o v)[k] = id
    BY <2>2 DEF SendAt, w, v
  <2>6. SendAt(p, k, id) <=> k \in 1..Len(w) /\ w[k] = id
    BY DEF SendAt, w
  <2> QED
    BY <2>4, <2>5, <2>6 DEF w, v
<1>5. ASSUME NEW p \in Paths, NEW k \in Nat, NEW id
      PROVE  (ResendAt(p, k, id)' <=> ResendAt(p, k, id)) /\ (SeqAt(p, k, id)' <=> SeqAt(p, k, id))
  BY <1>2 DEF ResendAt, SeqAt, Outstanding
<1>6. ASSUME NEW id \in PacketIds
      PROVE  OnePlace(id)' /\ (SomePlace(id)' \/ Settled(id)')
  <2>1. ASSUME NEW p \in Paths, NEW k \in Nat
        PROVE  SendAt(p, k, id)' <=> SendAt(p, k, id)
    <3>1. \A i \in 1..Len(given[p]) : given[p][i] \in ids
      BY <1>3, ElementOfSeq
    <3>2. id \notin ids
      BY <1>0 DEF PacketIds
    <3> QED
      BY <1>4, <3>1, <3>2
  <2>2. OnePlace(id) /\ (SomePlace(id) \/ Settled(id))
    BY DEF PlacesInv
  <2>3. OnePlace(id)'
    BY <1>5, <2>1, <2>2 DEF OnePlace
  <2>4. SomePlace(id)' \/ Settled(id)'
    BY <1>2, <1>5, <2>1, <2>2 DEF SomePlace, Settled
  <2> QED
    BY <2>3, <2>4
<1>7. ASSUME NEW id \in ids
      PROVE  OnePlace(id)' /\ SomePlace(id)'
  <2>1. id \notin PacketIds \cup {0}
    BY <1>0 DEF PacketIds, QInv, IdsInv
  <2>2. ASSUME NEW p \in Paths, NEW k \in Nat
        PROVE  ~ResendAt(p, k, id)' /\ ~SeqAt(p, k, id)' /\ ~SendAt(p, k, id)
    BY <1>5, <2>1, PlaceRanges
  <2>3. ASSUME NEW p \in Paths, NEW k \in Nat, SendAt(p, k, id)'
        PROVE  /\ k > Len(sending_queue[p]) /\ to[id - packet_id] = p
               /\ k - Len(sending_queue[p]) \in 1..Len(given[p])
               /\ given[p][k - Len(sending_queue[p])] = id
    BY <1>3, <1>4, <2>2, <2>3
  <2>4. ASSUME NEW p \in Paths, NEW q \in Paths, NEW j \in Nat, NEW k \in Nat,
               SendAt(p, j, id)', SendAt(q, k, id)'
        PROVE  p = q /\ j = k
    <3>1. p = q
      BY <2>3, <2>4
    <3> DEFINE a == Len(sending_queue[p])  g == given[p]
    <3>2. /\ j > a /\ j - a \in 1..Len(g) /\ g[j - a] = id
          /\ k > a /\ k - a \in 1..Len(g) /\ g[k - a] = id
      BY <2>3, <2>4, <3>1
    <3>3. /\ a \in Nat
          /\ id \in Nat
          /\ \A i, h \in 1..Len(g) : i < h => g[i] < g[h]
      <4>1. a \in Nat
        BY <1>3
      <4>2. id \in Nat
        BY <1>0
      <4>3. \A i, h \in 1..Len(g) : i < h => g[i] < g[h]
        BY <1>3, Zenon
      <4> QED
        BY <4>1, <4>2, <4>3
    <3> HIDE DEF a, g
    <3>4. ~(j - a < k - a) /\ ~(k - a < j - a)
      BY <3>2, <3>3
    <3> QED
      BY <3>1, <3>3, <3>4
  <2>5. OnePlace(id)'
    BY <2>2, <2>4 DEF OnePlace
  <2>6. SomePlace(id)'
    <3>1. id - packet_id \in 0..(n - 1)
      BY <1>0
    <3>2. PICK p \in Paths : to[id - packet_id] = p
      BY <3>1 DEF QInv, PathsInv
    <3>3. PICK i \in 1..Len(given[p]) : given[p][i] = id
      BY <1>3, <3>2
    <3>4. Len(sending_queue[p]) \in Nat /\ i \in Nat /\ i >= 1
      BY <1>3, <3>3
    <3>5. PICK k \in Nat : k > Len(sending_queue[p]) /\ k - Len(sending_queue[p]) = i
      <4> DEFINE a == Len(sending_queue[p])
      <4>1. a \in Nat
        BY <3>4
      <4> HIDE DEF a
      <4>2. a + i \in Nat /\ a + i > a /\ (a + i) - a = i
        BY <3>4, <4>1
      <4> QED
        BY <4>2 DEF a
    <3>6. SendAt(p, k, id)'
      BY <1>4, <3>3, <3>5
    <3> QED
      BY <3>6 DEF SomePlace
  <2> QED
    BY <2>5, <2>6
<1>8. PacketIds' = PacketIds \cup ids
  BY <1>0, <1>2 DEF PacketIds, QInv, IdsInv
<1> QED
  BY <1>6, <1>7, <1>8 DEF PlacesInv

\* OnAck settles what is acknowledged, and moves what is lost from seq_id_map_ to
\* one queue, or gives it up.
LEMMA AckPlaces ==
    ASSUME QInv, PlacesInv, NEW p \in Paths, NEW s \in 1..MaxSeq, OnAck(p, s)
    PROVE  PlacesInv'
<1>0. s \in Nat /\ recv_seq[p] \in Nat
  BY SenderV1Assumption DEF QInv, IInv
<1> DEFINE lostIds == {seq_id_map[p][i] : i \in LostSeqs(p, s)}
<1>1. PICK target \in RetransPaths(p), run \in Ascending(FreshLost(p, s)) :
          IF target \in usable_paths
          THEN /\ Requeue(target, Carried(p, run))
               /\ abandoned' = abandoned \cup (lostIds \ sent_buf)
               /\ UNCHANGED path_bug
          ELSE /\ abandoned' = abandoned \cup lostIds
               /\ path_bug' = (path_bug \/ FreshLost(p, s) # {})
               /\ UNCHANGED queueVars
  BY Zenon DEF OnAck, FreshLost, Carried
<1>2. /\ packet_id' = packet_id
      /\ seq_id_map' = [seq_id_map EXCEPT ![p] = RemoveSeqIdMapLe(p, s)]
      /\ acked' = acked \cup ({seq_id_map[p][i] : i \in DOMAIN seq_id_map[p] \cap {s}} \ {0})
  BY DEF OnAck
<1>3. sending_queue' = sending_queue
  BY <1>1 DEF Requeue, queueVars
<1>4. /\ \A q \in Paths : \A k \in Nat, x \in PacketIds : SendAt(q, k, x)' <=> SendAt(q, k, x)
      /\ \A q \in Paths : \A k \in Nat, x \in PacketIds :
            SeqAt(q, k, x)' <=> SeqAt(q, k, x) /\ (q = p => k > s)
  BY <1>2, <1>3 DEF SendAt, SeqAt, Outstanding, RemoveSeqIdMapLe, QInv, IInv
<1>5. \A i \in LostSeqs(p, s) : i \in Nat /\ i < s
  BY <1>0 DEF LostSeqs
<1>6. /\ \A k \in 1..Len(run) : run[k] \in FreshLost(p, s)
      /\ \A i \in FreshLost(p, s) : \E k \in 1..Len(run) : run[k] = i
      /\ \A i, j \in 1..Len(run) : i < j => run[i] < run[j]
      /\ Carried(p, run) \in Seq(Nat) /\ Len(Carried(p, run)) = Len(run)
      /\ \A k \in 1..Len(run) : Carried(p, run)[k] = seq_id_map[p][run[k]]
      /\ Len(run) \in Nat
  <2>1. /\ IsFiniteSet(FreshLost(p, s)) /\ run \in Seq(FreshLost(p, s))
        /\ Carried(p, run) \in Seq(sent_buf) /\ Len(Carried(p, run)) = Len(run)
        /\ \A k \in 1..Len(run) : Carried(p, run)[k] = seq_id_map[p][run[k]]
    BY <1>0, LossesAreCarried DEF QInv
  <2>2. sent_buf \subseteq Nat
    BY DEF QInv, IdsInv, PacketIds
  <2> DEFINE S == FreshLost(p, s)
  <2>3. IsFiniteSet(S) /\ run \in Ascending(S)
    BY <2>1
  <2> HIDE DEF S
  <2>4. /\ \A x \in S : \E i \in 1..Len(run) : run[i] = x
        /\ \A i, j \in 1..Len(run) : i < j => run[i] < run[j]
    BY <2>3, AscendingSeq
  <2>5. /\ \A i \in FreshLost(p, s) : \E k \in 1..Len(run) : run[k] = i
        /\ \A i, j \in 1..Len(run) : i < j => run[i] < run[j]
    BY <2>4 DEF S
  <2>6. /\ \A k \in 1..Len(run) : run[k] \in FreshLost(p, s)
        /\ Len(run) \in Nat
    BY <2>1, ElementOfSeq, LenProperties
  <2>7. Carried(p, run) \in Seq(Nat)
    BY <2>1, <2>2, SeqMonotonic
  <2> QED
    BY <2>1, <2>5, <2>6, <2>7
<1> SUFFICES ASSUME NEW id \in PacketIds
             PROVE  OnePlace(id)' /\ (SomePlace(id)' \/ Settled(id)')
  BY <1>2 DEF PlacesInv, PacketIds
<1>7. id # 0 /\ OnePlace(id) /\ (SomePlace(id) \/ Settled(id))
  BY DEF PacketIds, PlacesInv, QInv, IdsInv
<1>8. \A k \in Nat : SeqAt(p, k, id) /\ k < s => k \in LostSeqs(p, s)
  BY <1>0, <1>7 DEF SeqAt, LostSeqs, Outstanding, QInv, IInv, OutstandingAhead
<1>9. \A k \in LostSeqs(p, s) : seq_id_map[p][k] = id => SeqAt(p, k, id)
  BY DEF SeqAt, LostSeqs, Outstanding
<1>10. \A k \in Nat : SeqAt(p, k, id) /\ k = s => Settled(id)'
  BY <1>2, <1>7 DEF SeqAt, Outstanding, Settled
<1>11. abandoned \subseteq abandoned' /\ acked \subseteq acked'
  BY <1>1, <1>2
<1>12. CASE target \notin usable_paths
  <2>1. resending_queue' = resending_queue /\ abandoned' = abandoned \cup lostIds
    BY <1>1, <1>12 DEF queueVars
  <2>2. \A q \in Paths : \A k \in Nat : ResendAt(q, k, id)' <=> ResendAt(q, k, id)
    BY <2>1 DEF ResendAt
  <2>3. OnePlace(id)'
    BY <1>4, <1>7, <2>2 DEF OnePlace
  <2>4. ASSUME NEW k \in Nat, SeqAt(p, k, id), k < s
        PROVE  Settled(id)'
    BY <1>8, <2>1, <2>4 DEF SeqAt, Settled
  <2>5. SomePlace(id)' \/ Settled(id)'
    BY <1>0, <1>4, <1>7, <1>10, <1>11, <2>2, <2>4 DEF SomePlace, Settled
  <2> QED
    BY <2>3, <2>5
<1>13. CASE target \in usable_paths
  <2>1. /\ resending_queue' = [resending_queue EXCEPT ![target] = @ \o Carried(p, run)]
        /\ abandoned' = abandoned \cup (lostIds \ sent_buf)
    BY <1>1, <1>13 DEF Requeue
  <2>2. target \in Paths /\ resending_queue[target] \in Seq(Nat)
        /\ Len(resending_queue[target]) \in Nat
    <3>1. target \in Paths
      BY <1>13 DEF QInv, PathsInv
    <3>2. resending_queue[target] \in Seq(PacketIds) /\ PacketIds \subseteq Nat
      BY <3>1 DEF QInv, QueuesInv, PacketIds, IdsInv
    <3> QED
      BY <3>1, <3>2, SeqMonotonic, LenProperties
  <2>3. ASSUME NEW q \in Paths, NEW k \in Nat, q # target
        PROVE  ResendAt(q, k, id)' <=> ResendAt(q, k, id)
    <3>1. resending_queue'[q] = resending_queue[q]
      BY <2>1, <2>3 DEF QInv, QueuesInv
    <3> QED
      BY <3>1 DEF ResendAt
  <2>4. ASSUME NEW k \in Nat
        PROVE  ResendAt(target, k, id)' <=>
                  \/ ResendAt(target, k, id)
                  \/ /\ k > Len(resending_queue[target])
                     /\ k - Len(resending_queue[target]) \in 1..Len(run)
                     /\ SeqAt(p, run[k - Len(resending_queue[target])], id)
    <3> DEFINE w == resending_queue[target]  v == Carried(p, run)
    <3>1. w \in Seq(Nat) /\ v \in Seq(Nat) /\ Len(v) = Len(run)
      BY <1>6, <2>2
    <3>2. resending_queue'[target] = w \o v
      BY <2>1, <2>2 DEF QInv, QueuesInv
    <3>3. \A j \in 1..Len(run) : v[j] = id <=> SeqAt(p, run[j], id)
      <4>1. \A j \in 1..Len(run) : v[j] = seq_id_map[p][run[j]] /\ run[j] \in LostSeqs(p, s)
        BY <1>6 DEF FreshLost
      <4> QED
        BY <1>9, <4>1 DEF SeqAt
    <3> HIDE DEF w, v
    <3>4. k \in 1..Len(w \o v) /\ (w \o v)[k] = id
          <=> \/ k \in 1..Len(w) /\ w[k] = id
              \/ k > Len(w) /\ k - Len(w) \in 1..Len(v) /\ v[k - Len(w)] = id
      BY <3>1, ConcatPlaces
    <3>5. ResendAt(target, k, id)' <=> k \in 1..Len(w \o v) /\ (w \o v)[k] = id
      BY <3>2 DEF ResendAt
    <3>6. ResendAt(target, k, id) <=> k \in 1..Len(w) /\ w[k] = id
      BY DEF ResendAt, w
    <3>7. k - Len(w) \in 1..Len(run) =>
             (v[k - Len(w)] = id <=> SeqAt(p, run[k - Len(w)], id))
      BY <3>3
    <3> QED
      BY <3>1, <3>4, <3>5, <3>6, <3>7 DEF w
  <2>5. \A j \in 1..Len(run) : run[j] \in Nat /\ run[j] < s
    BY <1>5, <1>6 DEF FreshLost
  <2>6. OnePlace(id)'
    <3> SUFFICES ASSUME NEW a \in Paths, NEW b \in Paths, NEW i \in Nat, NEW j \in Nat
                 PROVE  /\ SendAt(a, i, id)' /\ SendAt(b, j, id)' => a = b /\ i = j
                        /\ ResendAt(a, i, id)' /\ ResendAt(b, j, id)' => a = b /\ i = j
                        /\ SeqAt(a, i, id)' /\ SeqAt(b, j, id)' => a = b /\ i = j
                        /\ ~(SendAt(a, i, id)' /\ ResendAt(b, j, id)')
                        /\ ~(SendAt(a, i, id)' /\ SeqAt(b, j, id)')
                        /\ ~(ResendAt(a, i, id)' /\ SeqAt(b, j, id)')
      BY DEF OnePlace
    <3> DEFINE l == Len(resending_queue[target])
    <3>0. l \in Nat
      BY <2>2
    <3>1. ASSUME NEW c \in Paths, NEW k \in Nat, ResendAt(c, k, id)'
          PROVE  \/ ResendAt(c, k, id)
                 \/ /\ c = target /\ k - l \in 1..Len(run)
                    /\ SeqAt(p, run[k - l], id)
                    /\ run[k - l] \in Nat /\ run[k - l] < s
      BY <2>3, <2>4, <2>5, <3>1
    <3> HIDE DEF l
    <3>2. ResendAt(a, i, id)' /\ ResendAt(b, j, id)' => a = b /\ i = j
      <4> SUFFICES ASSUME ResendAt(a, i, id)', ResendAt(b, j, id)' PROVE a = b /\ i = j
        OBVIOUS
      <4>1. CASE ResendAt(a, i, id) \/ ResendAt(b, j, id)
        BY <1>7, <3>1, <4>1 DEF OnePlace
      <4>2. CASE ~ResendAt(a, i, id) /\ ~ResendAt(b, j, id)
        <5>1. /\ a = target /\ b = target /\ i - l \in 1..Len(run) /\ j - l \in 1..Len(run)
              /\ SeqAt(p, run[i - l], id) /\ SeqAt(p, run[j - l], id)
              /\ run[i - l] \in Nat /\ run[j - l] \in Nat
          BY <3>1, <4>2
        <5>2. run[i - l] = run[j - l]
          BY <1>7, <5>1 DEF OnePlace
        <5>3. ~(i - l < j - l) /\ ~(j - l < i - l)
          BY <1>6, <5>1, <5>2
        <5> QED
          BY <3>0, <5>1, <5>3
      <4> QED
        BY <4>1, <4>2
    <3>3. ~(SendAt(a, i, id)' /\ ResendAt(b, j, id)')
      BY <1>4, <1>7, <3>1 DEF OnePlace
    <3>4. ~(ResendAt(a, i, id)' /\ SeqAt(b, j, id)')
      BY <1>0, <1>4, <1>7, <3>1 DEF OnePlace
    <3>5. SendAt(a, i, id)' /\ SendAt(b, j, id)' => a = b /\ i = j
      BY <1>4, <1>7 DEF OnePlace
    <3>6. SeqAt(a, i, id)' /\ SeqAt(b, j, id)' => a = b /\ i = j
      BY <1>4, <1>7 DEF OnePlace
    <3>7. ~(SendAt(a, i, id)' /\ SeqAt(b, j, id)')
      BY <1>4, <1>7 DEF OnePlace
    <3> QED
      BY <3>2, <3>3, <3>4, <3>5, <3>6, <3>7
  <2>7. ASSUME NEW k \in Nat, SeqAt(p, k, id), k < s
        PROVE  SomePlace(id)' \/ Settled(id)'
    <3>1. k \in LostSeqs(p, s) /\ seq_id_map[p][k] = id
      BY <1>8, <2>7 DEF SeqAt
    <3>2. CASE id \in sent_buf
      <4>1. PICK j \in 1..Len(run) : run[j] = k
        BY <1>6, <3>1, <3>2 DEF FreshLost
      <4>2. PICK i \in Nat : /\ i > Len(resending_queue[target])
                             /\ i - Len(resending_queue[target]) = j
        <5> DEFINE l == Len(resending_queue[target])
        <5>1. l \in Nat /\ j \in Nat /\ j >= 1
          BY <1>6, <2>2
        <5> HIDE DEF l
        <5>2. l + j \in Nat /\ l + j > l /\ (l + j) - l = j
          BY <5>1
        <5> QED
          BY <5>2 DEF l
      <4>3. ResendAt(target, i, id)'
        BY <2>4, <2>7, <4>1, <4>2
      <4> QED
        BY <2>2, <4>3 DEF SomePlace
    <3>3. CASE id \notin sent_buf
      BY <2>1, <3>1, <3>3 DEF Settled
    <3> QED
      BY <3>2, <3>3
  <2>8. SomePlace(id)' \/ Settled(id)'
    <3>1. CASE Settled(id)
      BY <1>11, <3>1 DEF Settled
    <3>2. ASSUME NEW q \in Paths, NEW k \in Nat,
                 SendAt(q, k, id) \/ ResendAt(q, k, id) \/ SeqAt(q, k, id)
          PROVE  SomePlace(id)' \/ Settled(id)'
      <4>1. CASE SendAt(q, k, id)
        BY <1>4, <4>1 DEF SomePlace
      <4>2. CASE ResendAt(q, k, id)
        BY <2>3, <2>4, <4>2 DEF SomePlace
      <4>3. CASE SeqAt(q, k, id) /\ (q = p => k > s)
        BY <1>4, <4>3 DEF SomePlace
      <4>4. CASE SeqAt(q, k, id) /\ q = p /\ ~(k > s)
        BY <1>0, <1>10, <2>7, <4>4
      <4> QED
        BY <3>2, <4>1, <4>2, <4>3, <4>4
    <3> QED
      BY <1>7, <3>1, <3>2 DEF SomePlace
  <2> QED
    BY <2>6, <2>8
<1> QED
  BY <1>12, <1>13

\* Every step keeps the places.
LEMMA NextPlaces == QInv /\ PlacesInv /\ [Next]_vars => PlacesInv'
<1> SUFFICES ASSUME QInv, PlacesInv, [Next]_vars PROVE PlacesInv'
  OBVIOUS
<1>1. ASSUME NEW p \in Paths, StartApplication(p) \/ StopApplication(p) PROVE PlacesInv'
  BY <1>1, SamePlaces DEF StartApplication, StopApplication, queueVars, seqVars, lossVars
<1>2. CheckStalePacket \/ Age \/ UNCHANGED vars => PlacesInv'
  BY SamePlaces DEF CheckStalePacket, Age, vars, queueVars, seqVars, lossVars
<1>3. ASSUME NEW p \in Paths, Resend(p) \/ Send(p) \/ SendPaddingPacket(p) PROVE PlacesInv'
  BY <1>3, ResendPlaces, SendPlaces, PaddingPlaces
<1>4. ASSUME NEW p \in Paths, NEW s \in 1..MaxSeq, OnAck(p, s) PROVE PlacesInv'
  BY <1>4, AckPlaces
<1>5. ASSUME NEW n \in 1..MaxSplit, NEW to \in [0..(n - 1) -> pids], OnVideoFrame(n, to)
      PROVE  PlacesInv'
  BY <1>5, FramePlaces
<1> QED
  BY <1>1, <1>2, <1>3, <1>4, <1>5 DEF Next

\* A copy is a place.
LEMMA CopyPlaces ==
    ASSUME QInv, NEW id, NEW c
    PROVE  c \in Copies(id) <=>
              \E p \in Paths : \E k \in Nat :
                 \/ c = <<p, "send", k>> /\ SendAt(p, k, id)
                 \/ c = <<p, "resend", k>> /\ ResendAt(p, k, id)
                 \/ c = <<p, "seq", k>> /\ SeqAt(p, k, id)
<1>1. ASSUME NEW p \in Paths
      PROVE  /\ DOMAIN sending_queue[p] = 1..Len(sending_queue[p])
             /\ DOMAIN resending_queue[p] = 1..Len(resending_queue[p])
             /\ Len(sending_queue[p]) \in Nat /\ Len(resending_queue[p]) \in Nat
             /\ Outstanding(p) \subseteq Nat
  <2>1. sending_queue[p] \in Seq(PacketIds) /\ resending_queue[p] \in Seq(PacketIds)
    BY DEF QInv, QueuesInv
  <2>2. Outstanding(p) = (recv_seq[p] + 1)..(seq[p] - 1) /\ recv_seq[p] \in Nat
    BY DEF QInv, IInv, OutstandingAhead
  <2> QED
    BY <2>1, <2>2, LenProperties
<1> DEFINE SendCopies(p) ==
             {<<p, "send", k>> : k \in {j \in DOMAIN sending_queue[p] : sending_queue[p][j] = id}}
           ResendCopies(p) ==
             {<<p, "resend", k>> :
                k \in {j \in DOMAIN resending_queue[p] : resending_queue[p][j] = id}}
           SeqCopies(p) ==
             {<<p, "seq", k>> : k \in {j \in Outstanding(p) : seq_id_map[p][j] = id}}
<1>2. ASSUME NEW p \in Paths
      PROVE  /\ c \in SendCopies(p) <=>
                   \E k \in Nat : c = <<p, "send", k>> /\ SendAt(p, k, id)
             /\ c \in ResendCopies(p) <=>
                   \E k \in Nat : c = <<p, "resend", k>> /\ ResendAt(p, k, id)
             /\ c \in SeqCopies(p) <=>
                   \E k \in Nat : c = <<p, "seq", k>> /\ SeqAt(p, k, id)
  <2>1. \A k \in DOMAIN sending_queue[p] : k \in Nat
    BY <1>1
  <2>2. \A k \in DOMAIN resending_queue[p] : k \in Nat
    BY <1>1
  <2>3. \A k \in Outstanding(p) : k \in Nat
    BY <1>1
  <2>4. c \in SendCopies(p) <=> \E k \in Nat : c = <<p, "send", k>> /\ SendAt(p, k, id)
    BY <1>1, <2>1, Zenon DEF SendAt
  <2>5. c \in ResendCopies(p) <=> \E k \in Nat : c = <<p, "resend", k>> /\ ResendAt(p, k, id)
    BY <1>1, <2>2, Zenon DEF ResendAt
  <2>6. c \in SeqCopies(p) <=> \E k \in Nat : c = <<p, "seq", k>> /\ SeqAt(p, k, id)
    BY <2>3, Zenon DEF SeqAt
  <2> QED
    BY <2>4, <2>5, <2>6
<1>3. Copies(id) = UNION {SendCopies(p) \cup ResendCopies(p) \cup SeqCopies(p) : p \in Paths}
  BY Zenon DEF Copies
<1> HIDE DEF SendCopies, ResendCopies, SeqCopies
<1>4. c \in Copies(id) <=>
         \E p \in Paths : c \in SendCopies(p) \/ c \in ResendCopies(p) \/ c \in SeqCopies(p)
  BY <1>3
<1> QED
  BY <1>2, <1>4, Zenon

\* With at most one place there is at most one copy.
LEMMA OneCopy ==
    ASSUME QInv, NEW id, OnePlace(id)
    PROVE  Cardinality(Copies(id)) <= 1
<1>1. ASSUME NEW c \in Copies(id), NEW d \in Copies(id)
      PROVE  c = d
  <2>1. PICK p \in Paths, j \in Nat :
            \/ c = <<p, "send", j>> /\ SendAt(p, j, id)
            \/ c = <<p, "resend", j>> /\ ResendAt(p, j, id)
            \/ c = <<p, "seq", j>> /\ SeqAt(p, j, id)
    BY CopyPlaces, Zenon
  <2>2. PICK q \in Paths, k \in Nat :
            \/ d = <<q, "send", k>> /\ SendAt(q, k, id)
            \/ d = <<q, "resend", k>> /\ ResendAt(q, k, id)
            \/ d = <<q, "seq", k>> /\ SeqAt(q, k, id)
    BY CopyPlaces, Zenon
  <2>3. /\ SendAt(p, j, id) /\ SendAt(q, k, id) => p = q /\ j = k
        /\ ResendAt(p, j, id) /\ ResendAt(q, k, id) => p = q /\ j = k
        /\ SeqAt(p, j, id) /\ SeqAt(q, k, id) => p = q /\ j = k
        /\ ~(SendAt(p, j, id) /\ ResendAt(q, k, id))
        /\ ~(SendAt(p, j, id) /\ SeqAt(q, k, id))
        /\ ~(ResendAt(p, j, id) /\ SeqAt(q, k, id))
        /\ ~(SendAt(q, k, id) /\ ResendAt(p, j, id))
        /\ ~(SendAt(q, k, id) /\ SeqAt(p, j, id))
        /\ ~(ResendAt(q, k, id) /\ SeqAt(p, j, id))
    BY Zenon DEF OnePlace
  <2>4. CASE c = <<p, "send", j>> /\ SendAt(p, j, id)
    BY <2>2, <2>3, <2>4, Zenon
  <2>5. CASE c = <<p, "resend", j>> /\ ResendAt(p, j, id)
    BY <2>2, <2>3, <2>5, Zenon
  <2>6. CASE c = <<p, "seq", j>> /\ SeqAt(p, j, id)
    BY <2>2, <2>3, <2>6, Zenon
  <2> QED
    BY <2>1, <2>4, <2>5, <2>6, Zenon
<1>2. CASE Copies(id) = {}
  BY <1>2, FS_EmptySet
<1>3. ASSUME NEW c \in Copies(id)
      PROVE  Cardinality(Copies(id)) = 1
  <2>1. Copies(id) = {c}
    BY <1>1, <1>3
  <2> QED
    BY <2>1, FS_Singleton
<1> QED
  BY <1>2, <1>3

\* DetectLoss, RemoveSeqIdMapLe and PacketRetrans, however the acks are reordered:
\* no packet is in two places, and none is lost track of.
THEOREM NothingEverForgotten == Spec => []NothingForgotten
<1>1. ASSUME QInv, PlacesInv PROVE NothingForgotten
  <2> SUFFICES ASSUME NEW id \in PacketIds
               PROVE  /\ Cardinality(Copies(id)) <= 1
                      /\ Copies(id) # {} \/ id \in acked \cup abandoned
    BY DEF NothingForgotten
  <2>1. OnePlace(id) /\ (SomePlace(id) \/ Settled(id))
    BY <1>1 DEF PlacesInv
  <2>2. Cardinality(Copies(id)) <= 1
    BY <1>1, <2>1, OneCopy
  <2>3. CASE SomePlace(id)
    <3>1. PICK p \in Paths, k \in Nat :
              SendAt(p, k, id) \/ ResendAt(p, k, id) \/ SeqAt(p, k, id)
      BY <2>3 DEF SomePlace
    <3>2. \E c : c \in Copies(id)
      BY <1>1, <3>1, CopyPlaces, Zenon
    <3> QED
      BY <2>2, <3>2
  <2>4. CASE Settled(id)
    BY <2>2, <2>4 DEF Settled
  <2> QED
    BY <2>1, <2>3, <2>4
<1>2. Init => QInv /\ PlacesInv
  BY InitQInv, InitPlaces
<1>3. QInv /\ PlacesInv /\ [Next]_vars => (QInv /\ PlacesInv)'
  BY NextQInv, NextPlaces
<1> QED
  BY <1>1, <1>2, <1>3, PTL DEF Spec
=============================================================================
