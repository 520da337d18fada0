----------------------------- MODULE PathTables -----------------------------
(***************************************************************************)
(* The bookkeeping a PathReceiver keeps about the packets of its path: the *)
(* cumulative point base_seq_, the highest packet id max_seq_, the set     *)
(* loss_ of ids above the base that are missing and the set recv_table_ of *)
(* ids above the base that arrived out of order.  The four are one record, *)
(* and each operator below is one member function of the class, from the   *)
(* record before the call to the record after it.                          *)
(*                                                                         *)
(* The loops of the code walk ordered sets from their first element; what  *)
(* they compute is stated here without recursion, so that the operators    *)
(* can be proved about.                                                    *)
(***************************************************************************)
EXTENDS Integers, FiniteSets, FiniteSetsExt

\* The tables of a PathReceiver that has seen no packet.
NoTables == [base |-> 0, max |-> 0, loss |-> {}, recv |-> {}]

\* CheckRecvTableExist
CheckRecvTableExist(t, seq) == seq \in t.recv

\* Faulty variant: recv_table_ is not looked at.
RefusedBelowBase(t, seq) == seq < t.base

\* The segment is dropped: it is in recv_table_, or below the base.  The
\* comparison is strict, as in the code: the base itself is let through.
Refused(t, seq) == CheckRecvTableExist(t, seq) \/ seq < t.base

\* Faulty variant: a path whose first frame is split starts below 0.
StartAtUnguarded(t, seq, index) ==
    IF t.max = 0
    THEN [t EXCEPT !.max = seq - index - 1, !.base = seq - index - 1]
    ELSE t

\* The first segment of a path sets the origin to the packet before its
\* frame, taking it that the whole frame goes over this path; when packet_id
\* is not above index that cannot be, and the origin stays 0.
StartAt(t, seq, index) ==
    IF t.max = 0 /\ seq > index
    THEN [t EXCEPT !.max = seq - index - 1, !.base = seq - index - 1]
    ELSE t

\* Faulty variant: a late packet stays in loss_.
UpdataLossKeepsLate(t, seq) == [t EXCEPT !.loss = @ \cup ((t.max + 1)..(seq - 1))]

\* UpdataLoss: seq is not missing, whatever lies between max_seq_ and seq is.
UpdataLoss(t, seq) == [t EXCEPT !.loss = (@ \ {seq}) \cup ((t.max + 1)..(seq - 1))]

\* max_seq_=SU_MAX(max_seq_,seq)
RaiseMax(t, seq) == [t EXCEPT !.max = IF seq > @ THEN seq ELSE @]

\* Faulty variant: the base jumps to the end of the highest received run.
AdvanceBaseOverGaps(t) ==
    LET top == Max(t.recv \cup {t.base})
    IN  [t EXCEPT !.base = top, !.recv = {}]

\* The two closing loops of UpdataRecvTable and of RecvTableRemoveUntil: the
\* base moves over the run of received ids that follows it, and no id at or
\* below the base stays in recv_table_.
AdvanceBase(t) ==
    LET gap == Min({g \in (t.base + 1)..(t.max + 1) : g \notin t.recv})
    IN  [t EXCEPT !.base = gap - 1, !.recv = {r \in @ : r > gap - 1}]

UpdataRecvTable(t, seq) ==
    AdvanceBase(IF seq = t.base + 1 THEN [t EXCEPT !.base = seq]
                                    ELSE [t EXCEPT !.recv = @ \cup {seq}])

LossTableRemoveUntil(t, seq) == [t EXCEPT !.loss = {l \in @ : l > seq}]

\* Faulty variant: the base follows the consumed packet downwards too.
RecvTableSetBase(t, seq) == AdvanceBase([t EXCEPT !.base = seq, !.recv = {r \in @ : r > seq}])

RecvTableRemoveUntil(t, seq) ==
    AdvanceBase([t EXCEPT !.base = IF @ <= seq THEN seq ELSE @,
                          !.recv = {r \in @ : r > seq}])

\* Consume: the frame of packet_id left the receiver, so nothing up to it is
\* waited for any longer.
Consume(t, seq) == RecvTableRemoveUntil(LossTableRemoveUntil(t, seq), seq)

\* Faulty variant: max_seq_ rises before UpdataLoss looks at it, and no gap is
\* ever noticed.
AcceptMaxFirst(t, seq, index) ==
    LET started == StartAt(t, seq, index)
    IN  UpdataRecvTable(UpdataLoss(RaiseMax(started, seq), seq), seq)

\* The tables after a segment that is not refused.
Accept(t, seq, index) ==
    LET started == StartAt(t, seq, index)
    IN  UpdataRecvTable(RaiseMax(UpdataLoss(started, seq), seq), seq)

\* Faulty variant: the oldest losses are asked for, ids already consumed too.
NacksOldest(t, num) == {l \in t.loss : Cardinality({m \in t.loss : m < l}) < num}

\* VideoRealAck: the ids the segment ack asks for again, the num newest of
\* loss_, those below the base skipped.  The wire carries them as offsets from
\* the base, which the reader adds back.
Nacks(t, num) ==
    {l \in t.loss : l >= t.base /\ Cardinality({m \in t.loss : m > l}) < num}

\* What VideoRealAck sends after accepting seq.
SegmentAck(t, seq, num) ==
    [base_packet_id |-> t.base, acked_packet_id |-> seq, nack |-> Nacks(t, num)]
=============================================================================
