---------------------------- MODULE PathReceiver ----------------------------
(***************************************************************************)
(* One PathReceiver: the receiving end of one path of a multipath video    *)
(* session.  Segments reach it over UDP in any order, some never, some     *)
(* twice; it keeps the tables of PathTables, refuses what it has seen,     *)
(* acknowledges, and hands the rest to the MultipathReceiver, which later  *)
(* tells it which packets left the reorder buffer (Consume).               *)
(*                                                                         *)
(* The simulator runs one handler at a time, so each handler is one action.*)
(* Time is abstract: a segment ack is sent or held back at will where the  *)
(* code compares ack_ts_ with the clock.                                   *)
(***************************************************************************)
EXTENDS PathTables

CONSTANTS
    MaxSeq,  \* the sender numbers the packets of this path 1..MaxSeq
    Index,   \* Index[s] is the position of packet s within its video frame
    NackNum  \* NACK_NUM, the number of missing ids a segment ack can carry

ASSUME PathReceiverAssumption ==
    /\ MaxSeq \in Nat
    /\ Index \in [1..MaxSeq -> Nat]
    /\ NackNum \in Nat \ {0}

VARIABLES
    state_,        \* path_ini, then path_conned once a CONNECT has arrived
    first_packet_, \* controller_ is NULL exactly while it holds
    stop_,         \* set by Stop
    crashed,       \* the process dereferenced a null pointer and is gone
    table,         \* base_seq_, max_seq_, loss_, recv_table_
    ack,           \* the last segment ack sent to the peer
    taken,         \* history: the ids handed to the MultipathReceiver
    began,         \* history: where the first segment put the base
    consumed_to,   \* history: the highest id the MultipathReceiver consumed
    last           \* history: the last segment looked at, and what became of it

pathVars == <<state_, first_packet_, stop_, crashed, table, ack, taken, began, consumed_to, last>>

Packets == 1..MaxSeq
NoAck == [base_packet_id |-> 0, acked_packet_id |-> 0, nack |-> {}]
NoSegment == [seq |-> 0, accepted |-> FALSE]

PathInit ==
    /\ state_ = "path_ini"
    /\ first_packet_ = TRUE
    /\ stop_ = FALSE
    /\ crashed = FALSE
    /\ table = NoTables
    /\ ack = NoAck
    /\ taken = {}
    /\ began = 0
    /\ consumed_to = 0
    /\ last = NoSegment

\* ProcessingMsg drops everything once stop_ is set; the peer sends segments,
\* padding and pings only after the connect ack it got in path_conned.
Listening == ~crashed /\ ~stop_
Connected == Listening /\ state_ = "path_conned"
\* SIM_CONNECT, the first or a retry: the reply is SendConnectAck.
RecvConnect ==
    /\ Listening
    /\ state_' = "path_conned"
    /\ UNCHANGED <<first_packet_, stop_, crashed, table, ack, taken, began, consumed_to, last>>

\* OnReceiveSegment for a segment that is in the tables already or too old.
RecvRefused(seq) ==
    /\ Connected
    /\ Refused(table, seq)
    /\ first_packet_' = FALSE
    /\ last' = [seq |-> seq, accepted |-> FALSE]
    /\ UNCHANGED <<state_, stop_, crashed, table, ack, taken, began, consumed_to>>

\* OnReceiveSegment for any other segment, up to the call of DeliverToCache.
\* VideoRealAck sends an ack if the last one is PATH_ACK_REAL_TIME old.
RecvSegment(seq) ==
    /\ Connected
    /\ ~Refused(table, seq)
    /\ first_packet_' = FALSE
    /\ table' = Accept(table, seq, Index[seq])
    /\ ack' \in {ack, SegmentAck(table', seq, NackNum)}
    /\ taken' = taken \cup {seq}
    /\ began' = IF table.max = 0 THEN StartAt(table, seq, Index[seq]).base ELSE began
    /\ last' = [seq |-> seq, accepted |-> TRUE]
    /\ UNCHANGED <<state_, stop_, crashed, consumed_to>>

\* Consume, called by the MultipathReceiver for each packet of a frame that
\* left its buffer.  A path carries frames in order and frames leave in order,
\* so the ids of a path are consumed in increasing order.
ConsumePacket(seq) ==
    /\ ~crashed
    /\ seq \in taken
    /\ seq > consumed_to
    /\ table' = Consume(table, seq)
    /\ consumed_to' = seq
    /\ UNCHANGED <<state_, first_packet_, stop_, crashed, ack, taken, began, last>>

\* SIM_PAD hands the padding to controller_->r_cc_.  Before the first segment
\* has configured it, controller_ is NULL.
RecvPad ==
    /\ Connected
    /\ crashed' = first_packet_
    /\ UNCHANGED <<state_, first_packet_, stop_, table, ack, taken, began, consumed_to, last>>

\* Stop
StopPath ==
    /\ ~crashed
    /\ stop_' = TRUE
    /\ UNCHANGED <<state_, first_packet_, crashed, table, ack, taken, began, consumed_to, last>>

PathNext ==
    \/ RecvConnect
    \/ \E seq \in Packets : RecvRefused(seq) \/ RecvSegment(seq) \/ ConsumePacket(seq)
    \/ RecvPad
    \/ StopPath

PathSpec == PathInit /\ [][PathNext]_pathVars
-----------------------------------------------------------------------------
Tables == [base : 0..MaxSeq, max : 0..MaxSeq, loss : SUBSET Packets, recv : SUBSET Packets]

\* Every field stays in its range: the base computed from packet_id and index
\* never falls below zero, and no table holds an id the sender did not use.
PathTypeOK ==
    /\ state_ \in {"path_ini", "path_conned"}
    /\ first_packet_ \in BOOLEAN
    /\ stop_ \in BOOLEAN
    /\ crashed \in BOOLEAN
    /\ table \in Tables
    /\ ack \in [base_packet_id : 0..MaxSeq, acked_packet_id : 0..MaxSeq, nack : SUBSET Packets]
    /\ taken \in SUBSET Packets
    /\ began \in 0..MaxSeq
    /\ consumed_to \in 0..MaxSeq
    /\ last \in [seq : 0..MaxSeq, accepted : BOOLEAN]

Window == (table.base + 1)..table.max

\* Above the base, loss_ is exactly what is missing and recv_table_ exactly
\* what has arrived, whatever the order of arrivals and of Consume calls
\* (UpdataLoss, UpdataRecvTable, LossTableRemoveUntil, RecvTableRemoveUntil).
TablesExact ==
    /\ table.base <= table.max
    /\ table.loss = Window \ taken
    /\ table.recv = Window \cap taken
    /\ table.base + 1 \notin taken

\* The base never claims a packet that is neither here nor given up: below it
\* lie packets that arrived, packets older than the origin taken from the first
\* segment, and packets up to one whose frame left the buffer (base_packet_id
\* of VideoRealAck is an honest cumulative acknowledgement).
BaseIsHonest ==
    \A s \in 1..table.base : s \in taken \/ s <= began \/ s <= consumed_to

\* The cumulative point and the highest id never move back, so an ack never
\* takes back what an earlier one acknowledged.
NeverMovesBack == table'.base >= table.base /\ table'.max >= table.max
TablesAdvance == [][NeverMovesBack]_pathVars

\* A segment ack names the packet that caused it and asks only for packets that
\* have not arrived and are still waited for; with room left in the message it
\* asks for all of them (VideoRealAck).
AckIsTrue ==
    /\ ack'.acked_packet_id \in taken'
    /\ ack'.base_packet_id = table'.base
    /\ ack'.nack \subseteq Window' \ taken'
    /\ Cardinality(Window' \ taken') <= NackNum => ack'.nack = Window' \ taken'
AcksAreTrue == [][ack' # ack => AckIsTrue]_pathVars

\* What the two tests at the top of OnReceiveSegment let through: a segment is
\* turned away only if it arrived before, was given up by Consume or lies at or
\* below the origin, which is taken from the segment that came first, so that
\* earlier ones still on their way are turned away too (KeyFrameKept of
\* MultipathReceiver says what that costs).  One that arrived before gets
\* through only when it is the base itself.
FilterIsSound ==
    LET s == last'.seq IN
    /\ ~last'.accepted => s \in taken \/ s <= began \/ s <= consumed_to
    /\ last'.accepted /\ s \in taken => s = table.base
FilterSound == [][last' # last => FilterIsSound]_pathVars
=============================================================================
