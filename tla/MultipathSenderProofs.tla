----------------------- MODULE MultipathSenderProofs -----------------------
(***************************************************************************)
(* Proofs about MultipathSender, for any paths and ways of pacing, any     *)
(* number of frames and any split of them.                                 *)
(***************************************************************************)
EXTENDS MultipathSender, TLAPS, SequenceTheorems, FiniteSetTheorems, WellFoundedInduction

\* The inductive invariant of connecting and stopping: only a stopped
\* MultipathSender has stopped paths, its scheduler knows exactly the usable
\* paths, and after Stop the source runs only if a path became usable since.
ConnInv ==
    /\ state \in [Paths -> PathState]
    /\ path_stop \in [Paths -> BOOLEAN]
    /\ rx_timer \subseteq Paths /\ connects \subseteq Paths /\ acks \subseteq Paths
    /\ syn_path \subseteq Paths /\ usable_path \subseteq Paths /\ pacing \subseteq Paths
    /\ stop \in BOOLEAN /\ running \in BOOLEAN /\ late \in BOOLEAN
    /\ pids = usable_path
    /\ running => pids # {}
    /\ \A p \in pids : state[p] = "path_conned"
    /\ \A p \in Paths : path_stop[p] => stop
    /\ running /\ stop => late
    /\ frame_seed \in 1..(MaxFrames + 1)
    /\ lost = 0

\* The variables with a value for each path.
DomainInv ==
    /\ trans_seq = [p \in Paths |-> trans_seq[p]]
    /\ DOMAIN trans_seq = Paths /\ DOMAIN log = Paths /\ DOMAIN sent = Paths
    /\ DOMAIN pacer = Paths /\ DOMAIN buf = Paths /\ DOMAIN len = Paths
    /\ DOMAIN pending_len = Paths /\ DOMAIN overflow = Paths /\ DOMAIN freed = Paths

\* The types of what path p keeps: packet ids are places in its log.
TypeInv(p) ==
    /\ trans_seq[p] \in TransSeqs
    /\ log[p] \in Seq([fid : 1..(frame_seed - 1), index : 0..(MaxSplit - 1)])
    /\ sent[p] \in Seq(1..Len(log[p]))
    /\ pacer[p] \in Seq(TransSeqs)
    /\ DOMAIN buf[p] \subseteq TransSeqs
    /\ buf[p] \in [DOMAIN buf[p] -> 1..Len(log[p])]
    /\ len[p] \in Nat /\ pending_len[p] \in Nat
    /\ overflow[p] \in Nat /\ freed[p] \in Nat

\* No packet is in two places, and the counters of path p are right about them.
PlaceInv(p) ==
    /\ \A q, r \in DOMAIN buf[p] : buf[p][q] = buf[p][r] => q = r
    /\ \A i, j \in 1..Len(sent[p]) : sent[p][i] = sent[p][j] => i = j
    /\ \A q \in DOMAIN buf[p] : \A i \in 1..Len(sent[p]) : buf[p][q] # sent[p][i]
    /\ Len(log[p]) = Cardinality(DOMAIN buf[p]) + Len(sent[p]) + freed[p] + overflow[p]
    /\ len[p] = Cardinality(DOMAIN buf[p]) + overflow[p]
    /\ ~path_stop[p] => pending_len[p] = len[p]

\* A path that was never given a segment, or has stopped, buffers none.
QuietInv(p) == stop \/ path_stop[p] \/ p \notin usable_path => buf[p] = <<>>

\* A path that paces itself has nothing in the webrtc pacer; another one has
\* there just what it has buffered, in the order of the packet ids, as long as
\* it runs and no slot was found taken.
PacerInOrder(p) ==
    /\ \A k \in 1..Len(pacer[p]) : pacer[p][k] \in DOMAIN buf[p]
    /\ \A q \in DOMAIN buf[p] : \E k \in 1..Len(pacer[p]) : pacer[p][k] = q
    /\ \A j, k \in 1..Len(pacer[p]) : j < k => buf[p][pacer[p][j]] < buf[p][pacer[p][k]]

QueueInv(p) ==
    IF PaceMode[p] = "no_webrtc" THEN pacer[p] = <<>>
    ELSE /\ p \notin pacing
         /\ ~path_stop[p] /\ overflow[p] = 0 => PacerInOrder(p)

\* The inductive invariant.
IInv ==
    /\ ConnInv /\ DomainInv
    /\ \A p \in Paths : TypeInv(p) /\ PlaceInv(p) /\ QuietInv(p) /\ QueueInv(p)

-----------------------------------------------------------------------------
\* Two numbers less than n apart differ modulo n.
LEMMA ModDistinct ==
    ASSUME NEW n \in Nat \ {0}, NEW a \in Nat, NEW b \in Nat, a < b, b < a + n
    PROVE  a % n \in 0..(n - 1) /\ b % n \in 0..(n - 1) /\ a % n # b % n
<1>1. PICK x \in 0..(n - 1), c \in Int : x = a % n /\ a = n * c + x
  <2>1. a % n \in 0..(n - 1) /\ a \div n \in Int /\ a = n * (a \div n) + (a % n)
    OBVIOUS
  <2> QED
    BY <2>1
<1>2. PICK y \in 0..(n - 1), d \in Int : y = b % n /\ b = n * d + y
  <2>1. b % n \in 0..(n - 1) /\ b \div n \in Int /\ b = n * (b \div n) + (b % n)
    OBVIOUS
  <2> QED
    BY <2>1
<1>3. ASSUME x = y PROVE FALSE
  <2>1. b - a = n * d - n * c /\ n * d - n * c = n * (d - c)
    BY <1>1, <1>2, <1>3
  <2>2. CASE d - c <= 0
    BY <2>1, <2>2
  <2>3. CASE d - c >= 1
    <3>1. n * (d - c) >= n
      BY <2>3
    <3> QED
      BY <2>1, <3>1
  <2> QED
    BY <2>2, <2>3
<1> QED
  BY <1>1, <1>2, <1>3

\* The transport seqs of one frame are different.
LEMMA SeqsDistinct ==
    ASSUME NEW p \in Paths, trans_seq[p] \in TransSeqs
    PROVE  /\ \A i \in 0..MaxSplit : TransSeq(p, i) \in TransSeqs
           /\ \A i, j \in 0..(MaxSplit - 1) : i # j => TransSeq(p, i) # TransSeq(p, j)
<1> USE MultipathSenderAssumption
<1>1. SeqSpace \in Nat \ {0} /\ trans_seq[p] \in Nat /\ MaxSplit \in Nat /\ MaxSplit < SeqSpace
  BY DEF TransSeqs
<1> DEFINE s == trans_seq[p]
<1> HIDE DEF s
<1>2. s \in Nat /\ \A i : TransSeq(p, i) = (s + i) % SeqSpace
  BY <1>1 DEF TransSeq, s
<1>3. ASSUME NEW i \in 0..MaxSplit PROVE TransSeq(p, i) \in TransSeqs
  <2>1. s + i \in Nat
    BY <1>1, <1>2
  <2>2. (s + i) % SeqSpace \in 0..(SeqSpace - 1)
    BY <1>1, <2>1
  <2> QED
    BY <1>2, <2>2 DEF TransSeqs
<1>4. ASSUME NEW i \in 0..(MaxSplit - 1), NEW j \in 0..(MaxSplit - 1), i < j
      PROVE  TransSeq(p, i) # TransSeq(p, j)
  <2>1. s + i \in Nat /\ s + j \in Nat /\ s + i < s + j /\ s + j < (s + i) + SeqSpace
    BY <1>1, <1>2, <1>4
  <2>2. (s + i) % SeqSpace # (s + j) % SeqSpace
    BY <1>1, <2>1, ModDistinct
  <2> QED
    BY <1>2, <2>2
<1>5. ASSUME NEW i \in 0..(MaxSplit - 1), NEW j \in 0..(MaxSplit - 1), i # j
      PROVE  TransSeq(p, i) # TransSeq(p, j)
  <2>1. CASE i < j
    BY <1>4, <2>1
  <2>2. CASE j < i
    BY <1>4, <2>2
  <2> QED
    BY <1>1, <1>5, <2>1, <2>2
<1> QED
  BY <1>3, <1>5

\* Init satisfies the invariant of connecting and stopping.
LEMMA InitConn == Init => ConnInv
<1> SUFFICES ASSUME Init PROVE ConnInv
  OBVIOUS
<1> USE MultipathSenderAssumption
<1>1. frame_seed \in 1..(MaxFrames + 1) /\ lost = 0
  BY DEF Init
<1> QED
  BY <1>1 DEF Init, ConnInv, PathState

\* Sending CONNECT takes no connected path back.
LEMMA ConnectConn ==
    ASSUME ConnInv, NEW ps \in SUBSET Paths, SendConnect(ps)
    PROVE  ConnInv'
<1>1. /\ state' \in [Paths -> PathState]
      /\ \A p \in Paths : state[p] = "path_conned" => state'[p] = "path_conned"
  BY DEF ConnInv, SendConnect, PathState
<1>2. rx_timer' \subseteq Paths /\ connects' \subseteq Paths
  BY DEF ConnInv, SendConnect
<1>3. UNCHANGED <<acks, syn_path, usable_path, pids, late, pacing, stop, path_stop, running,
                  frame_seed, lost>>
  BY DEF SendConnect, pathVars, stopVars
<1> QED
  BY <1>1, <1>2, <1>3 DEF ConnInv

\* An ack makes its path usable, the first time.
LEMMA AckConn ==
    ASSUME ConnInv, NEW p \in Paths, RecvConnectAck(p)
    PROVE  ConnInv'
<1>1. UNCHANGED <<rx_timer, connects, pacing, stop, path_stop, frame_seed, lost>>
  BY DEF RecvConnectAck, pathVars, stopVars
<1>2. /\ state' \in [Paths -> PathState]
      /\ state'[p] = "path_conned"
      /\ \A q \in Paths : q # p => state'[q] = state[q]
  BY DEF ConnInv, RecvConnectAck, PathState
<1>3. acks' \subseteq Paths
  BY DEF ConnInv, RecvConnectAck
<1>4. /\ syn_path' \subseteq Paths /\ usable_path' \subseteq Paths /\ pids' = usable_path'
      /\ running' \in BOOLEAN /\ late' \in BOOLEAN
      /\ running' => pids' # {}
      /\ running' /\ stop => late'
      /\ pids' \subseteq pids \cup {p}
  <2>1. CASE state[p] # "path_conned" /\ p \in syn_path
    <3>1. /\ syn_path' = syn_path \ {p} /\ pids' = pids \cup {p}
          /\ usable_path' = usable_path \cup {p}
          /\ running' = TRUE /\ late' = (late \/ stop)
      BY <2>1 DEF RecvConnectAck, NotifyPathUsable
    <3> QED
      BY <3>1, ZenonT(60) DEF ConnInv
  <2>2. CASE ~(state[p] # "path_conned" /\ p \in syn_path)
    <3>1. UNCHANGED <<syn_path, pids, usable_path, running, late>>
      BY <2>2 DEF RecvConnectAck
    <3> QED
      BY <3>1 DEF ConnInv
  <2> QED
    BY <2>1, <2>2
<1> QED
  BY <1>1, <1>2, <1>3, <1>4 DEF ConnInv

\* While the source runs before Stop, no segment is lost.
LEMMA FrameConn ==
    ASSUME ConnInv, NEW n \in 1..MaxSplit, NEW to \in [0..(n - 1) -> pids], SendVideo(n, to)
    PROVE  ConnInv'
<1> USE MultipathSenderAssumption
<1>1. UNCHANGED <<connVars, stopVars, running>>
  BY DEF SendVideo
<1>2. pacing' \subseteq Paths
  BY DEF SendVideo, ConnInv
<1>3. frame_seed' \in 1..(MaxFrames + 1)
  <2>1. frame_seed' = frame_seed + 1 /\ frame_seed <= MaxFrames /\ MaxFrames \in Nat
    BY DEF SendVideo
  <2> QED
    BY <2>1 DEF ConnInv
<1>4. lost' = 0
  <2> DEFINE Refused == {i \in 0..(n - 1) : ~Takes(to[i])}
  <2>1. Refused = {}
    BY DEF SendVideo, ConnInv, Takes
  <2>2. lost' = lost + Cardinality(Refused)
    BY DEF SendVideo
  <2> HIDE DEF Refused
  <2> QED
    BY <2>1, <2>2, FS_EmptySet DEF ConnInv
<1> QED
  BY <1>1, <1>2, <1>3, <1>4 DEF ConnInv, connVars, stopVars

\* Stop stops the source and the usable paths.
LEMMA StopConn == ConnInv /\ Stop => ConnInv'
<1> SUFFICES ASSUME ConnInv, Stop PROVE ConnInv'
  OBVIOUS
<1>1. UNCHANGED <<connVars, pacing, frame_seed, lost>> /\ stop' = TRUE /\ running' = FALSE
  BY DEF Stop
<1>2. path_stop' \in [Paths -> BOOLEAN]
  BY DEF Stop, ConnInv
<1> QED
  BY <1>1, <1>2 DEF ConnInv, connVars

\* No step loses a segment, stops a path before Stop, or starts the source
\* after it but for a path that becomes usable.
LEMMA NextConn == ConnInv /\ [Next]_vars => ConnInv'
<1> SUFFICES ASSUME ConnInv, [Next]_vars PROVE ConnInv'
  OBVIOUS
<1>1. CASE Connect
  BY <1>1, ConnectConn DEF Connect, ConnInv
<1>2. CASE Stop
  BY <1>2, StopConn
<1>3. ASSUME NEW n \in 1..MaxSplit, NEW to \in [0..(n - 1) -> pids], SendVideo(n, to)
      PROVE  ConnInv'
  BY <1>3, FrameConn
<1>4. ASSUME NEW p \in Paths, RetryConnect(p) PROVE ConnInv'
  BY <1>4, ConnectConn DEF RetryConnect
<1>5. ASSUME NEW p \in Paths, RecvConnectAck(p) PROVE ConnInv'
  BY <1>5, AckConn
<1>6. ASSUME NEW p \in Paths, RecvConnect(p) \/ Lose(p) \/ DropConnectAck(p) PROVE ConnInv'
  <2>1. /\ connects' \subseteq Paths /\ acks' \subseteq Paths
        /\ UNCHANGED <<state, rx_timer, syn_path, usable_path, pids, late, pathVars, stopVars,
                       running, frame_seed, lost>>
    BY <1>6 DEF RecvConnect, Lose, DropConnectAck, ConnInv
  <2> QED
    BY <2>1 DEF ConnInv, pathVars, stopVars
<1>7. ASSUME NEW p \in Paths, TimeToSendPacket(p) \/ PacingSendSegment(p) \/ SendPadding(p)
      PROVE  ConnInv'
  <2>1. pacing' \subseteq Paths /\ UNCHANGED <<connVars, stopVars, running, frame_seed, lost>>
    BY <1>7 DEF TimeToSendPacket, PacingSendSegment, SendPadding, ConnInv
  <2> QED
    BY <2>1 DEF ConnInv, connVars, stopVars
<1>8. CASE UNCHANGED vars
  BY <1>8 DEF vars, connVars, pathVars, stopVars, ConnInv
<1> QED
  BY <1>1, <1>2, <1>3, <1>4, <1>5, <1>6, <1>7, <1>8 DEF Next

-----------------------------------------------------------------------------
(***************************************************************************)
(* What one step does to one path.                                         *)
(***************************************************************************)
\* The segments of ids, those of a new frame, are put on path p; those at fresh
\* find their slot free.
PutOn(p, ids, fresh) ==
    /\ ids \in Seq(0..(MaxSplit - 1)) /\ Len(ids) <= MaxSplit
    /\ \A i, j \in 1..Len(ids) : i < j => ids[i] < ids[j]
    /\ ids # <<>> => Takes(p)
    /\ fresh = {i \in 1..Len(ids) : TransSeq(p, i - 1) \notin DOMAIN buf[p]}
    /\ trans_seq'[p] = TransSeq(p, Len(ids))
    /\ DOMAIN buf'[p] = DOMAIN buf[p] \cup {TransSeq(p, i - 1) : i \in fresh}
    /\ buf'[p] = [q \in DOMAIN buf'[p] |-> buf'[p][q]]
    /\ \A q \in DOMAIN buf[p] : buf'[p][q] = buf[p][q]
    /\ \A i \in fresh : buf'[p][TransSeq(p, i - 1)] = Len(log[p]) + i
    /\ log'[p] = log[p] \o [i \in 1..Len(ids) |-> [fid |-> frame_seed, index |-> ids[i]]]
    /\ pacer'[p] = IF PaceMode[p] = "no_webrtc" THEN pacer[p]
                   ELSE pacer[p] \o [i \in 1..Len(ids) |-> TransSeq(p, i - 1)]
    /\ overflow'[p] = overflow[p] + Len(ids) - Cardinality(fresh)
    /\ len'[p] = len[p] + Len(ids)
    /\ pending_len'[p] = pending_len[p] + Len(ids)
    /\ sent'[p] = sent[p]

\* What a schedule gives to a path is a sequence of that path's share.
LEMMA GivenSeq ==
    ASSUME NEW n \in 1..MaxSplit, NEW to, NEW given \in Given(n, to), NEW p \in Paths
    PROVE  /\ given[p] \in Seq(0..(MaxSplit - 1)) /\ Len(given[p]) <= MaxSplit
           /\ \A i, j \in 1..Len(given[p]) : i < j => given[p][i] < given[p][j]
           /\ \A i \in 1..Len(given[p]) : given[p][i] \in Share(p, n, to)
           /\ given[p] # <<>> => Takes(p)
<1> USE MultipathSenderAssumption
<1> DEFINE S == Share(p, n, to)
           ids == given[p]
<1>1. S \in SUBSET (0..(n - 1)) /\ 0..(n - 1) \subseteq 0..(MaxSplit - 1)
  BY DEF Share
<1>2. \A i \in S : Takes(p)
  BY DEF Share
<1>3. ids \in Ascending(S)
  BY DEF Given
<1>4. IsFiniteSet(S) /\ Cardinality(S) \in Nat /\ Cardinality(S) <= MaxSplit
  <2>1. IsFiniteSet(0..(n - 1)) /\ Cardinality(0..(n - 1)) <= MaxSplit
    BY FS_Interval
  <2> HIDE DEF S
  <2>2. IsFiniteSet(S) /\ Cardinality(S) <= Cardinality(0..(n - 1))
    BY <1>1, <2>1, FS_Subset
  <2>3. Cardinality(S) \in Nat /\ Cardinality(0..(n - 1)) \in Nat
    BY <2>1, <2>2, FS_CardinalityType
  <2> QED
    BY <2>1, <2>2, <2>3
<1> HIDE DEF S, ids
<1>5. ids \in [1..Cardinality(S) -> S] /\ \A i, j \in DOMAIN ids : i < j => ids[i] < ids[j]
  BY <1>3 DEF Ascending
<1>6. ids \in Seq(S) /\ Len(ids) = Cardinality(S) /\ DOMAIN ids = 1..Len(ids)
  BY <1>4, <1>5
<1>7. ids \in Seq(0..(MaxSplit - 1))
  BY <1>1, <1>6, SeqMonotonic
<1>8. \A i \in 1..Len(ids) : ids[i] \in S
  BY <1>5, <1>6
<1>9. ids # <<>> => Takes(p)
  <2> SUFFICES ASSUME ids # <<>> PROVE Takes(p)
    OBVIOUS
  <2>1. Len(ids) \in Nat \ {0}
    BY <1>6, EmptySeq
  <2>2. ids[1] \in S
    BY <1>8, <2>1
  <2> QED
    BY <1>2, <2>2
<1> QED
  BY <1>4, <1>5, <1>6, <1>7, <1>8, <1>9 DEF S, ids

\* A frame is put on every path.
LEMMA FramePutOn ==
    ASSUME IInv, NEW n \in 1..MaxSplit, NEW to, SendVideo(n, to)
    PROVE  \E given \in Given(n, to) : \A p \in Paths : \E fresh : PutOn(p, given[p], fresh)
<1>1. PICK given \in Given(n, to) :
          /\ trans_seq' = [p \in Paths |-> PutAll(p, given[p]).trans_seq]
          /\ buf' = [p \in Paths |-> PutAll(p, given[p]).buf]
          /\ pacer' = [p \in Paths |-> PutAll(p, given[p]).pacer]
          /\ len' = [p \in Paths |-> len[p] + Len(given[p])]
          /\ pending_len' = [p \in Paths |-> pending_len[p] + Len(given[p])]
          /\ log' = [p \in Paths |-> PutAll(p, given[p]).log]
          /\ overflow' = [p \in Paths |-> PutAll(p, given[p]).overflow]
  BY DEF SendVideo
<1> SUFFICES ASSUME NEW p \in Paths PROVE \E fresh : PutOn(p, given[p], fresh)
  OBVIOUS
<1> DEFINE ids == given[p]
           id == [i \in 1..Len(ids) |-> TransSeq(p, i - 1)]
           fresh == {i \in 1..Len(ids) : id[i] \notin DOMAIN buf[p]}
           slots == {id[i] : i \in fresh}
<1>2. /\ ids \in Seq(0..(MaxSplit - 1)) /\ Len(ids) <= MaxSplit
      /\ \A i, j \in 1..Len(ids) : i < j => ids[i] < ids[j]
      /\ ids # <<>> => Takes(p)
  BY GivenSeq
<1>3. Len(ids) \in Nat
  BY <1>2, LenProperties
<1> HIDE DEF ids
<1>4. /\ trans_seq'[p] = TransSeq(p, Len(ids))
      /\ log'[p] = log[p] \o [i \in 1..Len(ids) |-> [fid |-> frame_seed, index |-> ids[i]]]
      /\ overflow'[p] = overflow[p] + Len(ids) - Cardinality(fresh)
      /\ pacer'[p] = InsertPackets(p, id)
      /\ buf'[p] = [q \in DOMAIN buf[p] \cup slots |->
                      IF q \in DOMAIN buf[p] THEN buf[p][q]
                      ELSE packet_seed(p) + (CHOOSE i \in fresh : id[i] = q) - 1]
  BY <1>1 DEF PutAll, ids
<1>5. pacer'[p] = IF PaceMode[p] = "no_webrtc" THEN pacer[p] ELSE pacer[p] \o id
  BY <1>4 DEF InsertPackets
<1>6. len'[p] = len[p] + Len(ids) /\ pending_len'[p] = pending_len[p] + Len(ids)
  BY <1>1 DEF ids
<1>7. sent'[p] = sent[p]
  BY DEF SendVideo
<1>8. ASSUME NEW i \in fresh PROVE buf'[p][id[i]] = Len(log[p]) + i
  <2>1. i \in 1..Len(ids) /\ id[i] \notin DOMAIN buf[p] /\ id[i] \in slots
    OBVIOUS
  <2>2. ASSUME NEW j \in fresh, id[j] = id[i] PROVE j = i
    <3>1. j \in 1..Len(ids) /\ TransSeq(p, j - 1) = TransSeq(p, i - 1)
      BY <2>1, <2>2
    <3>2. i - 1 \in 0..(MaxSplit - 1) /\ j - 1 \in 0..(MaxSplit - 1)
      BY <1>2, <1>3, <2>1, <3>1, MultipathSenderAssumption
    <3>3. trans_seq[p] \in TransSeqs
      BY DEF IInv, TypeInv
    <3>4. i - 1 = j - 1
      BY <3>1, <3>2, <3>3, SeqsDistinct
    <3> QED
      BY <2>1, <3>1, <3>4
  <2>3. (CHOOSE j \in fresh : id[j] = id[i]) = i
    <3> HIDE DEF fresh, id
    <3> QED
      BY <2>2
  <2>4. buf'[p][id[i]] = packet_seed(p) + (CHOOSE j \in fresh : id[j] = id[i]) - 1
    <3> HIDE DEF fresh, id
    <3> QED
      BY <1>4, <2>1
  <2>5. Len(log[p]) \in Nat
    BY LenProperties DEF IInv, TypeInv
  <2> HIDE DEF fresh, id
  <2>6. buf'[p][id[i]] = packet_seed(p) + i - 1
    BY <2>3, <2>4
  <2> QED
    BY <1>3, <2>1, <2>5, <2>6 DEF packet_seed
<1>9. /\ DOMAIN buf'[p] = DOMAIN buf[p] \cup slots
      /\ buf'[p] = [q \in DOMAIN buf'[p] |-> buf'[p][q]]
      /\ \A q \in DOMAIN buf[p] : buf'[p][q] = buf[p][q]
  <2> HIDE DEF slots, fresh, id
  <2> QED
    BY <1>4
<1>10. \A i \in fresh : id[i] = TransSeq(p, i - 1)
  OBVIOUS
<1>11. /\ fresh = {i \in 1..Len(ids) : TransSeq(p, i - 1) \notin DOMAIN buf[p]}
       /\ slots = {TransSeq(p, i - 1) : i \in fresh}
  OBVIOUS
<1>12. PutOn(p, ids, fresh)
  <2>1. \A i \in fresh : buf'[p][TransSeq(p, i - 1)] = Len(log[p]) + i
    <3> HIDE DEF fresh, id
    <3> QED
      BY <1>8, <1>10
  <2>2. id = [i \in 1..Len(ids) |-> TransSeq(p, i - 1)]
    OBVIOUS
  <2> HIDE DEF fresh, id, slots
  <2> QED
    BY <1>2, <1>4, <1>5, <1>6, <1>7, <1>9, <1>11, <2>1, <2>2 DEF PutOn
<1> HIDE DEF fresh
<1> QED
  BY <1>12 DEF ids

\* The rest of path p is as it was.
Kept(p) ==
    /\ UNCHANGED <<frame_seed, usable_path>>
    /\ trans_seq'[p] \in TransSeqs
    /\ log'[p] = log[p] /\ overflow'[p] = overflow[p]
    /\ p \in pacing' => p \in pacing

\* A frame is put on path p.
FrameOn(p) ==
    /\ \E ids, fresh : PutOn(p, ids, fresh)
    /\ ~stop
    /\ frame_seed' = frame_seed + 1
    /\ UNCHANGED <<stop, path_stop, usable_path, freed>>
    /\ p \in pacing' => p \in pacing \/ PaceMode[p] = "no_webrtc"

\* Path p sends the segment at id.
SendOn(p, id) ==
    /\ Kept(p) /\ UNCHANGED <<stop, path_stop, freed>>
    /\ id \in DOMAIN buf[p]
    /\ buf'[p] = [q \in DOMAIN buf[p] \ {id} |-> buf[p][q]]
    /\ sent'[p] = Append(sent[p], buf[p][id])
    /\ len'[p] = len[p] - 1 /\ pending_len'[p] = pending_len[p] - 1
    /\ \/ /\ PaceMode[p] # "no_webrtc" /\ ~path_stop[p]
          /\ pacer[p] # <<>> /\ id = Head(pacer[p]) /\ pacer'[p] = Tail(pacer[p])
       \/ /\ PaceMode[p] = "no_webrtc" /\ pacer'[p] = pacer[p]
          /\ \A q \in DOMAIN buf[p] : id <= q

\* The pacer of path p asks for a segment that is not there.
SkipOn(p) ==
    /\ Kept(p) /\ UNCHANGED <<stop, path_stop, freed>>
    /\ PaceMode[p] # "no_webrtc" /\ ~path_stop[p]
    /\ pacer[p] # <<>> /\ Head(pacer[p]) \notin DOMAIN buf[p] /\ pacer'[p] = Tail(pacer[p])
    /\ buf'[p] = buf[p] /\ sent'[p] = sent[p]
    /\ len'[p] = len[p] /\ pending_len'[p] = pending_len[p]

\* Stop frees what path p has buffered.
FreeOn(p) ==
    /\ Kept(p)
    /\ path_stop'[p] = TRUE /\ buf'[p] = <<>>
    /\ len'[p] = len[p] - Cardinality(DOMAIN buf[p])
    /\ freed'[p] = freed[p] + Cardinality(DOMAIN buf[p])
    /\ sent'[p] = sent[p] /\ pacer'[p] = pacer[p] /\ pending_len'[p] = pending_len[p]

\* The segments of path p stay where they are.
IdleOn(p) ==
    /\ trans_seq'[p] \in TransSeqs
    /\ p \in pacing' => p \in pacing
    /\ usable_path \subseteq usable_path' /\ frame_seed' = frame_seed
    /\ path_stop'[p] = path_stop[p]
    /\ stop' => stop \/ p \notin usable_path \/ path_stop[p]
    /\ log'[p] = log[p] /\ overflow'[p] = overflow[p] /\ freed'[p] = freed[p]
    /\ buf'[p] = buf[p] /\ sent'[p] = sent[p] /\ pacer'[p] = pacer[p]
    /\ len'[p] = len[p] /\ pending_len'[p] = pending_len[p]

\* A set of naturals that is not empty has a least element.
LessThan == {pair \in Nat \X Nat : pair[1] < pair[2]}

LEMMA LeastKey ==
    ASSUME NEW S \in SUBSET Nat, S # {}
    PROVE  Min(S) \in S /\ \A x \in S : Min(S) <= x
<1>1. IsWellFoundedOn(LessThan, Nat)
  BY NatLessThanWellFounded DEF OpToRel, LessThan
<1>2. PICK x \in S : \A y \in S : <<y, x>> \notin LessThan
  BY <1>1, WFMin
<1>3. ASSUME NEW y \in S PROVE x <= y
  <2>1. <<y, x>> \notin LessThan
    BY <1>2
  <2> QED
    BY <2>1 DEF LessThan
<1> QED
  BY <1>3 DEF Min

\* A function on 1..n is a sequence.
LEMMA FunctionSeq ==
    ASSUME NEW S, NEW n \in Nat, NEW s \in [1..n -> S]
    PROVE  s \in Seq(S) /\ Len(s) = n
  OBVIOUS

\* The function that is defined nowhere is the empty sequence.
LEMMA EmptyFunction ==
    ASSUME NEW f, f = [q \in DOMAIN f |-> f[q]]
    PROVE  f = <<>> <=> DOMAIN f = {}
<1>1. <<>> \in [1..0 -> {}]
  <2>1. <<>> \in Seq({}) /\ Len(<<>>) = 0
    BY EmptySeq
  <2> QED
    BY <2>1, LenProperties
<1>2. DOMAIN <<>> = {}
  BY <1>1
<1>3. ASSUME DOMAIN f = {} PROVE f = <<>>
  <2>1. f \in [1..0 -> {}]
    BY <1>3
  <2> QED
    BY <1>1, <2>1
<1> QED
  BY <1>2, <1>3

\* What the provers need to know of path p: it keeps functions.
LEMMA PathFacts ==
    ASSUME DomainInv, NEW p \in Paths, TypeInv(p)
    PROVE  /\ Len(log[p]) \in Nat /\ Len(sent[p]) \in Nat /\ Len(pacer[p]) \in Nat
           /\ DOMAIN log[p] = 1..Len(log[p]) /\ DOMAIN sent[p] = 1..Len(sent[p])
           /\ DOMAIN pacer[p] = 1..Len(pacer[p])
           /\ \A q \in DOMAIN buf[p] : q \in Nat /\ buf[p][q] \in 1..Len(log[p])
           /\ IsFiniteSet(DOMAIN buf[p]) /\ Cardinality(DOMAIN buf[p]) \in Nat
           /\ buf[p] = <<>> <=> DOMAIN buf[p] = {}
<1>1. SeqSpace \in Nat
  BY MultipathSenderAssumption
<1>2. /\ Len(log[p]) \in Nat /\ Len(sent[p]) \in Nat /\ Len(pacer[p]) \in Nat
      /\ DOMAIN log[p] = 1..Len(log[p]) /\ DOMAIN sent[p] = 1..Len(sent[p])
      /\ DOMAIN pacer[p] = 1..Len(pacer[p])
  BY LenProperties DEF TypeInv
<1>3. \A q \in DOMAIN buf[p] : q \in Nat /\ buf[p][q] \in 1..Len(log[p])
  BY <1>1 DEF TypeInv, TransSeqs
<1>4. IsFiniteSet(DOMAIN buf[p]) /\ Cardinality(DOMAIN buf[p]) \in Nat
  <2> DEFINE D == DOMAIN buf[p]
  <2>1. IsFiniteSet(0..(SeqSpace - 1))
    BY <1>1, FS_Interval
  <2>2. D \in SUBSET (0..(SeqSpace - 1))
    BY DEF TypeInv, TransSeqs
  <2> HIDE DEF D
  <2>3. IsFiniteSet(D)
    BY <2>1, <2>2, FS_Subset
  <2>4. Cardinality(D) \in Nat
    BY <2>3, FS_CardinalityType
  <2> QED
    BY <2>3, <2>4 DEF D
<1>5. buf[p] = <<>> <=> DOMAIN buf[p] = {}
  <2>1. buf[p] = [q \in DOMAIN buf[p] |-> buf[p][q]]
    BY DEF TypeInv
  <2> QED
    BY <2>1, EmptyFunction
<1> QED
  BY <1>2, <1>3, <1>4, <1>5

\* Each step is one of these for each path.
LEMMA NextOn ==
    ASSUME IInv, [Next]_vars, NEW p \in Paths
    PROVE  \/ FrameOn(p) \/ (\E id : SendOn(p, id)) \/ SkipOn(p) \/ FreeOn(p) \/ IdleOn(p)
<1> DEFINE Goal == FrameOn(p) \/ (\E id : SendOn(p, id)) \/ SkipOn(p) \/ FreeOn(p) \/ IdleOn(p)
<1>a. TypeInv(p) /\ QueueInv(p) /\ QuietInv(p) /\ ConnInv /\ DomainInv
  BY DEF IInv
<1>b. trans_seq[p] \in TransSeqs
  BY <1>a DEF TypeInv
<1>1. ASSUME UNCHANGED <<pathVars, stopVars, frame_seed>>, usable_path \subseteq usable_path'
      PROVE  IdleOn(p)
  BY <1>b, <1>1 DEF IdleOn, pathVars, stopVars
<1>2. CASE Connect
  <2>1. UNCHANGED <<pathVars, stopVars, frame_seed, usable_path>>
    BY <1>2 DEF Connect, SendConnect
  <2> QED
    BY <1>1, <2>1
<1>3. CASE Stop
  <2>1. /\ UNCHANGED <<trans_seq, pacer, pacing, pending_len, log, sent, overflow, connVars,
                       frame_seed, lost>>
        /\ stop' = TRUE
    BY <1>3 DEF Stop
  <2>2. CASE p \in usable_path /\ ~path_stop[p]
    <3>1. /\ path_stop'[p] = TRUE /\ buf'[p] = <<>>
          /\ len'[p] = len[p] - Cardinality(DOMAIN buf[p])
          /\ freed'[p] = freed[p] + Cardinality(DOMAIN buf[p])
      BY <1>3, <2>2 DEF Stop
    <3> QED
      BY <1>b, <2>1, <3>1 DEF FreeOn, Kept, connVars
  <2>3. CASE ~(p \in usable_path /\ ~path_stop[p])
    <3>1. path_stop[p] \in BOOLEAN
      BY <1>a DEF ConnInv
    <3>2. path_stop'[p] = path_stop[p] /\ buf'[p] = buf[p]
      BY <1>3, <2>3, <3>1, Zenon DEF Stop
    <3>3. len'[p] = len[p] /\ freed'[p] = freed[p]
      <4>1. len'[p] = len[p] - 0 /\ freed'[p] = freed[p] + 0
        BY <1>3, <2>3 DEF Stop
      <4> QED
        BY <1>a, <4>1 DEF TypeInv
    <3> QED
      BY <1>b, <2>1, <2>3, <3>2, <3>3 DEF IdleOn, connVars
  <2> QED
    BY <2>2, <2>3
<1>4. ASSUME NEW n \in 1..MaxSplit, NEW to \in [0..(n - 1) -> pids], SendVideo(n, to)
      PROVE  FrameOn(p)
  <2>1. \E ids, fresh : PutOn(p, ids, fresh)
    BY <1>4, FramePutOn
  <2>2. ~stop /\ frame_seed' = frame_seed + 1 /\ UNCHANGED <<stop, path_stop, usable_path, freed>>
    BY <1>4 DEF SendVideo, stopVars, connVars
  <2>3. p \in pacing' => p \in pacing \/ PaceMode[p] = "no_webrtc"
    BY <1>4 DEF SendVideo
  <2> QED
    BY <2>1, <2>2, <2>3 DEF FrameOn
<1>5. ASSUME NEW r \in Paths,
             RetryConnect(r) \/ RecvConnect(r) \/ Lose(r) \/ RecvConnectAck(r) \/ DropConnectAck(r)
      PROVE  IdleOn(p)
  <2>1. UNCHANGED <<pathVars, stopVars, frame_seed>> /\ usable_path \subseteq usable_path'
    BY <1>5 DEF RetryConnect, SendConnect, RecvConnect, Lose, RecvConnectAck, DropConnectAck,
                NotifyPathUsable
  <2> QED
    BY <1>1, <2>1
<1>6. ASSUME NEW r \in Paths, TimeToSendPacket(r) PROVE Goal
  <2>1. UNCHANGED <<trans_seq, pacing, log, overflow, connVars, stopVars, running, frame_seed, lost>>
    BY <1>6 DEF TimeToSendPacket
  <2>2. Kept(p) /\ UNCHANGED <<stop, path_stop, freed>>
    BY <1>b, <2>1 DEF Kept, connVars, stopVars
  <2>3. CASE r = p
    <3>1. ~path_stop[p] /\ pacer[p] # <<>> /\ pacer'[p] = Tail(pacer[p])
      BY <1>6, <1>a, <2>3 DEF TimeToSendPacket, DomainInv
    <3>2. PaceMode[p] # "no_webrtc"
      BY <1>a, <3>1 DEF QueueInv
    <3>3. CASE Head(pacer[p]) \in DOMAIN buf[p]
      <4> DEFINE id == Head(pacer[p])
      <4>1. Transmit(p, id)
        BY <1>6, <2>3, <3>3 DEF TimeToSendPacket
      <4> HIDE DEF id
      <4>2. /\ buf'[p] = [q \in DOMAIN buf[p] \ {id} |-> buf[p][q]]
            /\ sent'[p] = Append(sent[p], buf[p][id])
            /\ len'[p] = len[p] - 1 /\ pending_len'[p] = pending_len[p] - 1
        BY <1>a, <4>1 DEF Transmit, DomainInv
      <4>3. SendOn(p, id)
        BY <2>2, <3>1, <3>2, <3>3, <4>2 DEF SendOn, id
      <4> QED
        BY <4>3
    <3>4. CASE Head(pacer[p]) \notin DOMAIN buf[p]
      <4>1. UNCHANGED <<buf, sent, len, pending_len>>
        BY <1>6, <2>3, <3>4 DEF TimeToSendPacket
      <4> QED
        BY <2>2, <3>1, <3>2, <3>4, <4>1 DEF SkipOn
    <3> QED
      BY <3>3, <3>4
  <2>4. CASE r # p
    <3>1. pacer'[p] = pacer[p]
      BY <1>6, <1>a, <2>4 DEF TimeToSendPacket, DomainInv
    <3>2. /\ buf'[p] = buf[p] /\ sent'[p] = sent[p]
          /\ len'[p] = len[p] /\ pending_len'[p] = pending_len[p]
      <4>1. CASE Head(pacer[r]) \in DOMAIN buf[r]
        BY <1>6, <1>a, <2>4, <4>1 DEF TimeToSendPacket, Transmit, DomainInv
      <4>2. CASE Head(pacer[r]) \notin DOMAIN buf[r]
        BY <1>6, <4>2 DEF TimeToSendPacket
      <4> QED
        BY <4>1, <4>2
    <3> QED
      BY <1>b, <2>1, <3>1, <3>2 DEF IdleOn, connVars, stopVars
  <2> QED
    BY <2>3, <2>4
<1>7. ASSUME NEW r \in Paths, PacingSendSegment(r) PROVE Goal
  <2>1. UNCHANGED <<trans_seq, pacer, log, overflow, connVars, stopVars, running, frame_seed, lost>>
    BY <1>7 DEF PacingSendSegment
  <2>2. pacing' \subseteq pacing
    BY <1>7 DEF PacingSendSegment
  <2>3. Kept(p) /\ UNCHANGED <<stop, path_stop, freed>>
    BY <1>b, <2>1, <2>2 DEF Kept, connVars, stopVars
  <2>4. CASE r = p /\ buf[p] # <<>>
    <3>1. Transmit(p, FirstKey(p)) /\ p \in pacing
      BY <1>7, <2>4 DEF PacingSendSegment
    <3>2. PaceMode[p] = "no_webrtc"
      BY <1>a, <3>1 DEF QueueInv
    <3> DEFINE D == DOMAIN buf[p]
    <3>3. D \in SUBSET Nat /\ D # {}
      BY <1>a, <2>4, PathFacts
    <3>4. Min(D) \in D /\ \A q \in D : Min(D) <= q
      <4> HIDE DEF D
      <4> QED
        BY <3>3, LeastKey
    <3> DEFINE id == FirstKey(p)
    <3>5. id \in DOMAIN buf[p] /\ \A q \in DOMAIN buf[p] : id <= q
      BY <3>4 DEF FirstKey
    <3> HIDE DEF id
    <3>6. /\ buf'[p] = [q \in DOMAIN buf[p] \ {id} |-> buf[p][q]]
          /\ sent'[p] = Append(sent[p], buf[p][id])
          /\ len'[p] = len[p] - 1 /\ pending_len'[p] = pending_len[p] - 1
      BY <1>a, <3>1 DEF Transmit, DomainInv, id
    <3>7. SendOn(p, id)
      BY <2>1, <2>3, <3>2, <3>5, <3>6 DEF SendOn
    <3> QED
      BY <3>7
  <2>5. CASE ~(r = p /\ buf[p] # <<>>)
    <3>1. /\ buf'[p] = buf[p] /\ sent'[p] = sent[p]
          /\ len'[p] = len[p] /\ pending_len'[p] = pending_len[p]
      <4>1. CASE buf[r] = <<>>
        BY <1>7, <4>1 DEF PacingSendSegment
      <4>2. CASE buf[r] # <<>>
        <5>1. r # p
          BY <2>5, <4>2
        <5> QED
          BY <1>7, <1>a, <4>2, <5>1 DEF PacingSendSegment, Transmit, DomainInv
      <4> QED
        BY <4>1, <4>2
    <3> QED
      BY <1>b, <2>1, <2>2, <3>1 DEF IdleOn, connVars, stopVars
  <2> QED
    BY <2>4, <2>5
<1>8. ASSUME NEW r \in Paths, SendPadding(r) PROVE IdleOn(p)
  <2>1. UNCHANGED <<buf, pacer, pacing, len, pending_len, log, sent, overflow, connVars, stopVars,
                    frame_seed>>
    BY <1>8 DEF SendPadding
  <2>2. trans_seq' = [trans_seq EXCEPT ![r] = TransSeq(r, 1)]
    BY <1>8 DEF SendPadding
  <2>3. TransSeq(r, 1) \in TransSeqs
    <3>1. trans_seq[r] \in TransSeqs
      BY DEF IInv, TypeInv
    <3> QED
      BY <3>1, SeqsDistinct, MultipathSenderAssumption
  <2>4. trans_seq'[p] \in TransSeqs
    BY <1>a, <1>b, <2>2, <2>3 DEF DomainInv
  <2> QED
    BY <2>1, <2>4 DEF IdleOn, connVars, stopVars
<1>9. CASE UNCHANGED vars
  <2>1. UNCHANGED <<pathVars, stopVars, frame_seed, usable_path>>
    BY <1>9 DEF vars, connVars
  <2> QED
    BY <1>1, <2>1
<1> QED
  BY <1>2, <1>3, <1>4, <1>5, <1>6, <1>7, <1>8, <1>9 DEF Next

\* What a frame adds to path p: k places in the log, of which the fresh ones
\* are buffered.
FrameEffect(p, ids, fresh) ==
    /\ Len(ids) \in Nat
    /\ log'[p] \in Seq([fid : 1..frame_seed, index : 0..(MaxSplit - 1)])
    /\ Len(log'[p]) = Len(log[p]) + Len(ids)
    /\ \A i \in 1..Len(log[p]) : log'[p][i] = log[p][i]
    /\ \A i \in 1..Len(ids) : log'[p][Len(log[p]) + i] = [fid |-> frame_seed, index |-> ids[i]]
    /\ fresh \subseteq 1..Len(ids) /\ IsFiniteSet(fresh)
    /\ Cardinality(fresh) \in 0..Len(ids)
    /\ Cardinality(DOMAIN buf'[p]) = Cardinality(DOMAIN buf[p]) + Cardinality(fresh)
    /\ \A q \in DOMAIN buf'[p] :
          \/ q \in DOMAIN buf[p] /\ buf'[p][q] = buf[p][q] /\ buf'[p][q] <= Len(log[p])
          \/ \E i \in fresh : q = TransSeq(p, i - 1) /\ buf'[p][q] = Len(log[p]) + i

\* PutOn has these effects.
LEMMA FrameFacts ==
    ASSUME NEW p \in Paths, ConnInv, DomainInv, TypeInv(p), NEW ids, NEW fresh,
           PutOn(p, ids, fresh)
    PROVE  FrameEffect(p, ids, fresh)
<1> DEFINE S == [fid : 1..frame_seed, index : 0..(MaxSplit - 1)]
           L == Len(log[p])
           k == Len(ids)
           new == [i \in 1..k |-> [fid |-> frame_seed, index |-> ids[i]]]
<1>1. L \in Nat /\ IsFiniteSet(DOMAIN buf[p])
      /\ \A q \in DOMAIN buf[p] : buf[p][q] \in 1..L
  BY PathFacts
<1>2. k \in Nat /\ ids \in [1..k -> 0..(MaxSplit - 1)] /\ k <= MaxSplit
  BY LenProperties DEF PutOn
<1>3. frame_seed \in Nat \ {0} /\ MaxFrames \in Nat /\ MaxSplit \in Nat
  BY MultipathSenderAssumption DEF ConnInv
<1>4. log[p] \in Seq(S)
  <2>1. log[p] \in Seq([fid : 1..(frame_seed - 1), index : 0..(MaxSplit - 1)])
    BY DEF TypeInv
  <2>2. [fid : 1..(frame_seed - 1), index : 0..(MaxSplit - 1)] \subseteq S
    BY <1>3
  <2> HIDE DEF S
  <2> QED
    BY <2>1, <2>2, SeqMonotonic
<1>5. new \in Seq(S) /\ Len(new) = k /\ \A i \in 1..k : new[i] = [fid |-> frame_seed, index |-> ids[i]]
  <2> HIDE DEF k
  <2>1. new \in [1..k -> S]
    BY <1>2, <1>3
  <2> HIDE DEF S
  <2> QED
    BY <1>2, <2>1
<1>6. log'[p] = log[p] \o new
  BY DEF PutOn
<1>7. /\ log'[p] \in Seq(S) /\ Len(log'[p]) = L + k
      /\ \A i \in 1..L : log'[p][i] = log[p][i]
      /\ \A i \in 1..k : log'[p][L + i] = [fid |-> frame_seed, index |-> ids[i]]
  <2> HIDE DEF S, L, k, new
  <2>0. L = Len(log[p])
    BY DEF L
  <2> DEFINE old == log[p]
  <2>a. old \in Seq(S) /\ new \in Seq(S) /\ Len(old) = L /\ Len(new) = k
    BY <1>4, <1>5, <2>0
  <2>b. /\ old \o new \in Seq(S) /\ Len(old \o new) = L + k
        /\ \A i \in 1..(L + k) : (old \o new)[i] = IF i <= L THEN old[i] ELSE new[i - L]
    <3> HIDE DEF old
    <3> QED
      BY <2>a, ConcatProperties
  <2>1. /\ log'[p] \in Seq(S) /\ Len(log'[p]) = L + k
        /\ \A i \in 1..(L + k) : log'[p][i] = IF i <= L THEN log[p][i] ELSE new[i - L]
    BY <1>6, <2>b
  <2>2. ASSUME NEW i \in 1..L PROVE log'[p][i] = log[p][i]
    BY <1>1, <1>2, <2>1
  <2>3. ASSUME NEW i \in 1..k PROVE log'[p][L + i] = [fid |-> frame_seed, index |-> ids[i]]
    <3>1. L + i \in 1..(L + k) /\ ~(L + i <= L) /\ (L + i) - L = i
      BY <1>1, <1>2
    <3> QED
      BY <1>5, <2>1, <3>1
  <2> QED
    BY <2>1, <2>2, <2>3
<1>8. fresh \subseteq 1..k /\ IsFiniteSet(fresh) /\ Cardinality(fresh) \in 0..k
  <2>1. fresh \in SUBSET (1..k)
    BY DEF PutOn
  <2> HIDE DEF k
  <2>2. IsFiniteSet(1..k) /\ Cardinality(1..k) = k
    BY <1>2, FS_Interval
  <2>3. IsFiniteSet(fresh) /\ Cardinality(fresh) <= Cardinality(1..k)
    BY <2>1, <2>2, FS_Subset
  <2>4. Cardinality(fresh) \in Nat
    BY <2>3, FS_CardinalityType
  <2> QED
    BY <1>2, <2>1, <2>2, <2>3, <2>4
<1>9. ASSUME NEW i \in fresh, NEW j \in fresh, TransSeq(p, i - 1) = TransSeq(p, j - 1)
      PROVE  i = j
  <2>1. trans_seq[p] \in TransSeqs
    BY DEF TypeInv
  <2> HIDE DEF k
  <2>2. i \in 1..k /\ j \in 1..k
    BY <1>8
  <2>3. i - 1 \in 0..(MaxSplit - 1) /\ j - 1 \in 0..(MaxSplit - 1)
    BY <1>2, <1>3, <2>2
  <2>4. i - 1 = j - 1
    BY <1>9, <2>1, <2>3, SeqsDistinct
  <2> QED
    BY <2>2, <2>4
<1>10. Cardinality(DOMAIN buf'[p]) = Cardinality(DOMAIN buf[p]) + Cardinality(fresh)
  <2> DEFINE slots == {TransSeq(p, i - 1) : i \in fresh}
             D == DOMAIN buf[p]
             f == [i \in fresh |-> TransSeq(p, i - 1)]
  <2>1. f \in Surjection(fresh, slots)
    BY DEF Surjection
  <2>2. f \in Injection(fresh, slots)
    <3>1. f \in [fresh -> slots]
      OBVIOUS
    <3>2. ASSUME NEW i \in fresh, NEW j \in fresh, f[i] = f[j] PROVE i = j
      <4>1. TransSeq(p, i - 1) = TransSeq(p, j - 1)
        BY <3>2
      <4> QED
        BY <1>9, <4>1
    <3> HIDE DEF f, slots
    <3> QED
      BY <3>1, <3>2 DEF Injection, IsInjective
  <2>3. slots \cap D = {}
    BY DEF PutOn
  <2>4. DOMAIN buf'[p] = D \cup slots
    BY DEF PutOn
  <2> HIDE DEF f, slots, D
  <2>5. IsFiniteSet(slots) /\ Cardinality(slots) = Cardinality(fresh)
    BY <1>8, <2>1, <2>2, FS_Surjection
  <2>6. IsFiniteSet(D)
    BY <1>1 DEF D
  <2>7. Cardinality(D \cup slots) = Cardinality(D) + Cardinality(slots) - Cardinality(D \cap slots)
    BY <2>5, <2>6, FS_Union
  <2>8. Cardinality(D \cap slots) = 0
    <3>1. D \cap slots = {}
      BY <2>3
    <3> QED
      BY <3>1, FS_EmptySet, Zenon
  <2>9. Cardinality(D) \in Nat /\ Cardinality(slots) \in Nat
    BY <2>5, <2>6, FS_CardinalityType
  <2>10. Cardinality(D \cup slots) = Cardinality(D) + Cardinality(fresh)
    BY <2>5, <2>7, <2>8, <2>9
  <2> QED
    BY <2>4, <2>10 DEF D
<1>11. ASSUME NEW q \in DOMAIN buf'[p]
       PROVE  \/ q \in DOMAIN buf[p] /\ buf'[p][q] = buf[p][q] /\ buf'[p][q] <= L
              \/ \E i \in fresh : q = TransSeq(p, i - 1) /\ buf'[p][q] = L + i
  <2>1. q \in DOMAIN buf[p] \/ \E i \in fresh : q = TransSeq(p, i - 1)
    BY DEF PutOn
  <2>2. CASE q \in DOMAIN buf[p]
    <3>1. buf'[p][q] = buf[p][q]
      BY <2>2 DEF PutOn
    <3>2. buf[p][q] \in 1..L
      BY <1>1, <2>2
    <3> HIDE DEF L
    <3> QED
      BY <1>1, <2>2, <3>1, <3>2
  <2>3. CASE \E i \in fresh : q = TransSeq(p, i - 1)
    BY <2>3 DEF PutOn
  <2> QED
    BY <2>1, <2>2, <2>3
<1> QED
  BY <1>2, <1>7, <1>8, <1>10, <1>11 DEF FrameEffect

\* What sending the segment at id does to the buffer and the history of path p.
LEMMA SendFacts ==
    ASSUME NEW p \in Paths, DomainInv, TypeInv(p), PlaceInv(p), QuietInv(p), ConnInv,
           NEW id, SendOn(p, id)
    PROVE  /\ buf[p][id] \in 1..Len(log[p])
           /\ DOMAIN buf'[p] = DOMAIN buf[p] \ {id}
           /\ \A q \in DOMAIN buf'[p] : buf'[p][q] = buf[p][q]
           /\ Cardinality(DOMAIN buf[p]) \in Nat \ {0}
           /\ Cardinality(DOMAIN buf'[p]) = Cardinality(DOMAIN buf[p]) - 1
           /\ sent'[p] \in Seq(1..Len(log[p])) /\ Len(sent'[p]) = Len(sent[p]) + 1
           /\ \A i \in 1..Len(sent[p]) : sent'[p][i] = sent[p][i]
           /\ sent'[p][Len(sent[p]) + 1] = buf[p][id]
           /\ ~path_stop[p] /\ ~stop
<1>1. id \in DOMAIN buf[p] /\ buf[p][id] \in 1..Len(log[p]) /\ IsFiniteSet(DOMAIN buf[p])
  BY PathFacts DEF SendOn
<1>2. DOMAIN buf'[p] = DOMAIN buf[p] \ {id} /\ \A q \in DOMAIN buf'[p] : buf'[p][q] = buf[p][q]
  BY DEF SendOn
<1>3. /\ Cardinality(DOMAIN buf[p]) \in Nat \ {0}
      /\ Cardinality(DOMAIN buf'[p]) = Cardinality(DOMAIN buf[p]) - 1
  <2> DEFINE D == DOMAIN buf[p]
  <2>1. id \in D /\ IsFiniteSet(D) /\ DOMAIN buf'[p] = D \ {id}
    BY <1>1, <1>2
  <2> HIDE DEF D
  <2>2. Cardinality(D \ {id}) = Cardinality(D) - 1 /\ IsFiniteSet(D \ {id})
    BY <2>1, FS_RemoveElement
  <2>3. Cardinality(D) \in Nat /\ Cardinality(D \ {id}) \in Nat
    BY <2>1, <2>2, FS_CardinalityType
  <2>4. Cardinality(D) # 0
    BY <2>2, <2>3
  <2>5. Cardinality(DOMAIN buf'[p]) = Cardinality(D) - 1 /\ Cardinality(D) \in Nat \ {0}
    BY <2>1, <2>2, <2>3, <2>4
  <2> QED
    BY <2>5 DEF D
<1>4. /\ sent'[p] \in Seq(1..Len(log[p])) /\ Len(sent'[p]) = Len(sent[p]) + 1
      /\ \A i \in 1..Len(sent[p]) : sent'[p][i] = sent[p][i]
      /\ sent'[p][Len(sent[p]) + 1] = buf[p][id]
  <2> DEFINE R == 1..Len(log[p])
             x == buf[p][id]
  <2>1. sent[p] \in Seq(R) /\ x \in R /\ sent'[p] = Append(sent[p], x)
    BY <1>1 DEF TypeInv, SendOn
  <2> HIDE DEF R, x
  <2>2. /\ sent'[p] \in Seq(R) /\ Len(sent'[p]) = Len(sent[p]) + 1
        /\ \A i \in 1..Len(sent[p]) : sent'[p][i] = sent[p][i]
        /\ sent'[p][Len(sent[p]) + 1] = x
    BY <2>1, AppendProperties
  <2> QED
    BY <2>2 DEF R, x
<1>5. ~path_stop[p] /\ ~stop
  <2>1. buf[p] # <<>>
    BY <1>1, PathFacts
  <2> QED
    BY <2>1 DEF QuietInv
<1> QED
  BY <1>1, <1>2, <1>3, <1>4, <1>5

\* The types of path p are kept.
LEMMA NextType ==
    ASSUME IInv, [Next]_vars, NEW p \in Paths
    PROVE  TypeInv(p)'
<1>a. ConnInv /\ DomainInv /\ TypeInv(p) /\ PlaceInv(p) /\ QuietInv(p)
  BY DEF IInv
<1>b. Len(log[p]) \in Nat /\ Len(sent[p]) \in Nat /\ frame_seed \in Nat \ {0}
  BY <1>a, PathFacts, MultipathSenderAssumption DEF ConnInv
<1>1. CASE FrameOn(p)
  <2>1. PICK ids, fresh : PutOn(p, ids, fresh)
    BY <1>1 DEF FrameOn
  <2>2. /\ Len(ids) \in Nat
        /\ log'[p] \in Seq([fid : 1..frame_seed, index : 0..(MaxSplit - 1)])
        /\ Len(log'[p]) = Len(log[p]) + Len(ids)
        /\ fresh \subseteq 1..Len(ids) /\ Cardinality(fresh) \in 0..Len(ids)
        /\ \A q \in DOMAIN buf'[p] :
              \/ q \in DOMAIN buf[p] /\ buf'[p][q] = buf[p][q] /\ buf'[p][q] <= Len(log[p])
              \/ \E i \in fresh : q = TransSeq(p, i - 1) /\ buf'[p][q] = Len(log[p]) + i
    <3>1. FrameEffect(p, ids, fresh)
      BY <1>a, <2>1, FrameFacts
    <3> QED
      BY <3>1 DEF FrameEffect
  <2>3. (frame_seed + 1) - 1 = frame_seed
    BY <1>b
  <2>4. log'[p] \in Seq([fid : 1..(frame_seed' - 1), index : 0..(MaxSplit - 1)])
    BY <1>1, <2>2, <2>3 DEF FrameOn
  <2>5. \A i \in 0..MaxSplit : TransSeq(p, i) \in TransSeqs
    BY <1>a, SeqsDistinct DEF TypeInv
  <2>6. Len(ids) <= MaxSplit /\ MaxSplit \in Nat
    BY <2>1, MultipathSenderAssumption DEF PutOn
  <2>7. trans_seq'[p] \in TransSeqs
    <3>1. Len(ids) \in 0..MaxSplit /\ trans_seq'[p] = TransSeq(p, Len(ids))
      BY <2>1, <2>2, <2>6 DEF PutOn
    <3> QED
      BY <2>5, <3>1
  <2>8. sent'[p] \in Seq(1..Len(log'[p]))
    <3>1. sent'[p] \in Seq(1..Len(log[p]))
      BY <1>a, <2>1 DEF TypeInv, PutOn
    <3>2. 1..Len(log[p]) \subseteq 1..Len(log'[p])
      BY <1>b, <2>2
    <3> QED
      BY <3>1, <3>2, SeqMonotonic
  <2>9. pacer'[p] \in Seq(TransSeqs)
    <3>1. pacer[p] \in Seq(TransSeqs)
      BY <1>a DEF TypeInv
    <3>2. CASE PaceMode[p] = "no_webrtc"
      BY <2>1, <3>1, <3>2 DEF PutOn
    <3>3. CASE PaceMode[p] # "no_webrtc"
      <4> DEFINE more == [i \in 1..Len(ids) |-> TransSeq(p, i - 1)]
      <4>1. more \in [1..Len(ids) -> TransSeqs]
        <5> DEFINE n == Len(ids)
        <5>a. n \in Nat /\ n <= MaxSplit /\ MaxSplit \in Nat
          BY <2>2, <2>6
        <5> HIDE DEF n
        <5>b. \A i \in 1..n : i - 1 \in 0..MaxSplit
          BY <5>a
        <5>1. \A i \in 1..Len(ids) : i - 1 \in 0..MaxSplit
          BY <5>b DEF n
        <5> QED
          BY <2>5, <5>1
      <4>2. pacer'[p] = pacer[p] \o more
        BY <2>1, <3>3 DEF PutOn
      <4>3. more \in Seq(TransSeqs)
        <5>1. Len(ids) \in Nat
          BY <2>2
        <5> HIDE DEF more
        <5> QED
          BY <4>1, <5>1, FunctionSeq
      <4> HIDE DEF more
      <4> QED
        BY <3>1, <4>2, <4>3, ConcatProperties
    <3> QED
      BY <3>2, <3>3
  <2>10. DOMAIN buf'[p] \subseteq TransSeqs
    <3>1. ASSUME NEW i \in fresh PROVE TransSeq(p, i - 1) \in TransSeqs
      <4>1. i \in 1..Len(ids)
        BY <2>2
      <4>2. i - 1 \in 0..MaxSplit
        BY <2>2, <2>6, <4>1
      <4> QED
        BY <2>5, <4>2
    <3> QED
      BY <1>a, <2>1, <3>1 DEF TypeInv, PutOn
  <2>11. buf'[p] \in [DOMAIN buf'[p] -> 1..Len(log'[p])]
    <3>1. ASSUME NEW q \in DOMAIN buf'[p] PROVE buf'[p][q] \in 1..Len(log'[p])
      <4>1. CASE q \in DOMAIN buf[p] /\ buf'[p][q] = buf[p][q]
        <5>1. buf[p][q] \in 1..Len(log[p])
          BY <1>a, <4>1, PathFacts
        <5> QED
          BY <1>b, <2>2, <4>1, <5>1
      <4>2. CASE \E i \in fresh : buf'[p][q] = Len(log[p]) + i
        <5>1. PICK i \in 1..Len(ids) : buf'[p][q] = Len(log[p]) + i
          BY <2>2, <4>2
        <5> QED
          BY <1>b, <2>2, <5>1
      <4> QED
        BY <2>2, <4>1, <4>2
    <3> QED
      BY <2>1, <3>1 DEF PutOn
  <2>12. len'[p] \in Nat /\ pending_len'[p] \in Nat /\ overflow'[p] \in Nat /\ freed'[p] \in Nat
    <3>1. len'[p] = len[p] + Len(ids) /\ pending_len'[p] = pending_len[p] + Len(ids)
          /\ overflow'[p] = overflow[p] + Len(ids) - Cardinality(fresh) /\ freed'[p] = freed[p]
      BY <1>1, <2>1 DEF PutOn, FrameOn
    <3>2. len[p] \in Nat /\ pending_len[p] \in Nat /\ overflow[p] \in Nat /\ freed[p] \in Nat
      BY <1>a DEF TypeInv
    <3> DEFINE n == Len(ids)
               f == Cardinality(fresh)
    <3>3. n \in Nat /\ f \in 0..n
      BY <2>2
    <3>4. len'[p] = len[p] + n /\ pending_len'[p] = pending_len[p] + n
          /\ overflow'[p] = overflow[p] + n - f /\ freed'[p] = freed[p]
      BY <3>1
    <3> HIDE DEF n, f
    <3> QED
      BY <3>2, <3>3, <3>4
  <2> QED
    BY <2>4, <2>7, <2>8, <2>9, <2>10, <2>11, <2>12 DEF TypeInv
<1>2. ASSUME NEW id, SendOn(p, id) PROVE TypeInv(p)'
  <2>1. /\ DOMAIN buf'[p] \subseteq TransSeqs
        /\ buf'[p] \in [DOMAIN buf'[p] -> 1..Len(log'[p])]
    BY <1>a, <1>2 DEF TypeInv, SendOn, Kept
  <2>2. sent'[p] \in Seq(1..Len(log'[p]))
    BY <1>a, <1>2, SendFacts DEF SendOn, Kept
  <2>3. log'[p] = log[p] /\ frame_seed' = frame_seed /\ trans_seq'[p] \in TransSeqs
        /\ overflow'[p] = overflow[p] /\ freed'[p] = freed[p]
    BY <1>2 DEF SendOn, Kept
  <2>4. pacer'[p] \in Seq(TransSeqs)
    <3>1. pacer[p] \in Seq(TransSeqs)
      BY <1>a DEF TypeInv
    <3>2. pacer'[p] = pacer[p] \/ (pacer[p] # <<>> /\ pacer'[p] = Tail(pacer[p]))
      BY <1>2 DEF SendOn
    <3> QED
      BY <3>1, <3>2, HeadTailProperties
  <2>5. len'[p] \in Nat /\ pending_len'[p] \in Nat
    <3>1. /\ Cardinality(DOMAIN buf[p]) \in Nat \ {0} /\ ~path_stop[p]
      BY <1>a, <1>2, SendFacts
    <3>2. len[p] = Cardinality(DOMAIN buf[p]) + overflow[p] /\ pending_len[p] = len[p]
      BY <1>a, <3>1 DEF PlaceInv
    <3>3. len'[p] = len[p] - 1 /\ pending_len'[p] = pending_len[p] - 1 /\ overflow[p] \in Nat
      BY <1>a, <1>2 DEF SendOn, TypeInv
    <3> QED
      BY <3>1, <3>2, <3>3
  <2> QED
    BY <1>a, <2>1, <2>2, <2>3, <2>4, <2>5 DEF TypeInv
<1>3. CASE SkipOn(p)
  <2>1. pacer'[p] \in Seq(TransSeqs)
    <3>1. pacer[p] \in Seq(TransSeqs)
      BY <1>a DEF TypeInv
    <3>2. pacer[p] # <<>> /\ pacer'[p] = Tail(pacer[p])
      BY <1>3 DEF SkipOn
    <3> QED
      BY <3>1, <3>2, HeadTailProperties
  <2> QED
    BY <1>3, <1>a, <2>1 DEF TypeInv, SkipOn, Kept
<1>4. CASE FreeOn(p)
  <2>1. Cardinality(DOMAIN buf[p]) \in Nat
    BY <1>a, PathFacts
  <2>2. len'[p] \in Nat /\ freed'[p] \in Nat
    <3>1. /\ len'[p] = len[p] - Cardinality(DOMAIN buf[p])
          /\ freed'[p] = freed[p] + Cardinality(DOMAIN buf[p])
      BY <1>4 DEF FreeOn
    <3>2. /\ len[p] = Cardinality(DOMAIN buf[p]) + overflow[p]
          /\ overflow[p] \in Nat /\ freed[p] \in Nat
      BY <1>a DEF TypeInv, PlaceInv
    <3> QED
      BY <2>1, <3>1, <3>2
  <2>3. buf'[p] = <<>> /\ DOMAIN buf'[p] = {} /\ buf'[p] \in [DOMAIN buf'[p] -> 1..Len(log'[p])]
    BY <1>4 DEF FreeOn
  <2> QED
    BY <1>4, <1>a, <2>2, <2>3 DEF TypeInv, FreeOn, Kept
<1>5. CASE IdleOn(p)
  BY <1>5, <1>a DEF TypeInv, IdleOn
<1> QED
  BY <1>1, <1>2, <1>3, <1>4, <1>5, NextOn

\* Every variable of the paths keeps a value for each of them.
LEMMA NextDomain == DomainInv /\ [Next]_vars => DomainInv'
<1> SUFFICES ASSUME DomainInv, [Next]_vars PROVE DomainInv'
  OBVIOUS
<1>1. CASE UNCHANGED pathVars /\ UNCHANGED freed
  BY <1>1 DEF DomainInv, pathVars
<1>2. CASE Stop
  BY <1>2 DEF Stop, DomainInv
<1>3. ASSUME NEW n, NEW to, SendVideo(n, to) PROVE DomainInv'
  BY <1>3 DEF SendVideo, DomainInv, stopVars
<1>4. ASSUME NEW r \in Paths, TimeToSendPacket(r) PROVE DomainInv'
  BY <1>4 DEF TimeToSendPacket, Transmit, DomainInv, stopVars
<1>5. ASSUME NEW r \in Paths, PacingSendSegment(r) PROVE DomainInv'
  BY <1>5 DEF PacingSendSegment, Transmit, DomainInv, stopVars
<1>6. ASSUME NEW r \in Paths, SendPadding(r) PROVE DomainInv'
  BY <1>6 DEF SendPadding, DomainInv, stopVars
<1>7. ASSUME NEW r \in Paths,
             RetryConnect(r) \/ RecvConnect(r) \/ Lose(r) \/ RecvConnectAck(r) \/ DropConnectAck(r)
      PROVE  DomainInv'
  <2>1. UNCHANGED <<pathVars, stopVars>>
    BY <1>7 DEF RetryConnect, SendConnect, RecvConnect, Lose, RecvConnectAck, DropConnectAck
  <2> QED
    BY <1>1, <2>1 DEF stopVars
<1>8. CASE Connect
  <2>1. UNCHANGED <<pathVars, stopVars>>
    BY <1>8 DEF Connect, SendConnect
  <2> QED
    BY <1>1, <2>1 DEF stopVars
<1>9. CASE UNCHANGED vars
  BY <1>1, <1>9 DEF vars, stopVars
<1> QED
  BY <1>2, <1>3, <1>4, <1>5, <1>6, <1>7, <1>8, <1>9 DEF Next

\* A path that may not send buffers nothing, whatever happens.
LEMMA NextQuiet ==
    ASSUME IInv, [Next]_vars, NEW p \in Paths
    PROVE  QuietInv(p)'
<1>a. ConnInv /\ DomainInv /\ TypeInv(p) /\ PlaceInv(p) /\ QuietInv(p)
  BY DEF IInv
<1>1. CASE FrameOn(p)
  <2>1. PICK ids, fresh : PutOn(p, ids, fresh)
    BY <1>1 DEF FrameOn
  <2>2. stop' = stop /\ path_stop'[p] = path_stop[p] /\ usable_path' = usable_path /\ ~stop
    BY <1>1 DEF FrameOn
  <2>3. CASE ids = <<>>
    <3>1. Len(ids) = 0
      BY <2>3
    <3>2. DOMAIN buf'[p] = DOMAIN buf[p]
      <4>1. fresh = {}
        BY <2>1, <3>1 DEF PutOn
      <4> QED
        BY <2>1, <4>1 DEF PutOn
    <3>3. buf'[p] = <<>> <=> DOMAIN buf'[p] = {}
      BY <2>1, EmptyFunction DEF PutOn
    <3>4. buf[p] = <<>> <=> DOMAIN buf[p] = {}
      BY <1>a, PathFacts
    <3> QED
      BY <1>a, <2>2, <3>2, <3>3, <3>4 DEF QuietInv
  <2>4. CASE ids # <<>>
    <3>1. p \in usable_path /\ ~path_stop[p]
      BY <2>1, <2>4 DEF PutOn, Takes
    <3> QED
      BY <2>2, <3>1 DEF QuietInv
  <2> QED
    BY <2>3, <2>4
<1>2. ASSUME NEW id, SendOn(p, id) PROVE QuietInv(p)'
  <2>1. ~stop /\ ~path_stop[p]
    BY <1>a, <1>2, SendFacts
  <2>2. p \in usable_path
    <3>1. buf[p] # <<>>
      <4>1. DOMAIN buf[p] # {}
        BY <1>2 DEF SendOn
      <4> QED
        BY <1>a, <4>1, PathFacts
    <3> QED
      BY <1>a, <3>1 DEF QuietInv
  <2> QED
    BY <1>2, <2>1, <2>2 DEF SendOn, Kept, QuietInv
<1>3. CASE SkipOn(p)
  BY <1>3, <1>a DEF SkipOn, Kept, QuietInv
<1>4. CASE FreeOn(p)
  BY <1>4 DEF FreeOn, QuietInv
<1>5. CASE IdleOn(p)
  BY <1>5, <1>a DEF IdleOn, QuietInv
<1> QED
  BY <1>1, <1>2, <1>3, <1>4, <1>5, NextOn

\* No packet gets into a second place, and the counters stay right.
LEMMA NextPlace ==
    ASSUME IInv, [Next]_vars, NEW p \in Paths
    PROVE  PlaceInv(p)'
<1>a. ConnInv /\ DomainInv /\ TypeInv(p) /\ PlaceInv(p) /\ QuietInv(p)
  BY DEF IInv
<1>b. /\ Len(log[p]) \in Nat /\ Len(sent[p]) \in Nat /\ Cardinality(DOMAIN buf[p]) \in Nat
      /\ \A q \in DOMAIN buf[p] : buf[p][q] \in 1..Len(log[p])
  BY <1>a, PathFacts
<1>c. /\ len[p] \in Nat /\ pending_len[p] \in Nat /\ overflow[p] \in Nat /\ freed[p] \in Nat
      /\ \A i \in 1..Len(sent[p]) : sent[p][i] \in 1..Len(log[p])
  BY <1>a, ElementOfSeq DEF TypeInv
<1>d. /\ \A q, r \in DOMAIN buf[p] : buf[p][q] = buf[p][r] => q = r
      /\ \A i, j \in 1..Len(sent[p]) : sent[p][i] = sent[p][j] => i = j
      /\ \A q \in DOMAIN buf[p] : \A i \in 1..Len(sent[p]) : buf[p][q] # sent[p][i]
      /\ Len(log[p]) = Cardinality(DOMAIN buf[p]) + Len(sent[p]) + freed[p] + overflow[p]
      /\ len[p] = Cardinality(DOMAIN buf[p]) + overflow[p]
      /\ ~path_stop[p] => pending_len[p] = len[p]
  BY <1>a DEF PlaceInv
<1>1. CASE FrameOn(p)
  <2>1. PICK ids, fresh : PutOn(p, ids, fresh)
    BY <1>1 DEF FrameOn
  <2>2. FrameEffect(p, ids, fresh)
    BY <1>a, <2>1, FrameFacts
  <2> DEFINE L == Len(log[p])
             k == Len(ids)
             B == Cardinality(DOMAIN buf[p])
             F == Cardinality(fresh)
  <2>3. /\ L \in Nat /\ k \in Nat /\ B \in Nat /\ F \in 0..k
        /\ Len(log'[p]) = L + k /\ Cardinality(DOMAIN buf'[p]) = B + F
        /\ \A i \in fresh : i \in 1..k
    BY <1>b, <2>2 DEF FrameEffect
  <2>4. \A q \in DOMAIN buf'[p] :
              \/ q \in DOMAIN buf[p] /\ buf'[p][q] = buf[p][q] /\ buf[p][q] \in 1..L
              \/ \E i \in fresh : q = TransSeq(p, i - 1) /\ buf'[p][q] = L + i
    BY <1>b, <2>2 DEF FrameEffect
  <2>5. /\ sent'[p] = sent[p] /\ freed'[p] = freed[p] /\ path_stop'[p] = path_stop[p]
        /\ overflow'[p] = overflow[p] + k - F
        /\ len'[p] = len[p] + k /\ pending_len'[p] = pending_len[p] + k
    BY <1>1, <2>1 DEF PutOn, FrameOn
  <2> HIDE DEF L, k, B, F
  <2>6. ASSUME NEW q \in DOMAIN buf'[p], NEW r \in DOMAIN buf'[p], buf'[p][q] = buf'[p][r]
        PROVE  q = r
    <3>1. CASE q \in DOMAIN buf[p] /\ buf'[p][q] = buf[p][q] /\ buf[p][q] \in 1..L
      <4>1. r \in DOMAIN buf[p] /\ buf'[p][r] = buf[p][r]
        <5>1. buf'[p][r] <= L
          BY <2>3, <2>6, <3>1
        <5>2. ASSUME NEW i \in fresh, buf'[p][r] = L + i PROVE FALSE
          BY <2>3, <5>1, <5>2
        <5> QED
          BY <2>4, <5>2
      <4> QED
        BY <1>d, <2>6, <3>1, <4>1
    <3>2. CASE \E i \in fresh : q = TransSeq(p, i - 1) /\ buf'[p][q] = L + i
      <4>1. PICK i \in fresh : q = TransSeq(p, i - 1) /\ buf'[p][q] = L + i
        BY <3>2
      <4>2. i \in 1..k
        BY <2>3
      <4>3. PICK j \in fresh : r = TransSeq(p, j - 1) /\ buf'[p][r] = L + j
        <5>1. ~(buf'[p][r] \in 1..L)
          BY <2>3, <2>6, <4>1, <4>2
        <5> QED
          BY <2>4, <5>1
      <4>4. i = j
        <5>1. j \in 1..k
          BY <2>3
        <5>2. L + i = L + j
          BY <2>6, <4>1, <4>3
        <5> QED
          BY <2>3, <4>2, <5>1, <5>2
      <4> QED
        BY <4>1, <4>3, <4>4
    <3> QED
      BY <2>4, <3>1, <3>2
  <2>7. ASSUME NEW q \in DOMAIN buf'[p], NEW i \in 1..Len(sent'[p]) PROVE buf'[p][q] # sent'[p][i]
    <3>1. sent[p][i] \in 1..L /\ sent'[p][i] = sent[p][i] /\ i \in 1..Len(sent[p])
      BY <1>c, <2>5 DEF L
    <3>2. CASE q \in DOMAIN buf[p] /\ buf'[p][q] = buf[p][q]
      BY <1>d, <3>1, <3>2
    <3>3. ASSUME NEW j \in fresh, buf'[p][q] = L + j PROVE buf'[p][q] # sent[p][i]
      BY <2>3, <3>1, <3>3
    <3> QED
      BY <2>4, <3>1, <3>2, <3>3
  <2>8. Len(log'[p]) = Cardinality(DOMAIN buf'[p]) + Len(sent'[p]) + freed'[p] + overflow'[p]
    <3>1. L = B + Len(sent[p]) + freed[p] + overflow[p]
      BY <1>d DEF L, B
    <3> DEFINE m == Len(sent[p])
    <3>2. /\ F \in Nat /\ B \in Nat /\ k \in Nat /\ m \in Nat
          /\ overflow[p] \in Nat /\ freed[p] \in Nat
      BY <1>b, <1>c, <2>3
    <3>3. L = B + m + freed[p] + overflow[p] /\ Len(sent'[p]) = m
      BY <2>5, <3>1
    <3> HIDE DEF m
    <3>4. L + k = (B + F) + m + freed[p] + (overflow[p] + k - F)
      BY <3>2, <3>3
    <3> QED
      BY <2>3, <2>5, <3>3, <3>4
  <2>9. len'[p] = Cardinality(DOMAIN buf'[p]) + overflow'[p]
    <3>1. len[p] = B + overflow[p]
      BY <1>d DEF B
    <3>2. F \in Nat /\ B \in Nat /\ k \in Nat /\ overflow[p] \in Nat
      BY <1>c, <2>3
    <3>3. len'[p] = (B + overflow[p]) + k /\ overflow'[p] = overflow[p] + k - F
      BY <2>5, <3>1
    <3>4. (B + overflow[p]) + k = (B + F) + (overflow[p] + k - F)
      BY <3>2
    <3> QED
      BY <2>3, <3>3, <3>4
  <2>10. ~path_stop'[p] => pending_len'[p] = len'[p]
    BY <1>d, <2>5
  <2> QED
    BY <1>d, <2>5, <2>6, <2>7, <2>8, <2>9, <2>10 DEF PlaceInv
<1>2. ASSUME NEW id, SendOn(p, id) PROVE PlaceInv(p)'
  <2> DEFINE B == Cardinality(DOMAIN buf[p])
             m == Len(sent[p])
             x == buf[p][id]
  <2>1. /\ DOMAIN buf'[p] = DOMAIN buf[p] \ {id}
        /\ \A q \in DOMAIN buf'[p] : buf'[p][q] = buf[p][q]
        /\ B \in Nat \ {0} /\ Cardinality(DOMAIN buf'[p]) = B - 1
        /\ Len(sent'[p]) = m + 1
        /\ \A i \in 1..m : sent'[p][i] = sent[p][i]
        /\ sent'[p][m + 1] = x
        /\ ~path_stop[p]
    BY <1>a, <1>2, SendFacts
  <2>2. /\ len'[p] = len[p] - 1 /\ pending_len'[p] = pending_len[p] - 1
        /\ UNCHANGED <<path_stop, freed>> /\ log'[p] = log[p] /\ overflow'[p] = overflow[p]
        /\ id \in DOMAIN buf[p]
    BY <1>2 DEF SendOn, Kept
  <2>3. m \in Nat /\ \A i \in 1..m : sent[p][i] # x
    BY <1>b, <1>d, <2>2
  <2>4. \A q, r \in DOMAIN buf'[p] : buf'[p][q] = buf'[p][r] => q = r
    BY <1>d, <2>1
  <2>5. \A q \in DOMAIN buf'[p] : buf'[p][q] # x
    BY <1>d, <2>1, <2>2
  <2>6. \A q \in DOMAIN buf'[p] : \A i \in 1..m : buf'[p][q] # sent'[p][i]
    BY <1>d, <2>1
  <2>7. \A i, j \in 1..m : sent'[p][i] = sent'[p][j] => i = j
    BY <1>d, <2>1
  <2>8. Len(log'[p]) = Cardinality(DOMAIN buf'[p]) + Len(sent'[p]) + freed'[p] + overflow'[p]
    <3>1. Len(log[p]) = B + m + freed[p] + overflow[p]
      BY <1>d
    <3> HIDE DEF B, m, x
    <3> QED
      BY <1>c, <2>1, <2>2, <2>3, <3>1
  <2>9. len'[p] = Cardinality(DOMAIN buf'[p]) + overflow'[p] /\ pending_len'[p] = len'[p]
    <3>1. len[p] = B + overflow[p] /\ pending_len[p] = len[p]
      BY <1>d, <2>1
    <3> HIDE DEF B, m, x
    <3>2. B \in Nat /\ overflow[p] \in Nat
      BY <1>c, <2>1
    <3>3. (B + overflow[p]) - 1 = (B - 1) + overflow[p]
      BY <3>2
    <3> QED
      BY <2>1, <2>2, <3>1, <3>3
  <2> HIDE DEF B, m, x
  <2>10. \A i \in 1..m : sent'[p][i] # x
    BY <2>1, <2>3
  <2>11. \A i \in 1..Len(sent'[p]) : i \in 1..m \/ (i = m + 1 /\ sent'[p][i] = x)
    BY <2>1, <2>3
  <2>12. \A i, j \in 1..Len(sent'[p]) : sent'[p][i] = sent'[p][j] => i = j
    BY <2>7, <2>10, <2>11
  <2>13. \A q \in DOMAIN buf'[p] : \A i \in 1..Len(sent'[p]) : buf'[p][q] # sent'[p][i]
    BY <2>5, <2>6, <2>11
  <2> QED
    BY <2>4, <2>8, <2>9, <2>12, <2>13 DEF PlaceInv
<1>3. CASE SkipOn(p)
  BY <1>3, <1>d DEF SkipOn, Kept, PlaceInv
<1>4. CASE FreeOn(p)
  <2>1. /\ path_stop'[p] = TRUE /\ DOMAIN buf'[p] = {} /\ log'[p] = log[p]
        /\ overflow'[p] = overflow[p] /\ sent'[p] = sent[p]
        /\ len'[p] = len[p] - Cardinality(DOMAIN buf[p])
        /\ freed'[p] = freed[p] + Cardinality(DOMAIN buf[p])
    BY <1>4 DEF FreeOn, Kept
  <2>2. Cardinality(DOMAIN buf'[p]) = 0
    BY <2>1, FS_EmptySet, Zenon
  <2> DEFINE B == Cardinality(DOMAIN buf[p])
             after == Cardinality(DOMAIN buf'[p])
  <2>3. /\ B \in Nat /\ after = 0
        /\ Len(log[p]) = B + Len(sent[p]) + freed[p] + overflow[p] /\ len[p] = B + overflow[p]
        /\ len'[p] = len[p] - B /\ freed'[p] = freed[p] + B
    BY <1>b, <1>d, <2>1, <2>2
  <2> HIDE DEF B, after
  <2> DEFINE n == Len(sent[p])
  <2>4. n \in Nat /\ freed[p] \in Nat /\ overflow[p] \in Nat /\ len[p] \in Nat
    BY <1>b, <1>c
  <2>5. Len(log[p]) = B + n + freed[p] + overflow[p]
    BY <2>3
  <2> HIDE DEF n
  <2>6. Len(log[p]) = after + n + freed'[p] + overflow[p] /\ len'[p] = after + overflow[p]
    BY <2>3, <2>4, <2>5
  <2>7. /\ Len(log'[p]) = after + Len(sent'[p]) + freed'[p] + overflow'[p]
        /\ len'[p] = after + overflow'[p]
    BY <2>1, <2>6 DEF n
  <2> QED
    BY <1>d, <2>1, <2>7 DEF PlaceInv, after
<1>5. CASE IdleOn(p)
  BY <1>5, <1>d DEF IdleOn, PlaceInv
<1> QED
  BY <1>1, <1>2, <1>3, <1>4, <1>5, NextOn

\* The pacer of a running path keeps what is buffered in order.
LEMMA FrameQueue ==
    ASSUME NEW p \in Paths, ConnInv, DomainInv, TypeInv(p), QueueInv(p), PlaceInv(p), FrameOn(p)
    PROVE  QueueInv(p)'
<1>1. PICK ids, fresh : PutOn(p, ids, fresh)
  BY DEF FrameOn
<1>2. FrameEffect(p, ids, fresh)
  BY <1>1, FrameFacts
<1>3. CASE PaceMode[p] = "no_webrtc"
  BY <1>1, <1>3 DEF PutOn, QueueInv
<1>4. CASE PaceMode[p] # "no_webrtc"
  <2>1. p \notin pacing'
    BY <1>4 DEF FrameOn, QueueInv
  <2>2. ASSUME ~path_stop'[p], overflow'[p] = 0 PROVE PacerInOrder(p)'
    <3> DEFINE k == Len(ids)
               F == Cardinality(fresh)
               L == Len(log[p])
               N == Len(pacer[p])
               old == pacer[p]
               more == [i \in 1..k |-> TransSeq(p, i - 1)]
    <3>1. /\ k \in Nat /\ F \in 0..k /\ L \in Nat /\ N \in Nat
          /\ fresh \subseteq 1..k
      BY <1>2, PathFacts DEF FrameEffect
    <3>2. overflow'[p] = overflow[p] + k - F /\ overflow[p] \in Nat
      BY <1>1 DEF PutOn, TypeInv
    <3>3. fresh = 1..k
      <4> HIDE DEF k, F
      <4>a. k \in Nat /\ F \in Nat /\ F <= k
        BY <3>1
      <4>1. F = k
        BY <2>2, <3>2, <4>a
      <4>2. IsFiniteSet(1..k) /\ Cardinality(1..k) = k
        BY <4>a, FS_Interval
      <4> QED
        BY <3>1, <4>1, <4>2, FS_Subset DEF F
    <3>4. PacerInOrder(p)
      <4>1. overflow[p] = 0
        <5> HIDE DEF k, F
        <5> QED
          BY <2>2, <3>1, <3>2
      <4>2. ~path_stop[p]
        BY <2>2 DEF FrameOn
      <4> QED
        BY <1>4, <4>1, <4>2 DEF QueueInv
    <3>5. old \in Seq(TransSeqs) /\ more \in Seq(TransSeqs) /\ Len(more) = k
          /\ \A i \in 1..k : more[i] = TransSeq(p, i - 1)
      <4>1. \A i \in 0..MaxSplit : TransSeq(p, i) \in TransSeqs
        BY SeqsDistinct DEF TypeInv
      <4>2. k <= MaxSplit /\ MaxSplit \in Nat
        BY <1>1, MultipathSenderAssumption DEF PutOn
      <4> HIDE DEF k
      <4>3. \A i \in 1..k : i - 1 \in 0..MaxSplit
        BY <3>1, <4>2
      <4>4. more \in [1..k -> TransSeqs] /\ \A i \in 1..k : more[i] = TransSeq(p, i - 1)
        BY <4>1, <4>3
      <4> HIDE DEF more
      <4>5. more \in Seq(TransSeqs) /\ Len(more) = k
        BY <3>1, <4>4, FunctionSeq
      <4> QED
        BY <4>4, <4>5 DEF TypeInv
    <3>6. pacer'[p] = old \o more
      BY <1>1, <1>4 DEF PutOn
    <3>7. /\ Len(pacer'[p]) = N + k
          /\ \A i \in 1..(N + k) : pacer'[p][i] = IF i <= N THEN old[i] ELSE TransSeq(p, i - N - 1)
      <4>a. N = Len(old)
        OBVIOUS
      <4> HIDE DEF old, more, k, N
      <4>1. /\ Len(old \o more) = N + k
            /\ \A i \in 1..(N + k) : (old \o more)[i] = IF i <= N THEN old[i] ELSE more[i - N]
        BY <3>5, <4>a, ConcatProperties
      <4>2. \A i \in 1..(N + k) : ~(i <= N) => more[i - N] = TransSeq(p, i - N - 1)
        BY <3>1, <3>5
      <4> QED
        BY <3>6, <4>1, <4>2
    <3>8. \A j \in 1..k : /\ TransSeq(p, j - 1) \in DOMAIN buf'[p]
                          /\ buf'[p][TransSeq(p, j - 1)] = L + j
      BY <1>1, <3>3 DEF PutOn
    <3>9. \A i \in 1..N : /\ old[i] \in DOMAIN buf[p] /\ old[i] \in DOMAIN buf'[p]
                          /\ buf'[p][old[i]] = buf[p][old[i]] /\ buf[p][old[i]] \in 1..L
      <4>1. \A i \in 1..N : old[i] \in DOMAIN buf[p]
        BY <3>4 DEF PacerInOrder
      <4>2. \A q \in DOMAIN buf[p] : q \in DOMAIN buf'[p] /\ buf'[p][q] = buf[p][q]
        BY <1>1 DEF PutOn
      <4>3. \A q \in DOMAIN buf[p] : buf[p][q] \in 1..L
        BY PathFacts
      <4> QED
        BY <4>1, <4>2, <4>3
    <3>10. ASSUME NEW i \in 1..(N + k)
           PROVE  \/ i \in 1..N /\ pacer'[p][i] = old[i]
                  \/ \E j \in 1..k : i = N + j /\ pacer'[p][i] = TransSeq(p, j - 1)
      <4> HIDE DEF N, k, old
      <4>1. CASE i <= N
        BY <3>1, <3>7, <4>1
      <4>2. CASE ~(i <= N)
        <5>1. i - N \in 1..k /\ i = N + (i - N) /\ pacer'[p][i] = TransSeq(p, (i - N) - 1)
          BY <3>1, <3>7, <4>2
        <5> QED
          BY <5>1
      <4> QED
        BY <4>1, <4>2
    <3> HIDE DEF k, F, L, N, old, more
    <3>11. \A i \in 1..(N + k) : pacer'[p][i] \in DOMAIN buf'[p]
      BY <3>8, <3>9, <3>10
    <3>12. ASSUME NEW q \in DOMAIN buf'[p] PROVE \E i \in 1..(N + k) : pacer'[p][i] = q
      <4>1. CASE q \in DOMAIN buf[p]
        <5>1. PICK i \in 1..N : old[i] = q
          BY <3>4, <4>1 DEF PacerInOrder, N, old
        <5>2. i \in 1..(N + k) /\ i <= N
          BY <3>1
        <5>3. pacer'[p][i] = old[i]
          BY <3>7, <5>2
        <5> QED
          BY <5>1, <5>2, <5>3
      <4>2. CASE q \notin DOMAIN buf[p]
        <5>1. PICK j \in 1..k : q = TransSeq(p, j - 1)
          BY <1>1, <3>3, <4>2 DEF PutOn
        <5>2. N + j \in 1..(N + k) /\ ~(N + j <= N) /\ (N + j) - N - 1 = j - 1
          BY <3>1
        <5>3. pacer'[p][N + j] = TransSeq(p, j - 1)
          BY <3>7, <5>2
        <5> QED
          BY <5>1, <5>2, <5>3
      <4> QED
        BY <4>1, <4>2
    <3>13. ASSUME NEW i \in 1..(N + k), NEW j \in 1..(N + k), i < j
           PROVE  buf'[p][pacer'[p][i]] < buf'[p][pacer'[p][j]]
      <4>1. CASE j \in 1..N /\ pacer'[p][j] = old[j]
        <5>1. i \in 1..N
          BY <3>1, <3>13, <4>1
        <5>2. pacer'[p][i] = old[i]
          BY <3>1, <3>7, <5>1
        <5>3. buf[p][old[i]] < buf[p][old[j]]
          BY <3>4, <3>13, <4>1, <5>1 DEF PacerInOrder, N, old
        <5> QED
          BY <3>9, <4>1, <5>1, <5>2, <5>3
      <4>2. CASE \E y \in 1..k : j = N + y /\ pacer'[p][j] = TransSeq(p, y - 1)
        <5>1. PICK y \in 1..k : j = N + y /\ pacer'[p][j] = TransSeq(p, y - 1)
          BY <4>2
        <5>2. buf'[p][pacer'[p][j]] = L + y
          BY <3>8, <5>1
        <5>3. CASE i \in 1..N /\ pacer'[p][i] = old[i]
          <6>1. buf'[p][pacer'[p][i]] \in 1..L
            BY <3>9, <5>3
          <6> QED
            BY <3>1, <5>1, <5>2, <6>1
        <5>4. CASE \E x \in 1..k : i = N + x /\ pacer'[p][i] = TransSeq(p, x - 1)
          <6>1. PICK x \in 1..k : i = N + x /\ pacer'[p][i] = TransSeq(p, x - 1)
            BY <5>4
          <6>2. buf'[p][pacer'[p][i]] = L + x
            BY <3>8, <6>1
          <6> QED
            BY <3>1, <3>13, <5>1, <5>2, <6>1, <6>2
        <5> QED
          BY <3>10, <5>3, <5>4
      <4> QED
        BY <3>10, <4>1, <4>2
    <3> QED
      BY <3>7, <3>11, <3>12, <3>13 DEF PacerInOrder
  <2> QED
    BY <1>4, <2>1, <2>2 DEF QueueInv
<1> QED
  BY <1>3, <1>4

\* The pacer sends the segment in front.
LEMMA SendQueue ==
    ASSUME NEW p \in Paths, ConnInv, DomainInv, TypeInv(p), QueueInv(p), PlaceInv(p), QuietInv(p),
           NEW id, SendOn(p, id)
    PROVE  QueueInv(p)'
<1>1. CASE PaceMode[p] = "no_webrtc"
  BY <1>1 DEF SendOn, QueueInv
<1>2. CASE PaceMode[p] # "no_webrtc"
  <2>1. p \notin pacing'
    BY <1>2 DEF SendOn, Kept, QueueInv
  <2>2. ASSUME ~path_stop'[p], overflow'[p] = 0 PROVE PacerInOrder(p)'
    <3> DEFINE N == Len(pacer[p])
               old == pacer[p]
    <3>1. PacerInOrder(p)
      BY <1>2, <2>2 DEF SendOn, Kept, QueueInv
    <3>2. /\ old \in Seq(TransSeqs) /\ old # <<>> /\ N \in Nat \ {0}
          /\ id = Head(old) /\ pacer'[p] = Tail(old)
      BY <1>2, EmptySeq DEF SendOn, TypeInv
    <3>3. /\ id = old[1] /\ Len(pacer'[p]) = N - 1
          /\ \A i \in 1..(N - 1) : pacer'[p][i] = old[i + 1]
      <4>a. N = Len(old)
        OBVIOUS
      <4> HIDE DEF old, N
      <4> QED
        BY <3>2, <4>a, HeadTailProperties
    <3>4. /\ DOMAIN buf'[p] = DOMAIN buf[p] \ {id}
          /\ \A q \in DOMAIN buf'[p] : buf'[p][q] = buf[p][q]
      BY SendFacts
    <3>5. /\ \A i \in 1..N : old[i] \in DOMAIN buf[p]
          /\ \A q \in DOMAIN buf[p] : \E i \in 1..N : old[i] = q
          /\ \A i, j \in 1..N : i < j => buf[p][old[i]] < buf[p][old[j]]
      BY <3>1 DEF PacerInOrder
    <3>6. \A q \in DOMAIN buf[p] : buf[p][q] \in Nat
      <4>1. \A q \in DOMAIN buf[p] : buf[p][q] \in 1..Len(log[p])
        BY PathFacts
      <4> QED
        BY <4>1
    <3> HIDE DEF N, old
    <3>7. ASSUME NEW i \in 1..(N - 1)
          PROVE  /\ i + 1 \in 1..N /\ pacer'[p][i] = old[i + 1] /\ pacer'[p][i] \in DOMAIN buf'[p]
                 /\ buf'[p][pacer'[p][i]] = buf[p][old[i + 1]]
      <4>1. i + 1 \in 1..N /\ 1 \in 1..N /\ 1 < i + 1
        BY <3>2
      <4>2. buf[p][old[1]] < buf[p][old[i + 1]] /\ old[i + 1] \in DOMAIN buf[p]
            /\ old[1] \in DOMAIN buf[p]
        BY <3>5, <4>1
      <4>3. old[i + 1] # id
        BY <3>3, <3>6, <4>2
      <4> QED
        BY <3>3, <3>4, <4>1, <4>2, <4>3
    <3>8. ASSUME NEW q \in DOMAIN buf'[p] PROVE \E i \in 1..(N - 1) : pacer'[p][i] = q
      <4>1. q \in DOMAIN buf[p] /\ q # id
        BY <3>4
      <4>2. PICK i \in 1..N : old[i] = q
        BY <3>5, <4>1
      <4>3. i # 1
        BY <3>3, <4>1, <4>2
      <4>4. i - 1 \in 1..(N - 1) /\ (i - 1) + 1 = i
        BY <3>2, <4>3
      <4> QED
        BY <3>3, <4>2, <4>4
    <3>9. ASSUME NEW i \in 1..(N - 1), NEW j \in 1..(N - 1), i < j
          PROVE  buf'[p][pacer'[p][i]] < buf'[p][pacer'[p][j]]
      <4>1. i + 1 < j + 1
        BY <3>2, <3>9
      <4>2. buf[p][old[i + 1]] < buf[p][old[j + 1]]
        BY <3>5, <3>7, <4>1
      <4> QED
        BY <3>7, <4>2
    <3> QED
      BY <3>3, <3>7, <3>8, <3>9 DEF PacerInOrder
  <2> QED
    BY <1>2, <2>1, <2>2 DEF QueueInv
<1> QED
  BY <1>1, <1>2

\* The other steps do not touch what is in order.
LEMMA NextQueue ==
    ASSUME IInv, [Next]_vars, NEW p \in Paths
    PROVE  QueueInv(p)'
<1>a. ConnInv /\ DomainInv /\ TypeInv(p) /\ PlaceInv(p) /\ QuietInv(p) /\ QueueInv(p)
  BY DEF IInv
<1>1. CASE FrameOn(p)
  BY <1>1, <1>a, FrameQueue
<1>2. ASSUME NEW id, SendOn(p, id) PROVE QueueInv(p)'
  BY <1>2, <1>a, SendQueue
<1>3. CASE SkipOn(p)
  <2>1. ~PacerInOrder(p)
    <3>1. Head(pacer[p]) = pacer[p][1] /\ Len(pacer[p]) \in Nat \ {0}
      BY <1>3, <1>a, EmptySeq DEF SkipOn, TypeInv
    <3> QED
      BY <1>3, <3>1 DEF SkipOn, PacerInOrder
  <2>2. overflow[p] # 0 /\ p \notin pacing
    BY <1>3, <1>a, <2>1 DEF SkipOn, QueueInv
  <2> QED
    BY <1>3, <2>2 DEF SkipOn, Kept, QueueInv
<1>4. CASE FreeOn(p)
  <2>1. path_stop'[p] /\ pacer'[p] = pacer[p] /\ (p \in pacing' => p \in pacing)
    BY <1>4 DEF FreeOn, Kept
  <2> QED
    BY <1>a, <2>1 DEF QueueInv
<1>5. CASE IdleOn(p)
  BY <1>5, <1>a DEF IdleOn, QueueInv, PacerInOrder
<1> QED
  BY <1>1, <1>2, <1>3, <1>4, <1>5, NextOn

\* The invariant holds at first.
LEMMA InitIInv == Init => IInv
<1> SUFFICES ASSUME Init PROVE IInv
  OBVIOUS
<1>1. DomainInv
  BY DEF Init, DomainInv
<1>2. ASSUME NEW p \in Paths PROVE TypeInv(p) /\ PlaceInv(p) /\ QuietInv(p) /\ QueueInv(p)
  <2>1. /\ trans_seq[p] = 1 % SeqSpace /\ log[p] = <<>> /\ sent[p] = <<>> /\ pacer[p] = <<>>
        /\ buf[p] = <<>> /\ len[p] = 0 /\ pending_len[p] = 0 /\ overflow[p] = 0 /\ freed[p] = 0
        /\ p \notin pacing
    BY DEF Init
  <2>2. SeqSpace \in Nat \ {0} /\ 1 \in Nat
    BY MultipathSenderAssumption
  <2>3. 1 % SeqSpace \in 0..(SeqSpace - 1)
    BY <2>2
  <2>4. DOMAIN buf[p] = {} /\ Len(log[p]) = 0 /\ Len(sent[p]) = 0 /\ Len(pacer[p]) = 0
    BY <2>1
  <2>5. Cardinality(DOMAIN buf[p]) = 0
    BY <2>4, FS_EmptySet, Zenon
  <2>6. TypeInv(p)
    <3>1. buf[p] \in [DOMAIN buf[p] -> 1..Len(log[p])]
      BY <2>1
    <3>2. log[p] \in Seq([fid : 1..(frame_seed - 1), index : 0..(MaxSplit - 1)])
          /\ sent[p] \in Seq(1..Len(log[p])) /\ pacer[p] \in Seq(TransSeqs)
      BY <2>1, EmptySeq
    <3> QED
      BY <2>1, <2>3, <2>4, <3>1, <3>2 DEF TypeInv, TransSeqs
  <2>7. PlaceInv(p)
    BY <2>1, <2>4, <2>5 DEF PlaceInv
  <2>8. QuietInv(p)
    BY <2>1 DEF QuietInv
  <2>9. QueueInv(p)
    BY <2>1, <2>4 DEF QueueInv, PacerInOrder
  <2> QED
    BY <2>6, <2>7, <2>8, <2>9
<1> QED
  BY <1>1, <1>2, InitConn DEF IInv

\* Every step keeps the invariant.
LEMMA NextIInv == IInv /\ [Next]_vars => IInv'
<1> SUFFICES ASSUME IInv, [Next]_vars PROVE IInv'
  OBVIOUS
<1>1. ConnInv' /\ DomainInv'
  BY NextConn, NextDomain DEF IInv
<1>2. ASSUME NEW p \in Paths PROVE (TypeInv(p) /\ PlaceInv(p) /\ QuietInv(p) /\ QueueInv(p))'
  BY NextType, NextPlace, NextQuiet, NextQueue
<1> QED
  BY <1>1, <1>2 DEF IInv

\* The inductive invariant holds throughout.
LEMMA AlwaysIInv == Spec => []IInv
<1>1. Init => IInv
  BY InitIInv
<1>2. IInv /\ [Next]_vars => IInv'
  BY NextIInv
<1> QED
  BY <1>1, <1>2, PTL DEF Spec

-----------------------------------------------------------------------------
(***************************************************************************)
(* The properties of MultipathSender.                                      *)
(***************************************************************************)
\* The type invariant follows.
LEMMA TypesFollow == IInv => TypeOK
<1> SUFFICES ASSUME IInv PROVE TypeOK
  OBVIOUS
<1>1. ConnInv /\ DomainInv
  BY DEF IInv
<1>2. ASSUME NEW p \in Paths PROVE TypeInv(p)
  BY DEF IInv
<1>3. /\ state \in [Paths -> PathState]
      /\ rx_timer \cup connects \cup acks \cup syn_path \cup usable_path
            \cup pids \cup pacing \subseteq Paths
      /\ path_stop \in [Paths -> BOOLEAN]
      /\ frame_seed \in 1..(MaxFrames + 1)
      /\ lost \in Nat
  BY <1>1 DEF ConnInv
<1>4. {stop, running, late} \subseteq BOOLEAN
  <2>1. stop \in BOOLEAN /\ running \in BOOLEAN /\ late \in BOOLEAN
    BY <1>1 DEF ConnInv
  <2> QED
    BY <2>1, Zenon
<1>5. trans_seq \in [Paths -> TransSeqs]
  <2>1. trans_seq = [p \in Paths |-> trans_seq[p]]
    BY <1>1 DEF DomainInv
  <2>2. \A p \in Paths : trans_seq[p] \in TransSeqs
    BY <1>2 DEF TypeInv
  <2> QED
    BY <2>1, <2>2
<1>6. ASSUME NEW p \in Paths
      PROVE  /\ DOMAIN buf[p] \subseteq TransSeqs
             /\ \A q \in DOMAIN buf[p] : buf[p][q] \in DOMAIN log[p]
             /\ pacer[p] \in Seq(TransSeqs)
             /\ \A k \in DOMAIN log[p] :
                   log[p][k] \in [fid : 1..(frame_seed - 1), index : 0..(MaxSplit - 1)]
             /\ sent[p] \in Seq(DOMAIN log[p])
             /\ {len[p], pending_len[p], overflow[p], freed[p]} \subseteq Nat
  <2>1. /\ DOMAIN log[p] = 1..Len(log[p])
        /\ \A q \in DOMAIN buf[p] : buf[p][q] \in 1..Len(log[p])
    BY <1>1, <1>2, PathFacts
  <2>2. \A k \in 1..Len(log[p]) :
           log[p][k] \in [fid : 1..(frame_seed - 1), index : 0..(MaxSplit - 1)]
    BY <1>2, ElementOfSeq DEF TypeInv
  <2> QED
    BY <1>2, <2>1, <2>2 DEF TypeInv
<1> QED
  BY <1>3, <1>4, <1>5, <1>6 DEF TypeOK

\* However Connect, acks, Stop and frames interleave, every segment the scheduler
\* hands out is taken by its path, and it has a path to choose.
THEOREM NothingEverLost == Spec => []NothingLost
<1>1. IInv => NothingLost
  BY TypesFollow DEF IInv, ConnInv, NothingLost
<1> QED
  BY <1>1, AlwaysIInv, PTL

\* Every segment a path took is buffered, sent, freed or found its slot taken,
\* and is sent at most once; len_ counts what is buffered and what found its
\* slot taken, and until Stop pending_len_ counts the same.
THEOREM SegmentsAlwaysAccounted == Spec => []SegmentsAccounted
<1>1. IInv => SegmentsAccounted
  <2> SUFFICES ASSUME IInv, NEW p \in Paths
               PROVE  /\ Len(log[p]) = Cardinality(DOMAIN buf[p]) + Len(sent[p]) + freed[p]
                            + overflow[p]
                      /\ Cardinality(Buffered(p)) = Cardinality(DOMAIN buf[p])
                      /\ IsInjective(sent[p])
                      /\ Buffered(p) \cap ToSet(sent[p]) = {}
                      /\ len[p] = Cardinality(DOMAIN buf[p]) + overflow[p]
                      /\ ~path_stop[p] => pending_len[p] = len[p]
    BY DEF SegmentsAccounted
  <2>1. PlaceInv(p) /\ TypeInv(p) /\ DomainInv
    BY DEF IInv
  <2>2. IsFiniteSet(DOMAIN buf[p]) /\ DOMAIN sent[p] = 1..Len(sent[p])
    BY <2>1, PathFacts
  <2>3. Cardinality(Buffered(p)) = Cardinality(DOMAIN buf[p])
    <3> DEFINE D == DOMAIN buf[p]
               f == buf[p]
               R == Buffered(p)
    <3>1. f \in [D -> R] /\ \A x \in R : \E q \in D : f[q] = x
      BY <2>1 DEF TypeInv, Buffered
    <3>2. \A q, r \in D : f[q] = f[r] => q = r
      BY <2>1 DEF PlaceInv
    <3>3. IsFiniteSet(D)
      BY <2>2
    <3> HIDE DEF D, f, R
    <3>4. f \in Surjection(D, R)
      BY <3>1 DEF Surjection
    <3>5. f \in Injection(D, R)
      BY <3>1, <3>2 DEF Injection, IsInjective
    <3>6. Cardinality(R) = Cardinality(D)
      BY <3>3, <3>4, <3>5, FS_Surjection
    <3> QED
      BY <3>6 DEF D, R
  <2>4. IsInjective(sent[p])
    BY <2>1, <2>2 DEF PlaceInv, IsInjective
  <2>5. Buffered(p) \cap ToSet(sent[p]) = {}
    BY <2>1, <2>2 DEF PlaceInv, Buffered, ToSet
  <2> QED
    BY <2>1, <2>3, <2>4, <2>5 DEF PlaceInv
<1> QED
  BY <1>1, AlwaysIInv, PTL

\* After Stop no path has a segment buffered, although paths may still connect and
\* start the source again, and timers and the pacer's queue live on.
THEOREM AlwaysQuietAfterStop == Spec => []QuietAfterStop
<1>1. IInv => QuietAfterStop
  BY DEF IInv, ConnInv, QuietInv, QuietAfterStop
<1> QED
  BY <1>1, AlwaysIInv, PTL

\* A segment overtakes an earlier one of its path only after a segment found its
\* slot taken or, on a path that paces itself, where the transport seq wraps around
\* within the buffer.
THEOREM OrderAlwaysKept == Spec => OrderKept
<1>1. IInv /\ [Next]_vars =>
        [\A p \in Paths : sent'[p] # sent[p] /\ Overtakes(p) =>
              overflow[p] > 0 \/ (PaceMode[p] = "no_webrtc" /\ Wrapped(p))]_vars
  <2> SUFFICES ASSUME IInv, [Next]_vars, NEW p \in Paths, sent'[p] # sent[p], Overtakes(p)
               PROVE  overflow[p] > 0 \/ (PaceMode[p] = "no_webrtc" /\ Wrapped(p))
    OBVIOUS
  <2>1. ConnInv /\ DomainInv /\ TypeInv(p) /\ PlaceInv(p) /\ QuietInv(p) /\ QueueInv(p)
    BY DEF IInv
  <2>2. PICK id : SendOn(p, id)
    BY NextOn DEF FrameOn, PutOn, SkipOn, FreeOn, IdleOn
  <2>3. id \in DOMAIN buf[p]
    BY <2>2 DEF SendOn
  <2>4. Last(sent'[p]) = buf[p][id]
    <3>1. sent'[p][Len(sent[p]) + 1] = buf[p][id] /\ Len(sent'[p]) = Len(sent[p]) + 1
      BY <2>1, <2>2, SendFacts
    <3> QED
      BY <3>1 DEF Last
  <2>5. PICK r \in DOMAIN buf[p] : buf[p][r] < buf[p][id]
    BY <2>4 DEF Overtakes, Buffered
  <2>6. /\ r \in Nat /\ id \in Nat /\ buf[p][r] \in Nat /\ buf[p][id] \in Nat
    <3>1. \A q \in DOMAIN buf[p] : q \in Nat /\ buf[p][q] \in 1..Len(log[p])
      BY <2>1, PathFacts
    <3> QED
      BY <2>3, <3>1
  <2>7. CASE PaceMode[p] = "no_webrtc"
    <3>1. id <= r
      BY <2>2, <2>7 DEF SendOn
    <3>2. id # r
      BY <2>5, <2>6
    <3>3. id < r /\ buf[p][id] > buf[p][r]
      BY <2>5, <2>6, <3>1, <3>2
    <3> QED
      BY <2>3, <2>7, <3>3 DEF Wrapped
  <2>8. CASE PaceMode[p] # "no_webrtc"
    <3> SUFFICES ASSUME overflow[p] = 0 PROVE FALSE
      <4>1. overflow[p] \in Nat
        BY <2>1 DEF TypeInv
      <4> QED
        BY <4>1
    <3>1. PacerInOrder(p)
      BY <2>1, <2>2, <2>8 DEF QueueInv, SendOn
    <3>2. Len(pacer[p]) \in Nat \ {0} /\ id = pacer[p][1]
      BY <2>1, <2>2, <2>8, EmptySeq DEF SendOn, TypeInv
    <3>3. PICK k \in 1..Len(pacer[p]) : pacer[p][k] = r
      BY <3>1 DEF PacerInOrder
    <3>4. k # 1
      BY <2>5, <2>6, <3>2, <3>3
    <3>5. 1 \in 1..Len(pacer[p]) /\ 1 < k
      BY <3>2, <3>4
    <3>6. buf[p][pacer[p][1]] < buf[p][pacer[p][k]]
      BY <3>1, <3>5 DEF PacerInOrder
    <3> QED
      BY <2>5, <2>6, <3>2, <3>3, <3>6
  <2> QED
    BY <2>7, <2>8
<1> QED
  BY <1>1, AlwaysIInv, PTL DEF Spec, OrderKept
=============================================================================
