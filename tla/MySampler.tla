----------------------------- MODULE MySampler -----------------------------
(***************************************************************************)
(* The bandwidth sampler of congestion/sampler.cc, as a record and one     *)
(* operator per member function.  Byte counts are kept, because the code   *)
(* subtracts them as unsigned numbers.  Times are left out.                *)
(***************************************************************************)
EXTENDS Integers, Functions

(* map::insert leaves the value of a key that is there.                    *)
Insert(f, k, v) ==
    [x \in DOMAIN f \cup {k} |-> IF x \in DOMAIN f THEN f[x] ELSE v]

NoSamples == [sent |-> 0,         \* total_bytes_sent_
              acked |-> 0,        \* total_bytes_acked_
              sentAtLast |-> 0,   \* total_bytes_sent_at_last_acked_packet_
              infos |-> <<>>]     \* packet_infos_

(* PacketState: the totals at the time packet_number is sent.              *)
Snapshot(s, bytes) ==
    [size |-> bytes, sent |-> s.sent, sentAtLast |-> s.sentAtLast, acked |-> s.acked]

(* Faulty variant: the snapshot is taken before the packet is counted.     *)
SamplerSentLate(s, n, bytes, inFlight) ==
    LET total == s.sent + bytes
        t == [s EXCEPT !.sentAtLast = IF inFlight = 0 THEN total ELSE @]
    IN  [t EXCEPT !.infos = Insert(@, n, Snapshot(t, bytes)), !.sent = total]

SamplerSent(s, n, bytes, inFlight) ==
    LET total == s.sent + bytes
        t == [s EXCEPT !.sent = total,
                       !.sentAtLast = IF inFlight = 0 THEN total ELSE @]
    IN  [t EXCEPT !.infos = Insert(@, n, Snapshot(t, bytes))]

PacketInfoRemove(s, gone) ==
    [s EXCEPT !.infos = Restrict(@, DOMAIN @ \ gone)]

(* OnPacketAcknowledged with OnPacketAcknowledgedInner.  What rate comes   *)
(* out is a choice of the congestion controller's model.                   *)
SamplerAcked(s, n) ==
    IF n \notin DOMAIN s.infos THEN s
    ELSE LET p == s.infos[n]
         IN  PacketInfoRemove([s EXCEPT !.acked = @ + p.size,
                                        !.sentAtLast = p.sent], {n})
=============================================================================
