-------------------------------- MODULE Wire --------------------------------
(***************************************************************************)
(* The messages of sim_proto as they go over the wire, as far as the       *)
(* agents use them: SIM_SEG and SIM_FEEDBACK.                              *)
(*                                                                         *)
(* A bin_stream_t is the sequence of the fields written to it, each with   *)
(* its number of bytes.  What is written to 1 or 2 bytes keeps only its    *)
(* low bits.  The decoder reads field after field; a read with the wrong   *)
(* number of bytes gives Garbage, and one past the end 0.  The checksum is *)
(* the content itself, so it fails to match whatever is not as written.    *)
(***************************************************************************)
EXTENDS Integers, Sequences

CONSTANTS
    W8,              \* values of one byte (2^8 in the code)
    W16,             \* values of two bytes (2^16 in the code)
    SIM_VIDEO_SIZE,  \* the most a segment carries
    Garbage          \* what a read that is not aligned gives

ASSUME WireAssumption ==
    /\ W8 \in Nat \ {0} /\ W16 \in Nat \ {0}
    /\ SIM_VIDEO_SIZE \in 1..(W16 - 1)
    /\ Garbage \notin Nat

U8_MAX == W8 - 1
U16_MAX == W16 - 1
-----------------------------------------------------------------------------
\* The writers mach_uint8_write, mach_uint16_write and mach_uint32_write, and
\* mach_data_write: the size goes before the block.
uint8(v) == [bytes |-> 1, value |-> v % W8]
uint16(v) == [bytes |-> 2, value |-> v % W16]
uint32(v) == [bytes |-> 4, value |-> v]
data(v, size) == <<uint16(size), [bytes |-> size, value |-> v]>>

\* Field k of strm read as one of n bytes: right while everything before it was
\* read as it was written.
Read(strm, k, n) ==
    IF k > Len(strm) THEN 0
    ELSE IF strm[k].bytes = n THEN strm[k].value ELSE Garbage

\* mach_data_read of the size in field k and the block behind it: what is
\* longer than limit, or than the stream, has size 0.
ReadData(strm, k, limit) ==
    LET len == Read(strm, k, 2)
    IN  IF len = Garbage THEN [data_size |-> Garbage, data |-> Garbage]
        ELSE IF len > limit \/ k + 1 > Len(strm)
        THEN [data_size |-> 0, data |-> Garbage]
        ELSE [data_size |-> len, data |-> Read(strm, k + 1, len)]
-----------------------------------------------------------------------------
\* The header, and the checksum behind the body.
EncodeMsg(header, body) ==
    LET strm == <<uint8(header.ver), [bytes |-> 1, value |-> header.mid], uint32(header.uid)>>
                    \o body
    IN  Append(strm, [bytes |-> 4, value |-> strm])

\* sim_decode_header: nothing is read unless the checksum is right.
CrcOK(strm) == strm[Len(strm)].value = SubSeq(strm, 1, Len(strm) - 1)
DecodeHeader(strm) == [ver |-> Read(strm, 1, 1), mid |-> Read(strm, 2, 1), uid |-> Read(strm, 3, 4)]

\* The body of a message is between the header and the checksum, which the
\* decoder does not hide from the body's fields.
Rest(strm) == SubSeq(strm, 4, Len(strm))
-----------------------------------------------------------------------------
\* Faulty variant: the bound itself counts as too large.
MaskAtBound(seg) ==
    [packet_id |-> seg.packet_id >= U16_MAX, fid |-> seg.fid >= U16_MAX,
     total |-> seg.total >= U8_MAX, remb |-> seg.remb = 0]

\* The bits of the mask say which numbers are written at their full width.
Mask(seg) ==
    [packet_id |-> seg.packet_id > U16_MAX, fid |-> seg.fid > U16_MAX,
     total |-> seg.total > U8_MAX, remb |-> seg.remb = 0]

\* sim_segment_encode compares each number again when it writes it.
SegmentEncode(seg) ==
    << [bytes |-> 1, value |-> Mask(seg)],
       uint8(seg.payload_type),
       IF seg.packet_id > U16_MAX THEN uint32(seg.packet_id) ELSE uint16(seg.packet_id),
       IF seg.fid > U16_MAX THEN uint32(seg.fid) ELSE uint16(seg.fid),
       uint32(seg.timestamp),
       IF seg.total > U8_MAX THEN uint16(seg.index) ELSE uint8(seg.index),
       IF seg.total > U8_MAX THEN uint16(seg.total) ELSE uint8(seg.total),
       uint16(seg.send_ts),
       uint16(seg.transport_seq) >>
    \o data(seg.data, seg.data_size)

SegmentDecode(strm) ==
    LET mask == Read(strm, 1, 1)
        Width(cond, wide, narrow) == IF cond THEN wide ELSE narrow
    IN  [payload_type |-> Read(strm, 2, 1),
         packet_id |-> Read(strm, 3, Width(mask.packet_id, 4, 2)),
         fid |-> Read(strm, 4, Width(mask.fid, 4, 2)),
         timestamp |-> Read(strm, 5, 4),
         index |-> Read(strm, 6, Width(mask.total, 2, 1)),
         total |-> Read(strm, 7, Width(mask.total, 2, 1)),
         remb |-> IF mask.remb THEN 0 ELSE U8_MAX,
         send_ts |-> Read(strm, 8, 2),
         transport_seq |-> Read(strm, 9, 2),
         data_size |-> ReadData(strm, 10, SIM_VIDEO_SIZE).data_size,
         data |-> ReadData(strm, 10, SIM_VIDEO_SIZE).data]

FeedbackEncode(fb) ==
    <<uint32(fb.base_packet_id)>> \o data(fb.feedback, fb.feedback_size)

FeedbackDecode(strm, SIM_FEEDBACK_SIZE) ==
    LET d == ReadData(strm, 2, SIM_FEEDBACK_SIZE)
    IN  [base_packet_id |-> Read(strm, 1, 4), feedback_size |-> d.data_size, feedback |-> d.data]
=============================================================================
