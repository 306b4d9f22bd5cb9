---------------------------- MODULE FrameDecoder ----------------------------
(***************************************************************************)
(* The incremental frame decoder of a connection.  Its reader asks for     *)
(* room, receives as many bytes of the peer's stream as there happen to    *)
(* be, and takes the frames they complete, until the decoder needs more.   *)
(*                                                                         *)
(* Bytes are numbered by their place in the stream.  The buffer always     *)
(* holds a stretch of it, so its contents are its first byte (base) and    *)
(* its length (size): memmove and reallocation keep the stretch, and move  *)
(* base and offset.  The bytes of a header are only a header where a frame *)
(* starts; anywhere else they are payload and fail the checks of           *)
(* DecodeHeader.                                                           *)
(***************************************************************************)
EXTENDS Integers, Sequences

CONSTANTS
    HeaderSize,      \* kFixedHeaderSize
    MaxMetadata,     \* FrameLimits::max_metadata_size
    MaxBody,         \* FrameLimits::max_body_size
    MaxBuffer,       \* FrameLimits::max_buffer_size
    FirstCapacity,   \* what EnsureWritable allocates at least
    ReadSize         \* kReadSize of the reader

ASSUME SizesAreNaturals ==
    /\ HeaderSize \in Nat \ {0} /\ ReadSize \in Nat \ {0}
    /\ MaxMetadata \in Nat /\ MaxBody \in Nat /\ MaxBuffer \in Nat /\ FirstCapacity \in Nat

\* The constructor raises max_buffer_size to one whole frame.
ASSUME BufferHoldsFrame == MaxBuffer >= HeaderSize + MaxMetadata + MaxBody

\* The limits of frame.h leave room for one read behind all but the last byte of
\* the largest frame: 64 KiB + 16 MiB - 1 + 16 KiB < 17 MiB.
ASSUME BufferHoldsRead ==
    /\ MaxBuffer >= MaxMetadata + MaxBody - 1 + ReadSize
    /\ MaxBuffer >= HeaderSize - 1 + ReadSize

VARIABLES
    frames,     \* what the peer sends
    dstate,     \* state_
    base,       \* the place in the stream of the first byte of buffer_
    size,       \* buffer_size_
    capacity,   \* buffer_capacity_
    prepared,   \* prepared_size_
    offset,     \* read_offset_
    payload,    \* pending_metadata_size_ + pending_body_size_
    next,       \* the frame that is returned next
    start       \* where it starts in the stream

decoderVars == <<frames, dstate, base, size, capacity, prepared, offset, payload, next, start>>

Payload(f) == f.metadata + f.body

\* A header the decoder accepts: magic, version, type, reserved bytes and request
\* id are right (valid), and the lengths are within the limits.
Legal(f) == f.valid /\ f.metadata <= MaxMetadata /\ f.body <= MaxBody

DecoderInit ==
    /\ dstate = "READ_FIXED_HEADER"
    /\ base = 0 /\ size = 0 /\ capacity = 0 /\ prepared = 0 /\ offset = 0 /\ payload = 0
    /\ next = 1 /\ start = 0

ReadableBytes == size - offset
-----------------------------------------------------------------------------
(* PrepareWritable: CompactBuffer when the bytes do not fit, EnsureWritable.*)

MaxOf(a, b) == IF a > b THEN a ELSE b
MinOf(a, b) == IF a < b THEN a ELSE b

\* Fault: only a full buffer is compacted.
CompactsWhenFull(n) == capacity = size

Compacts(n) == n > capacity - size

SizeFor(n) == IF Compacts(n) THEN ReadableBytes ELSE size

CanPrepare(n) == dstate # "FAILED" /\ n # 0 /\ prepared = 0

PrepareWritable(n) ==
    /\ CanPrepare(n) /\ n <= MaxBuffer - SizeFor(n)
    /\ base' = IF Compacts(n) THEN base + offset ELSE base
    /\ offset' = IF Compacts(n) THEN 0 ELSE offset
    /\ size' = SizeFor(n)
    /\ capacity' = IF SizeFor(n) + n <= capacity THEN capacity
                   ELSE MinOf(MaxOf(MaxOf(FirstCapacity, 2 * capacity), SizeFor(n) + n), MaxBuffer)
    /\ prepared' = n
    /\ UNCHANGED <<frames, dstate, payload, next, start>>

\* A null pointer: either nothing was tried, or the buffer limit is exceeded.
PrepareRefused(n) ==
    \/ /\ ~CanPrepare(n)
       /\ UNCHANGED decoderVars
    \/ /\ CanPrepare(n) /\ n > MaxBuffer - SizeFor(n)
       /\ base' = IF Compacts(n) THEN base + offset ELSE base
       /\ offset' = IF Compacts(n) THEN 0 ELSE offset
       /\ size' = SizeFor(n)
       /\ dstate' = "FAILED"
       /\ UNCHANGED <<frames, capacity, prepared, payload, next, start>>

\* CommitWritable of what the read returned, at most what was prepared.
CommitWritable(n) ==
    /\ prepared # 0 /\ n <= prepared
    /\ size' = size + n
    /\ prepared' = 0
    /\ UNCHANGED <<frames, dstate, base, capacity, offset, payload, next, start>>
-----------------------------------------------------------------------------
(* NextView                                                                *)

Starved ==
    \/ dstate = "READ_FIXED_HEADER" /\ ReadableBytes < HeaderSize
    \/ dstate = "READ_METADATA" /\ ReadableBytes < payload

\* DecodeHeader and ValidateHeader
AtFrame == base + offset = start

DecodeHeader ==
    /\ dstate = "READ_FIXED_HEADER" /\ ~Starved
    /\ \/ /\ AtFrame /\ Legal(frames[next])
          /\ payload' = Payload(frames[next])
          /\ offset' = offset + HeaderSize
          /\ dstate' = "READ_METADATA"
       \/ /\ ~(AtFrame /\ Legal(frames[next]))
          /\ dstate' = "FAILED"
          /\ UNCHANGED <<payload, offset>>
    /\ UNCHANGED <<frames, base, size, capacity, prepared, next, start>>

\* FRAME_READY: the views are the bytes from offset on.
TakeFrame ==
    /\ dstate = "READ_METADATA" /\ ~Starved
    /\ offset' = offset + payload
    /\ dstate' = "READ_FIXED_HEADER"
    /\ next' = next + 1
    /\ start' = start + HeaderSize + Payload(frames[next])
    /\ UNCHANGED <<frames, base, size, capacity, prepared, payload>>
-----------------------------------------------------------------------------
DecoderTypeOK ==
    /\ dstate \in {"READ_FIXED_HEADER", "READ_METADATA", "FAILED"}
    /\ base \in Nat /\ size \in Nat /\ capacity \in Nat /\ prepared \in Nat
    /\ offset \in Nat /\ payload \in Nat /\ next \in Nat \ {0} /\ start \in Nat

\* The decoder stands at the header of the next frame the peer sent, or at its
\* payload and knows its length.
InStep ==
    /\ dstate = "READ_FIXED_HEADER" => AtFrame
    /\ dstate = "READ_METADATA" =>
          /\ base + offset = start + HeaderSize
          /\ Legal(frames[next]) /\ payload = Payload(frames[next])

\* No cut of legal frames exceeds the buffer limit or is mistaken for a bad header.
RefusedForCause == dstate = "FAILED" => ~Legal(frames[next])

\* The offsets never pass the bytes they count, nor these the allocation.
WithinBuffer ==
    /\ offset <= size /\ size + prepared <= capacity /\ capacity <= MaxBuffer

\* However the stream is cut into reads, the decoder never refuses a legal frame,
\* returns the frames whole and in the order the peer sent them, and stays within
\* its buffer (frame.cpp 192-272, 286-379).
StreamDecoded == DecoderTypeOK /\ WithinBuffer /\ InStep /\ RefusedForCause
=============================================================================
