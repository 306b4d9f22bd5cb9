------------------------- MODULE FrameDecoderProofs -------------------------
(***************************************************************************)
(* The decoder under its reader, for every stream of frames, every cut of  *)
(* it into reads and every value of the limits that leaves room for a read *)
(* (BufferHoldsRead): no legal frame is ever refused.  The reader's loop   *)
(* is ReaderLoop reduced to its calls of the decoder, in their order.      *)
(***************************************************************************)
EXTENDS FrameDecoder, TLAPS

VARIABLE step

loopVars == <<decoderVars, step>>

Frame == [metadata : Nat, body : Nat, valid : BOOLEAN]

\* An endless stream; of one that ends the reader sees a prefix.
LoopInit ==
    /\ frames \in [Nat \ {0} -> Frame]
    /\ DecoderInit
    /\ step = "receive"

Receive ==
    /\ step = "receive"
    /\ \/ PrepareWritable(ReadSize) /\ step' = "read"
       \/ PrepareRefused(ReadSize) /\ step' = "closed"

Read ==
    /\ step = "read"
    /\ \E n \in 0..ReadSize : CommitWritable(n)
    /\ step' = "decode"

Decode ==
    /\ step = "decode"
    /\ \/ DecodeHeader /\ step' = step
       \/ TakeFrame /\ step' = step
       \/ Starved /\ step' = "receive" /\ UNCHANGED decoderVars
       \/ dstate = "FAILED" /\ step' = "closed" /\ UNCHANGED decoderVars

LoopNext == Receive \/ Read \/ Decode

LoopSpec == LoopInit /\ [][LoopNext]_loopVars

\* Inductive: the reader asks for room only when the decoder is starved and holds
\* no prepared room, so what it holds is less than a header or a payload.
LoopInv ==
    /\ StreamDecoded
    /\ frames \in [Nat \ {0} -> Frame]
    /\ step \in {"receive", "read", "decode", "closed"}
    /\ step = "receive" => Starved /\ prepared = 0
    /\ step = "read" => prepared = ReadSize
    /\ step = "decode" => prepared = 0

USE DEF StreamDecoded, DecoderTypeOK, WithinBuffer, InStep, RefusedForCause, AtFrame, ReadableBytes,
        Starved, Payload, Legal

\* The frame that is due has lengths that are numbers.
LEMMA FrameDue ==
    ASSUME LoopInv
    PROVE  /\ frames[next] \in Frame
           /\ frames[next].metadata \in Nat /\ frames[next].body \in Nat
           /\ Legal(frames[next]) => Payload(frames[next]) <= MaxMetadata + MaxBody
<1>1. frames[next] \in Frame
  BY DEF LoopInv
<1>2. frames[next].metadata \in Nat /\ frames[next].body \in Nat
  BY <1>1 DEF Frame
<1> QED
  BY <1>1, <1>2, SizesAreNaturals

\* A starved decoder always finds room for one read: PrepareWritable is never
\* refused (frame.cpp 192-208).
LEMMA RoomToRead ==
    ASSUME LoopInv, Starved, prepared = 0
    PROVE  /\ CanPrepare(ReadSize)
           /\ SizeFor(ReadSize) \in Nat /\ ReadSize <= MaxBuffer - SizeFor(ReadSize)
<1>1. ReadableBytes < HeaderSize \/ ReadableBytes < MaxMetadata + MaxBody
  BY FrameDue, SizesAreNaturals DEF LoopInv
<1>2. ReadSize <= MaxBuffer - ReadableBytes
  BY <1>1, SizesAreNaturals, BufferHoldsRead DEF LoopInv
<1>3. CASE Compacts(ReadSize)
  BY <1>2, <1>3, SizesAreNaturals DEF LoopInv, SizeFor, CanPrepare
<1>4. CASE ~Compacts(ReadSize)
  BY <1>4, SizesAreNaturals DEF LoopInv, SizeFor, CanPrepare, Compacts
<1> QED
  BY <1>3, <1>4

LEMMA LoopInitial == LoopInit => LoopInv
  BY SizesAreNaturals DEF LoopInit, LoopInv, DecoderInit

LEMMA LoopInductive == LoopInv /\ [LoopNext]_loopVars => LoopInv'
<1> SUFFICES ASSUME LoopInv, [LoopNext]_loopVars PROVE LoopInv'
  OBVIOUS
<1>0. /\ frames[next].metadata \in Nat /\ frames[next].body \in Nat
      /\ Legal(frames[next]) => Payload(frames[next]) <= MaxMetadata + MaxBody
  BY FrameDue
<1>1. CASE Receive
  <2>1. /\ CanPrepare(ReadSize) /\ SizeFor(ReadSize) \in Nat
        /\ ReadSize <= MaxBuffer - SizeFor(ReadSize)
    BY <1>1, RoomToRead DEF LoopInv, Receive
  <2>2. PrepareWritable(ReadSize) /\ step' = "read"
    BY <1>1, <2>1, SizesAreNaturals DEF Receive, PrepareRefused
  <2>3. base' \in Nat /\ offset' \in Nat /\ size' \in Nat /\ base' + offset' = base + offset
    BY <2>1, <2>2 DEF PrepareWritable, LoopInv
  <2>4. offset' <= size'
    BY <2>2 DEF PrepareWritable, LoopInv, SizeFor
  <2>5. capacity' \in Nat /\ size' + ReadSize <= capacity' /\ capacity' <= MaxBuffer
    BY <2>1, <2>2, SizesAreNaturals DEF PrepareWritable, LoopInv, MaxOf, MinOf
  <2> QED
    BY <2>2, <2>3, <2>4, <2>5, SizesAreNaturals DEF PrepareWritable, LoopInv
<1>2. CASE Read
  <2>1. PICK n \in 0..ReadSize : CommitWritable(n)
    BY <1>2 DEF Read
  <2> QED
    BY <1>2, <2>1, SizesAreNaturals DEF Read, CommitWritable, LoopInv
<1>3. CASE Decode
  <2>1. CASE DecodeHeader /\ step' = step
    BY <1>0, <1>3, <2>1, SizesAreNaturals DEF Decode, DecodeHeader, LoopInv
  <2>2. CASE TakeFrame /\ step' = step
    BY <1>0, <1>3, <2>2, SizesAreNaturals DEF Decode, TakeFrame, LoopInv
  <2>3. CASE Starved /\ step' = "receive" /\ UNCHANGED decoderVars
    BY <1>3, <2>3 DEF Decode, LoopInv, decoderVars
  <2>4. CASE dstate = "FAILED" /\ step' = "closed" /\ UNCHANGED decoderVars
    BY <1>3, <2>4 DEF Decode, LoopInv, decoderVars
  <2> QED
    BY <1>3, <2>1, <2>2, <2>3, <2>4 DEF Decode
<1>4. CASE UNCHANGED loopVars
  BY <1>4 DEF LoopInv, loopVars, decoderVars
<1> QED
  BY <1>1, <1>2, <1>3, <1>4 DEF LoopNext

\* For every stream, every cut and all limits: the decoder returns the frames whole
\* and in order, keeps within its buffer, and fails only at a frame that is not
\* legal (FrameDecoder as ReaderLoop uses it).
THEOREM DecoderIsFaithful == LoopSpec => []StreamDecoded
<1>1. LoopInv => StreamDecoded
  BY DEF LoopInv
<1> QED
  BY <1>1, LoopInitial, LoopInductive, PTL DEF LoopSpec

\* The reader is never told that there is no room: the only way it closes the
\* connection over its input is a frame that is not legal (rpc_server.cpp 869-873).
THEOREM RoomIsNeverRefused == LoopSpec => [][step = "receive" => step' # "closed"]_loopVars
<1>1. LoopInv /\ [LoopNext]_loopVars => [step = "receive" => step' # "closed"]_loopVars
  <2> SUFFICES ASSUME LoopInv, LoopNext, step = "receive" PROVE step' # "closed"
    BY DEF loopVars
  <2>1. CanPrepare(ReadSize) /\ ReadSize <= MaxBuffer - SizeFor(ReadSize) /\ SizeFor(ReadSize) \in Nat
    BY RoomToRead DEF LoopInv
  <2> QED
    BY <2>1, SizesAreNaturals DEF LoopNext, Receive, Read, Decode, PrepareRefused
<1> QED
  BY <1>1, LoopInitial, LoopInductive, PTL DEF LoopSpec
=============================================================================
