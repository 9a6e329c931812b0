------------------------------- MODULE TfSync -------------------------------
(***************************************************************************)
(* kble-c2a tfsync: AosTransferFrameCodec::decode (kble-c2a/src/tfsync.rs) *)
(* and the loop of run_tfsync around it, which cut AOS transfer frames out *)
(* of a byte stream that arrives in messages of any size.                  *)
(*                                                                         *)
(* A frame is recognised by the two upper bits of its first byte and by    *)
(* the first two bytes of its trailer; one step is one turn of the loop in *)
(* decode.  `taken` counts the bytes that have left the codec's buffer, so *)
(* that byte n of the buffer is byte taken + n of the stream.              *)
(***************************************************************************)
EXTENDS Integers, Sequences

CONSTANTS FrameSize, TrailerSize,
          Byte,              \* the byte values the stream may hold
          MaxChunk,          \* bound: bytes in one message
          MaxInput           \* bound: bytes in the stream

ASSUME SizesAssumption ==
  /\ FrameSize \in Nat
  /\ TrailerSize \in 2 .. FrameSize - 1
ASSUME ByteAssumption == Byte \subseteq 0 .. 255
ASSUME BoundsAssumption == MaxChunk \in Nat /\ MaxInput \in Nat

VARIABLES input,             \* the bytes received so far
          buf,               \* AosTransferFrameCodec.buf
          taken,             \* how many bytes have left buf
          starts,            \* where in the stream the frames of `out` began
          out,               \* the frames given to send; while pc is "sending"
                             \* the last is still on its way
          pc                 \* "idle": awaits a message

vars == <<input, buf, taken, starts, out, pc>>

TypeOK ==
  /\ input \in Seq(Byte)
  /\ buf \in Seq(Byte)
  /\ taken \in Nat
  /\ starts \in Seq(Nat)
  /\ out \in Seq([1 .. FrameSize -> Byte])
  /\ pc \in {"idle", "decoding", "sending", "ended"}

Init ==
  /\ input = <<>>
  /\ buf = <<>>
  /\ taken = 0
  /\ starts = <<>>
  /\ out = <<>>
  /\ pc = "idle"
-----------------------------------------------------------------------------
(* b & HEADER_MASK == HEADER_PATTERN                                       *)
IsHeader(b) == b \div 64 = 1

(* b & TRAILER_MASK == TRAILER_PATTERN, for the two bytes of the trailer   *)
IsTrailer(b1, b2) == b1 \div 32 = 0 /\ b1 % 4 = 1 /\ b2 = 0

TrailerOneLate(bytes, i) ==                              \* mutant of TrailerAt
  IsTrailer(bytes[i + FrameSize - TrailerSize - 1], bytes[i + FrameSize - TrailerSize])

TrailerAt(bytes, i) ==
  IsTrailer(bytes[i + FrameSize - TrailerSize], bytes[i + FrameSize - TrailerSize + 1])

(* find_primary_header returns position i, counted from 1.                 *)
HeaderFound(i) ==
  /\ i \in 1 .. Len(buf)
  /\ IsHeader(buf[i])
  /\ \A j \in 1 .. i - 1 : ~ IsHeader(buf[j])

NoHeader == \A j \in 1 .. Len(buf) : ~ IsHeader(buf[j])

(* buf.advance(n), or split_to(n) for a frame.                             *)
Advance(n) ==
  /\ buf' = SubSeq(buf, n + 1, Len(buf))
  /\ taken' = taken + n
-----------------------------------------------------------------------------
(* rx.next(): a binary message, of any size.                               *)
Receive(chunk) ==
  /\ pc = "idle"
  /\ input' = input \o chunk
  /\ buf' = buf \o chunk
  /\ pc' = "decoding"
  /\ UNCHANGED <<taken, starts, out>>

(* The end of the stream, or an error reading it.                          *)
EndOfStream ==
  /\ pc = "idle"
  /\ pc' = "ended"
  /\ UNCHANGED <<input, buf, taken, starts, out>>

(* A turn of the loop that finds a header after i - 1 bytes of junk ...    *)

TooShort(i) == Len(buf) - (i - 1) < FrameSize

(* ... and not enough bytes behind it: decode returns None.                *)
AwaitRest(i) ==
  /\ pc = "decoding"
  /\ HeaderFound(i)
  /\ TooShort(i)
  /\ Advance(i - 1)
  /\ pc' = "idle"
  /\ UNCHANGED <<input, starts, out>>

Cut(i) == SubSeq(buf, i, i - 1 + FrameSize)

(* ... and a trailer: decode returns the frame, and it is given to send.   *)
Emit(i) ==
  /\ pc = "decoding"
  /\ HeaderFound(i)
  /\ ~ TooShort(i)
  /\ TrailerAt(buf, i)
  /\ Advance(i - 1 + FrameSize)
  /\ out' = Append(out, Cut(i))
  /\ starts' = Append(starts, taken + i)
  /\ pc' = "sending"
  /\ UNCHANGED input

SkipFrame(i) == i - 1 + FrameSize                        \* mutant of Slipped

KeepHeader(i) == i - 1                                   \* mutant of Slipped

Slipped(i) == i

(* ... but no trailer: the header was a false one, and is skipped.         *)
Slip(i) ==
  /\ pc = "decoding"
  /\ HeaderFound(i)
  /\ ~ TooShort(i)
  /\ ~ TrailerAt(buf, i)
  /\ Advance(Slipped(i))
  /\ UNCHANGED <<input, starts, out, pc>>

KeepJunk ==                                              \* mutant of Discard
  /\ pc = "decoding"
  /\ NoHeader
  /\ pc' = "idle"
  /\ UNCHANGED <<input, buf, taken, starts, out>>

(* A turn that finds no header drops the whole buffer.                     *)
Discard ==
  /\ pc = "decoding"
  /\ NoHeader
  /\ Advance(Len(buf))
  /\ pc' = "idle"
  /\ UNCHANGED <<input, starts, out>>

(* tx.send(frame).await resolves, and decode is called again; or fails and *)
(* the program with it; or waits, for ever if nobody reads stdout.         *)
Send ==
  /\ pc = "sending"
  /\ pc' \in {"decoding", "ended"}
  /\ UNCHANGED <<input, buf, taken, starts, out>>

Decode == Discard \/ \E i \in 1 .. Len(buf) : AwaitRest(i) \/ Emit(i) \/ Slip(i)

Chunks(n) == UNION {[1 .. m -> Byte] : m \in 0 .. n}

Next ==
  \/ EndOfStream
  \/ Decode
  \/ Send
  \/ \E chunk \in Chunks(MaxChunk) : Len(input \o chunk) <= MaxInput /\ Receive(chunk)

Spec == Init /\ [][Next]_vars

(* decode awaits nothing, so a turn of its loop is owed.  What the program *)
(* awaits, a message or the end of a send, is not.                         *)
FairSpec == Spec /\ WF_vars(Decode)
-----------------------------------------------------------------------------
(* The positions of the stream at which a frame lies.                      *)
IsFrame(i) ==
  /\ i \in 1 .. Len(input)
  /\ i - 1 + FrameSize <= Len(input)
  /\ IsHeader(input[i])
  /\ IsTrailer(input[i + FrameSize - TrailerSize], input[i + FrameSize - TrailerSize + 1])

FrameAt(i) == SubSeq(input, i, i - 1 + FrameSize)

(* What is sent are whole frames of the stream, cut where they lie, in the *)
(* order they lie there and without overlap (tfsync.rs:68-70), however the *)
(* stream was cut into messages.                                           *)
SentAreFrames ==
  /\ Len(out) = Len(starts)
  /\ \A n \in 1 .. Len(starts) : IsFrame(starts[n]) /\ out[n] = FrameAt(starts[n])
  /\ \A m, n \in 1 .. Len(starts) : m < n => starts[m] + FrameSize <= starts[n]

(* No frame is missed: whenever the program waits for more, each frame the *)
(* stream holds was sent, or begins inside one that was (tfsync.rs:59-77). *)
(* With SentAreFrames this makes what is sent the leftmost cut of the      *)
(* stream, which does not depend on the messages it came in.               *)
Covered(i) == \E n \in 1 .. Len(starts) : starts[n] <= i /\ i < starts[n] + FrameSize

NoFrameMissed == pc = "idle" => \A i \in 1 .. Len(input) : IsFrame(i) => Covered(i)

(* Junk does not pile up: between two messages the codec keeps less than a *)
(* frame, and what it keeps begins with a header (tfsync.rs:60-67, 77).    *)
BufferStaysShort ==
  pc = "idle" => /\ Len(buf) < FrameSize
                 /\ buf # <<>> => IsHeader(buf[1])

(* The buffer is the end of the stream: no byte is kept twice or lost from *)
(* the middle (tfsync.rs:54-55, 62, 69, 73).                               *)
BufferIsSuffix ==
  /\ taken + Len(buf) = Len(input)
  /\ \A n \in 1 .. Len(buf) : buf[n] = input[taken + n]

(* A message is worked off: each turn of the loop in decode makes progress *)
(* (tfsync.rs:59-75), so the program comes to wait for the next message,   *)
(* unless a send never resolves (main.rs:63-65) or fails.                  *)
MessageWorkedOff ==
  (pc = "decoding" ~> pc \in {"idle", "ended"}) \/ <>[](pc = "sending")
=============================================================================
