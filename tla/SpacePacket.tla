---------------------------- MODULE SpacePacket -----------------------------
(***************************************************************************)
(* kble-c2a "spacepacket to-aos-tf": run_sp_to_aos_tf (kble-c2a/src/       *)
(* main.rs) and to_aos_tfs (kble-c2a/src/spacepacket.rs), which cut space  *)
(* packets into the data zones of AOS transfer frames and fill what is     *)
(* left with idle packets.                                                 *)
(*                                                                         *)
(* Bytes are abstracted to segments: a data zone is a sequence of pieces   *)
(* of packets.  One step is one branch of to_aos_tfs, one turn of its      *)
(* loop, or one send.                                                      *)
(***************************************************************************)
EXTENDS Integers, Sequences

CONSTANTS M_PDU_DATA_ZONE_SIZE, MIN_SPACE_PACKET_SIZE,
          FHP_NO_HDR,        \* the pointer of a zone in which no packet begins
          CountLimit,        \* 2^32: frame_count wraps here
          VcfcLimit,         \* 2^24: the frame count field of the header
          Lengths,           \* bound: the packet lengths that may arrive
          MaxPackets         \* bound: how many arrive

(* The last conjunct is what lets the shifted start of Case C work: after  *)
(* it the remainder, below MIN_SPACE_PACKET_SIZE, fits in front of an idle *)
(* packet.  The source has 432 and 7.                                      *)
ASSUME SizesAssumption ==
  /\ M_PDU_DATA_ZONE_SIZE \in Nat
  /\ MIN_SPACE_PACKET_SIZE \in Nat \ {0}
  /\ 2 * MIN_SPACE_PACKET_SIZE <= M_PDU_DATA_ZONE_SIZE + 1
  /\ MIN_SPACE_PACKET_SIZE < M_PDU_DATA_ZONE_SIZE
ASSUME PointerAssumption == FHP_NO_HDR \in Nat /\ FHP_NO_HDR >= M_PDU_DATA_ZONE_SIZE
ASSUME CountAssumption ==
  /\ VcfcLimit \in Nat \ {0}
  /\ CountLimit \in Nat \ {0}
  /\ CountLimit % VcfcLimit = 0
ASSUME BoundsAssumption == Lengths \subseteq Nat /\ MaxPackets \in Nat

VARIABLES packets,           \* the lengths of the packets received
          spOffset,          \* sp_offset
          frameCount,        \* *frame_count
          out,               \* the frames assembled; frames, the Vec, is
          nsent,             \* out without the first nsent
          pc                 \* "idle", "sizing", "chunking", "sending",
                             \* "ended", "panicked"

vars == <<packets, spOffset, frameCount, out, nsent, pc>>

(* A piece of packet number `packet`, or an idle packet if that is 0: len  *)
(* bytes from offset `from` on.                                            *)
Segment == [packet : Nat, from : Nat, len : Nat]

Frame == [vcfc : 0 .. VcfcLimit - 1,
          fhp  : 0 .. M_PDU_DATA_ZONE_SIZE - 1 \cup {FHP_NO_HDR},
          zone : [1 .. 1 -> Segment] \cup [1 .. 2 -> Segment]]

TypeOK ==
  /\ packets \in Seq(Nat)
  /\ spOffset \in Nat
  /\ frameCount \in 0 .. CountLimit - 1
  /\ out \in Seq(Frame)
  /\ nsent \in 0 .. Len(out)
  /\ pc \in {"idle", "sizing", "chunking", "sending", "ended", "panicked"}

Init ==
  /\ packets = <<>>
  /\ spOffset = 0
  /\ frameCount = 0
  /\ out = <<>>
  /\ nsent = 0
  /\ pc = "idle"
-----------------------------------------------------------------------------
MAX_SP_IN_FRAME_WITH_IDLE == M_PDU_DATA_ZONE_SIZE - MIN_SPACE_PACKET_SIZE

Current == Len(packets)

l == packets[Current]

Remaining == l - spOffset

AnyRemainder == l > MAX_SP_IN_FRAME_WITH_IDLE            \* mutant of Pathological

OneTooLong ==                                            \* mutant of Pathological
  l % M_PDU_DATA_ZONE_SIZE > MAX_SP_IN_FRAME_WITH_IDLE + 1

(* The tail would leave no room for an idle packet.                        *)
Pathological == l % M_PDU_DATA_ZONE_SIZE > MAX_SP_IN_FRAME_WITH_IDLE

Idle(len) == [packet |-> 0, from |-> 0, len |-> len]

Piece(len) == [packet |-> Current, from |-> spOffset, len |-> len]

(* frame_count.wrapping_add(1)                                             *)
NextCount == (frameCount + 1) % CountLimit

(* frames.push(assemble_tf(frame_count, fhp, zone)): of frame_count << 8   *)
(* the header keeps the low 24 bits of the counter.                        *)
Push(fhp, zone) ==
  /\ out' = Append(out, [vcfc |-> frameCount % VcfcLimit, fhp |-> fhp, zone |-> zone])
  /\ frameCount' = NextCount
-----------------------------------------------------------------------------
(* rx.next(): a space packet; to_aos_tfs begins with its length.           *)
Receive(length) ==
  /\ pc = "idle"
  /\ packets' = Append(packets, length)
  /\ spOffset' = 0
  /\ pc' = "sizing"
  /\ UNCHANGED <<frameCount, out, nsent>>

(* The end of the stream, or an error reading it.                          *)
EndOfStream ==
  /\ pc = "idle"
  /\ pc' = "ended"
  /\ UNCHANGED <<packets, spOffset, frameCount, out, nsent>>

(* A packet that is too short is an error, and the error ends the program. *)
TooShort ==
  /\ pc = "sizing"
  /\ l < MIN_SPACE_PACKET_SIZE
  /\ pc' = "ended"
  /\ UNCHANGED <<packets, spOffset, frameCount, out, nsent>>

(* Case A: the packet and an idle packet share one data zone.              *)
FitsWithIdle ==
  /\ pc = "sizing"
  /\ l \in MIN_SPACE_PACKET_SIZE .. MAX_SP_IN_FRAME_WITH_IDLE
  /\ Push(0, <<Piece(l), Idle(M_PDU_DATA_ZONE_SIZE - l)>>)
  /\ pc' = "sending"
  /\ UNCHANGED <<packets, spOffset, nsent>>

LongPacket ==
  /\ pc = "sizing"
  /\ l >= MIN_SPACE_PACKET_SIZE
  /\ l > MAX_SP_IN_FRAME_WITH_IDLE
  /\ pc' = "chunking"
  /\ UNCHANGED <<packets, nsent>>

RestartPacket ==                                         \* mutant of ShiftedStart
  /\ LongPacket
  /\ Pathological
  /\ Push(0, <<Idle(MIN_SPACE_PACKET_SIZE), Piece(MAX_SP_IN_FRAME_WITH_IDLE)>>)
  /\ UNCHANGED spOffset

(* Case C: an idle packet in front shifts the packet, and its tail.        *)
ShiftedStart ==
  /\ LongPacket
  /\ Pathological
  /\ Push(0, <<Idle(MIN_SPACE_PACKET_SIZE), Piece(MAX_SP_IN_FRAME_WITH_IDLE)>>)
  /\ spOffset' = MAX_SP_IN_FRAME_WITH_IDLE

(* Case B: the loop starts with the packet.                                *)
PlainStart ==
  /\ LongPacket
  /\ ~ Pathological
  /\ UNCHANGED <<spOffset, frameCount, out>>

AlwaysZero == 0                                          \* mutant of ChunkFhp

ChunkFhp == IF spOffset = 0 THEN 0 ELSE FHP_NO_HDR

(* A turn of the loop that has the packet's bytes fill the data zone.  A   *)
(* slice that goes past the end of the packet panics.                      *)
FullChunk ==
  /\ pc = "chunking"
  /\ Remaining > MAX_SP_IN_FRAME_WITH_IDLE
  /\ IF spOffset + M_PDU_DATA_ZONE_SIZE <= l
       THEN /\ Push(ChunkFhp, <<Piece(M_PDU_DATA_ZONE_SIZE)>>)
            /\ spOffset' = spOffset + M_PDU_DATA_ZONE_SIZE
            /\ UNCHANGED pc
       ELSE /\ pc' = "panicked"
            /\ UNCHANGED <<spOffset, frameCount, out>>
  /\ UNCHANGED <<packets, nsent>>

(* The last turn: the rest of the packet and an idle packet ...            *)
LastChunk ==
  /\ pc = "chunking"
  /\ Remaining \in 1 .. MAX_SP_IN_FRAME_WITH_IDLE
  /\ Push(Remaining, <<Piece(Remaining), Idle(M_PDU_DATA_ZONE_SIZE - Remaining)>>)
  /\ pc' = "sending"
  /\ UNCHANGED <<packets, spOffset, nsent>>

(* ... or, when the packet ended with a data zone, a frame of idle alone.  *)
IdleFrame ==
  /\ pc = "chunking"
  /\ Remaining = 0
  /\ Push(0, <<Idle(M_PDU_DATA_ZONE_SIZE)>>)
  /\ pc' = "sending"
  /\ UNCHANGED <<packets, spOffset, nsent>>

OneSent == nsent < Len(out)                              \* mutant of AllSent

AllSent == nsent + 1 = Len(out)

(* tx.send(tf): a failure ends the program, the rest of the Vec unsent.    *)
Send ==
  /\ pc = "sending"
  /\ \/ /\ nsent' = nsent + 1
        /\ pc' = IF AllSent THEN "idle" ELSE "sending"
     \/ /\ pc' = "ended"
        /\ UNCHANGED nsent
  /\ UNCHANGED <<packets, spOffset, frameCount, out>>

Next ==
  \/ EndOfStream
  \/ TooShort
  \/ FitsWithIdle
  \/ ShiftedStart
  \/ PlainStart
  \/ FullChunk
  \/ LastChunk
  \/ IdleFrame
  \/ Send
  \/ Len(packets) < MaxPackets /\ \E length \in Lengths : Receive(length)

Spec == Init /\ [][Next]_vars
-----------------------------------------------------------------------------
Size(zone) == IF Len(zone) = 1 THEN zone[1].len ELSE zone[1].len + zone[2].len

(* Every data zone is filled exactly, with pieces that are not empty and   *)
(* idle packets that are long enough to be packets (spacepacket.rs:21-26). *)
ZonesAreFull ==
  \A n \in 1 .. Len(out) :
    LET zone == out[n].zone IN
    /\ Size(zone) = M_PDU_DATA_ZONE_SIZE
    /\ \A j \in 1 .. Len(zone) :
         /\ zone[j].len > 0
         /\ zone[j].packet = 0 => zone[j].len >= MIN_SPACE_PACKET_SIZE

(* The first header pointer is the offset at which the first packet that   *)
(* begins in the zone begins, or says that none does                       *)
(* (spacepacket.rs:27-28, 111, 134-136, 145-148).                          *)
FhpPointsAtFirstHeader ==
  \A n \in 1 .. Len(out) :
    LET zone == out[n].zone IN
    \/ zone[1].from = 0 /\ out[n].fhp = 0
    \/ zone[1].from # 0 /\ Len(zone) = 2 /\ zone[2].from = 0 /\ out[n].fhp = zone[1].len
    \/ zone[1].from # 0 /\ Len(zone) = 1 /\ out[n].fhp = FHP_NO_HDR

(* Frames are numbered one after another across packets and across the     *)
(* wraps of the counter and of the field (spacepacket.rs:65, 73).          *)
FramesNumbered ==
  \A n \in 1 .. Len(out) : out[n].vcfc = (n - 1) % VcfcLimit

(* All that a receiver needs to take packets up from any frame on, and to  *)
(* notice that one is missing.                                             *)
FramesWellFormed == ZonesAreFull /\ FhpPointsAtFirstHeader /\ FramesNumbered

Ends(s) == s.packet = 0 \/ s.from + s.len = packets[s.packet]

(* Segment t may follow segment s: it goes on where s stopped, and if s    *)
(* ended its packet, a packet begins.                                      *)
Follows(s, t) ==
  /\ Ends(s) => t.from = 0
  /\ ~ Ends(s) => t.packet = s.packet /\ t.from = s.from + s.len

LastSegment(n) == out[n].zone[Len(out[n].zone)]

(* The data zones, laid end to end, are one stream of whole packets: a     *)
(* packet is never interrupted or cut short, by an idle packet or by the   *)
(* next one, within a frame or between two (spacepacket.rs:84-158).        *)
StreamIsUnbroken ==
  /\ \A n \in 1 .. Len(out) :
       Len(out[n].zone) = 2 => Follows(out[n].zone[1], out[n].zone[2])
  /\ \A n \in 1 .. Len(out) :
       n > 1 => Follows(LastSegment(n - 1), out[n].zone[1])
  /\ out # <<>> => out[1].zone[1].from = 0
  /\ out # <<>> /\ pc \in {"idle", "sizing", "sending"} => Ends(LastSegment(Len(out)))

(* Frame n begins packet number k.                                         *)
Begins(n, k) ==
  \E j \in 1 .. Len(out[n].zone) : out[n].zone[j].packet = k /\ out[n].zone[j].from = 0

(* When the program waits for a packet, each one it received is on the     *)
(* wire, once, and in the order they came (main.rs:92-96).                 *)
EveryPacketSent ==
  pc = "idle" =>
    /\ nsent = Len(out)
    /\ \A k \in 1 .. Len(packets) : \E n \in 1 .. nsent : Begins(n, k)
    /\ \A j, k \in 1 .. Len(packets), m, n \in 1 .. nsent :
         Begins(m, j) /\ Begins(n, k) => (j < k <=> m < n)

(* No slice goes past the end of a packet, whatever its length: the loop   *)
(* is never left with a tail too long for an idle packet and too short for *)
(* a data zone (spacepacket.rs:102-106, 138-140).                          *)
NeverPanics == pc # "panicked"

(* A packet takes the fewest frames that hold it and one idle packet:      *)
(* neither the shift of Case C nor the idle frame costs a frame that the   *)
(* packet does not need (spacepacket.rs:92-131).                           *)
FewestFrames ==
  pc = "idle" /\ packets # <<>> =>
    LET ofThis == CHOOSE n \in 1 .. Len(out) : Begins(n, Current)
        count  == Len(out) - ofThis + 1 IN
    l + MIN_SPACE_PACKET_SIZE \in
      (count - 1) * M_PDU_DATA_ZONE_SIZE + 1 .. count * M_PDU_DATA_ZONE_SIZE
=============================================================================
