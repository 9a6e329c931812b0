------------------------- MODULE SpacePacketProofs --------------------------
(***************************************************************************)
(* Proofs about SpacePacket, for every data zone and idle packet size the  *)
(* assumptions allow and packets of every length.                          *)
(***************************************************************************)
EXTENDS SpacePacket, SequenceTheorems, TLAPS

USE SizesAssumption, PointerAssumption, CountAssumption, BoundsAssumption

Zone == [1 .. 1 -> Segment] \cup [1 .. 2 -> Segment]

(* What one frame, as it is assembled, must be.                            *)
GoodFrame(fhp, zone) ==
  /\ Size(zone) = M_PDU_DATA_ZONE_SIZE
  /\ \A j \in 1 .. Len(zone) :
       /\ zone[j].len > 0
       /\ zone[j].packet = 0 => zone[j].len >= MIN_SPACE_PACKET_SIZE
       /\ zone[j].packet <= Len(packets)
  /\ \/ zone[1].from = 0 /\ fhp = 0
     \/ zone[1].from # 0 /\ Len(zone) = 2 /\ zone[2].from = 0 /\ fhp = zone[1].len
     \/ zone[1].from # 0 /\ Len(zone) = 1 /\ fhp = FHP_NO_HDR
  /\ Len(zone) = 2 => Follows(zone[1], zone[2])

GoodFrames == \A n \in 1 .. Len(out) : GoodFrame(out[n].fhp, out[n].zone)

(* Each frame goes on where the one before it stopped.                     *)
Joined ==
  /\ \A n \in 1 .. Len(out) : n > 1 => Follows(LastSegment(n - 1), out[n].zone[1])
  /\ out # <<>> => out[1].zone[1].from = 0

(* Between packets, the stream stands at the end of a packet.              *)
AtEnd ==
  pc \in {"idle", "sizing", "sending"} /\ out # <<>> => Ends(LastSegment(Len(out)))

(* What is left of the packet is some data zones and a tail that leaves    *)
(* room for an idle packet.                                                *)
Divides(q, r) == Remaining = M_PDU_DATA_ZONE_SIZE * q + r

(* In the loop, the stream stands at sp_offset of the current packet.      *)
InLoop ==
  pc = "chunking" =>
    /\ Current \in Nat \ {0}
    /\ l > MAX_SP_IN_FRAME_WITH_IDLE
    /\ \E q \in Nat, r \in 0 .. MAX_SP_IN_FRAME_WITH_IDLE : Divides(q, r)
    /\ spOffset = 0 /\ out # <<>> => Ends(LastSegment(Len(out)))
    /\ spOffset # 0 => /\ out # <<>>
                       /\ LastSegment(Len(out)).packet = Current
                       /\ LastSegment(Len(out)).from + LastSegment(Len(out)).len = spOffset

HasPacket ==
  /\ pc \in {"sizing", "sending", "chunking"} => Current \in Nat \ {0}
  /\ pc = "sizing" => spOffset = 0

(* There is a frame to send, up to the last.                               *)
VecLeft == pc = "sending" => nsent < Len(out)

IInv ==
  /\ TypeOK
  /\ GoodFrames
  /\ Joined
  /\ AtEnd
  /\ InLoop
  /\ HasPacket
  /\ VecLeft
  /\ NeverPanics
-----------------------------------------------------------------------------
LEMMA Sizes ==
  /\ M_PDU_DATA_ZONE_SIZE \in Nat \ {0}
  /\ MIN_SPACE_PACKET_SIZE \in Nat \ {0}
  /\ MAX_SP_IN_FRAME_WITH_IDLE \in Nat \ {0}
  /\ MAX_SP_IN_FRAME_WITH_IDLE < M_PDU_DATA_ZONE_SIZE
  /\ MAX_SP_IN_FRAME_WITH_IDLE + MIN_SPACE_PACKET_SIZE = M_PDU_DATA_ZONE_SIZE
  /\ MIN_SPACE_PACKET_SIZE - 1 <= MAX_SP_IN_FRAME_WITH_IDLE
  BY DEF MAX_SP_IN_FRAME_WITH_IDLE

LEMMA OneSegment ==
  ASSUME NEW a \in Segment
  PROVE  /\ <<a>> \in Zone
         /\ Len(<<a>>) = 1
         /\ <<a>>[1] = a
  BY DEF Zone

LEMMA TwoSegments ==
  ASSUME NEW a \in Segment, NEW b \in Segment
  PROVE  /\ <<a, b>> \in Zone
         /\ Len(<<a, b>>) = 2
         /\ <<a, b>>[1] = a
         /\ <<a, b>>[2] = b
  BY DEF Zone

LEMMA ZoneProperties ==
  ASSUME NEW zone \in Zone
  PROVE  /\ Len(zone) \in {1, 2}
         /\ \A j \in 1 .. Len(zone) : zone[j] \in Segment
  BY DEF Zone

(* Quotient and remainder.                                                 *)
LEMMA Division ==
  ASSUME NEW a \in Nat, NEW b \in Nat \ {0}
  PROVE  /\ a \div b \in Nat
         /\ a % b \in 0 .. b - 1
         /\ a = b * (a \div b) + (a % b)
  OBVIOUS

(* The same, by whether the remainder leaves room for an idle packet.      *)
LEMMA Remainders ==
  ASSUME NEW a \in Nat
  PROVE  /\ a % M_PDU_DATA_ZONE_SIZE > MAX_SP_IN_FRAME_WITH_IDLE =>
              \E q \in Nat, r \in MAX_SP_IN_FRAME_WITH_IDLE + 1 .. M_PDU_DATA_ZONE_SIZE - 1 :
                a = M_PDU_DATA_ZONE_SIZE * q + r
         /\ ~ (a % M_PDU_DATA_ZONE_SIZE > MAX_SP_IN_FRAME_WITH_IDLE) =>
              \E q \in Nat, r \in 0 .. MAX_SP_IN_FRAME_WITH_IDLE :
                a = M_PDU_DATA_ZONE_SIZE * q + r
<1> DEFINE q == a \div M_PDU_DATA_ZONE_SIZE
           r == a % M_PDU_DATA_ZONE_SIZE
<1>1. q \in Nat /\ r \in 0 .. M_PDU_DATA_ZONE_SIZE - 1 /\ a = M_PDU_DATA_ZONE_SIZE * q + r
  BY ZenonT(60), Sizes, Division
<1> HIDE DEF q, r
<1>2. r > MAX_SP_IN_FRAME_WITH_IDLE => r \in MAX_SP_IN_FRAME_WITH_IDLE + 1 .. M_PDU_DATA_ZONE_SIZE - 1
  BY <1>1, Sizes
<1>3. ~ (r > MAX_SP_IN_FRAME_WITH_IDLE) => r \in 0 .. MAX_SP_IN_FRAME_WITH_IDLE
  BY <1>1, Sizes
<1>4. /\ r > MAX_SP_IN_FRAME_WITH_IDLE =>
           \E u \in Nat, v \in MAX_SP_IN_FRAME_WITH_IDLE + 1 .. M_PDU_DATA_ZONE_SIZE - 1 :
             a = M_PDU_DATA_ZONE_SIZE * u + v
      /\ ~ (r > MAX_SP_IN_FRAME_WITH_IDLE) =>
           \E u \in Nat, v \in 0 .. MAX_SP_IN_FRAME_WITH_IDLE :
             a = M_PDU_DATA_ZONE_SIZE * u + v
  BY <1>1, <1>2, <1>3
<1> QED BY <1>4 DEF r

(* A frame pushed onto good frames, that goes on where they stop.          *)
LEMMA Pushing ==
  ASSUME TypeOK, GoodFrames, Joined,
         NEW fhp \in 0 .. M_PDU_DATA_ZONE_SIZE - 1 \cup {FHP_NO_HDR},
         NEW zone \in Zone,
         Push(fhp, zone), packets' = packets, GoodFrame(fhp, zone),
         out # <<>> => Follows(LastSegment(Len(out)), zone[1]),
         out = <<>> => zone[1].from = 0
  PROVE  /\ out' \in Seq(Frame)
         /\ Len(out') = Len(out) + 1
         /\ out' # <<>>
         /\ frameCount' \in 0 .. CountLimit - 1
         /\ GoodFrames'
         /\ Joined'
         /\ LastSegment(Len(out))' = zone[Len(zone)]
<1> DEFINE f == [vcfc |-> frameCount % VcfcLimit, fhp |-> fhp, zone |-> zone]
<1>1. /\ out \in Seq(Frame) /\ Len(out) \in Nat
      /\ \A n \in 1 .. Len(out) : out[n] \in Frame
      /\ frameCount \in Nat
  BY LenProperties DEF TypeOK
<1>2. /\ frameCount % VcfcLimit \in 0 .. VcfcLimit - 1
      /\ (frameCount + 1) % CountLimit \in 0 .. CountLimit - 1
  BY <1>1
<1>3. f \in Frame /\ f.fhp = fhp /\ f.zone = zone
  BY <1>2 DEF Frame, Zone
<1>4. out' = Append(out, f)
  BY DEF Push
<1> HIDE DEF f
<1>5. /\ out' \in Seq(Frame)
      /\ out' # <<>>
      /\ Len(out') = Len(out) + 1
      /\ \A n \in 1 .. Len(out) : out'[n] = out[n]
      /\ out'[Len(out) + 1] = f
  BY <1>1, <1>3, <1>4, AppendProperties
<1>6. frameCount' \in 0 .. CountLimit - 1
  BY <1>2 DEF Push, NextCount
<1>7. \A n \in 1 .. Len(out) + 1 : n \in 1 .. Len(out) \/ n = Len(out) + 1
  BY <1>1
<1>8. GoodFrames'
  <2> SUFFICES ASSUME NEW n \in 1 .. Len(out) + 1
               PROVE  GoodFrame(out[n].fhp, out[n].zone)'
    BY <1>5 DEF GoodFrames
  <2>1. CASE n \in 1 .. Len(out)
    <3>1. GoodFrame(out[n].fhp, out[n].zone) /\ out'[n] = out[n]
      BY <1>5, <2>1 DEF GoodFrames
    <3> QED BY <3>1 DEF GoodFrame, Follows, Ends
  <2>2. CASE n = Len(out) + 1
    <3>1. out'[n].fhp = fhp /\ out'[n].zone = zone
      BY <1>3, <1>5, <2>2
    <3> QED BY <3>1 DEF GoodFrame, Follows, Ends
  <2> QED BY <1>7, <2>1, <2>2
<1>9. LastSegment(Len(out))' = zone[Len(zone)]
  BY <1>3, <1>5 DEF LastSegment
<1>10. Joined'
  <2>1. ASSUME NEW n \in 1 .. Len(out) + 1, n > 1
        PROVE  Follows(LastSegment(n - 1), out[n].zone[1])'
    <3>1. n - 1 \in 1 .. Len(out) /\ out'[n - 1] = out[n - 1]
      BY <1>1, <1>5, <2>1
    <3>2. CASE n \in 1 .. Len(out)
      <4>1. Follows(LastSegment(n - 1), out[n].zone[1]) /\ out'[n] = out[n]
        BY <1>5, <2>1, <3>2 DEF Joined
      <4> QED BY <3>1, <4>1 DEF Follows, Ends, LastSegment
    <3>3. CASE n = Len(out) + 1
      <4>1. out # <<>> /\ n - 1 = Len(out)
        BY <1>1, <2>1, <3>3, EmptySeq
      <4>2. out'[n].zone = zone
        BY <1>3, <1>5, <3>3
      <4> QED BY <3>1, <4>1, <4>2 DEF Follows, Ends, LastSegment
    <3> QED BY <1>7, <3>2, <3>3
  <2>2. out'[1].zone[1].from = 0
    <3>1. CASE out = <<>>
      BY <1>3, <1>5, <3>1, EmptySeq
    <3>2. CASE out # <<>>
      <4>1. 1 \in 1 .. Len(out)
        BY <1>1, <3>2, EmptySeq
      <4> QED BY <1>5, <3>2, <4>1 DEF Joined
    <3> QED BY <3>1, <3>2
  <2> QED BY <1>5, <2>1, <2>2 DEF Joined
<1> QED BY <1>5, <1>6, <1>8, <1>9, <1>10
-----------------------------------------------------------------------------
LEMMA CurrentPacket ==
  ASSUME TypeOK, Current \in Nat \ {0}
  PROVE  l \in Nat /\ spOffset \in Nat
  BY LenProperties DEF TypeOK, l, Current

(* The pieces an action pushes are segments.                               *)
LEMMA Pieces ==
  ASSUME TypeOK, Current \in Nat \ {0}, NEW n \in Nat
  PROVE  /\ Piece(n) \in Segment /\ Idle(n) \in Segment
         /\ Piece(n).packet = Current /\ Piece(n).from = spOffset /\ Piece(n).len = n
         /\ Idle(n).packet = 0 /\ Idle(n).from = 0 /\ Idle(n).len = n
         /\ Ends(Idle(n))
         /\ Ends(Piece(n)) <=> spOffset + n = l
  BY DEF TypeOK, Piece, Idle, Segment, Ends, l

(* The frames of a step that pushes none.                                  *)
LEMMA FramesUnchanged ==
  ASSUME GoodFrames, Joined, UNCHANGED <<packets, out>>
  PROVE  GoodFrames' /\ Joined'
<1>1. packets' = packets /\ out' = out
  OBVIOUS
<1>2. GoodFrames'
  BY <1>1 DEF GoodFrames, GoodFrame, Follows, Ends
<1>3. Joined'
  BY <1>1 DEF Joined, Follows, Ends, LastSegment
<1> QED BY <1>2, <1>3

LEMMA InitIInv == Init => IInv
<1> SUFFICES ASSUME Init PROVE IInv
  OBVIOUS
<1>1. /\ \A S : <<>> \in Seq(S)
      /\ Len(<<>>) = 0
  BY EmptySeq
<1>2. TypeOK
  BY <1>1 DEF Init, TypeOK
<1> QED BY <1>1, <1>2 DEF Init, IInv, GoodFrames, Joined, AtEnd, InLoop, HasPacket, VecLeft,
                          NeverPanics

(* A step that pushes no frame and leaves the packets alone.               *)
LEMMA QuietIInv ==
  ASSUME IInv, UNCHANGED <<packets, spOffset, out, frameCount>>,
         nsent' \in 0 .. Len(out),
         \/ pc' = "ended" \/ pc' = pc
         \/ pc = "sending" /\ pc' = "idle",
         pc' = "sending" => nsent' < Len(out)
  PROVE  IInv'
<1>1. TypeOK' /\ NeverPanics'
  BY DEF IInv, TypeOK, NeverPanics
<1>2. GoodFrames' /\ Joined'
  BY FramesUnchanged DEF IInv
<1>3. AtEnd' /\ HasPacket' /\ VecLeft'
  BY DEF IInv, AtEnd, HasPacket, VecLeft, Ends, LastSegment, Current
<1>4. InLoop'
  BY DEF IInv, InLoop, Divides, Remaining, Ends, LastSegment, Current, l
<1> QED BY <1>1, <1>2, <1>3, <1>4 DEF IInv

LEMMA ReceiveIInv ==
  ASSUME IInv, NEW length \in Nat, Receive(length)
  PROVE  IInv'
<1>0. /\ packets' = Append(packets, length) /\ spOffset' = 0
      /\ pc = "idle" /\ pc' = "sizing"
      /\ UNCHANGED <<frameCount, out, nsent>>
  BY DEF Receive
<1>1. /\ packets \in Seq(Nat) /\ Len(packets) \in Nat
      /\ out \in Seq(Frame) /\ Len(out) \in Nat
      /\ \A n \in 1 .. Len(out) : out[n].zone \in Zone
  <2>1. /\ packets \in Seq(Nat) /\ Len(packets) \in Nat
        /\ out \in Seq(Frame) /\ Len(out) \in Nat
        /\ \A n \in 1 .. Len(out) : out[n] \in Frame
    BY LenProperties DEF IInv, TypeOK
  <2>2. \A f \in Frame : f.zone \in Zone
    BY DEF Frame, Zone
  <2> QED BY <2>1, <2>2
<1>2. /\ packets' \in Seq(Nat)
      /\ Len(packets') = Len(packets) + 1
      /\ \A k \in 1 .. Len(packets) : packets'[k] = packets[k]
  BY <1>0, <1>1, AppendProperties
<1>3. TypeOK'
  BY <1>0, <1>2 DEF IInv, TypeOK
<1>4. ASSUME NEW n \in 1 .. Len(out), NEW j \in 1 .. Len(out[n].zone)
      PROVE  Ends(out[n].zone[j])' <=> Ends(out[n].zone[j])
  <2>1. out[n].zone[j].packet \in 0 .. Len(packets)
    BY <1>1, ZoneProperties DEF IInv, GoodFrames, GoodFrame, Segment
  <2> QED BY SMTT(30), <1>0, <1>2, <2>1 DEF Ends
<1>5. ASSUME NEW n \in 1 .. Len(out)
      PROVE  /\ 1 \in 1 .. Len(out[n].zone)
             /\ Len(out[n].zone) \in 1 .. Len(out[n].zone)
  <2>1. Len(out[n].zone) \in {1, 2}
    BY <1>1, ZoneProperties
  <2>2. CASE Len(out[n].zone) = 1
    BY <2>2
  <2>3. CASE Len(out[n].zone) = 2
    BY <2>3
  <2> QED BY <2>1, <2>2, <2>3
<1>6. GoodFrames'
  <2> SUFFICES ASSUME NEW n \in 1 .. Len(out)
               PROVE  GoodFrame(out[n].fhp, out[n].zone)'
    BY <1>0 DEF GoodFrames
  <2>1. GoodFrame(out[n].fhp, out[n].zone)
    BY DEF IInv, GoodFrames
  <2>2. \A j \in 1 .. Len(out[n].zone) : out[n].zone[j].packet <= Len(packets')
    <3> TAKE j \in 1 .. Len(out[n].zone)
    <3>1. out[n].zone[j].packet \in 0 .. Len(packets)
      BY <1>1, <2>1, ZoneProperties DEF GoodFrame, Segment
    <3> QED BY <1>1, <1>2, <3>1
  <2>3. Len(out[n].zone) = 2 => Follows(out[n].zone[1], out[n].zone[2])'
    <3>1. Ends(out[n].zone[1])' <=> Ends(out[n].zone[1])
      BY <1>4, <1>5
    <3> QED BY <1>0, <2>1, <3>1 DEF GoodFrame, Follows
  <2> QED BY <1>0, <2>1, <2>2, <2>3 DEF GoodFrame, Size
<1>7. Joined'
  <2>1. ASSUME NEW n \in 1 .. Len(out), n > 1
        PROVE  Follows(LastSegment(n - 1), out[n].zone[1])'
    <3>1. n - 1 \in 1 .. Len(out)
      BY <1>1, <2>1
    <3>2. Ends(LastSegment(n - 1))' <=> Ends(LastSegment(n - 1))
      BY <1>0, <1>4, <1>5, <3>1 DEF LastSegment
    <3>3. Follows(LastSegment(n - 1), out[n].zone[1])
      BY <2>1 DEF IInv, Joined
    <3> QED BY <1>0, <3>2, <3>3 DEF Follows, LastSegment
  <2> QED BY <1>0, <2>1 DEF IInv, Joined
<1>8. AtEnd'
  <2> SUFFICES ASSUME out # <<>> PROVE Ends(LastSegment(Len(out)))'
    BY <1>0 DEF AtEnd
  <2>1. Len(out) \in 1 .. Len(out)
    BY <1>1, EmptySeq
  <2>2. Ends(LastSegment(Len(out)))
    BY <1>0 DEF IInv, AtEnd
  <2> QED BY <1>0, <1>4, <1>5, <2>1, <2>2 DEF LastSegment
<1>9. InLoop' /\ HasPacket' /\ VecLeft' /\ NeverPanics'
  BY <1>0, <1>1, <1>2 DEF InLoop, HasPacket, VecLeft, NeverPanics, Current
<1> QED BY <1>3, <1>6, <1>7, <1>8, <1>9 DEF IInv
-----------------------------------------------------------------------------
(* What every branch of to_aos_tfs that pushes a frame keeps.              *)
LEMMA PushKeeps ==
  ASSUME IInv,
         NEW fhp \in 0 .. M_PDU_DATA_ZONE_SIZE - 1 \cup {FHP_NO_HDR},
         NEW zone \in Zone,
         Push(fhp, zone), UNCHANGED <<packets, nsent>>, GoodFrame(fhp, zone),
         out # <<>> => Follows(LastSegment(Len(out)), zone[1]),
         out = <<>> => zone[1].from = 0,
         spOffset' \in Nat, pc' \in {"chunking", "sending"},
         pc \in {"sizing", "chunking"}
  PROVE  /\ TypeOK' /\ GoodFrames' /\ Joined' /\ HasPacket' /\ VecLeft' /\ NeverPanics'
         /\ out' # <<>>
         /\ LastSegment(Len(out))' = zone[Len(zone)]
         /\ Current' = Current
         /\ l' = l
<1>1. /\ TypeOK /\ GoodFrames /\ Joined
      /\ Len(out) \in Nat
  BY LenProperties DEF IInv, TypeOK
<1>2. /\ out' \in Seq(Frame)
      /\ Len(out') = Len(out) + 1
      /\ out' # <<>>
      /\ frameCount' \in 0 .. CountLimit - 1
      /\ GoodFrames'
      /\ Joined'
      /\ LastSegment(Len(out))' = zone[Len(zone)]
  BY <1>1, Pushing
<1>3. TypeOK'
  BY SMTT(30), <1>1, <1>2 DEF TypeOK
<1>4. Current' = Current /\ l' = l
  BY DEF Current, l
<1>5. HasPacket' /\ NeverPanics'
  BY <1>4 DEF IInv, HasPacket, NeverPanics
<1>6. VecLeft'
  BY <1>1, <1>2 DEF TypeOK, VecLeft
<1> QED BY <1>2, <1>3, <1>4, <1>5, <1>6

(* Facts that hold where a branch of to_aos_tfs is taken.                  *)
LEMMA Packing ==
  ASSUME IInv, pc \in {"sizing", "chunking"}
  PROVE  /\ TypeOK
         /\ Current \in Nat \ {0} /\ Current = Len(packets)
         /\ l \in Nat /\ spOffset \in Nat
<1>1. TypeOK /\ Current \in Nat \ {0}
  BY DEF IInv, HasPacket
<1> QED BY <1>1, CurrentPacket DEF Current

LEMMA FitsWithIdleIInv ==
  ASSUME IInv, FitsWithIdle
  PROVE  IInv'
<1> DEFINE a == Piece(l)
           b == Idle(M_PDU_DATA_ZONE_SIZE - l)
           zone == <<a, b>>
<1>1. /\ pc = "sizing" /\ pc' = "sending"
      /\ l \in 1 .. MAX_SP_IN_FRAME_WITH_IDLE
      /\ Push(0, zone)
      /\ UNCHANGED <<packets, nsent>>
      /\ spOffset = 0 /\ spOffset' = 0
  BY Packing, Sizes DEF FitsWithIdle, IInv, HasPacket
<1>2. /\ TypeOK /\ Current \in Nat \ {0} /\ Current = Len(packets)
      /\ l \in Nat /\ spOffset \in Nat
  BY <1>1, Packing
<1>3. M_PDU_DATA_ZONE_SIZE - l \in Nat /\ M_PDU_DATA_ZONE_SIZE - l >= MIN_SPACE_PACKET_SIZE
  BY <1>1, Sizes
<1>4. /\ a \in Segment /\ a.packet = Current /\ a.from = spOffset /\ a.len = l
      /\ Ends(a)
      /\ b \in Segment /\ b.packet = 0 /\ b.from = 0 /\ b.len = M_PDU_DATA_ZONE_SIZE - l
      /\ Ends(b)
  BY <1>1, <1>2, <1>3, Pieces
<1> HIDE DEF a, b
<1>5. zone \in Zone /\ Len(zone) = 2 /\ zone[1] = a /\ zone[2] = b
  BY <1>4, TwoSegments
<1> HIDE DEF zone
<1>6. GoodFrame(0, zone)
  BY <1>1, <1>2, <1>3, <1>4, <1>5, Sizes DEF GoodFrame, Size, Follows
<1>7. out # <<>> => Follows(LastSegment(Len(out)), zone[1])
  BY <1>1, <1>4, <1>5 DEF IInv, AtEnd, Follows
<1>8. /\ TypeOK' /\ GoodFrames' /\ Joined' /\ HasPacket' /\ VecLeft' /\ NeverPanics'
      /\ LastSegment(Len(out))' = b
  <2>1. zone[1].from = 0 /\ zone[Len(zone)] = b
    BY <1>1, <1>4, <1>5
  <2>2. 0 \in 0 .. M_PDU_DATA_ZONE_SIZE - 1 \cup {FHP_NO_HDR}
    BY Sizes
  <2>3. spOffset' \in Nat /\ pc' \in {"chunking", "sending"} /\ pc \in {"sizing", "chunking"}
    BY <1>1
  <2> QED BY <1>1, <1>5, <1>6, <1>7, <2>1, <2>2, <2>3, PushKeeps
<1>9. AtEnd' /\ InLoop'
  BY <1>1, <1>4, <1>8 DEF AtEnd, InLoop, Ends
<1> QED BY <1>8, <1>9 DEF IInv

LEMMA ShiftedStartIInv ==
  ASSUME IInv, ShiftedStart
  PROVE  IInv'
<1> DEFINE a == Idle(MIN_SPACE_PACKET_SIZE)
           b == Piece(MAX_SP_IN_FRAME_WITH_IDLE)
           zone == <<a, b>>
<1>1. /\ pc = "sizing" /\ pc' = "chunking"
      /\ l > MAX_SP_IN_FRAME_WITH_IDLE
      /\ l % M_PDU_DATA_ZONE_SIZE > MAX_SP_IN_FRAME_WITH_IDLE
      /\ Push(0, zone)
      /\ UNCHANGED <<packets, nsent>>
      /\ spOffset = 0 /\ spOffset' = MAX_SP_IN_FRAME_WITH_IDLE
  BY DEF ShiftedStart, LongPacket, Pathological, IInv, HasPacket
<1>2. /\ TypeOK /\ Current \in Nat \ {0} /\ Current = Len(packets)
      /\ l \in Nat /\ spOffset \in Nat
  BY <1>1, Packing
<1>3. /\ a \in Segment /\ a.packet = 0 /\ a.from = 0 /\ a.len = MIN_SPACE_PACKET_SIZE
      /\ b \in Segment /\ b.packet = Current /\ b.from = 0 /\ b.len = MAX_SP_IN_FRAME_WITH_IDLE
  BY <1>1, <1>2, Sizes, Pieces
<1> HIDE DEF a, b
<1>4. zone \in Zone /\ Len(zone) = 2 /\ zone[1] = a /\ zone[2] = b
  BY <1>3, TwoSegments
<1> HIDE DEF zone
<1>5. GoodFrame(0, zone)
  BY <1>2, <1>3, <1>4, Sizes DEF GoodFrame, Size, Follows, Ends
<1>6. out # <<>> => Follows(LastSegment(Len(out)), zone[1])
  BY <1>1, <1>3, <1>4 DEF IInv, AtEnd, Follows
<1>7. /\ TypeOK' /\ GoodFrames' /\ Joined' /\ HasPacket' /\ VecLeft' /\ NeverPanics'
      /\ out' # <<>>
      /\ LastSegment(Len(out))' = b
      /\ Current' = Current /\ l' = l
  BY SMTT(30), <1>1, <1>3, <1>4, <1>5, <1>6, Sizes, PushKeeps
<1>8. AtEnd'
  BY <1>1 DEF AtEnd
<1>9. \E q \in Nat, r \in 0 .. MAX_SP_IN_FRAME_WITH_IDLE : Divides(q, r)'
  <2>1. PICK q \in Nat, r \in MAX_SP_IN_FRAME_WITH_IDLE + 1 .. M_PDU_DATA_ZONE_SIZE - 1 :
          l = M_PDU_DATA_ZONE_SIZE * q + r
    <3>1. \E q \in Nat, r \in MAX_SP_IN_FRAME_WITH_IDLE + 1 .. M_PDU_DATA_ZONE_SIZE - 1 :
             l = M_PDU_DATA_ZONE_SIZE * q + r
      BY <1>1, <1>2, Remainders, Zenon
    <3> QED BY <3>1
  <2> DEFINE t == r - MAX_SP_IN_FRAME_WITH_IDLE
  <2>3. t \in 0 .. MAX_SP_IN_FRAME_WITH_IDLE
    BY Sizes
  <2>4. l - MAX_SP_IN_FRAME_WITH_IDLE = M_PDU_DATA_ZONE_SIZE * q + t
    BY <1>2, <2>1, Sizes
  <2> HIDE DEF t
  <2>5. Divides(q, t)'
    BY <1>1, <1>7, <2>4 DEF Divides, Remaining
  <2> QED BY <2>3, <2>5
<1>10. InLoop'
  BY <1>1, <1>2, <1>3, <1>7, <1>9, Sizes DEF InLoop
<1> QED BY <1>7, <1>8, <1>10 DEF IInv

LEMMA PlainStartIInv ==
  ASSUME IInv, PlainStart
  PROVE  IInv'
<1>1. /\ pc = "sizing" /\ pc' = "chunking"
      /\ l > MAX_SP_IN_FRAME_WITH_IDLE
      /\ ~ (l % M_PDU_DATA_ZONE_SIZE > MAX_SP_IN_FRAME_WITH_IDLE)
      /\ UNCHANGED <<packets, nsent, spOffset, frameCount, out>>
      /\ spOffset = 0
  BY DEF PlainStart, LongPacket, Pathological, IInv, HasPacket
<1>2. /\ TypeOK /\ Current \in Nat \ {0} /\ Current = Len(packets)
      /\ l \in Nat /\ spOffset \in Nat
  BY <1>1, Packing
<1>3. TypeOK' /\ NeverPanics'
  BY <1>1, <1>2 DEF TypeOK, NeverPanics
<1>4. GoodFrames' /\ Joined'
  BY <1>1, FramesUnchanged DEF IInv
<1>5. AtEnd' /\ HasPacket' /\ VecLeft'
  BY <1>1, <1>2 DEF AtEnd, HasPacket, VecLeft, Current
<1>6. \E q \in Nat, r \in 0 .. MAX_SP_IN_FRAME_WITH_IDLE : Divides(q, r)'
  <2>1. PICK q \in Nat, r \in 0 .. MAX_SP_IN_FRAME_WITH_IDLE : l = M_PDU_DATA_ZONE_SIZE * q + r
    <3>1. \E q \in Nat, r \in 0 .. MAX_SP_IN_FRAME_WITH_IDLE : l = M_PDU_DATA_ZONE_SIZE * q + r
      BY <1>1, <1>2, Remainders, Zenon
    <3> QED BY <3>1
  <2>4. l' - spOffset' = l
    BY <1>1, <1>2 DEF l, Current
  <2>5. Divides(q, r)'
    BY <2>1, <2>4 DEF Divides, Remaining
  <2> QED BY <2>5
<1>7. InLoop'
  <2>1. l' = l /\ Current' = Current
    BY <1>1 DEF l, Current
  <2>2. out # <<>> => Ends(LastSegment(Len(out)))'
    BY <1>1 DEF IInv, AtEnd, Ends, LastSegment
  <2> QED BY <1>1, <1>2, <1>6, <2>1, <2>2 DEF InLoop
<1> QED BY <1>3, <1>4, <1>5, <1>7 DEF IInv
-----------------------------------------------------------------------------
(* Where a turn of the loop finds the packet and the stream.               *)
LEMMA Looping ==
  ASSUME IInv, pc = "chunking"
  PROVE  /\ l > MAX_SP_IN_FRAME_WITH_IDLE
         /\ Remaining \in Nat
         /\ \E q \in Nat, r \in 0 .. MAX_SP_IN_FRAME_WITH_IDLE : Divides(q, r)
         /\ spOffset = 0 /\ out # <<>> => Ends(LastSegment(Len(out)))
         /\ spOffset # 0 /\ Remaining # 0 =>
              /\ out # <<>>
              /\ ~ Ends(LastSegment(Len(out)))
              /\ LastSegment(Len(out)).packet = Current
              /\ LastSegment(Len(out)).from + LastSegment(Len(out)).len = spOffset
         /\ spOffset # 0 /\ Remaining = 0 =>
              /\ out # <<>>
              /\ Ends(LastSegment(Len(out)))
<1>1. /\ Current \in Nat \ {0} /\ Current = Len(packets)
      /\ l \in Nat /\ spOffset \in Nat
  BY Packing
<1>2. InLoop
  BY DEF IInv
<1>3. Remaining \in Nat
  <2>1. PICK q \in Nat, r \in 0 .. MAX_SP_IN_FRAME_WITH_IDLE : Divides(q, r)
    BY <1>2 DEF InLoop
  <2>2. M_PDU_DATA_ZONE_SIZE * q \in Nat
    BY Sizes
  <2> QED BY <2>1, <2>2, Sizes DEF Divides
<1>4. Remaining = 0 <=> spOffset = l
  BY <1>1 DEF Remaining
<1> QED BY <1>1, <1>2, <1>3, <1>4 DEF InLoop, Ends, l

LEMMA FullChunkIInv ==
  ASSUME IInv, FullChunk
  PROVE  IInv'
<1> DEFINE a == Piece(M_PDU_DATA_ZONE_SIZE)
           zone == <<a>>
<1>1. /\ pc = "chunking"
      /\ Remaining > MAX_SP_IN_FRAME_WITH_IDLE
      /\ UNCHANGED <<packets, nsent>>
  BY DEF FullChunk
<1>2. /\ TypeOK /\ Current \in Nat \ {0} /\ Current = Len(packets)
      /\ l \in Nat /\ spOffset \in Nat
  BY <1>1, Packing
<1>3. PICK q \in Nat, r \in 0 .. MAX_SP_IN_FRAME_WITH_IDLE : Divides(q, r)
  BY <1>1, Looping
<1>4. /\ q - 1 \in Nat
      /\ M_PDU_DATA_ZONE_SIZE * (q - 1) = M_PDU_DATA_ZONE_SIZE * q - M_PDU_DATA_ZONE_SIZE
      /\ M_PDU_DATA_ZONE_SIZE * (q - 1) \in Nat
  <2>1. q # 0
    <3> SUFFICES ASSUME q = 0 PROVE FALSE
      OBVIOUS
    <3>1. M_PDU_DATA_ZONE_SIZE * q = 0
      BY Sizes
    <3> QED BY <1>1, <1>3, <3>1, Sizes DEF Divides
  <2> QED BY <2>1, Sizes
<1>5. l - (spOffset + M_PDU_DATA_ZONE_SIZE) = M_PDU_DATA_ZONE_SIZE * (q - 1) + r
  BY <1>2, <1>3, <1>4, Sizes DEF Divides, Remaining
<1>6. spOffset + M_PDU_DATA_ZONE_SIZE <= l
  BY <1>2, <1>4, <1>5, Sizes
<1>7. /\ Push(ChunkFhp, zone)
      /\ spOffset' = spOffset + M_PDU_DATA_ZONE_SIZE
      /\ pc' = "chunking"
  BY <1>1, <1>6 DEF FullChunk
<1>8. /\ a \in Segment /\ a.packet = Current /\ a.from = spOffset
      /\ a.len = M_PDU_DATA_ZONE_SIZE
  BY <1>2, Sizes, Pieces
<1> HIDE DEF a
<1>9. zone \in Zone /\ Len(zone) = 1 /\ zone[1] = a
  BY <1>8, OneSegment
<1> HIDE DEF zone
<1>10. /\ ChunkFhp \in 0 .. M_PDU_DATA_ZONE_SIZE - 1 \cup {FHP_NO_HDR}
       /\ spOffset = 0 => ChunkFhp = 0
       /\ spOffset # 0 => ChunkFhp = FHP_NO_HDR
  BY Sizes DEF ChunkFhp
<1>11. GoodFrame(ChunkFhp, zone)
  BY <1>2, <1>8, <1>9, <1>10, Sizes DEF GoodFrame, Size
<1>12. /\ out # <<>> => Follows(LastSegment(Len(out)), zone[1])
       /\ out = <<>> => zone[1].from = 0
  <2>1. Remaining # 0
    BY <1>1, Sizes
  <2> QED BY <1>1, <1>8, <1>9, <2>1, Looping DEF Follows
<1>13. /\ TypeOK' /\ GoodFrames' /\ Joined' /\ HasPacket' /\ VecLeft' /\ NeverPanics'
       /\ out' # <<>>
       /\ LastSegment(Len(out))' = a
       /\ Current' = Current /\ l' = l
  <2>1. zone[Len(zone)] = a
    BY <1>9
  <2>2. spOffset' \in Nat /\ pc' \in {"chunking", "sending"} /\ pc \in {"sizing", "chunking"}
    BY <1>1, <1>2, <1>7, Sizes
  <2> QED BY <1>1, <1>7, <1>9, <1>10, <1>11, <1>12, <2>1, <2>2, PushKeeps
<1>14. AtEnd'
  BY <1>7 DEF AtEnd
<1>15. InLoop'
  <2>1. Divides(q - 1, r)'
    BY <1>5, <1>7, <1>13 DEF Divides, Remaining
  <2>2. spOffset' # 0 /\ a.from + a.len = spOffset' /\ l' > MAX_SP_IN_FRAME_WITH_IDLE
    BY <1>1, <1>2, <1>7, <1>8, <1>13, Sizes, Looping
  <2>3. \E u \in Nat, v \in 0 .. MAX_SP_IN_FRAME_WITH_IDLE : Divides(u, v)'
    BY <1>4, <2>1
  <2> QED BY <1>2, <1>8, <1>13, <2>2, <2>3 DEF InLoop
<1> QED BY <1>13, <1>14, <1>15 DEF IInv

LEMMA LastChunkIInv ==
  ASSUME IInv, LastChunk
  PROVE  IInv'
<1> DEFINE a == Piece(Remaining)
           b == Idle(M_PDU_DATA_ZONE_SIZE - Remaining)
           zone == <<a, b>>
<1>1. /\ pc = "chunking" /\ pc' = "sending"
      /\ Remaining \in 1 .. MAX_SP_IN_FRAME_WITH_IDLE
      /\ Push(Remaining, zone)
      /\ UNCHANGED <<packets, nsent>> /\ spOffset' = spOffset
  BY DEF LastChunk
<1>2. /\ TypeOK /\ Current \in Nat \ {0} /\ Current = Len(packets)
      /\ l \in Nat /\ spOffset \in Nat
  BY <1>1, Packing
<1>3. /\ Remaining \in Nat
      /\ M_PDU_DATA_ZONE_SIZE - Remaining \in Nat
      /\ M_PDU_DATA_ZONE_SIZE - Remaining >= MIN_SPACE_PACKET_SIZE
      /\ spOffset + Remaining = l
      /\ spOffset # 0
  BY <1>1, <1>2, Sizes, Looping DEF Remaining
<1>4. /\ a \in Segment /\ a.packet = Current /\ a.from = spOffset /\ a.len = Remaining
      /\ Ends(a)
      /\ b \in Segment /\ b.packet = 0 /\ b.from = 0 /\ b.len = M_PDU_DATA_ZONE_SIZE - Remaining
  BY <1>2, <1>3, Pieces
<1> HIDE DEF a, b
<1>5. zone \in Zone /\ Len(zone) = 2 /\ zone[1] = a /\ zone[2] = b
  BY <1>4, TwoSegments
<1> HIDE DEF zone
<1>6. GoodFrame(Remaining, zone)
  <2> DEFINE r == Remaining
  <2>1. r \in 1 .. MAX_SP_IN_FRAME_WITH_IDLE /\ a.len = r /\ b.len = M_PDU_DATA_ZONE_SIZE - r
    BY <1>1, <1>4
  <2> HIDE DEF r
  <2>2. GoodFrame(r, zone)
    BY <1>2, <1>3, <1>4, <1>5, <2>1, Sizes DEF GoodFrame, Size, Follows
  <2> QED BY <2>2 DEF r
<1>7. /\ out # <<>> => Follows(LastSegment(Len(out)), zone[1])
      /\ out = <<>> => zone[1].from = 0
  <2>1. Remaining # 0
    BY <1>1
  <2> QED BY <1>1, <1>3, <1>4, <1>5, <2>1, Looping DEF Follows
<1>8. /\ TypeOK' /\ GoodFrames' /\ Joined' /\ HasPacket' /\ VecLeft' /\ NeverPanics'
      /\ LastSegment(Len(out))' = b
  <2>1. zone[Len(zone)] = b
    BY <1>5
  <2>2. Remaining \in 0 .. M_PDU_DATA_ZONE_SIZE - 1 \cup {FHP_NO_HDR}
    BY <1>1, Sizes
  <2>3. spOffset' \in Nat /\ pc' \in {"chunking", "sending"} /\ pc \in {"sizing", "chunking"}
    BY <1>1, <1>2
  <2> QED BY <1>1, <1>5, <1>6, <1>7, <2>1, <2>2, <2>3, PushKeeps
<1>9. AtEnd' /\ InLoop'
  BY <1>1, <1>4, <1>8 DEF AtEnd, InLoop, Ends
<1> QED BY <1>8, <1>9 DEF IInv

LEMMA IdleFrameIInv ==
  ASSUME IInv, IdleFrame
  PROVE  IInv'
<1> DEFINE a == Idle(M_PDU_DATA_ZONE_SIZE)
           zone == <<a>>
<1>1. /\ pc = "chunking" /\ pc' = "sending"
      /\ Remaining = 0
      /\ Push(0, zone)
      /\ UNCHANGED <<packets, nsent>> /\ spOffset' = spOffset
  BY DEF IdleFrame
<1>2. /\ TypeOK /\ Current \in Nat \ {0} /\ Current = Len(packets)
      /\ l \in Nat /\ spOffset \in Nat
  BY <1>1, Packing
<1>3. /\ a \in Segment /\ a.packet = 0 /\ a.from = 0 /\ a.len = M_PDU_DATA_ZONE_SIZE
  BY <1>2, Sizes, Pieces
<1> HIDE DEF a
<1>4. zone \in Zone /\ Len(zone) = 1 /\ zone[1] = a
  BY <1>3, OneSegment
<1> HIDE DEF zone
<1>5. GoodFrame(0, zone)
  BY <1>2, <1>3, <1>4, Sizes DEF GoodFrame, Size
<1>6. /\ out # <<>> => Follows(LastSegment(Len(out)), zone[1])
      /\ zone[1].from = 0
  BY <1>1, <1>3, <1>4, Looping DEF Follows
<1>7. /\ TypeOK' /\ GoodFrames' /\ Joined' /\ HasPacket' /\ VecLeft' /\ NeverPanics'
      /\ LastSegment(Len(out))' = a
  <2>1. zone[Len(zone)] = a
    BY <1>4
  <2>2. 0 \in 0 .. M_PDU_DATA_ZONE_SIZE - 1 \cup {FHP_NO_HDR}
    BY Sizes
  <2>3. spOffset' \in Nat /\ pc' \in {"chunking", "sending"} /\ pc \in {"sizing", "chunking"}
    BY <1>1, <1>2
  <2> QED BY <1>1, <1>4, <1>5, <1>6, <2>1, <2>2, <2>3, PushKeeps
<1>8. AtEnd' /\ InLoop'
  BY <1>1, <1>3, <1>7 DEF AtEnd, InLoop, Ends
<1> QED BY <1>7, <1>8 DEF IInv
-----------------------------------------------------------------------------
LEMMA NextIInv == IInv /\ [Next]_vars => IInv'
<1> SUFFICES ASSUME IInv, [Next]_vars PROVE IInv'
  OBVIOUS
<1>1. nsent \in 0 .. Len(out) /\ Len(out) \in Nat /\ nsent \in Nat
  BY LenProperties DEF IInv, TypeOK
<1>2. CASE EndOfStream \/ TooShort \/ UNCHANGED vars
  <2>1. /\ UNCHANGED <<packets, spOffset, out, frameCount, nsent>>
        /\ pc' = "ended" \/ pc' = pc
    BY <1>2 DEF EndOfStream, TooShort, vars
  <2>2. pc' = "sending" => nsent' < Len(out)
    BY <2>1 DEF IInv, VecLeft
  <2> QED BY <1>1, <2>1, <2>2, QuietIInv
<1>3. CASE Send
  <2>1. /\ UNCHANGED <<packets, spOffset, out, frameCount>>
        /\ pc = "sending"
        /\ nsent < Len(out)
    BY <1>3 DEF Send, IInv, VecLeft
  <2>2. CASE nsent' = nsent + 1 /\ pc' = IF AllSent THEN "idle" ELSE "sending"
    <3>1. nsent' \in 0 .. Len(out)
      BY <1>1, <2>1, <2>2
    <3>2. pc' \in {"idle", "sending"} /\ (pc' = "sending" => nsent' < Len(out))
      BY <1>1, <2>1, <2>2 DEF AllSent
    <3> QED BY <2>1, <3>1, <3>2, QuietIInv
  <2>3. CASE pc' = "ended" /\ nsent' = nsent
    BY <1>1, <2>1, <2>3, QuietIInv
  <2> QED BY <1>3, <2>2, <2>3 DEF Send
<1>4. ASSUME NEW length \in Lengths, Receive(length) PROVE IInv'
  BY <1>4, ReceiveIInv
<1> QED BY <1>2, <1>3, <1>4, FitsWithIdleIInv, ShiftedStartIInv, PlainStartIInv,
           FullChunkIInv, LastChunkIInv, IdleFrameIInv DEF Next

(* The strengthening that makes the invariants inductive: in the loop, the *)
(* rest of the packet is whole data zones and a tail that leaves room for  *)
(* an idle packet, which Case C (spacepacket.rs:102-119) is there to       *)
(* establish.                                                              *)
THEOREM InductiveInvariant == Spec => []IInv
  BY InitIInv, NextIInv, PTL DEF Spec

(* Every variable keeps its type: in particular the first header pointer   *)
(* is an offset into the zone or the "none" value.                         *)
THEOREM TypeCorrect == Spec => []TypeOK
<1>1. IInv => TypeOK
  BY DEF IInv
<1> QED BY <1>1, InductiveInvariant, PTL

(* to_aos_tfs slices no packet past its end (spacepacket.rs:115, 138-140). *)
THEOREM NeverPanicsHolds == Spec => []NeverPanics
<1>1. IInv => NeverPanics
  BY DEF IInv
<1> QED BY <1>1, InductiveInvariant, PTL

(* Every data zone is filled exactly, with idle packets of legal length    *)
(* (spacepacket.rs:44-47, 58-61).                                          *)
THEOREM ZonesAreFullHolds == Spec => []ZonesAreFull
<1>1. IInv => ZonesAreFull
  BY DEF IInv, GoodFrames, GoodFrame, ZonesAreFull
<1> QED BY <1>1, InductiveInvariant, PTL

(* The first header pointer is right (spacepacket.rs:111, 134-136, 145-148). *)
THEOREM FhpHolds == Spec => []FhpPointsAtFirstHeader
<1>1. IInv => FhpPointsAtFirstHeader
  BY DEF IInv, GoodFrames, GoodFrame, FhpPointsAtFirstHeader
<1> QED BY <1>1, InductiveInvariant, PTL

-----------------------------------------------------------------------------
LEMMA Modulus ==
  ASSUME NEW a \in Nat, NEW b \in Nat \ {0}, NEW q \in Nat, NEW r \in 0 .. b - 1,
         a = b * q + r
  PROVE  a % b = r
<1> DEFINE p == a \div b
           s == a % b
<1>1. p \in Nat /\ s \in 0 .. b - 1 /\ a = b * p + s
  BY Division
<1> HIDE DEF p, s
<1>2. b * (p - q) = r - s /\ p - q \in Int
  BY <1>1
<1>3. p - q = 0
  <2> DEFINE d == p - q
  <2>1. d \in Int /\ b * d < b /\ b * d > - b
    BY <1>1, <1>2
  <2> HIDE DEF d
  <2>2. d < 1
    <3> SUFFICES ASSUME d >= 1 PROVE FALSE
      BY <2>1
    <3>1. b * d >= b
      BY <2>1
    <3> QED BY <2>1, <3>1
  <2>3. d > -1
    <3> SUFFICES ASSUME d <= -1 PROVE FALSE
      BY <2>1
    <3>1. b * d <= - b
      BY <2>1
    <3> QED BY <2>1, <3>1
  <2> QED BY <2>1, <2>2, <2>3 DEF d
<1> QED BY <1>1, <1>2, <1>3 DEF s

(* Counting in two ways that agree modulo the field goes on to agree.      *)
Field(n) == n % VcfcLimit

After(n) == n + 1

LEMMA FieldNext ==
  ASSUME NEW m \in Nat, NEW n \in Nat, Field(m) = Field(n)
  PROVE  Field(After(m)) = Field(After(n))
<1> DEFINE b == VcfcLimit
<1>0. b \in Nat \ {0}
  OBVIOUS
<1> HIDE DEF b
<1>1. ASSUME NEW a \in Nat
      PROVE  (a + 1) % b = IF a % b = b - 1 THEN 0 ELSE (a % b) + 1
  <2> DEFINE q == a \div b
             r == a % b
  <2>1. q \in Nat /\ r \in 0 .. b - 1 /\ a = b * q + r
    BY <1>0, Division
  <2> HIDE DEF q, r
  <2>2. CASE r = b - 1
    <3>1. a + 1 = b * (q + 1) /\ q + 1 \in Nat
      BY <1>0, <2>1, <2>2
    <3>2. (a + 1) % b = 0
      <4>1. a + 1 = b * (q + 1) + 0 /\ 0 \in 0 .. b - 1
        BY <1>0, <2>1, <3>1
      <4> QED BY <1>0, <3>1, <4>1, Modulus
    <3> QED BY <2>2, <3>1, <3>2 DEF r
  <2>3. CASE r # b - 1
    <3>1. a + 1 = b * q + (r + 1) /\ r + 1 \in 0 .. b - 1
      BY <1>0, <2>1, <2>3
    <3>2. (a + 1) % b = r + 1
      BY <1>0, <2>1, <3>1, Modulus
    <3> QED BY <2>3, <3>2 DEF r
  <2> QED BY <2>2, <2>3
<1>2. m % b = n % b
  BY DEF Field, b
<1>3. (m + 1) % b = (n + 1) % b
  BY <1>1, <1>2
<1> QED BY <1>3 DEF Field, After, b

(* The counter has lost whole multiples of the field at its own wraps.     *)
Counted ==
  /\ TypeOK
  /\ frameCount % VcfcLimit = Len(out) % VcfcLimit
  /\ FramesNumbered

LEMMA PushCounted ==
  ASSUME Counted, NEW fhp, NEW zone, Push(fhp, zone)
  PROVE  /\ (frameCount % VcfcLimit = Len(out) % VcfcLimit)'
         /\ FramesNumbered'
<1> DEFINE f == [vcfc |-> frameCount % VcfcLimit, fhp |-> fhp, zone |-> zone]
<1>1. /\ out \in Seq(Frame) /\ Len(out) \in Nat
      /\ frameCount \in 0 .. CountLimit - 1
      /\ CountLimit \in Nat \ {0} /\ VcfcLimit \in Nat \ {0}
      /\ frameCount % VcfcLimit = Len(out) % VcfcLimit
  BY LenProperties DEF Counted, TypeOK
<1>2. out' = Append(out, f) /\ frameCount' = (frameCount + 1) % CountLimit
  BY DEF Push, NextCount
<1>3. f.vcfc = Len(out) % VcfcLimit
  BY <1>1
<1> HIDE DEF f
<1>4. /\ Len(out') = Len(out) + 1
      /\ \A n \in 1 .. Len(out) : out'[n] = out[n]
      /\ out'[Len(out) + 1] = f
  BY <1>1, <1>2
<1>5. frameCount' % VcfcLimit = (Len(out) + 1) % VcfcLimit
  <2>1. (frameCount + 1) % VcfcLimit = (Len(out) + 1) % VcfcLimit
    <3>1. frameCount \in Nat /\ Len(out) \in Nat /\ Field(frameCount) = Field(Len(out))
      BY <1>1 DEF Field
    <3>2. Field(After(frameCount)) = Field(After(Len(out)))
      BY <3>1, FieldNext
    <3> QED BY <3>2 DEF Field, After
  <2>2. CASE frameCount + 1 < CountLimit
    <3>1. frameCount' = frameCount + 1
      BY SMTT(30), <1>1, <1>2, <2>2
    <3> QED BY <2>1, <3>1
  <2>3. CASE frameCount + 1 = CountLimit
    <3>1. frameCount' = 0
      BY <1>1, <1>2, <2>3
    <3>2. CountLimit % VcfcLimit = 0 /\ 0 % VcfcLimit = 0
      BY <1>1
    <3> QED BY <2>1, <2>3, <3>1, <3>2
  <2> QED BY <1>1, <2>2, <2>3
<1>6. FramesNumbered'
  <2> SUFFICES ASSUME NEW n \in 1 .. Len(out) + 1
               PROVE  out'[n].vcfc = (n - 1) % VcfcLimit
    BY <1>4 DEF FramesNumbered
  <2>1. CASE n \in 1 .. Len(out)
    BY <1>4, <2>1 DEF Counted, FramesNumbered
  <2>2. CASE n = Len(out) + 1
    <3>1. n - 1 = Len(out)
      BY <1>1, <2>2
    <3> QED BY <1>3, <1>4, <2>2, <3>1
  <2> QED BY <1>1, <2>1, <2>2
<1> QED BY <1>4, <1>5, <1>6

LEMMA CountedStep ==
  ASSUME Counted, TypeOK', [Next]_vars
  PROVE  Counted'
<1>1. \/ UNCHANGED <<frameCount, out>>
      \/ \E fhp, zone : Push(fhp, zone)
  BY DEF Next, vars, EndOfStream, TooShort, FitsWithIdle, ShiftedStart, PlainStart,
         FullChunk, LastChunk, IdleFrame, Send, Receive
<1>2. CASE UNCHANGED <<frameCount, out>>
  BY <1>2 DEF Counted, FramesNumbered
<1>3. CASE \E fhp, zone : Push(fhp, zone)
  <2>1. PICK fhp, zone : Push(fhp, zone)
    BY <1>3
  <2> QED BY <2>1, PushCounted DEF Counted
<1> QED BY <1>1, <1>2, <1>3

(* Frames are numbered without a gap, for every size of the counter that   *)
(* is a multiple of the field's (spacepacket.rs:65, 73).                   *)
THEOREM FramesNumberedHolds == Spec => []FramesNumbered
<1>1. Init => Counted
  <2> SUFFICES ASSUME Init PROVE Counted
    OBVIOUS
  <2>1. TypeOK
    BY InitIInv DEF IInv
  <2> QED BY <2>1 DEF Init, Counted, FramesNumbered
<1>2. Counted => FramesNumbered
  BY DEF Counted
<1> QED BY <1>1, <1>2, CountedStep, TypeCorrect, PTL DEF Spec

(* Each frame can be read on its own (spacepacket.rs:58-75, 84-158).       *)
THEOREM FramesWellFormedHolds == Spec => []FramesWellFormed
<1>1. ZonesAreFull /\ FhpPointsAtFirstHeader /\ FramesNumbered => FramesWellFormed
  BY DEF FramesWellFormed
<1> QED BY <1>1, ZonesAreFullHolds, FhpHolds, FramesNumberedHolds, PTL

(* The data zones are one stream of whole packets (spacepacket.rs:84-158). *)
THEOREM StreamIsUnbrokenHolds == Spec => []StreamIsUnbroken
<1>1. IInv => StreamIsUnbroken
  BY DEF IInv, GoodFrames, GoodFrame, Joined, AtEnd, StreamIsUnbroken
<1> QED BY <1>1, InductiveInvariant, PTL
-----------------------------------------------------------------------------
(* What is on the wire when: which packets have begun, in what order, and  *)
(* in how many frames the current one is so far.                           *)
Opens(zone, k) == \E j \in 1 .. Len(zone) : zone[j].packet = k /\ zone[j].from = 0

NotYet == pc = "sizing" \/ (pc = "chunking" /\ spOffset = 0)

Laying == pc \in {"idle", "sending"} \/ (pc = "chunking" /\ spOffset # 0)

Ordered ==
  \A m, n \in 1 .. Len(out), j, k \in 1 .. Len(packets) :
    Begins(m, j) /\ Begins(n, k) => (j < k <=> m < n)

Begun ==
  \A k \in 1 .. Len(packets) :
    k < Current \/ Laying => \E n \in 1 .. Len(out) : Begins(n, k)

Fresh == NotYet => \A n \in 1 .. Len(out) : ~ Begins(n, Current)

Drained == pc = "idle" => nsent = Len(out)

FramesSince(n) == Len(out) - n + 1

(* The loop stands at the end of the c-th data zone of the packet, or, in  *)
(* Case C, short of it by the idle packet in front; then a tail is left.   *)
Whole(c) == spOffset = c * M_PDU_DATA_ZONE_SIZE

Shifted(c) ==
  /\ spOffset + MIN_SPACE_PACKET_SIZE = c * M_PDU_DATA_ZONE_SIZE
  /\ \E q \in Nat, r \in 1 .. MAX_SP_IN_FRAME_WITH_IDLE : Divides(q, r)

Spans ==
  pc = "chunking" /\ spOffset # 0 =>
    \A n \in 1 .. Len(out) :
      Begins(n, Current) => Whole(FramesSince(n)) \/ Shifted(FramesSince(n))

(* A packet of this length and one idle packet take c frames.              *)
Takes(length, c) ==
  length + MIN_SPACE_PACKET_SIZE \in
    (c - 1) * M_PDU_DATA_ZONE_SIZE + 1 .. c * M_PDU_DATA_ZONE_SIZE

Fewest ==
  pc \in {"idle", "sending"} /\ packets # <<>> =>
    \A n \in 1 .. Len(out) : Begins(n, Current) => Takes(l, FramesSince(n))

Laid ==
  /\ Ordered
  /\ Begun
  /\ Fresh
  /\ Drained
  /\ Spans
  /\ Fewest

(* No frame holds a piece of a packet that has not come.                   *)
LEMMA BegunHaveCome ==
  ASSUME IInv, NEW n \in 1 .. Len(out), NEW k \in Nat, Begins(n, k)
  PROVE  k <= Len(packets)
<1>1. PICK j \in 1 .. Len(out[n].zone) : out[n].zone[j].packet = k
  BY DEF Begins
<1>2. GoodFrame(out[n].fhp, out[n].zone)
  BY DEF IInv, GoodFrames
<1> QED BY <1>1, <1>2 DEF GoodFrame

(* A frame that is pushed begins what its data zone opens, and the frames  *)
(* before it are as they were.                                             *)
LEMMA PushBegins ==
  ASSUME TypeOK, NEW fhp, NEW zone, Push(fhp, zone)
  PROVE  /\ Len(out) \in Nat
         /\ Len(out') = Len(out) + 1
         /\ \A n \in 1 .. Len(out), k \in Nat : Begins(n, k)' <=> Begins(n, k)
         /\ \A n \in {Len(out) + 1}, k \in Nat : Begins(n, k)' <=> Opens(zone, k)
<1> DEFINE f == [vcfc |-> frameCount % VcfcLimit, fhp |-> fhp, zone |-> zone]
<1>1. out \in Seq(Frame) /\ Len(out) \in Nat
  BY LenProperties DEF TypeOK
<1>2. out' = Append(out, f) /\ f.zone = zone
  BY DEF Push
<1> HIDE DEF f
<1>3. /\ Len(out') = Len(out) + 1
      /\ \A n \in 1 .. Len(out) : out'[n] = out[n]
      /\ out'[Len(out) + 1] = f
  BY <1>1, <1>2
<1>4. \A n \in 1 .. Len(out), k \in Nat : Begins(n, k)' <=> Begins(n, k)
  BY <1>3 DEF Begins
<1>5. \A n \in {Len(out) + 1}, k \in Nat : Begins(n, k)' <=> Opens(zone, k)
  BY <1>2, <1>3 DEF Begins, Opens
<1> QED BY <1>1, <1>3, <1>4, <1>5

(* A zone of the next bytes of a packet, or of idle, opens no packet; one  *)
(* with the first bytes of the current packet opens that.                  *)
OpensOnlyCurrent(zone) == \A k \in 1 .. Len(packets) : Opens(zone, k) <=> k = Current

OpensNone(zone) == \A k \in 1 .. Len(packets) : ~ Opens(zone, k)

LEMMA Opening ==
  ASSUME IInv, Laid, NotYet, Current \in Nat \ {0}, Current = Len(packets),
         NEW fhp, NEW zone, Push(fhp, zone), packets' = packets, OpensOnlyCurrent(zone)
  PROVE  /\ Ordered' /\ Begun'
         /\ Len(out') = Len(out) + 1
         /\ \A n \in 1 .. Len(out') : Begins(n, Current)' => n = Len(out')
<1>1. /\ Len(out) \in Nat
      /\ Len(out') = Len(out) + 1
      /\ \A n \in 1 .. Len(out), k \in Nat : Begins(n, k)' <=> Begins(n, k)
      /\ \A n \in {Len(out) + 1}, k \in Nat : Begins(n, k)' <=> Opens(zone, k)
  BY PushBegins DEF IInv
<1>2. \A k \in 1 .. Len(packets) : k \in Nat /\ k <= Current
  OBVIOUS
<1>3. \A n \in 1 .. Len(out) : ~ Begins(n, Current)
  BY DEF Laid, Fresh
<1>4. \A n \in 1 .. Len(out) + 1 : n \in 1 .. Len(out) \/ n = Len(out) + 1
  BY <1>1
<1>5. \A n \in {Len(out) + 1}, k \in 1 .. Len(packets) : Begins(n, k)' <=> k = Current
  BY <1>1, <1>2 DEF OpensOnlyCurrent
<1>6. \A n \in 1 .. Len(out), k \in 1 .. Len(packets) :
        Begins(n, k)' => Begins(n, k) /\ k < Current
  BY <1>1, <1>2, <1>3
<1>7. Ordered'
  <2> SUFFICES ASSUME NEW m \in 1 .. Len(out) + 1, NEW n \in 1 .. Len(out) + 1,
                      NEW j \in 1 .. Len(packets), NEW k \in 1 .. Len(packets),
                      Begins(m, j)', Begins(n, k)'
               PROVE  j < k <=> m < n
    BY <1>1 DEF Ordered
  <2>1. CASE m \in 1 .. Len(out) /\ n \in 1 .. Len(out)
    BY <1>6, <2>1 DEF Laid, Ordered
  <2>2. CASE m \in 1 .. Len(out) /\ n = Len(out) + 1
    <3>1. j < Current /\ k = Current
      BY <1>5, <1>6, <2>2
    <3> QED BY <1>1, <2>2, <3>1
  <2>3. CASE m = Len(out) + 1 /\ n \in 1 .. Len(out)
    <3>1. j = Current /\ k < Current
      BY <1>5, <1>6, <2>3
    <3> QED BY <1>1, <2>3, <3>1
  <2>4. CASE m = Len(out) + 1 /\ n = Len(out) + 1
    <3>1. j = Current /\ k = Current
      BY <1>5, <2>4
    <3> QED BY <1>1, <2>4, <3>1
  <2> QED BY <1>4, <2>1, <2>2, <2>3, <2>4
<1>8. Begun'
  <2> SUFFICES ASSUME NEW k \in 1 .. Len(packets)
               PROVE  \E n \in 1 .. Len(out) + 1 : Begins(n, k)'
    BY <1>1 DEF Begun
  <2>1. CASE k = Current
    <3>1. Len(out) + 1 \in 1 .. Len(out) + 1
      BY <1>1
    <3> QED BY <1>5, <2>1, <3>1
  <2>2. CASE k # Current
    <3>1. k < Current
      BY <1>2, <2>2
    <3>2. PICK n \in 1 .. Len(out) : Begins(n, k)
      BY <3>1 DEF Laid, Begun
    <3>3. n \in 1 .. Len(out) + 1
      BY <1>1
    <3> QED BY <1>1, <1>2, <3>2, <3>3
  <2> QED BY <2>1, <2>2
<1>9. Current' = Current /\ Current \in Nat
  BY DEF Current
<1>10. \A n \in 1 .. Len(out') : Begins(n, Current)' => n = Len(out')
  BY <1>1, <1>3, <1>4, <1>9
<1> QED BY <1>1, <1>7, <1>8, <1>10

LEMMA Continuing ==
  ASSUME IInv, Laid, Laying, Current \in Nat \ {0}, Current = Len(packets),
         NEW fhp, NEW zone, Push(fhp, zone), packets' = packets, OpensNone(zone)
  PROVE  /\ Ordered' /\ Begun'
         /\ Len(out) \in Nat
         /\ Len(out') = Len(out) + 1
         /\ \A n \in 1 .. Len(out') :
              Begins(n, Current)' => n \in 1 .. Len(out) /\ Begins(n, Current)
<1>1. /\ Len(out) \in Nat
      /\ Len(out') = Len(out) + 1
      /\ \A n \in 1 .. Len(out), k \in Nat : Begins(n, k)' <=> Begins(n, k)
      /\ \A n \in {Len(out) + 1}, k \in Nat : Begins(n, k)' <=> Opens(zone, k)
  BY PushBegins DEF IInv
<1>2. \A k \in 1 .. Len(packets) : k \in Nat
  OBVIOUS
<1>3. \A n \in 1 .. Len(out) + 1 : n \in 1 .. Len(out) \/ n = Len(out) + 1
  BY <1>1
<1>4. \A n \in 1 .. Len(out) + 1, k \in 1 .. Len(packets) :
        Begins(n, k)' => n \in 1 .. Len(out) /\ Begins(n, k)
  BY <1>1, <1>2, <1>3 DEF OpensNone
<1>5. Ordered'
  BY <1>1, <1>4 DEF Laid, Ordered
<1>6. Begun'
  <2> SUFFICES ASSUME NEW k \in 1 .. Len(packets)
               PROVE  \E n \in 1 .. Len(out) + 1 : Begins(n, k)'
    BY <1>1 DEF Begun
  <2>1. PICK n \in 1 .. Len(out) : Begins(n, k)
    BY DEF Laid, Begun
  <2>2. n \in 1 .. Len(out) + 1
    BY <1>1
  <2> QED BY <1>1, <1>2, <2>1, <2>2
<1>7. Current' = Current /\ Current \in 1 .. Len(packets)
  BY DEF Current
<1> QED BY <1>1, <1>4, <1>5, <1>6, <1>7

LEMMA OpensOne ==
  ASSUME NEW a \in Segment, NEW k
  PROVE  Opens(<<a>>, k) <=> a.packet = k /\ a.from = 0
<1>1. Len(<<a>>) = 1 /\ <<a>>[1] = a
  BY OneSegment
<1> QED BY <1>1 DEF Opens

LEMMA OpensTwo ==
  ASSUME NEW a \in Segment, NEW b \in Segment, NEW k
  PROVE  Opens(<<a, b>>, k) <=> \/ a.packet = k /\ a.from = 0
                                \/ b.packet = k /\ b.from = 0
<1> DEFINE zone == <<a, b>>
<1>1. Len(zone) = 2 /\ zone[1] = a /\ zone[2] = b
  BY TwoSegments
<1> HIDE DEF zone
<1>2. Opens(zone, k) <=> \E j \in {1, 2} : zone[j].packet = k /\ zone[j].from = 0
  BY <1>1 DEF Opens
<1>3. Opens(zone, k) <=> \/ a.packet = k /\ a.from = 0
                         \/ b.packet = k /\ b.from = 0
  BY <1>1, <1>2
<1> QED BY <1>3 DEF zone

(* What the zones of the four branches open.                               *)
LEMMA ZonesOpen ==
  ASSUME TypeOK, Current \in Nat \ {0}, NEW i \in Nat, NEW p \in Nat
  PROVE  /\ spOffset = 0 => /\ OpensOnlyCurrent(<<Piece(p), Idle(i)>>)
                            /\ OpensOnlyCurrent(<<Idle(i), Piece(p)>>)
                            /\ OpensOnlyCurrent(<<Piece(p)>>)
         /\ spOffset # 0 => /\ OpensNone(<<Piece(p), Idle(i)>>)
                            /\ OpensNone(<<Piece(p)>>)
         /\ OpensNone(<<Idle(i)>>)
<1> DEFINE a == Piece(p)
           b == Idle(i)
<1>1. /\ a \in Segment /\ a.packet = Current /\ a.from = spOffset
      /\ b \in Segment /\ b.packet = 0 /\ b.from = 0
  BY Pieces
<1> HIDE DEF a, b
<1>2. \A k \in 1 .. Len(packets) : k # 0
  OBVIOUS
<1>3. \A k \in 1 .. Len(packets) :
        /\ Opens(<<a, b>>, k) <=> k = Current /\ spOffset = 0
        /\ Opens(<<b, a>>, k) <=> k = Current /\ spOffset = 0
        /\ Opens(<<a>>, k) <=> k = Current /\ spOffset = 0
        /\ ~ Opens(<<b>>, k)
  BY <1>1, <1>2, OpensOne, OpensTwo
<1> QED BY <1>3 DEF a, b, OpensOnlyCurrent, OpensNone

LEMMA ZoneMultiples ==
  ASSUME NEW c \in Int
  PROVE  /\ c * M_PDU_DATA_ZONE_SIZE \in Int
         /\ (c + 1) * M_PDU_DATA_ZONE_SIZE = c * M_PDU_DATA_ZONE_SIZE + M_PDU_DATA_ZONE_SIZE
         /\ 1 * M_PDU_DATA_ZONE_SIZE = M_PDU_DATA_ZONE_SIZE
         /\ 0 * M_PDU_DATA_ZONE_SIZE = 0
  BY Sizes

(* Counting frames from where a packet began, as one is pushed.            *)
LEMMA Since ==
  ASSUME Len(out) \in Nat, Len(out') = Len(out) + 1
  PROVE  /\ \A n \in 1 .. Len(out) : /\ FramesSince(n) \in Nat \ {0}
                                     /\ FramesSince(n)' = FramesSince(n) + 1
         /\ \A n \in {Len(out) + 1} : FramesSince(n)' = 1
  BY DEF FramesSince

LEMMA FitsWithIdleLaid ==
  ASSUME IInv, Laid, FitsWithIdle
  PROVE  Laid'
<1> DEFINE zone == <<Piece(l), Idle(M_PDU_DATA_ZONE_SIZE - l)>>
<1>1. /\ pc = "sizing" /\ pc' = "sending" /\ spOffset = 0
      /\ l \in 1 .. MAX_SP_IN_FRAME_WITH_IDLE
      /\ Push(0, zone)
      /\ packets' = packets
  BY Packing, Sizes DEF FitsWithIdle, IInv, HasPacket
<1>2. /\ TypeOK /\ Current \in Nat \ {0} /\ Current = Len(packets)
      /\ l \in Nat /\ M_PDU_DATA_ZONE_SIZE - l \in Nat
  BY <1>1, Packing, Sizes
<1>3. OpensOnlyCurrent(zone)
  BY <1>1, <1>2, ZonesOpen
<1> HIDE DEF zone
<1>4. /\ Ordered' /\ Begun'
      /\ Len(out') = Len(out) + 1
      /\ \A n \in 1 .. Len(out') : Begins(n, Current)' => n = Len(out')
  BY <1>1, <1>2, <1>3, Opening DEF NotYet
<1>5. Fewest'
  <2> SUFFICES ASSUME NEW n \in 1 .. Len(out'), Begins(n, Current)'
               PROVE  Takes(l, FramesSince(n))'
    BY DEF Fewest
  <2>1. FramesSince(n)' = 1
    BY <1>4, Since
  <2>2. l' = l
    BY <1>1 DEF l, Current
  <2> QED BY <1>1, <1>2, <2>1, <2>2, Sizes, ZoneMultiples DEF Takes
<1>6. Fresh' /\ Drained' /\ Spans'
  BY <1>1 DEF Fresh, NotYet, Drained, Spans
<1> QED BY <1>4, <1>5, <1>6 DEF Laid

LEMMA ShiftedStartLaid ==
  ASSUME IInv, Laid, ShiftedStart
  PROVE  Laid'
<1> DEFINE zone == <<Idle(MIN_SPACE_PACKET_SIZE), Piece(MAX_SP_IN_FRAME_WITH_IDLE)>>
<1>1. /\ pc = "sizing" /\ pc' = "chunking"
      /\ l % M_PDU_DATA_ZONE_SIZE > MAX_SP_IN_FRAME_WITH_IDLE
      /\ Push(0, zone)
      /\ packets' = packets
      /\ spOffset = 0 /\ spOffset' = MAX_SP_IN_FRAME_WITH_IDLE
  BY DEF ShiftedStart, LongPacket, Pathological, IInv, HasPacket
<1>2. /\ TypeOK /\ Current \in Nat \ {0} /\ Current = Len(packets)
      /\ l \in Nat
  BY <1>1, Packing
<1>3. OpensOnlyCurrent(zone)
  BY <1>1, <1>2, ZonesOpen, Sizes
<1> HIDE DEF zone
<1>4. /\ Ordered' /\ Begun'
      /\ Len(out') = Len(out) + 1
      /\ \A n \in 1 .. Len(out') : Begins(n, Current)' => n = Len(out')
  BY <1>1, <1>2, <1>3, Opening DEF NotYet
<1>5. \E q \in Nat, r \in 1 .. MAX_SP_IN_FRAME_WITH_IDLE : Divides(q, r)'
  <2>1. PICK q \in Nat, r \in MAX_SP_IN_FRAME_WITH_IDLE + 1 .. M_PDU_DATA_ZONE_SIZE - 1 :
          l = M_PDU_DATA_ZONE_SIZE * q + r
    <3>1. \E q \in Nat, r \in MAX_SP_IN_FRAME_WITH_IDLE + 1 .. M_PDU_DATA_ZONE_SIZE - 1 :
             l = M_PDU_DATA_ZONE_SIZE * q + r
      BY <1>1, <1>2, Remainders, Zenon
    <3> QED BY <3>1
  <2> DEFINE t == r - MAX_SP_IN_FRAME_WITH_IDLE
  <2>2. t \in 1 .. MAX_SP_IN_FRAME_WITH_IDLE
    BY Sizes
  <2>3. l - MAX_SP_IN_FRAME_WITH_IDLE = M_PDU_DATA_ZONE_SIZE * q + t
    BY <1>2, <2>1, Sizes
  <2> HIDE DEF t
  <2>4. l' = l
    BY <1>1 DEF l, Current
  <2>5. Divides(q, t)'
    BY <1>1, <2>3, <2>4 DEF Divides, Remaining
  <2> QED BY <2>2, <2>5
<1>6. Spans'
  <2> SUFFICES ASSUME NEW n \in 1 .. Len(out'), Begins(n, Current)'
               PROVE  Shifted(FramesSince(n))'
    BY DEF Spans
  <2>1. FramesSince(n)' = 1
    BY <1>4, Since
  <2>2. (spOffset + MIN_SPACE_PACKET_SIZE = FramesSince(n) * M_PDU_DATA_ZONE_SIZE)'
    BY <1>1, <2>1, Sizes, ZoneMultiples
  <2> QED BY <1>5, <2>2 DEF Shifted
<1>7. Fresh' /\ Drained' /\ Fewest'
  BY <1>1, Sizes DEF Fresh, NotYet, Drained, Fewest
<1> QED BY <1>4, <1>6, <1>7 DEF Laid

LEMMA PlainStartLaid ==
  ASSUME IInv, Laid, PlainStart
  PROVE  Laid'
<1>1. /\ pc = "sizing" /\ pc' = "chunking"
      /\ UNCHANGED <<packets, nsent, spOffset, frameCount, out>>
      /\ spOffset = 0
  BY DEF PlainStart, LongPacket, IInv, HasPacket
<1>2. /\ Current' = Current
      /\ \A n, k : Begins(n, k)' <=> Begins(n, k)
  BY <1>1 DEF Current, Begins
<1>3. Ordered'
  BY <1>1, <1>2 DEF Laid, Ordered
<1>4. Begun'
  BY <1>1, <1>2 DEF Laid, Begun, Laying
<1>5. Fresh'
  BY <1>1, <1>2 DEF Laid, Fresh, NotYet, Begins
<1>6. Drained' /\ Spans' /\ Fewest'
  BY <1>1 DEF Drained, Spans, Fewest
<1> QED BY <1>3, <1>4, <1>5, <1>6 DEF Laid

(* A data zone taken off what is left of the packet leaves the same tail.  *)
LEMMA OneZoneLess ==
  ASSUME NEW rest \in Nat, NEW q \in Nat, NEW r \in 1 .. MAX_SP_IN_FRAME_WITH_IDLE,
         rest = M_PDU_DATA_ZONE_SIZE * q + r, rest > MAX_SP_IN_FRAME_WITH_IDLE
  PROVE  /\ q - 1 \in Nat
         /\ rest - M_PDU_DATA_ZONE_SIZE = M_PDU_DATA_ZONE_SIZE * (q - 1) + r
<1>1. q # 0
  <2> SUFFICES ASSUME q = 0 PROVE FALSE
    OBVIOUS
  <2>1. M_PDU_DATA_ZONE_SIZE * q = 0
    BY Sizes
  <2> QED BY <2>1, Sizes
<1> QED BY <1>1, Sizes

LEMMA FullChunkLaid ==
  ASSUME IInv, IInv', Laid, FullChunk
  PROVE  Laid'
<1> DEFINE zone == <<Piece(M_PDU_DATA_ZONE_SIZE)>>
<1>1. /\ pc = "chunking" /\ pc' = "chunking"
      /\ Remaining > MAX_SP_IN_FRAME_WITH_IDLE
      /\ packets' = packets
      /\ Push(ChunkFhp, zone)
      /\ spOffset' = spOffset + M_PDU_DATA_ZONE_SIZE
  BY DEF FullChunk, IInv, NeverPanics
<1>2. /\ TypeOK /\ Current \in Nat \ {0} /\ Current = Len(packets)
      /\ l \in Nat /\ spOffset \in Nat
      /\ Remaining \in Nat
  BY <1>1, Packing, Looping
<1>3. /\ spOffset = 0 => OpensOnlyCurrent(zone)
      /\ spOffset # 0 => OpensNone(zone)
  BY <1>2, ZonesOpen, Sizes
<1> HIDE DEF zone
<1>4. /\ l' = l /\ Current' = Current
      /\ Remaining' = Remaining - M_PDU_DATA_ZONE_SIZE
      /\ spOffset' # 0
  BY <1>1, <1>2, Sizes DEF l, Current, Remaining
<1>5. CASE spOffset = 0
  <2>1. /\ Ordered' /\ Begun'
        /\ Len(out') = Len(out) + 1
        /\ \A n \in 1 .. Len(out') : Begins(n, Current)' => n = Len(out')
    BY <1>1, <1>2, <1>3, <1>5, Opening DEF NotYet
  <2>2. Spans'
    <3> SUFFICES ASSUME NEW n \in 1 .. Len(out'), Begins(n, Current)'
                 PROVE  Whole(FramesSince(n))'
      BY DEF Spans
    <3>1. FramesSince(n)' = 1
      BY <2>1, Since
    <3> QED BY <1>1, <1>5, <3>1, Sizes, ZoneMultiples DEF Whole
  <2> QED BY <2>1, <2>2, <1>1, <1>4 DEF Laid, Fresh, NotYet, Drained, Fewest
<1>6. CASE spOffset # 0
  <2>1. /\ Ordered' /\ Begun'
        /\ Len(out) \in Nat
        /\ Len(out') = Len(out) + 1
        /\ \A n \in 1 .. Len(out') :
             Begins(n, Current)' => n \in 1 .. Len(out) /\ Begins(n, Current)
    BY <1>1, <1>2, <1>3, <1>6, Continuing DEF Laying
  <2>2. Spans'
    <3> SUFFICES ASSUME NEW n \in 1 .. Len(out'), Begins(n, Current)'
                 PROVE  (Whole(FramesSince(n)) \/ Shifted(FramesSince(n)))'
      BY DEF Spans
    <3>1. n \in 1 .. Len(out) /\ Begins(n, Current)
      BY <2>1
    <3>2. /\ FramesSince(n) \in Nat \ {0}
          /\ FramesSince(n)' = FramesSince(n) + 1
      BY <2>1, <3>1, Since
    <3>3. /\ FramesSince(n) * M_PDU_DATA_ZONE_SIZE \in Int
          /\ (FramesSince(n) + 1) * M_PDU_DATA_ZONE_SIZE
               = FramesSince(n) * M_PDU_DATA_ZONE_SIZE + M_PDU_DATA_ZONE_SIZE
      BY <3>2, ZoneMultiples
    <3>4. CASE Whole(FramesSince(n))
      BY <1>1, <3>2, <3>3, <3>4 DEF Whole
    <3>5. CASE Shifted(FramesSince(n))
      <4>1. (spOffset + MIN_SPACE_PACKET_SIZE = FramesSince(n) * M_PDU_DATA_ZONE_SIZE)'
        BY <1>1, <1>2, <3>2, <3>3, <3>5, Sizes DEF Shifted
      <4>2. PICK q \in Nat, r \in 1 .. MAX_SP_IN_FRAME_WITH_IDLE : Divides(q, r)
        BY <3>5 DEF Shifted
      <4>3. /\ q - 1 \in Nat
            /\ Remaining - M_PDU_DATA_ZONE_SIZE = M_PDU_DATA_ZONE_SIZE * (q - 1) + r
        BY <1>1, <1>2, <4>2, OneZoneLess DEF Divides
      <4>4. Divides(q - 1, r)'
        BY <1>4, <4>3 DEF Divides
      <4> QED BY <4>1, <4>3, <4>4 DEF Shifted
    <3> QED BY <1>1, <1>6, <3>1, <3>4, <3>5 DEF Laid, Spans
  <2> QED BY <2>1, <2>2, <1>1, <1>4 DEF Laid, Fresh, NotYet, Drained, Fewest
<1> QED BY <1>5, <1>6

LEMMA LastChunkLaid ==
  ASSUME IInv, Laid, LastChunk
  PROVE  Laid'
<1> DEFINE zone == <<Piece(Remaining), Idle(M_PDU_DATA_ZONE_SIZE - Remaining)>>
<1>1. /\ pc = "chunking" /\ pc' = "sending"
      /\ Remaining \in 1 .. MAX_SP_IN_FRAME_WITH_IDLE
      /\ Push(Remaining, zone)
      /\ packets' = packets /\ spOffset' = spOffset
  BY DEF LastChunk
<1>2. /\ TypeOK /\ Current \in Nat \ {0} /\ Current = Len(packets)
      /\ l \in Nat /\ spOffset \in Nat
      /\ l > MAX_SP_IN_FRAME_WITH_IDLE
  BY <1>1, Packing, Looping
<1>3. /\ Remaining \in Nat /\ M_PDU_DATA_ZONE_SIZE - Remaining \in Nat
      /\ spOffset + Remaining = l
      /\ spOffset # 0
  BY <1>1, <1>2, Sizes DEF Remaining
<1>4. OpensNone(zone)
  BY <1>2, <1>3, ZonesOpen
<1> HIDE DEF zone
<1>5. /\ Ordered' /\ Begun'
      /\ Len(out) \in Nat
      /\ Len(out') = Len(out) + 1
      /\ \A n \in 1 .. Len(out') :
           Begins(n, Current)' => n \in 1 .. Len(out) /\ Begins(n, Current)
  BY <1>1, <1>2, <1>3, <1>4, Continuing DEF Laying
<1>6. Fewest'
  <2> SUFFICES ASSUME NEW n \in 1 .. Len(out'), Begins(n, Current)'
               PROVE  Takes(l, FramesSince(n))'
    BY DEF Fewest
  <2> DEFINE c == FramesSince(n)
  <2>1. n \in 1 .. Len(out) /\ Begins(n, Current)
    BY <1>5
  <2>2. c \in Nat \ {0} /\ FramesSince(n)' = c + 1
    BY <1>5, <2>1, Since
  <2>3. Whole(c) \/ Shifted(c)
    BY <1>1, <1>3, <2>1 DEF Laid, Spans
  <2>4. l' = l
    BY <1>1 DEF l, Current
  <2> HIDE DEF c
  <2>5. /\ c * M_PDU_DATA_ZONE_SIZE \in Int
        /\ (c + 1) * M_PDU_DATA_ZONE_SIZE = c * M_PDU_DATA_ZONE_SIZE + M_PDU_DATA_ZONE_SIZE
    BY <2>2, ZoneMultiples
  <2>6. l + MIN_SPACE_PACKET_SIZE \in
          c * M_PDU_DATA_ZONE_SIZE + 1 .. c * M_PDU_DATA_ZONE_SIZE + M_PDU_DATA_ZONE_SIZE
    <3>1. CASE Whole(c)
      BY <1>1, <1>2, <1>3, <2>5, <3>1, Sizes DEF Whole
    <3>2. CASE Shifted(c)
      BY <1>1, <1>2, <1>3, <2>5, <3>2, Sizes DEF Shifted
    <3> QED BY <2>3, <3>1, <3>2
  <2>7. c + 1 - 1 = c
    BY <2>2
  <2> QED BY <2>2, <2>4, <2>5, <2>6, <2>7 DEF Takes
<1>7. Fresh' /\ Drained' /\ Spans'
  BY <1>1 DEF Fresh, NotYet, Drained, Spans
<1> QED BY <1>5, <1>6, <1>7 DEF Laid

LEMMA IdleFrameLaid ==
  ASSUME IInv, Laid, IdleFrame
  PROVE  Laid'
<1> DEFINE zone == <<Idle(M_PDU_DATA_ZONE_SIZE)>>
<1>1. /\ pc = "chunking" /\ pc' = "sending"
      /\ Remaining = 0
      /\ Push(0, zone)
      /\ packets' = packets /\ spOffset' = spOffset
  BY DEF IdleFrame
<1>2. /\ TypeOK /\ Current \in Nat \ {0} /\ Current = Len(packets)
      /\ l \in Nat /\ spOffset \in Nat
      /\ l > MAX_SP_IN_FRAME_WITH_IDLE
  BY <1>1, Packing, Looping
<1>3. spOffset = l /\ spOffset # 0
  BY <1>1, <1>2, Sizes DEF Remaining
<1>4. OpensNone(zone)
  BY <1>2, ZonesOpen, Sizes
<1> HIDE DEF zone
<1>5. /\ Ordered' /\ Begun'
      /\ Len(out) \in Nat
      /\ Len(out') = Len(out) + 1
      /\ \A n \in 1 .. Len(out') :
           Begins(n, Current)' => n \in 1 .. Len(out) /\ Begins(n, Current)
  BY <1>1, <1>2, <1>3, <1>4, Continuing DEF Laying
<1>6. Fewest'
  <2> SUFFICES ASSUME NEW n \in 1 .. Len(out'), Begins(n, Current)'
               PROVE  Takes(l, FramesSince(n))'
    BY DEF Fewest
  <2> DEFINE c == FramesSince(n)
  <2>1. n \in 1 .. Len(out) /\ Begins(n, Current)
    BY <1>5
  <2>2. c \in Nat \ {0} /\ FramesSince(n)' = c + 1
    BY <1>5, <2>1, Since
  <2>3. Whole(c)
    <3>1. Whole(c) \/ Shifted(c)
      BY <1>1, <1>3, <2>1 DEF Laid, Spans
    <3>2. ~ Shifted(c)
      <4> SUFFICES ASSUME NEW q \in Nat, NEW r \in 1 .. MAX_SP_IN_FRAME_WITH_IDLE,
                          Divides(q, r)
                   PROVE  FALSE
        BY DEF Shifted
      <4>1. M_PDU_DATA_ZONE_SIZE * q \in Nat
        BY Sizes
      <4> QED BY <1>1, <4>1 DEF Divides
    <3> QED BY <3>1, <3>2
  <2>4. l' = l
    BY <1>1 DEF l, Current
  <2> HIDE DEF c
  <2>5. /\ c * M_PDU_DATA_ZONE_SIZE \in Int
        /\ (c + 1) * M_PDU_DATA_ZONE_SIZE = c * M_PDU_DATA_ZONE_SIZE + M_PDU_DATA_ZONE_SIZE
    BY <2>2, ZoneMultiples
  <2>6. c + 1 - 1 = c
    BY <2>2
  <2>7. l + MIN_SPACE_PACKET_SIZE \in
          c * M_PDU_DATA_ZONE_SIZE + 1 .. c * M_PDU_DATA_ZONE_SIZE + M_PDU_DATA_ZONE_SIZE
    BY <1>2, <1>3, <2>3, <2>5, Sizes DEF Whole
  <2> QED BY <2>2, <2>4, <2>5, <2>6, <2>7 DEF Takes
<1>7. Fresh' /\ Drained' /\ Spans'
  BY <1>1 DEF Fresh, NotYet, Drained, Spans
<1> QED BY <1>5, <1>6, <1>7 DEF Laid

LEMMA ReceiveLaid ==
  ASSUME IInv, Laid, NEW length \in Nat, Receive(length)
  PROVE  Laid'
<1>1. /\ packets' = Append(packets, length) /\ spOffset' = 0
      /\ pc = "idle" /\ pc' = "sizing"
      /\ UNCHANGED <<frameCount, out, nsent>>
  BY DEF Receive
<1>2. /\ Len(packets) \in Nat /\ Len(packets') = Len(packets) + 1
      /\ Current = Len(packets) /\ Current' = Len(packets) + 1
  BY <1>1, LenProperties, AppendProperties DEF IInv, TypeOK, Current
<1>3. \A k \in 1 .. Len(packets') : /\ k \in Nat
                                    /\ k \in 1 .. Len(packets) \/ k = Len(packets) + 1
  BY <1>2
<1>4. \A n, k : Begins(n, k)' <=> Begins(n, k)
  BY <1>1 DEF Begins
<1>5. ASSUME NEW n \in 1 .. Len(out), NEW k \in 1 .. Len(packets'), Begins(n, k)
      PROVE  k \in 1 .. Len(packets)
  BY <1>2, <1>3, <1>5, BegunHaveCome
<1>6. Ordered'
  BY <1>1, <1>4, <1>5 DEF Laid, Ordered
<1>7. Begun'
  <2> SUFFICES ASSUME NEW k \in 1 .. Len(packets), k < Len(packets) + 1
               PROVE  \E n \in 1 .. Len(out) : Begins(n, k)
    BY <1>1, <1>2, <1>3, <1>4 DEF Begun, Laying
  <2> QED BY <1>1 DEF Laid, Begun, Laying
<1>8. Fresh'
  <2> SUFFICES ASSUME NEW n \in 1 .. Len(out), Begins(n, Len(packets) + 1)
               PROVE  FALSE
    BY <1>1, <1>2, <1>4 DEF Fresh
  <2>1. Len(packets) + 1 \in 1 .. Len(packets')
    BY <1>2
  <2> QED BY <1>2, <1>5, <2>1
<1>9. Drained' /\ Spans' /\ Fewest'
  BY <1>1 DEF Drained, Spans, Fewest
<1> QED BY <1>6, <1>7, <1>8, <1>9 DEF Laid

(* A step that pushes no frame, takes no packet and leaves the loop alone. *)
LEMMA QuietLaid ==
  ASSUME Laid, UNCHANGED <<packets, spOffset, out>>,
         \/ pc' = "ended"
         \/ pc' = pc /\ (pc = "idle" => nsent' = nsent)
         \/ pc = "sending" /\ pc' = "idle" /\ nsent' = Len(out)
  PROVE  Laid'
<1>1. /\ Current' = Current /\ l' = l /\ Remaining' = Remaining
      /\ \A n : FramesSince(n)' = FramesSince(n)
      /\ \A n, k : Begins(n, k)' <=> Begins(n, k)
  BY DEF Current, l, Remaining, FramesSince, Begins
<1>2. Ordered'
  BY <1>1 DEF Laid, Ordered
<1>3. Begun'
  BY <1>1 DEF Laid, Begun, Laying
<1>4. Fresh'
  BY <1>1 DEF Laid, Fresh, NotYet, Begins
<1>5. Drained'
  BY DEF Laid, Drained
<1>6. Spans'
  BY <1>1 DEF Laid, Spans, Whole, Shifted, Divides, Begins, FramesSince
<1>7. Fewest'
  BY <1>1 DEF Laid, Fewest, Takes, Begins, FramesSince
<1> QED BY <1>2, <1>3, <1>4, <1>5, <1>6, <1>7 DEF Laid

LEMMA LaidStep ==
  ASSUME IInv, IInv', Laid, [Next]_vars
  PROVE  Laid'
<1>1. CASE EndOfStream \/ TooShort \/ UNCHANGED vars
  BY <1>1, QuietLaid DEF EndOfStream, TooShort, vars
<1>2. CASE Send
  <2>1. nsent \in Nat /\ Len(out) \in Nat
    BY LenProperties DEF IInv, TypeOK
  <2> QED BY <1>2, <2>1, QuietLaid DEF Send, AllSent
<1>3. ASSUME NEW length \in Lengths, Receive(length) PROVE Laid'
  BY <1>3, ReceiveLaid
<1> QED BY <1>1, <1>2, <1>3, FitsWithIdleLaid, ShiftedStartLaid, PlainStartLaid,
           FullChunkLaid, LastChunkLaid, IdleFrameLaid DEF Next

LEMMA InitLaid == Init => Laid
<1> SUFFICES ASSUME Init PROVE Laid
  OBVIOUS
<1>1. /\ packets = <<>> /\ out = <<>> /\ nsent = 0 /\ pc = "idle"
      /\ Len(<<>>) = 0
  BY EmptySeq DEF Init
<1> HIDE DEF Init
<1> QED BY <1>1 DEF Laid, Ordered, Begun, Fresh, NotYet, Drained, Spans, Fewest

(* Order, completeness and the number of frames, packet by packet: what    *)
(* the frames assembled so far hold of the packets received so far.        *)
THEOREM LaidInvariant == Spec => []Laid
  BY InitLaid, LaidStep, InductiveInvariant, PTL DEF Spec

(* Every packet received is on the wire once the program waits for the     *)
(* next, and in the order they came (main.rs:92-96).                       *)
THEOREM EveryPacketSentHolds == Spec => []EveryPacketSent
<1>1. Laid => EveryPacketSent
  <2> SUFFICES ASSUME Laid, pc = "idle"
               PROVE  /\ nsent = Len(out)
                      /\ \A k \in 1 .. Len(packets) : \E n \in 1 .. nsent : Begins(n, k)
                      /\ \A j, k \in 1 .. Len(packets), m, n \in 1 .. nsent :
                           Begins(m, j) /\ Begins(n, k) => (j < k <=> m < n)
    BY DEF EveryPacketSent
  <2>1. nsent = Len(out)
    BY DEF Laid, Drained
  <2> QED BY <2>1 DEF Laid, Ordered, Begun, Laying
<1> QED BY <1>1, LaidInvariant, PTL

(* A packet takes the fewest frames that hold it and one idle packet, for  *)
(* every length and every size of the data zone (spacepacket.rs:92-131).   *)
THEOREM FewestFramesHolds == Spec => []FewestFrames
<1>1. IInv /\ Laid => FewestFrames
  <2> SUFFICES ASSUME IInv, Laid, pc = "idle", packets # <<>>
               PROVE  LET ofThis == CHOOSE n \in 1 .. Len(out) : Begins(n, Current)
                      IN  Takes(l, FramesSince(ofThis))
    BY Zenon DEF FewestFrames, Takes, FramesSince
  <2> DEFINE ofThis == CHOOSE n \in 1 .. Len(out) : Begins(n, Current)
  <2>1. Current \in 1 .. Len(packets)
    BY EmptySeq, LenProperties DEF IInv, TypeOK, Current
  <2>2. \E n \in 1 .. Len(out) : Begins(n, Current)
    BY <2>1 DEF Laid, Begun, Laying
  <2>3. ofThis \in 1 .. Len(out) /\ Begins(ofThis, Current)
    BY <2>2
  <2> HIDE DEF ofThis
  <2>4. Takes(l, FramesSince(ofThis))
    BY <2>3 DEF Laid, Fewest
  <2> QED BY <2>4, Zenon DEF ofThis
<1> QED BY <1>1, LaidInvariant, InductiveInvariant, PTL
=============================================================================
