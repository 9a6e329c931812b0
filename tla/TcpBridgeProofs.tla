-------------------------- MODULE TcpBridgeProofs ---------------------------
(***************************************************************************)
(* Proofs about TcpBridge, for any size of reads, pipes and streams.       *)
(***************************************************************************)
EXTENDS TcpBridge, SequenceTheorems, TLAPS

(* Once kble's Close was read nothing of it is left to be written.         *)
CloseInv == ws # "active" => wsEnd = "close" /\ wsIn = <<>> /\ body = <<>>

ResultInv == Running => result = "none"

IInv == TypeOK /\ BytesInOrder /\ CloseInv /\ ResultInv /\ CleanEndIsComplete
-----------------------------------------------------------------------------
(* How bytes move along done \o hand \o rest, what a loop has passed on,   *)
(* has in hand and has still to read.                                      *)

LEMMA Regroup ==
  ASSUME NEW s \in Seq(Byte), NEW t \in Seq(Byte), NEW u \in Seq(Byte)
  PROVE  (s \o t) \o u = s \o (t \o u)
BY ConcatAssociative

LEMMA Split ==
  ASSUME NEW s \in Seq(Byte), NEW k \in 1 .. Len(s)
  PROVE  /\ SubSeq(s, 1, k) \in Seq(Byte)
         /\ SubSeq(s, k + 1, Len(s)) \in Seq(Byte)
         /\ Len(SubSeq(s, 1, k)) = k
         /\ SubSeq(s, 1, k) \o SubSeq(s, k + 1, Len(s)) = s
<1>1. Len(s) \in Nat /\ \A i \in 1 .. Len(s) : s[i] \in Byte
  BY LenProperties
<1>2. SubSeq(s, 1, k) \in Seq(Byte) /\ Len(SubSeq(s, 1, k)) = k
  <2>1. \A i \in 1 .. k : s[i] \in Byte
    BY <1>1
  <2>2. 1 \in Int /\ k \in Int /\ 1 <= k
    BY <1>1
  <2>3. /\ SubSeq(s, 1, k) \in Seq(Byte)
        /\ Len(SubSeq(s, 1, k)) = IF 1 <= k THEN k - 1 + 1 ELSE 0
    BY <2>1, <2>2, SubSeqProperties
  <2> QED BY <2>2, <2>3
<1>3. SubSeq(s, k + 1, Len(s)) \in Seq(Byte)
  <2>1. \A i \in k + 1 .. Len(s) : s[i] \in Byte
    BY <1>1
  <2> QED BY <1>1, <2>1, SubSeqProperties
<1>4. SubSeq(s, 1, k) \o SubSeq(s, k + 1, Len(s)) = SubSeq(s, 1, Len(s))
  <2>1. 1 \in 1 .. Len(s) + 1 /\ k \in 1 - 1 .. Len(s) /\ Len(s) \in k .. Len(s)
    BY <1>1
  <2> QED BY <2>1, ConcatAdjacentSubSeq
<1> QED BY <1>2, <1>3, <1>4, SubSeqFull

LEMMA Taken ==
  ASSUME NEW done \in Seq(Byte), NEW rest \in Seq(Byte), NEW k \in 1 .. Len(rest)
  PROVE  done \o SubSeq(rest, 1, k) \o SubSeq(rest, k + 1, Len(rest)) = done \o <<>> \o rest
<1>1. /\ SubSeq(rest, 1, k) \in Seq(Byte) /\ SubSeq(rest, k + 1, Len(rest)) \in Seq(Byte)
      /\ SubSeq(rest, 1, k) \o SubSeq(rest, k + 1, Len(rest)) = rest
  BY Split
<1>2. done \o SubSeq(rest, 1, k) \o SubSeq(rest, k + 1, Len(rest))
        = done \o (SubSeq(rest, 1, k) \o SubSeq(rest, k + 1, Len(rest)))
  BY <1>1, Regroup, Zenon
<1>3. done \o <<>> = done
  BY ConcatEmptySeq
<1> QED BY <1>1, <1>2, <1>3

LEMMA PassedOn ==
  ASSUME NEW done \in Seq(Byte), NEW hand \in Seq(Byte), NEW rest \in Seq(Byte),
         NEW k \in 1 .. Len(hand)
  PROVE  /\ done \o SubSeq(hand, 1, k) \in Seq(Byte)
         /\ (done \o SubSeq(hand, 1, k)) \o SubSeq(hand, k + 1, Len(hand)) \o rest
              = done \o hand \o rest
<1>1. /\ SubSeq(hand, 1, k) \in Seq(Byte) /\ SubSeq(hand, k + 1, Len(hand)) \in Seq(Byte)
      /\ SubSeq(hand, 1, k) \o SubSeq(hand, k + 1, Len(hand)) = hand
  BY Split
<1>2. (done \o SubSeq(hand, 1, k)) \o SubSeq(hand, k + 1, Len(hand))
        = done \o (SubSeq(hand, 1, k) \o SubSeq(hand, k + 1, Len(hand)))
  BY <1>1, Regroup, Zenon
<1>3. done \o SubSeq(hand, 1, k) \in Seq(Byte)
  BY <1>1, ConcatProperties
<1> QED BY <1>1, <1>2, <1>3

LEMMA AllPassedOn ==
  ASSUME NEW done \in Seq(Byte), NEW hand \in Seq(Byte), NEW rest \in Seq(Byte)
  PROVE  /\ done \o hand \in Seq(Byte)
         /\ (done \o hand) \o <<>> \o rest = done \o hand \o rest
BY ConcatProperties, ConcatEmptySeq

LEMMA Added ==
  ASSUME NEW done \in Seq(Byte), NEW hand \in Seq(Byte), NEW rest \in Seq(Byte),
         NEW x \in Byte
  PROVE  Append(done \o hand \o rest, x) = done \o hand \o Append(rest, x)
<1>1. done \o hand \in Seq(Byte) /\ done \o hand \o rest \in Seq(Byte)
  BY ConcatProperties
<1>2. /\ Append(done \o hand \o rest, x) = (done \o hand \o rest) \o <<x>>
      /\ Append(rest, x) = rest \o <<x>>
  BY <1>1, AppendIsConcat
<1>3. <<x>> \in Seq(Byte)
  OBVIOUS
<1>4. ((done \o hand) \o rest) \o <<x>> = (done \o hand) \o (rest \o <<x>>)
  BY <1>1, <1>3, Regroup
<1> QED BY <1>2, <1>4

LEMMA NoBytes == <<>> \in Seq(Byte) /\ Len(<<>>) <= ReadSize
<1>1. Len(<<>>) = 0 /\ ReadSize \in Nat
  BY SizesAssumption
<1> QED BY <1>1, EmptySeq

LEMMA NextByte == ASSUME NEW s \in Seq(Byte) PROVE Len(s) + 1 \in Byte
BY LenProperties DEF Byte
-----------------------------------------------------------------------------
LEMMA InitIInv == Init => IInv
<1> SUFFICES ASSUME Init PROVE IInv
  OBVIOUS
<1>1. <<>> \o <<>> \o <<>> = <<>>
  BY ConcatEmptySeq, NoBytes
<1>2. TypeOK
  <2>1. 0 \in 0 .. TcpCap /\ 0 \in 0 .. PipeCap
    BY SizesAssumption
  <2> QED BY NoBytes, <2>1 DEF Init, TypeOK
<1> QED BY <1>1, <1>2 DEF Init, IInv, BytesInOrder, CloseInv, ResultInv, CleanEndIsComplete

(* The loop from kble to the TCP peer.                                     *)
LEMMA ToIInv == IInv /\ ToStep => IInv'
<1> SUFFICES ASSUME IInv, ToStep PROVE IInv'
  OBVIOUS
<1> USE DEF IInv
<1>1. ASSUME NEW k \in 1 .. MaxBytes, ToRecv(k) PROVE IInv'
  <2>1. k \in 1 .. Len(wsIn)
    BY <1>1 DEF ToRecv
  <2>2. body' \in Seq(Byte) /\ wsIn' \in Seq(Byte)
    BY <1>1, <2>1, Split DEF ToRecv, TypeOK
  <2>3. written \o body' \o wsIn' = written \o body \o wsIn
    BY <1>1, <2>1, Taken DEF ToRecv, Receiving, TypeOK
  <2>4. TypeOK'
    BY <1>1, <2>2 DEF ToRecv, Goes, TypeOK, peerIn, outVars
  <2>5. BytesInOrder'
    BY <1>1, <2>3 DEF ToRecv, BytesInOrder, peerIn, outVars
  <2> QED BY <1>1, <2>4, <2>5 DEF ToRecv, Receiving, Goes, Running, CloseInv, ResultInv,
                                  CleanEndIsComplete
<1>2. ASSUME NEW k \in 1 .. MaxBytes, ToWrite(k) PROVE IInv'
  <2>1. k \in 1 .. Len(body)
    BY <1>2 DEF ToWrite
  <2>2. body' \in Seq(Byte) /\ written' \in Seq(Byte)
    BY <1>2, <2>1, Split, PassedOn, EmptySeq DEF ToWrite, Unwritten, TypeOK
  <2>3. written' \o body' \o wsIn = written \o body \o wsIn
    <3>0. written \in Seq(Byte) /\ body \in Seq(Byte) /\ wsIn \in Seq(Byte)
      BY DEF TypeOK
    <3>1. (written \o SubSeq(body, 1, k)) \o SubSeq(body, k + 1, Len(body)) \o wsIn
            = written \o body \o wsIn
      BY <2>1, <3>0, PassedOn, Zenon
    <3>2. written' = written \o SubSeq(body, 1, k) /\ body' = SubSeq(body, k + 1, Len(body))
      BY <1>2 DEF ToWrite, Unwritten
    <3> QED BY <3>1, <3>2
  <2>4. tcpOut' \in 0 .. TcpCap
    BY <1>2, SizesAssumption DEF ToWrite, TypeOK
  <2>5. TypeOK'
    BY <1>2, <2>2, <2>4 DEF ToWrite, Goes, TypeOK, inVars, peerIn, outVars
  <2>6. BytesInOrder'
    BY <1>2, <2>3 DEF ToWrite, BytesInOrder, inVars, peerIn, outVars
  <2>7. CloseInv' /\ ResultInv' /\ CleanEndIsComplete'
    BY <1>2 DEF ToWrite, Writing, Goes, Running, CloseInv, ResultInv, CleanEndIsComplete, inVars
  <2> QED BY <2>5, <2>6, <2>7
<1>3. CASE ToClosed
  <2>1. sent' \in Seq(Byte) /\ sent' \o chunk' \o tcpIn = sent \o chunk \o tcpIn
    BY <1>3, AllPassedOn DEF ToClosed, TypeOK
  <2>2. pipeOut' \in 0 .. PipeCap
    BY <1>3, SizesAssumption DEF ToClosed, PipeRoom, TypeOK
  <2>3. TypeOK'
    BY <1>3, <2>1, <2>2, NoBytes DEF ToClosed, Ends, TypeOK, inVars, toVars, peerIn
  <2>4. BytesInOrder'
    BY <1>3, <2>1 DEF ToClosed, BytesInOrder, inVars, toVars, peerIn
  <2>5. wsEnd = "close" /\ wsIn = <<>> /\ body = <<>>
    BY <1>3 DEF ToClosed, Receiving, CloseSeen, CloseInv
  <2>6. written = fed
    BY <2>5, ConcatEmptySeq, EmptySeq DEF BytesInOrder, TypeOK
  <2> QED BY <1>3, <2>3, <2>4, <2>5, <2>6
          DEF ToClosed, Ends, Running, CloseInv, ResultInv, CleanEndIsComplete, inVars, toVars
<1>4. CASE ToSeesClose
  BY <1>4 DEF ToSeesClose, Receiving, CloseSeen, Goes, Running, TypeOK, BytesInOrder, CloseInv,
              ResultInv, CleanEndIsComplete, inVars, toVars, peerIn, outVars
<1>5. CASE ToEnds
  <2>1. wsEnd = "close" /\ wsIn = <<>> /\ body = <<>>
    BY <1>5 DEF ToEnds, Receiving, CloseInv
  <2>2. written = fed
    BY <2>1, ConcatEmptySeq, EmptySeq DEF BytesInOrder, TypeOK
  <2> QED BY <1>5, <2>1, <2>2
          DEF ToEnds, Ends, Running, TypeOK, BytesInOrder, CloseInv, ResultInv,
              CleanEndIsComplete, inVars, toVars, peerIn, outVars
<1>6. CASE ToWriteFails \/ ToEof
  BY <1>6 DEF ToWriteFails, ToEof, Ends, Running, TypeOK, BytesInOrder, CloseInv, ResultInv,
              CleanEndIsComplete, inVars, toVars, peerIn, outVars
<1> HIDE DEF IInv
<1> QED BY <1>1, <1>2, <1>3, <1>4, <1>5, <1>6 DEF ToStep

(* The loop from the TCP peer to kble.                                     *)
LEMMA FromIInv == IInv /\ FromStep => IInv'
<1> SUFFICES ASSUME IInv, FromStep PROVE IInv'
  OBVIOUS
<1> USE DEF IInv
<1>1. ASSUME NEW k \in 1 .. MaxBytes, FromRead(k) PROVE IInv'
  <2>1. k \in 1 .. Len(tcpIn) /\ k <= ReadSize
    BY <1>1 DEF FromRead
  <2>2. chunk' \in Seq(Byte) /\ tcpIn' \in Seq(Byte) /\ Len(chunk') <= ReadSize
    BY <1>1, <2>1, Split DEF FromRead, TypeOK
  <2>3. sent \o chunk' \o tcpIn' = sent \o chunk \o tcpIn
    BY <1>1, <2>1, Taken DEF FromRead, Reading, TypeOK
  <2>4. TypeOK'
    BY <1>1, <2>2 DEF FromRead, Goes, TypeOK, inVars, toVars
  <2>5. BytesInOrder'
    BY <1>1, <2>3 DEF FromRead, BytesInOrder, inVars, toVars
  <2> QED BY <1>1, <2>4, <2>5 DEF FromRead, Reading, Goes, Running, CloseInv, ResultInv,
                                  CleanEndIsComplete, inVars, toVars
<1>2. CASE FromSent
  <2>1. sent' \in Seq(Byte) /\ sent' \o chunk' \o tcpIn = sent \o chunk \o tcpIn
    BY <1>2, AllPassedOn DEF FromSent, TypeOK
  <2>2. pipeOut' \in 0 .. PipeCap
    BY <1>2, SizesAssumption DEF FromSent, PipeRoom, TypeOK
  <2>3. TypeOK'
    BY <1>2, <2>1, <2>2, NoBytes
    DEF FromSent, Goes, TypeOK, inVars, toVars, peerIn
  <2>4. BytesInOrder'
    BY <1>2, <2>1 DEF FromSent, BytesInOrder, inVars, toVars, peerIn
  <2> QED BY <1>2, <2>3, <2>4 DEF FromSent, Sending, Goes, Running, CloseInv, ResultInv,
                                  CleanEndIsComplete, inVars, toVars
<1>3. CASE FromEof
  <2>1. sent = said
    BY <1>3, ConcatEmptySeq, EmptySeq DEF FromEof, Reading, AtEof, BytesInOrder, TypeOK
  <2> QED BY <1>3, <2>1
          DEF FromEof, AtEof, Ends, Running, TypeOK, BytesInOrder, CloseInv, ResultInv,
              CleanEndIsComplete, inVars, toVars, peerIn, outVars
<1>4. CASE FromRefused \/ FromSendFails \/ FromReset
  BY <1>4 DEF FromRefused, FromSendFails, FromReset, Ends, Running, TypeOK, BytesInOrder,
              CloseInv, ResultInv, CleanEndIsComplete, inVars, toVars, peerIn, outVars
<1> HIDE DEF IInv
<1> QED BY <1>1, <1>2, <1>3, <1>4 DEF FromStep

(* kble and the peer.                                                      *)
LEMMA OutsideIInv == IInv /\ Outside => IInv'
<1> SUFFICES ASSUME IInv, Outside PROVE IInv'
  OBVIOUS
<1> USE DEF IInv
<1>1. CASE KbleFeeds
  <2>1. wsIn' \in Seq(Byte) /\ fed' \in Seq(Byte) /\ fed' = written \o body \o wsIn'
    <3> DEFINE x == Len(fed) + 1
    <3>1. fed' = Append(fed, x) /\ wsIn' = Append(wsIn, x)
      BY <1>1 DEF KbleFeeds
    <3>2. x \in Byte
      BY NextByte DEF TypeOK
    <3> HIDE DEF x
    <3>3. written \in Seq(Byte) /\ body \in Seq(Byte) /\ wsIn \in Seq(Byte)
      BY DEF TypeOK
    <3>4. Append(written \o body \o wsIn, x) = written \o body \o Append(wsIn, x)
      BY <3>2, <3>3, Added, ZenonT(60)
    <3>5. Append(fed, x) \in Seq(Byte) /\ Append(wsIn, x) \in Seq(Byte)
      BY <3>2, AppendProperties DEF TypeOK
    <3> QED BY <3>1, <3>4, <3>5 DEF BytesInOrder
  <2> QED BY <1>1, <2>1 DEF KbleFeeds, Running, TypeOK, BytesInOrder, CloseInv, ResultInv,
                            CleanEndIsComplete, toVars, peerIn, outVars
<1>2. CASE PeerSays
  <2>1. tcpIn' \in Seq(Byte) /\ said' \in Seq(Byte) /\ said' = sent \o chunk \o tcpIn'
    <3> DEFINE x == Len(said) + 1
    <3>1. said' = Append(said, x) /\ tcpIn' = Append(tcpIn, x)
      BY <1>2 DEF PeerSays
    <3>2. x \in Byte
      BY NextByte DEF TypeOK
    <3> HIDE DEF x
    <3>3. sent \in Seq(Byte) /\ chunk \in Seq(Byte) /\ tcpIn \in Seq(Byte)
      BY DEF TypeOK
    <3>4. Append(sent \o chunk \o tcpIn, x) = sent \o chunk \o Append(tcpIn, x)
      BY <3>2, <3>3, Added, ZenonT(60)
    <3>5. Append(said, x) \in Seq(Byte) /\ Append(tcpIn, x) \in Seq(Byte)
      BY <3>2, AppendProperties DEF TypeOK
    <3> QED BY <3>1, <3>4, <3>5 DEF BytesInOrder
  <2> QED BY <1>2, <2>1 DEF PeerSays, Running, TypeOK, BytesInOrder, CloseInv, ResultInv,
                            CleanEndIsComplete, inVars, toVars, outVars
<1>3. CASE KbleCloses \/ KbleExits \/ PeerEnds
  BY <1>3 DEF KbleCloses, KbleExits, PeerEnds, Running, TypeOK, BytesInOrder, CloseInv,
              ResultInv, CleanEndIsComplete, inVars, toVars, peerIn, outVars
<1>4. CASE KbleReads \/ PeerReads
  <2>1. pipeOut' \in 0 .. PipeCap /\ tcpOut' \in 0 .. TcpCap
    BY <1>4, SizesAssumption DEF KbleReads, PeerReads, TypeOK, toVars, outVars
  <2> QED BY <1>4, <2>1 DEF KbleReads, PeerReads, Running, TypeOK, BytesInOrder, CloseInv,
                            ResultInv, CleanEndIsComplete, inVars, toVars, peerIn, outVars
<1> HIDE DEF IInv
<1> QED BY <1>1, <1>2, <1>3, <1>4 DEF Outside

LEMMA NextIInv == IInv /\ [Next]_vars => IInv'
<1>1. IInv /\ UNCHANGED vars => IInv'
  BY DEF vars, inVars, toVars, peerIn, outVars, IInv, TypeOK, BytesInOrder, CloseInv, ResultInv,
         Running, CleanEndIsComplete
<1> QED BY <1>1, ToIInv, FromIInv, OutsideIInv DEF Next

THEOREM InductiveInvariant == Spec => []IInv
BY InitIInv, NextIInv, PTL DEF Spec
-----------------------------------------------------------------------------
(* The buffers hold no more than their sizes.                              *)
THEOREM TypeCorrect == Spec => []TypeOK
<1>1. IInv => TypeOK
  BY DEF IInv
<1> QED BY <1>1, InductiveInvariant, PTL

(* Neither loop loses, repeats or reorders a byte.                         *)
THEOREM BytesInOrderHolds == Spec => []BytesInOrder
<1>1. IInv => BytesInOrder
  BY DEF IInv
<1> QED BY <1>1, InductiveInvariant, PTL

(* A bridge that ends well has passed on all of the side that closed.      *)
THEOREM CleanEndHolds == Spec => []CleanEndIsComplete
<1>1. IInv => CleanEndIsComplete
  BY DEF IInv
<1> QED BY <1>1, InductiveInvariant, PTL
=============================================================================
