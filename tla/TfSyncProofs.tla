---------------------------- MODULE TfSyncProofs ----------------------------
(***************************************************************************)
(* Proofs about TfSync, for every frame and trailer size, every set of     *)
(* bytes and every stream.                                                 *)
(***************************************************************************)
EXTENDS TfSync, SequenceTheorems, TLAPS

USE SizesAssumption, BoundsAssumption

(* A frame sent lies wholly in what has left the buffer.                   *)
SentBehind == \A n \in 1 .. Len(starts) : starts[n] - 1 + FrameSize <= taken

(* Position i can be given up: a frame sent covers it, or it is no header, *)
(* or the whole window behind it has been seen and is no frame.  Unlike    *)
(* "i is no frame" this stays true when more bytes arrive.                 *)
Settled(i) ==
  \/ Covered(i)
  \/ ~ IsHeader(input[i])
  \/ i - 1 + FrameSize <= Len(input) /\ ~ IsFrame(i)

(* What has left the buffer has been given up.                             *)
TakenSettled == \A i \in 1 .. taken : Settled(i)

IInv ==
  /\ TypeOK
  /\ BufferIsSuffix
  /\ SentAreFrames
  /\ SentBehind
  /\ TakenSettled
  /\ BufferStaysShort
-----------------------------------------------------------------------------
(* Dropping n bytes leaves the end of the stream in the buffer.            *)
LEMMA Advancing ==
  ASSUME TypeOK, BufferIsSuffix, NEW n \in 0 .. Len(buf), Advance(n), input' = input
  PROVE  /\ buf' \in Seq(Byte)
         /\ taken' \in Nat
         /\ Len(buf') = Len(buf) - n
         /\ \A k \in 1 .. Len(buf) - n : buf'[k] = buf[n + k]
         /\ BufferIsSuffix'
<1>1. /\ buf \in Seq(Byte)
      /\ Len(buf) \in Nat
      /\ taken \in Nat
      /\ \A k \in 1 .. Len(buf) : buf[k] \in Byte
  BY LenProperties DEF TypeOK
<1>2. /\ buf' \in Seq(Byte)
      /\ Len(buf') = IF n + 1 <= Len(buf) THEN Len(buf) - (n + 1) + 1 ELSE 0
      /\ \A k \in 1 .. Len(buf) - (n + 1) + 1 : buf'[k] = buf[n + 1 + k - 1]
  <2>1. \A k \in n + 1 .. Len(buf) : buf[k] \in Byte
    BY <1>1
  <2> QED BY <1>1, <2>1, SubSeqProperties DEF Advance
<1>3. /\ Len(buf') = Len(buf) - n
      /\ \A k \in 1 .. Len(buf) - n : buf'[k] = buf[n + k]
  BY <1>1, <1>2
<1>4. taken' = taken + n
  BY DEF Advance
<1>5. BufferIsSuffix'
  <2>0. /\ taken \in Nat /\ Len(buf) \in Nat /\ Len(buf') = Len(buf) - n
        /\ taken + Len(buf) = Len(input)
    BY <1>1, <1>3 DEF BufferIsSuffix
  <2>1. taken' + Len(buf') = Len(input')
    BY <2>0, <1>4
  <2>2. \A k \in 1 .. Len(buf') : buf'[k] = input'[taken' + k]
    <3> TAKE k \in 1 .. Len(buf')
    <3>1. n + k \in 1 .. Len(buf) /\ taken + (n + k) = taken' + k
      BY <1>1, <1>3, <1>4
    <3>2. buf[n + k] = input[taken + (n + k)]
      BY <3>1 DEF BufferIsSuffix
    <3> QED BY <1>1, <1>3, <3>1, <3>2
  <2> QED BY <2>1, <2>2 DEF BufferIsSuffix
<1> QED BY <1>1, <1>2, <1>3, <1>4, <1>5

(* The buffer says of its position i what the stream says of taken + i.    *)
LEMMA Window ==
  ASSUME TypeOK, BufferIsSuffix, NEW i \in 1 .. Len(buf)
  PROVE  /\ taken + i \in 1 .. Len(input)
         /\ buf[i] = input[taken + i]
         /\ ~ TooShort(i) => /\ taken + i - 1 + FrameSize <= Len(input)
                             /\ TrailerAt(buf, i) <=> TrailerAt(input, taken + i)
<1>1. /\ Len(buf) \in Nat
      /\ Len(input) \in Nat
      /\ taken \in Nat
  BY LenProperties DEF TypeOK
<1>2. /\ taken + i \in 1 .. Len(input)
      /\ buf[i] = input[taken + i]
  BY <1>1 DEF BufferIsSuffix
<1>3. ASSUME ~ TooShort(i)
      PROVE  /\ taken + i - 1 + FrameSize <= Len(input)
             /\ TrailerAt(buf, i) <=> TrailerAt(input, taken + i)
  <2> DEFINE t == i + FrameSize - TrailerSize
  <2>1. t \in 1 .. Len(buf) /\ t + 1 \in 1 .. Len(buf)
    BY <1>1, <1>3 DEF TooShort
  <2>2. buf[t] = input[taken + t] /\ buf[t + 1] = input[taken + (t + 1)]
    BY <2>1 DEF BufferIsSuffix
  <2>3. /\ taken + t = taken + i + FrameSize - TrailerSize
        /\ taken + (t + 1) = taken + i + FrameSize - TrailerSize + 1
    BY <1>1
  <2>4. taken + i - 1 + FrameSize <= Len(input)
    BY <1>1, <1>3 DEF TooShort, BufferIsSuffix
  <2> HIDE DEF t
  <2>5. TrailerAt(buf, i) <=> TrailerAt(input, taken + i)
    BY <2>2, <2>3 DEF TrailerAt, t
  <2> QED BY <2>4, <2>5
<1> QED BY <1>2, <1>3

(* What Emit cuts out of the buffer is what lies there in the stream.      *)
LEMMA CutIsFrame ==
  ASSUME TypeOK, BufferIsSuffix, NEW i \in 1 .. Len(buf), ~ TooShort(i)
  PROVE  /\ Cut(i) \in [1 .. FrameSize -> Byte]
         /\ Cut(i) = FrameAt(taken + i)
<1> DEFINE j == i - 1 + FrameSize
<1>1. /\ Len(buf) \in Nat
      /\ Len(input) \in Nat
      /\ taken \in Nat
      /\ \A k \in 1 .. Len(buf) : buf[k] \in Byte
      /\ \A k \in 1 .. Len(input) : input[k] \in Byte
  BY LenProperties DEF TypeOK
<1>2. j \in i .. Len(buf)
  BY <1>1 DEF TooShort
<1>3. /\ Cut(i) \in Seq(Byte)
      /\ Len(Cut(i)) = FrameSize
      /\ \A k \in 1 .. FrameSize : Cut(i)[k] = buf[i + k - 1]
  <2>1. \A k \in i .. j : buf[k] \in Byte
    BY <1>1, <1>2
  <2>2. j - i + 1 = FrameSize /\ i \in Int /\ j \in Int
    OBVIOUS
  <2> HIDE DEF j
  <2>3. /\ SubSeq(buf, i, j) \in Seq(Byte)
        /\ Len(SubSeq(buf, i, j)) = IF i <= j THEN j - i + 1 ELSE 0
        /\ \A k \in 1 .. j - i + 1 : SubSeq(buf, i, j)[k] = buf[i + k - 1]
    BY <2>1, <2>2, SubSeqProperties
  <2>4. i <= j
    BY <1>2
  <2> QED BY <2>2, <2>3, <2>4 DEF Cut, j
<1>4. /\ FrameAt(taken + i) \in Seq(Byte)
      /\ Len(FrameAt(taken + i)) = FrameSize
      /\ \A k \in 1 .. FrameSize : FrameAt(taken + i)[k] = input[taken + i + k - 1]
  <2> DEFINE p == taken + i
             q == taken + i - 1 + FrameSize
  <2>1. \A k \in p .. q : input[k] \in Byte
    BY <1>1, <1>2 DEF BufferIsSuffix
  <2>2. q - p + 1 = FrameSize /\ p \in Int /\ q \in Int /\ p <= q
    BY <1>1
  <2> HIDE DEF p, q
  <2>3. /\ SubSeq(input, p, q) \in Seq(Byte)
        /\ Len(SubSeq(input, p, q)) = IF p <= q THEN q - p + 1 ELSE 0
        /\ \A k \in 1 .. q - p + 1 : SubSeq(input, p, q)[k] = input[p + k - 1]
    BY <2>1, <2>2, SubSeqProperties
  <2> QED BY <2>2, <2>3 DEF FrameAt, p, q
<1>5. \A k \in 1 .. FrameSize : buf[i + k - 1] = input[taken + i + k - 1]
  <2> TAKE k \in 1 .. FrameSize
  <2>1. i + k - 1 \in 1 .. Len(buf)
    BY <1>1, <1>2
  <2>2. taken + (i + k - 1) = taken + i + k - 1
    BY <1>1
  <2> QED BY <2>1, <2>2 DEF BufferIsSuffix
<1>6. Cut(i) \in [1 .. FrameSize -> Byte] /\ FrameAt(taken + i) \in [1 .. FrameSize -> Byte]
  BY <1>3, <1>4, LenProperties
<1>7. \A k \in 1 .. FrameSize : Cut(i)[k] = FrameAt(taken + i)[k]
  BY <1>3, <1>4, <1>5
<1> QED BY <1>6, <1>7
-----------------------------------------------------------------------------
(* The inductive invariant holds at first.                                 *)
LEMMA InitIInv == Init => IInv
<1> SUFFICES ASSUME Init PROVE IInv
  OBVIOUS
<1>1. TypeOK
  BY EmptySeq DEF Init, TypeOK
<1>2. Len(<<>>) = 0
  BY EmptySeq
<1>3. BufferIsSuffix /\ SentAreFrames /\ SentBehind /\ TakenSettled /\ BufferStaysShort
  BY <1>2 DEF Init, BufferIsSuffix, SentAreFrames, SentBehind, TakenSettled, BufferStaysShort
<1> QED BY <1>1, <1>3 DEF IInv

(* A message only lengthens the stream and the buffer.                     *)
LEMMA ReceiveIInv ==
  ASSUME IInv, NEW chunk \in Seq(Byte), Receive(chunk)
  PROVE  IInv'
<1>0. /\ input' = input \o chunk /\ buf' = buf \o chunk
      /\ pc = "idle" /\ pc' = "decoding"
      /\ taken' = taken /\ starts' = starts /\ out' = out
  BY DEF Receive
<1>1. /\ input \in Seq(Byte) /\ Len(input) \in Nat
      /\ buf \in Seq(Byte) /\ Len(buf) \in Nat
      /\ taken \in Nat
      /\ Len(chunk) \in Nat
      /\ Len(starts) \in Nat
      /\ \A n \in 1 .. Len(starts) : starts[n] \in Nat
  BY LenProperties DEF IInv, TypeOK
<1>2. /\ input' \in Seq(Byte)
      /\ Len(input') = Len(input) + Len(chunk)
      /\ \A k \in 1 .. Len(input) : input'[k] = input[k]
      /\ \A k \in Len(input) + 1 .. Len(input) + Len(chunk) : input'[k] = chunk[k - Len(input)]
  <2>1. /\ input \o chunk \in Seq(Byte)
        /\ Len(input \o chunk) = Len(input) + Len(chunk)
        /\ \A k \in 1 .. Len(input) + Len(chunk) :
             (input \o chunk)[k] = IF k <= Len(input) THEN input[k] ELSE chunk[k - Len(input)]
    BY <1>1, ConcatProperties
  <2>2. /\ \A k \in 1 .. Len(input) : (input \o chunk)[k] = input[k]
        /\ \A k \in Len(input) + 1 .. Len(input) + Len(chunk) :
             (input \o chunk)[k] = chunk[k - Len(input)]
    <3> DEFINE c == input \o chunk
    <3> HIDE DEF c
    <3>1. \A k \in 1 .. Len(input) + Len(chunk) :
             c[k] = IF k <= Len(input) THEN input[k] ELSE chunk[k - Len(input)]
      BY <2>1 DEF c
    <3>2. \A k \in 1 .. Len(input) : c[k] = input[k]
      BY <1>1, <3>1
    <3>3. \A k \in Len(input) + 1 .. Len(input) + Len(chunk) : c[k] = chunk[k - Len(input)]
      BY <1>1, <3>1
    <3> QED BY <3>2, <3>3 DEF c
  <2> QED BY <1>0, <2>1, <2>2
<1>3. /\ buf' \in Seq(Byte)
      /\ Len(buf') = Len(buf) + Len(chunk)
      /\ \A k \in 1 .. Len(buf) : buf'[k] = buf[k]
      /\ \A k \in Len(buf) + 1 .. Len(buf) + Len(chunk) : buf'[k] = chunk[k - Len(buf)]
  <2>1. /\ buf \o chunk \in Seq(Byte)
        /\ Len(buf \o chunk) = Len(buf) + Len(chunk)
        /\ \A k \in 1 .. Len(buf) + Len(chunk) :
             (buf \o chunk)[k] = IF k <= Len(buf) THEN buf[k] ELSE chunk[k - Len(buf)]
    BY <1>1, ConcatProperties
  <2>2. /\ \A k \in 1 .. Len(buf) : (buf \o chunk)[k] = buf[k]
        /\ \A k \in Len(buf) + 1 .. Len(buf) + Len(chunk) :
             (buf \o chunk)[k] = chunk[k - Len(buf)]
    <3> DEFINE c == buf \o chunk
    <3> HIDE DEF c
    <3>1. \A k \in 1 .. Len(buf) + Len(chunk) :
             c[k] = IF k <= Len(buf) THEN buf[k] ELSE chunk[k - Len(buf)]
      BY <2>1 DEF c
    <3>2. \A k \in 1 .. Len(buf) : c[k] = buf[k]
      BY <1>1, <3>1
    <3>3. \A k \in Len(buf) + 1 .. Len(buf) + Len(chunk) : c[k] = chunk[k - Len(buf)]
      BY <1>1, <3>1
    <3> QED BY <3>2, <3>3 DEF c
  <2> QED BY <1>0, <2>1, <2>2
<1>4. TypeOK'
  BY <1>0, <1>2, <1>3 DEF IInv, TypeOK
<1>5. BufferIsSuffix'
  <2>0. /\ taken \in Nat /\ Len(buf) \in Nat /\ Len(input) \in Nat /\ Len(chunk) \in Nat
        /\ Len(buf') = Len(buf) + Len(chunk)
        /\ Len(input') = Len(input) + Len(chunk)
        /\ taken + Len(buf) = Len(input)
        /\ taken' = taken
    BY <1>0, <1>1, <1>2, <1>3 DEF IInv, BufferIsSuffix
  <2>1. taken' + Len(buf') = Len(input')
    BY <2>0
  <2> SUFFICES ASSUME NEW k \in 1 .. Len(buf')
               PROVE  buf'[k] = input'[taken + k]
    BY <2>0, <2>1 DEF BufferIsSuffix
  <2>2. buf'[k] = input'[taken + k]
    <3>0. k \in 1 .. Len(buf) + Len(chunk)
      BY <2>0
    <3>1. CASE k <= Len(buf)
      <4>1. buf[k] = input[taken + k]
        BY <1>1, <3>0, <3>1 DEF IInv, BufferIsSuffix
      <4>2. taken + k \in 1 .. Len(input) /\ k \in 1 .. Len(buf)
        BY <2>0, <3>0, <3>1
      <4> QED BY <1>2, <1>3, <3>0, <3>1, <4>1, <4>2
    <3>2. CASE k > Len(buf)
      <4>1. k - Len(buf) = taken + k - Len(input)
        BY <2>0, <3>0
      <4>2. taken + k \in Len(input) + 1 .. Len(input) + Len(chunk)
        BY <2>0, <3>0, <3>2
      <4>3. k \in Len(buf) + 1 .. Len(buf) + Len(chunk)
        BY <2>0, <3>0, <3>2
      <4>4. buf'[k] = chunk[k - Len(buf)]
        BY <1>3, <3>0, <4>3
      <4>5. input'[taken + k] = chunk[taken + k - Len(input)]
        <5> DEFINE p == taken + k
        <5>1. p \in Len(input) + 1 .. Len(input) + Len(chunk)
          BY <4>2
        <5>0. p = taken + k
          OBVIOUS
        <5> HIDE DEF p
        <5>2. input'[p] = chunk[p - Len(input)]
          BY <1>2, <5>1
        <5>3. k \in Nat /\ taken \in Nat /\ Len(input) \in Nat
          BY <2>0
        <5> QED BY <5>0, <5>2, <5>3
      <4> QED BY <4>1, <4>4, <4>5
    <3> QED BY <2>0, <3>0, <3>1, <3>2
  <2> QED BY <2>2
<1>6. \A i \in 1 .. Len(input) :
        /\ input'[i] = input[i]
        /\ i - 1 + FrameSize <= Len(input) => /\ IsFrame(i)' <=> IsFrame(i)
                                              /\ FrameAt(i)' = FrameAt(i)
  <2> TAKE i \in 1 .. Len(input)
  <2>1. input'[i] = input[i]
    BY <1>1, <1>2
  <2>2. ASSUME i - 1 + FrameSize <= Len(input)
        PROVE  /\ IsFrame(i)' <=> IsFrame(i)
               /\ FrameAt(i)' = FrameAt(i)
    <3> DEFINE t == i + FrameSize - TrailerSize
    <3>1. t \in 1 .. Len(input) /\ t + 1 \in 1 .. Len(input)
      BY <1>1, <2>2
    <3>2. input'[t] = input[t] /\ input'[t + 1] = input[t + 1]
      BY <1>1, <1>2, <3>1
    <3>3. /\ i \in 1 .. Len(input') /\ i - 1 + FrameSize <= Len(input')
      BY <1>1, <1>2, <2>2
    <3>4. IsFrame(i)' <=> IsFrame(i)
      BY <2>1, <2>2, <3>2, <3>3 DEF IsFrame
    <3>5. FrameAt(i)' = FrameAt(i)
      BY <1>0, <1>1, <2>2, SubSeqOfConcat1 DEF FrameAt
    <3> QED BY <3>4, <3>5
  <2> QED BY <2>1, <2>2
<1>7. SentAreFrames'
  BY <1>0, <1>1, <1>6 DEF IInv, SentAreFrames, IsFrame
<1>8. SentBehind'
  BY <1>0 DEF IInv, SentBehind
<1>9. TakenSettled'
  <2>1. taken <= Len(input)
    BY <1>1 DEF IInv, BufferIsSuffix
  <2> SUFFICES ASSUME NEW i \in 1 .. taken PROVE Settled(i)'
    BY <1>0 DEF TakenSettled
  <2>2. Settled(i)
    BY <1>0 DEF IInv, TakenSettled
  <2>3. Covered(i)' <=> Covered(i)
    BY <1>0 DEF Covered
  <2>4. i \in 1 .. Len(input)
    BY <1>1, <2>1
  <2>5. CASE Covered(i)
    BY <2>3, <2>5 DEF Settled
  <2>6. CASE ~ IsHeader(input[i])
    BY <1>6, <2>4, <2>6 DEF Settled
  <2>7. CASE i - 1 + FrameSize <= Len(input) /\ ~ IsFrame(i)
    <3>1. ~ IsFrame(i)'
      BY <1>6, <2>4, <2>7
    <3>2. i - 1 + FrameSize <= Len(input')
      BY <1>1, <1>2, <2>4, <2>7
    <3> QED BY <3>1, <3>2 DEF Settled
  <2> QED BY <2>2, <2>5, <2>6, <2>7 DEF Settled
<1>10. BufferStaysShort'
  BY <1>0 DEF BufferStaysShort
<1> QED BY <1>4, <1>5, <1>7, <1>8, <1>9, <1>10 DEF IInv
-----------------------------------------------------------------------------
(* A turn of decode that sends nothing and gives up only positions that    *)
(* hold no header, or no frame, keeps all but the bound on the buffer.     *)
LEMMA DroppingIInv ==
  ASSUME IInv, NEW n \in 0 .. Len(buf), Advance(n),
         pc = "decoding", pc' \in {"idle", "decoding"},
         UNCHANGED <<input, starts, out>>,
         \A k \in 1 .. n : \/ ~ IsHeader(buf[k])
                           \/ ~ TooShort(k) /\ ~ TrailerAt(buf, k)
  PROVE  /\ TypeOK'
         /\ BufferIsSuffix'
         /\ SentAreFrames'
         /\ SentBehind'
         /\ TakenSettled'
<1>1. TypeOK /\ BufferIsSuffix /\ SentAreFrames /\ SentBehind /\ TakenSettled
  BY DEF IInv
<1>2. Len(buf) \in Nat /\ Len(input) \in Nat /\ Len(starts) \in Nat /\ taken \in Nat
  BY <1>1, LenProperties DEF TypeOK
<1>3. /\ buf' \in Seq(Byte)
      /\ taken' \in Nat
      /\ BufferIsSuffix'
  BY <1>1, Advancing
<1>4. TypeOK'
  BY <1>1, <1>3 DEF TypeOK
<1>5. \A i : /\ IsFrame(i)' <=> IsFrame(i)
             /\ FrameAt(i)' = FrameAt(i)
             /\ Covered(i)' <=> Covered(i)
  BY DEF IsFrame, FrameAt, Covered
<1>6. SentAreFrames'
  BY <1>1, <1>5 DEF SentAreFrames
<1>7. taken' = taken + n
  BY DEF Advance
<1>8. SentBehind'
  <2>1. \A k \in 1 .. Len(starts) : starts[k] \in Nat
    BY <1>1, LenProperties DEF TypeOK
  <2> QED BY <1>1, <1>2, <1>7, <2>1 DEF SentBehind
<1>9. TakenSettled'
  <2> SUFFICES ASSUME NEW i \in 1 .. taken + n PROVE Settled(i)'
    BY <1>7 DEF TakenSettled
  <2>1. CASE i <= taken
    <3>1. Settled(i)
      BY <1>1, <1>2, <2>1 DEF TakenSettled
    <3> QED BY <1>5, <3>1 DEF Settled
  <2>2. CASE i > taken
    <3> DEFINE k == i - taken
    <3>1. k \in 1 .. n /\ k \in 1 .. Len(buf) /\ taken + k = i
      BY <1>2, <2>2
    <3> HIDE DEF k
    <3>2. CASE ~ IsHeader(buf[k])
      BY <1>1, <3>1, <3>2, Window DEF Settled
    <3>3. CASE ~ TooShort(k) /\ ~ TrailerAt(buf, k)
      <4>1. /\ taken + k - 1 + FrameSize <= Len(input)
            /\ TrailerAt(buf, k) <=> TrailerAt(input, taken + k)
        BY <1>1, <3>1, <3>3, Window
      <4>2. i - 1 + FrameSize <= Len(input)
        BY <1>2, <3>1, <4>1
      <4>3. ~ TrailerAt(input, i)
        BY <3>1, <3>3, <4>1, Zenon
      <4> QED BY <4>2, <4>3 DEF Settled, IsFrame, TrailerAt
    <3> QED BY <3>1, <3>2, <3>3
  <2> QED BY <1>2, <2>1, <2>2
<1> QED BY <1>3, <1>4, <1>6, <1>8, <1>9

LEMMA AwaitRestIInv ==
  ASSUME IInv, NEW i \in 1 .. Len(buf), AwaitRest(i)
  PROVE  IInv'
<1>1. /\ TypeOK /\ BufferIsSuffix
      /\ Len(buf) \in Nat
  BY LenProperties DEF IInv, TypeOK
<1>2. /\ i - 1 \in 0 .. Len(buf)
      /\ Advance(i - 1)
      /\ pc = "decoding" /\ pc' = "idle"
      /\ UNCHANGED <<input, starts, out>>
      /\ IsHeader(buf[i])
      /\ \A k \in 1 .. i - 1 : ~ IsHeader(buf[k])
      /\ Len(buf) - (i - 1) < FrameSize
  BY <1>1 DEF AwaitRest, HeaderFound, TooShort
<1>3. TypeOK' /\ BufferIsSuffix' /\ SentAreFrames' /\ SentBehind' /\ TakenSettled'
  BY <1>2, DroppingIInv
<1>4. BufferStaysShort'
  <2>1. /\ Len(buf') = Len(buf) - (i - 1)
        /\ \A k \in 1 .. Len(buf) - (i - 1) : buf'[k] = buf[i - 1 + k]
    BY <1>1, <1>2, Advancing
  <2>2. 1 \in 1 .. Len(buf) - (i - 1) /\ i - 1 + 1 = i
    BY <1>1
  <2>3. buf'[1] = buf[i]
    BY <2>1, <2>2
  <2> QED BY <1>2, <2>1, <2>3 DEF BufferStaysShort
<1> QED BY <1>3, <1>4 DEF IInv

LEMMA SlipIInv ==
  ASSUME IInv, NEW i \in 1 .. Len(buf), Slip(i)
  PROVE  IInv'
<1>1. Len(buf) \in Nat
  BY LenProperties DEF IInv, TypeOK
<1>2. /\ i \in 0 .. Len(buf)
      /\ Advance(i)
      /\ pc = "decoding" /\ pc' = "decoding"
      /\ UNCHANGED <<input, starts, out>>
      /\ \A k \in 1 .. i - 1 : ~ IsHeader(buf[k])
      /\ ~ TooShort(i) /\ ~ TrailerAt(buf, i)
  BY <1>1 DEF Slip, Slipped, HeaderFound
<1>3. \A k \in 1 .. i : \/ ~ IsHeader(buf[k])
                        \/ ~ TooShort(k) /\ ~ TrailerAt(buf, k)
  BY <1>1, <1>2
<1>4. TypeOK' /\ BufferIsSuffix' /\ SentAreFrames' /\ SentBehind' /\ TakenSettled'
  BY <1>2, <1>3, DroppingIInv
<1>5. BufferStaysShort'
  BY <1>2 DEF BufferStaysShort
<1> QED BY <1>4, <1>5 DEF IInv

LEMMA DiscardIInv ==
  ASSUME IInv, Discard
  PROVE  IInv'
<1>1. /\ TypeOK /\ BufferIsSuffix
      /\ Len(buf) \in Nat
  BY LenProperties DEF IInv, TypeOK
<1>2. /\ Len(buf) \in 0 .. Len(buf)
      /\ Advance(Len(buf))
      /\ pc = "decoding" /\ pc' = "idle"
      /\ UNCHANGED <<input, starts, out>>
      /\ \A k \in 1 .. Len(buf) : ~ IsHeader(buf[k])
  BY <1>1 DEF Discard, NoHeader
<1>3. TypeOK' /\ BufferIsSuffix' /\ SentAreFrames' /\ SentBehind' /\ TakenSettled'
  BY <1>2, DroppingIInv
<1>4. BufferStaysShort'
  <2>1. buf' \in Seq(Byte) /\ Len(buf') = Len(buf) - Len(buf)
    BY <1>1, <1>2, Advancing
  <2>2. Len(buf') = 0
    BY <1>1, <2>1
  <2>3. buf' = <<>>
    BY <2>1, <2>2, EmptySeq
  <2> QED BY <2>2, <2>3 DEF BufferStaysShort
<1> QED BY <1>3, <1>4 DEF IInv
-----------------------------------------------------------------------------
(* The frame Emit cuts out lies behind all frames sent before it, is where *)
(* a frame lies in the stream, and covers all that leaves the buffer but   *)
(* the junk in front of it.                                                *)
LEMMA EmitIInv ==
  ASSUME IInv, NEW i \in 1 .. Len(buf), Emit(i)
  PROVE  IInv'
<1> DEFINE drop == i - 1 + FrameSize
<1>1. /\ TypeOK /\ BufferIsSuffix /\ SentAreFrames /\ SentBehind /\ TakenSettled
      /\ Len(buf) \in Nat /\ Len(input) \in Nat /\ taken \in Nat
      /\ Len(starts) \in Nat /\ Len(out) = Len(starts)
      /\ \A n \in 1 .. Len(starts) : starts[n] \in Nat
  BY LenProperties DEF IInv, TypeOK, SentAreFrames
<1>2. /\ Advance(drop)
      /\ pc = "decoding"
      /\ input' = input
      /\ IsHeader(buf[i]) /\ ~ TooShort(i) /\ TrailerAt(buf, i)
      /\ \A k \in 1 .. i - 1 : ~ IsHeader(buf[k])
  BY DEF Emit, HeaderFound
<1>3. drop \in 0 .. Len(buf)
  BY <1>1, <1>2 DEF TooShort
<1>4. /\ buf' \in Seq(Byte) /\ taken' \in Nat /\ BufferIsSuffix'
      /\ taken' = taken + drop
  BY <1>1, <1>2, <1>3, Advancing DEF Advance
<1>5. /\ IsFrame(taken + i)
      /\ Cut(i) \in [1 .. FrameSize -> Byte]
      /\ Cut(i) = FrameAt(taken + i)
  <2>1. /\ taken + i \in 1 .. Len(input)
        /\ IsHeader(input[taken + i])
        /\ taken + i - 1 + FrameSize <= Len(input)
        /\ TrailerAt(input, taken + i)
    BY <1>1, <1>2, Window, Zenon
  <2> QED BY <1>1, <1>2, <2>1, CutIsFrame DEF IsFrame, TrailerAt
<1>6. \A k : /\ IsFrame(k)' <=> IsFrame(k)
             /\ FrameAt(k)' = FrameAt(k)
  BY <1>2 DEF IsFrame, FrameAt
<1>7. /\ out' = Append(out, Cut(i))
      /\ starts' = Append(starts, taken + i)
      /\ pc' = "sending"
  BY DEF Emit
<1>8. IInv'
  <2>1. /\ starts' \in Seq(Nat)
        /\ Len(starts') = Len(starts) + 1
        /\ \A n \in 1 .. Len(starts) : starts'[n] = starts[n]
        /\ starts'[Len(starts) + 1] = taken + i
    BY <1>1, <1>7, AppendProperties DEF TypeOK
  <2>2. /\ out' \in Seq([1 .. FrameSize -> Byte])
        /\ Len(out') = Len(starts) + 1
        /\ \A n \in 1 .. Len(starts) : out'[n] = out[n]
        /\ out'[Len(starts) + 1] = Cut(i)
    BY <1>1, <1>5, <1>7, AppendProperties DEF TypeOK
  <2>3. TypeOK'
    BY <1>1, <1>2, <1>4, <1>7, <2>1, <2>2 DEF TypeOK
  <2>4. \A n \in 1 .. Len(starts) + 1 : n \in 1 .. Len(starts) \/ n = Len(starts) + 1
    BY <1>1
  <2>5. SentAreFrames'
    <3>1. Len(out') = Len(starts')
      BY <2>1, <2>2
    <3>2. \A n \in 1 .. Len(starts') : (IsFrame(starts[n]) /\ out[n] = FrameAt(starts[n]))'
      <4> SUFFICES ASSUME NEW n \in 1 .. Len(starts) + 1
                   PROVE  (IsFrame(starts[n]) /\ out[n] = FrameAt(starts[n]))'
        BY <2>1
      <4>1. CASE n \in 1 .. Len(starts)
        <5>1. IsFrame(starts[n]) /\ out[n] = FrameAt(starts[n])
          BY <1>1, <4>1 DEF SentAreFrames
        <5>2. starts'[n] = starts[n] /\ out'[n] = out[n]
          BY <2>1, <2>2, <4>1
        <5> QED BY <1>2, <5>1, <5>2 DEF IsFrame, FrameAt
      <4>2. CASE n = Len(starts) + 1
        <5>1. starts'[n] = taken + i /\ out'[n] = FrameAt(taken + i)
          BY <1>5, <2>1, <2>2, <4>2
        <5> QED BY <1>2, <1>5, <5>1 DEF IsFrame, FrameAt
      <4> QED BY <2>4, <4>1, <4>2
    <3>3. \A m, n \in 1 .. Len(starts') : m < n => starts'[m] + FrameSize <= starts'[n]
      <4> SUFFICES ASSUME NEW m \in 1 .. Len(starts) + 1, NEW n \in 1 .. Len(starts) + 1, m < n
                   PROVE  starts'[m] + FrameSize <= starts'[n]
        BY <2>1
      <4>1. m \in 1 .. Len(starts)
        BY <1>1
      <4>2. CASE n \in 1 .. Len(starts)
        BY <1>1, <2>1, <4>1, <4>2 DEF SentAreFrames
      <4>3. CASE n = Len(starts) + 1
        <5>1. starts[m] - 1 + FrameSize <= taken
          BY <1>1, <4>1 DEF SentBehind
        <5>2. starts[m] \in Nat /\ starts'[m] = starts[m] /\ starts'[n] = taken + i
          BY <1>1, <2>1, <4>1, <4>3
        <5> QED BY <1>1, <5>1, <5>2
      <4> QED BY <2>4, <4>2, <4>3
    <3> QED BY <3>1, <3>2, <3>3 DEF SentAreFrames
  <2>6. SentBehind'
    <3> SUFFICES ASSUME NEW n \in 1 .. Len(starts) + 1
                 PROVE  starts'[n] - 1 + FrameSize <= taken + drop
      BY <1>4, <2>1 DEF SentBehind
    <3>1. CASE n \in 1 .. Len(starts)
      <4>1. starts[n] - 1 + FrameSize <= taken /\ starts[n] \in Nat /\ starts'[n] = starts[n]
        BY <1>1, <2>1, <3>1 DEF SentBehind
      <4> QED BY <1>1, <4>1
    <3>2. CASE n = Len(starts) + 1
      BY <1>1, <2>1, <3>2
    <3> QED BY <2>4, <3>1, <3>2
  <2>7. TakenSettled'
    <3> SUFFICES ASSUME NEW k \in 1 .. taken + drop PROVE Settled(k)'
      BY <1>4 DEF TakenSettled
    <3>1. CASE k <= taken
      <4>1. Settled(k)
        BY <1>1, <1>2, <3>1 DEF TakenSettled
      <4>2. Covered(k) => Covered(k)'
        BY <1>1, <2>1 DEF Covered
      <4> QED BY <1>2, <1>6, <4>1, <4>2 DEF Settled
    <3>2. CASE k > taken /\ k < taken + i
      <4> DEFINE j == k - taken
      <4>1. j \in 1 .. i - 1 /\ j \in 1 .. Len(buf) /\ taken + j = k
        BY <1>1, <3>2
      <4> HIDE DEF j
      <4>2. ~ IsHeader(buf[j])
        BY <1>2, <4>1
      <4>3. buf[j] = input[k]
        BY <1>1, <4>1, Window
      <4> QED BY <1>2, <4>2, <4>3 DEF Settled
    <3>3. CASE k >= taken + i
      <4>1. k < taken + i + FrameSize
        BY <1>1
      <4>2. Len(starts) + 1 \in 1 .. Len(starts')
        BY <1>1, <2>1
      <4>3. Covered(k)'
        BY <2>1, <3>3, <4>1, <4>2 DEF Covered
      <4> QED BY <4>3 DEF Settled
    <3> QED BY <1>1, <3>1, <3>2, <3>3
  <2>8. BufferStaysShort'
    BY <1>2, <1>7 DEF BufferStaysShort
  <2> QED BY <1>4, <2>3, <2>5, <2>6, <2>7, <2>8 DEF IInv
<1> QED BY <1>8
-----------------------------------------------------------------------------
LEMMA NextIInv == IInv /\ [Next]_vars => IInv'
<1> SUFFICES ASSUME IInv, [Next]_vars PROVE IInv'
  OBVIOUS
<1>1. ASSUME NEW chunk \in Chunks(MaxChunk), Receive(chunk) PROVE IInv'
  <2>1. chunk \in Seq(Byte)
    BY SeqDef DEF Chunks
  <2> QED BY <1>1, <2>1, ReceiveIInv
<1>2. CASE EndOfStream \/ Send \/ UNCHANGED vars
  <2>1. /\ UNCHANGED <<input, buf, taken, starts, out>>
        /\ pc' = pc \/ pc' \in {"decoding", "ended"}
    BY <1>2 DEF EndOfStream, Send, vars
  <2>2. TypeOK'
    BY <2>1 DEF IInv, TypeOK
  <2>3. BufferIsSuffix' /\ SentAreFrames' /\ SentBehind'
    BY <2>1 DEF IInv, BufferIsSuffix, SentAreFrames, SentBehind, IsFrame, FrameAt
  <2>4. TakenSettled' /\ BufferStaysShort'
    BY <2>1 DEF IInv, TakenSettled, Settled, Covered, IsFrame, BufferStaysShort
  <2> QED BY <2>2, <2>3, <2>4 DEF IInv
<1>3. CASE Decode
  BY <1>3, DiscardIInv, AwaitRestIInv, EmitIInv, SlipIInv DEF Decode
<1> QED BY <1>1, <1>2, <1>3 DEF Next

(* The invariants of TfSync and the strengthening that makes them          *)
(* inductive: decode (tfsync.rs:53-79) never gives up a position that may  *)
(* still become a frame.                                                   *)
THEOREM InductiveInvariant == Spec => []IInv
  BY InitIInv, NextIInv, PTL DEF Spec

(* Every variable keeps its type; each frame sent is FrameSize bytes long  *)
(* (tfsync.rs:69).                                                         *)
THEOREM TypeCorrect == Spec => []TypeOK
<1>1. IInv => TypeOK
  BY DEF IInv
<1> QED BY <1>1, InductiveInvariant, PTL

(* What is sent are whole frames of the stream, where they lie, in order   *)
(* and without overlap (tfsync.rs:53-79, main.rs:63-65).                   *)
THEOREM SentAreFramesHolds == Spec => []SentAreFrames
<1>1. IInv => SentAreFrames
  BY DEF IInv
<1> QED BY <1>1, InductiveInvariant, PTL

(* Between two messages the codec keeps less than a frame, and nothing in  *)
(* front of the header it waits to complete (tfsync.rs:60-67, 77).         *)
THEOREM BufferStaysShortHolds == Spec => []BufferStaysShort
<1>1. IInv => BufferStaysShort
  BY DEF IInv
<1> QED BY <1>1, InductiveInvariant, PTL

(* The buffer is the end of the stream (tfsync.rs:54-55, 62, 69, 73).      *)
THEOREM BufferIsSuffixHolds == Spec => []BufferIsSuffix
<1>1. IInv => BufferIsSuffix
  BY DEF IInv
<1> QED BY <1>1, InductiveInvariant, PTL

(* No frame of the stream is missed: a position that has left the buffer   *)
(* was settled, and one still in it has too few bytes behind it to be a    *)
(* frame, because the buffer is short (tfsync.rs:59-77).                   *)
THEOREM NoFrameMissedHolds == Spec => []NoFrameMissed
<1>1. IInv => NoFrameMissed
  <2> SUFFICES ASSUME IInv, pc = "idle", NEW i \in 1 .. Len(input), IsFrame(i)
               PROVE  Covered(i)
    BY DEF NoFrameMissed
  <2>1. /\ Len(buf) \in Nat /\ Len(input) \in Nat /\ taken \in Nat
        /\ taken + Len(buf) = Len(input)
    BY LenProperties DEF IInv, TypeOK, BufferIsSuffix
  <2>2. Len(buf) < FrameSize
    BY DEF IInv, BufferStaysShort
  <2>3. i - 1 + FrameSize <= Len(input) /\ IsHeader(input[i])
    BY DEF IsFrame
  <2>4. i \in 1 .. taken
    BY <2>1, <2>2, <2>3
  <2>5. Settled(i)
    BY <2>4 DEF IInv, TakenSettled
  <2> QED BY <2>3, <2>5 DEF Settled
<1> QED BY <1>1, InductiveInvariant, PTL
=============================================================================
