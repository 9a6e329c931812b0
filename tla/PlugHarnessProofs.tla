------------------------- MODULE PlugHarnessProofs --------------------------
(***************************************************************************)
(* Proofs about PlugHarness, for streams of every length and cut, buffers  *)
(* and pipes of every size, and a client that does what it likes.          *)
(*                                                                         *)
(* The invariant says where a filter stands in the stream of parts fed     *)
(* (Flow): what is in stdin and in buf is the end of that stream, the      *)
(* frames due before it have been written and no others have, and the      *)
(* plug is not in the middle of one.  What has been written is a stream of *)
(* whole messages with rising numbers, behind those received (InOrder),    *)
(* and the plug does not wait for a message with a frame or junk at the    *)
(* head of buf (Held), nor with anything left to flush (Turns).            *)
(***************************************************************************)
EXTENDS PlugHarness, SequenceTheorems, TLAPS

USE SizesAssumption, CapsAssumption, FeedAssumption

LEMMA PartFields ==
  ASSUME NEW part \in Part
  PROVE  part.of \in Nat /\ part.part \in Nat /\ part.size \in Nat
  BY DEF Part

LEMMA Bounds == InCap \in Nat \ {0} /\ OutCap \in Nat \ {0} /\ MaxBody \in Nat /\ MinTcTf \in Nat
  OBVIOUS

LEMMA InitTypeOK == Init => TypeOK
<1> SUFFICES ASSUME Init PROVE TypeOK
  OBVIOUS
<1>1. <<>> \in Seq(Seq(Part)) /\ <<>> \in Seq(Half) /\ <<>> \in Seq(Part) /\ <<>> \in Seq(Nat)
  BY EmptySeq
<1>2. Len(<<>>) = 0
  BY EmptySeq
<1>3. bufferSize \in Nat
  BY DEF Init, PlugInit, BufferSizes
<1>4. input = <<>> /\ output = <<>> /\ buf = <<>> /\ wbuf = <<>> /\ made = 0
  BY DEF Init, PlugInit
<1>5. Len(input) <= InCap /\ Len(output) <= OutCap /\ made \in 0 .. MaxOwn
  BY <1>2, <1>4, Bounds
<1>6. PlugTypeOK
  BY <1>1, <1>3, <1>4, <1>5 DEF Init, PlugInit, PlugTypeOK
<1>7. inbox = <<>> /\ fed = <<>> /\ got = <<>>
  BY DEF Init
<1>8. Len(inbox) <= 1
  BY <1>2, <1>7
<1> QED BY <1>1, <1>6, <1>7, <1>8 DEF Init, TypeOK

(* The parts a test may feed next.                                         *)
LEMMA AfterType ==
  ASSUME NEW parts \in Seq(Part), NEW p \in After(parts)
  PROVE  p \in Part
<1>1. Begun(parts) \in Nat
  <2>1. CASE parts = <<>>
    BY <2>1 DEF Begun
  <2>2. CASE parts # <<>>
    <3>1. Last(parts) \in Part
      BY <2>2, EmptySeq, LenProperties DEF Last
    <3> QED BY <2>2, <3>1, PartFields DEF Begun
  <2> QED BY <2>1, <2>2
<1>2. CASE MidFrame(parts)
  <2>1. Last(parts) \in Part
    BY <1>2, EmptySeq, LenProperties DEF Last, MidFrame
  <2>2. p = [Last(parts) EXCEPT !.part = @ + 1]
    BY <1>2 DEF After
  <2>3. p = [of |-> Last(parts).of, part |-> Last(parts).part + 1, size |-> Last(parts).size]
    BY <2>1, <2>2 DEF Part
  <2> QED BY <2>1, <2>3, PartFields DEF Part
<1>3. CASE ~ MidFrame(parts)
  BY <1>1, <1>3 DEF After, Junk, Part
<1> QED BY <1>2, <1>3

LEMMA MessageType ==
  ASSUME fed \in Seq(Part),
         NEW message \in IF program = "decode" THEN Chunks ELSE WholeFrames
  PROVE  message \in Seq(Part)
<1>1. CASE program = "decode"
  <2>1. CASE \E p \in After(fed) : message = <<p>>
    BY <2>1, AfterType
  <2>2. CASE \E p \in After(fed) : \E q \in After(Append(fed, p)) : message = <<p, q>>
    <3>1. PICK p \in After(fed) : \E q \in After(Append(fed, p)) : message = <<p, q>>
      BY <2>2
    <3>0. PICK q \in After(Append(fed, p)) : message = <<p, q>>
      BY <3>1
    <3>2. p \in Part
      BY AfterType
    <3>3. Append(fed, p) \in Seq(Part)
      BY <3>2, AppendProperties
    <3>4. q \in Part
      BY <3>3, AfterType
    <3> QED BY <3>0, <3>2, <3>4
  <2> QED BY <1>1, <2>1, <2>2 DEF Chunks
<1>2. CASE program # "decode"
  <2>1. PICK s \in Sizes :
          message = [i \in 1 .. s |-> [of |-> Begun(fed) + 1, part |-> i, size |-> s]]
    BY <1>2 DEF WholeFrames
  <2>2. Begun(fed) \in Nat
    <3>1. CASE fed = <<>>
      BY <3>1 DEF Begun
    <3>2. CASE fed # <<>>
      <4>1. Last(fed) \in Part
        BY <3>2, EmptySeq, LenProperties DEF Last
      <4> QED BY <3>2, <4>1, PartFields DEF Begun
    <3> QED BY <3>1, <3>2
  <2>3. s \in Nat /\ \A i \in 1 .. s : [of |-> Begun(fed) + 1, part |-> i, size |-> s] \in Part
    BY <2>2 DEF Part
  <2>4. message \in [1 .. s -> Part]
    BY <2>1, <2>3
  <2> QED BY <2>3, <2>4
<1> QED BY <1>1, <1>2
-----------------------------------------------------------------------------
(* Types, by what a step does with the streams.                            *)

LEMMA Halves ==
  ASSUME NEW n \in Nat
  PROVE  <<[of |-> n, half |-> 1], [of |-> n, half |-> 2]>> \in Seq(Half)
  BY DEF Half

LEMMA ReplyType == Reply \in Seq(Half)
  BY DEF Reply, Half

LEMMA QueueTypes ==
  ASSUME TypeOK
  PROVE  /\ input # <<>> => /\ Head(input) \in Seq(Part)
                            /\ Tail(input) \in Seq(Seq(Part))
                            /\ Len(Tail(input)) = Len(input) - 1
         /\ wbuf # <<>> => /\ Head(wbuf) \in Half
                           /\ Tail(wbuf) \in Seq(Half)
                           /\ Len(Tail(wbuf)) = Len(wbuf) - 1
         /\ output # <<>> => /\ Head(output) \in Half
                             /\ Tail(output) \in Seq(Half)
                             /\ Len(Tail(output)) = Len(output) - 1
         /\ Len(input) \in Nat /\ Len(wbuf) \in Nat /\ Len(output) \in Nat
         /\ Len(buf) \in Nat /\ Len(inbox) \in Nat /\ Len(fed) \in Nat /\ Len(got) \in Nat
<1>1. /\ input \in Seq(Seq(Part)) /\ wbuf \in Seq(Half) /\ output \in Seq(Half)
      /\ buf \in Seq(Part) /\ inbox \in Seq(Half) /\ fed \in Seq(Part) /\ got \in Seq(Nat)
  BY DEF TypeOK, PlugTypeOK
<1>2. input # <<>> => /\ Head(input) \in Seq(Part)
                      /\ Tail(input) \in Seq(Seq(Part))
                      /\ Len(Tail(input)) = Len(input) - 1
  BY <1>1, HeadTailProperties
<1>3. wbuf # <<>> => /\ Head(wbuf) \in Half
                     /\ Tail(wbuf) \in Seq(Half)
                     /\ Len(Tail(wbuf)) = Len(wbuf) - 1
  BY <1>1, HeadTailProperties
<1>4. output # <<>> => /\ Head(output) \in Half
                       /\ Tail(output) \in Seq(Half)
                       /\ Len(Tail(output)) = Len(output) - 1
  BY <1>1, HeadTailProperties
<1> QED BY <1>1, <1>2, <1>3, <1>4, LenProperties

LEMMA ReturnType ==
  ASSUME TypeOK, NEW result \in {"success", "failure"}, Return(result)
  PROVE  wbuf' \in Seq(Half) /\ sending' \in BOOLEAN /\ main' \in {"success", "failure"}
<1>1. <<>> \in Seq(Half)
  BY EmptySeq
<1> QED BY <1>1 DEF Return, TypeOK, PlugTypeOK

LEMMA StartSendType ==
  ASSUME TypeOK, NEW n \in Nat, StartSend(n)
  PROVE  wbuf' \in Seq(Half) /\ sending' \in BOOLEAN
<1>1. wbuf \in Seq(Half)
  BY DEF TypeOK, PlugTypeOK
<1> QED BY <1>1, Halves, ConcatProperties DEF StartSend

(* The first part of a message that is not Close.                          *)
LEMMA FirstPart ==
  ASSUME TypeOK, input # <<>>, Head(input) # Close
  PROVE  /\ Len(Head(input)) \in Nat \ {0}
         /\ Head(input)[1] \in Part
         /\ Head(input)[1].of \in Nat
<1>1. Head(input) \in Seq(Part)
  BY QueueTypes
<1>2. Len(Head(input)) \in Nat \ {0}
  BY <1>1, EmptySeq DEF Close
<1>3. Head(input)[1] \in Part
  BY <1>1, <1>2, ElementOfSeq
<1> QED BY <1>2, <1>3, PartFields

LEMMA Dropped ==
  ASSUME NEW b \in Seq(Part), NEW n \in 0 .. Len(b)
  PROVE  /\ SubSeq(b, n + 1, Len(b)) \in Seq(Part)
         /\ Len(SubSeq(b, n + 1, Len(b))) = Len(b) - n
         /\ \A i \in 1 .. Len(b) - n : SubSeq(b, n + 1, Len(b))[i] = b[n + i]
<1>1. Len(b) \in Nat /\ \A i \in n + 1 .. Len(b) : b[i] \in Part
  BY LenProperties
<1>2. n + 1 \in Int /\ Len(b) \in Int
  BY <1>1
<1>3. /\ SubSeq(b, n + 1, Len(b)) \in Seq(Part)
      /\ Len(SubSeq(b, n + 1, Len(b))) = IF n + 1 <= Len(b) THEN Len(b) - (n + 1) + 1 ELSE 0
      /\ \A i \in 1 .. Len(b) - (n + 1) + 1 :
           SubSeq(b, n + 1, Len(b))[i] = b[n + 1 + i - 1]
  BY <1>1, <1>2, SubSeqProperties
<1> QED BY SMTT(30), <1>1, <1>3

LEMMA DropType ==
  ASSUME TypeOK, NEW n \in 0 .. Len(buf)
  PROVE  Drop(n) \in Seq(Part)
<1>1. buf \in Seq(Part)
  BY DEF TypeOK, PlugTypeOK
<1> QED BY <1>1, Dropped DEF Drop

LEMMA InputFed ==
  ASSUME TypeOK, NEW message \in Seq(Part), StdinTakes(message)
  PROVE  /\ input' \in Seq(Seq(Part)) /\ Len(input') <= InCap
         /\ input' = Append(input, message)
         /\ Len(input') = Len(input) + 1
<1>1. input \in Seq(Seq(Part))
  BY DEF TypeOK, PlugTypeOK
<1>2. Len(input) \in Nat /\ Len(input) < InCap /\ input' = Append(input, message)
  BY QueueTypes DEF StdinTakes
<1> QED BY <1>1, <1>2, AppendProperties, Bounds

LEMMA NextItemType ==
  ASSUME TypeOK, NextItem
  PROVE  /\ input # <<>> /\ input' = Tail(input)
         /\ input' \in Seq(Seq(Part)) /\ Len(input') <= InCap
         /\ Head(input) \in Seq(Part)
<1>1. Len(input) <= InCap /\ input # <<>> /\ input' = Tail(input)
  BY DEF NextItem, PollRead, TypeOK, PlugTypeOK
<1> QED BY <1>1, QueueTypes, Bounds

LEMMA ConvertType ==
  ASSUME TypeOK, NEW ok \in BOOLEAN, Convert(ok), UNCHANGED clientVars
  PROVE  TypeOK'
<1>1. NextItem /\ Head(input) # Close
  BY DEF Convert, NextData
<1>2. input # <<>> /\ input' \in Seq(Seq(Part)) /\ Len(input') <= InCap
  BY <1>1, NextItemType
<1>3. Head(input)[1].of \in Nat
  BY <1>1, <1>2, FirstPart
<1>4. wbuf' \in Seq(Half) /\ sending' \in BOOLEAN /\ main' \in {"running", "success", "failure"}
  <2>1. CASE ok
    BY <1>3, <2>1, StartSendType DEF Convert, TypeOK, PlugTypeOK
  <2>2. CASE ~ ok
    BY <2>2, ReturnType DEF Convert
  <2> QED BY <2>1, <2>2
<1>5. UNCHANGED <<config, output, buf, ws, made, status>> /\ reader' = "busy"
  BY DEF Convert
<1> QED BY <1>2, <1>4, <1>5 DEF TypeOK, PlugTypeOK, config, clientVars

LEMMA PlugTypeStep ==
  ASSUME TypeOK, PlugNext, UNCHANGED clientVars
  PROVE  TypeOK'
<1> USE DEF config
<1>1. CASE WriteHalf
  <2>1. wbuf # <<>> /\ Len(output) < OutCap /\ output' = Append(output, Head(wbuf)) /\ wbuf' = Tail(wbuf)
    BY <1>1 DEF WriteHalf, PollWrite
  <2>2. output \in Seq(Half) /\ Head(wbuf) \in Half
    BY <2>1, QueueTypes DEF TypeOK, PlugTypeOK
  <2>3. output' \in Seq(Half) /\ Len(output') <= OutCap
    BY <2>1, <2>2, AppendProperties, QueueTypes, Bounds
  <2>4. wbuf' \in Seq(Half)
    BY <2>1, QueueTypes
  <2>5. sending' \in BOOLEAN /\ ws' \in {"active", "replying", "closed"}
    BY <1>1 DEF WriteHalf, TypeOK, PlugTypeOK
  <2> QED BY <1>1, <2>3, <2>4, <2>5 DEF WriteHalf, TypeOK, PlugTypeOK, clientVars
<1>2. CASE RecvClose
  <2>1. input' \in Seq(Seq(Part)) /\ Len(input') <= InCap
    BY <1>2, NextItemType DEF RecvClose
  <2>2. wbuf' \in Seq(Half)
    BY <1>2, ReplyType, ConcatProperties DEF RecvClose, TypeOK, PlugTypeOK
  <2> QED BY <1>2, <2>1, <2>2 DEF RecvClose, TypeOK, PlugTypeOK, clientVars
<1>3. CASE InputEnds
  <2>1. wbuf' \in Seq(Half) /\ sending' \in BOOLEAN /\ main' \in {"running", "success", "failure"}
    <3>1. CASE program = "replay"
      BY <1>3, <3>1 DEF InputEnds, TypeOK, PlugTypeOK
    <3>2. CASE program # "replay"
      BY <1>3, <3>2, ReturnType DEF InputEnds
    <3> QED BY <3>1, <3>2
  <2>2. UNCHANGED <<config, input, output, buf, ws, made, status>> /\ reader' = "done"
    BY <1>3 DEF InputEnds
  <2> QED BY <2>1, <2>2 DEF TypeOK, PlugTypeOK, clientVars
<1>4. CASE Exit
  BY <1>4 DEF Exit, TypeOK, PlugTypeOK, clientVars
<1>5. CASE EncodeNext
  <2>1. Convert(Length(Head(input)) <= MaxBody)
    BY <1>5 DEF EncodeNext
  <2>2. (Length(Head(input)) <= MaxBody) \in BOOLEAN
    OBVIOUS
  <2> QED BY <2>1, <2>2, ConvertType
<1>6. CASE FromTcTfNext
  <2>1. Convert(LongEnough(Head(input)))
    BY <1>6 DEF FromTcTfNext
  <2>2. LongEnough(Head(input)) \in BOOLEAN
    BY DEF LongEnough
  <2> QED BY <2>1, <2>2, ConvertType
<1>7. CASE DecodeNext
  <2>1. input' \in Seq(Seq(Part)) /\ Len(input') <= InCap /\ Head(input) \in Seq(Part)
    BY <1>7, NextItemType DEF DecodeNext, NextData
  <2>2. buf' \in Seq(Part)
    BY <1>7, <2>1, ConcatProperties DEF DecodeNext, TypeOK, PlugTypeOK
  <2> QED BY <1>7, <2>1, <2>2 DEF DecodeNext, TypeOK, PlugTypeOK, clientVars
<1>8. CASE DecodeFrame
  <2>1. buf \in Seq(Part) /\ buf # <<>> /\ buf[1].size \in 1 .. bufferSize /\ buf[1].size <= Len(buf)
    BY <1>8 DEF DecodeFrame, FrameComplete, FrameBegins, TypeOK, PlugTypeOK
  <2>2. buf[1] \in Part
    BY <2>1, EmptySeq, ElementOfSeq
  <2>3. buf[1].of \in Nat /\ buf[1].size \in 0 .. Len(buf)
    BY <2>1, <2>2, PartFields, QueueTypes
  <2>4. buf' \in Seq(Part)
    BY <1>8, <2>3, DropType DEF DecodeFrame
  <2>5. wbuf' \in Seq(Half) /\ sending' \in BOOLEAN
    BY <1>8, <2>3, StartSendType DEF DecodeFrame
  <2> QED BY <1>8, <2>4, <2>5 DEF DecodeFrame, TypeOK, PlugTypeOK, clientVars
<1>9. CASE DecodeJunk
  <2>1. buf \in Seq(Part) /\ buf # <<>>
    BY <1>9 DEF DecodeJunk, JunkBegins, TypeOK, PlugTypeOK
  <2>2. 1 \in 0 .. Len(buf)
    BY <2>1, EmptySeq
  <2>3. buf' \in Seq(Part)
    BY <1>9, <2>2, DropType DEF DecodeJunk
  <2> QED BY <1>9, <2>3 DEF DecodeJunk, TypeOK, PlugTypeOK, clientVars
<1>10. CASE NextMessage
  BY <1>10 DEF NextMessage, TypeOK, PlugTypeOK, clientVars
<1>11. CASE TakeMessage
  <2>1. input' \in Seq(Seq(Part)) /\ Len(input') <= InCap
    BY <1>11, NextItemType DEF TakeMessage, NextData
  <2>2. reader' \in {"polling", "busy"}
    BY <1>11 DEF TakeMessage
  <2> QED BY <1>11, <2>1, <2>2 DEF TakeMessage, TypeOK, PlugTypeOK, clientVars
<1>12. CASE MessageTaken
  BY <1>12 DEF MessageTaken, TypeOK, PlugTypeOK, clientVars
<1>13. CASE OwnFrame
  <2>1. made' \in 0 .. MaxOwn /\ wbuf' \in Seq(Half) /\ sending' \in BOOLEAN
          /\ main' \in {"running", "success", "failure"}
    <3>1. made \in 0 .. MaxOwn /\ made < MaxOwn /\ MaxOwn \in Nat
      BY <1>13 DEF OwnFrame, TypeOK, PlugTypeOK
    <3>2. CASE ws = "active"
      <4>1. made' = made + 1 /\ StartSend(made + 1) /\ main' = main
        BY <1>13, <3>2 DEF OwnFrame
      <4>2. made + 1 \in Nat
        BY <3>1
      <4>3. wbuf' \in Seq(Half) /\ sending' \in BOOLEAN
        BY <4>1, <4>2, StartSendType
      <4> QED BY <3>1, <4>1, <4>3 DEF TypeOK, PlugTypeOK
    <3>3. CASE ws # "active"
      <4>1. Return("failure") /\ made' = made
        BY <1>13, <3>3 DEF OwnFrame
      <4> QED BY <3>1, <4>1, ReturnType
    <3> QED BY <3>2, <3>3
  <2>2. UNCHANGED <<config, input, output, reader, buf, ws, status>>
    BY <1>13 DEF OwnFrame
  <2> QED BY <2>1, <2>2 DEF TypeOK, PlugTypeOK, clientVars
<1>14. CASE OwnEnd
  <2>1. Return("success") \/ Return("failure")
    BY <1>14 DEF OwnEnd
  <2>2. wbuf' \in Seq(Half) /\ sending' \in BOOLEAN /\ main' \in {"success", "failure"}
    BY <2>1, ReturnType
  <2>3. UNCHANGED <<config, input, output, reader, buf, ws, made, status>>
    BY <1>14 DEF OwnEnd
  <2> QED BY <2>2, <2>3 DEF TypeOK, PlugTypeOK, clientVars
<1> QED
  BY <1>1, <1>2, <1>3, <1>4, <1>5, <1>6, <1>7, <1>8, <1>9, <1>10, <1>11, <1>12, <1>13, <1>14
  DEF PlugNext, PlugRuns

LEMMA TestTypeStep ==
  ASSUME TypeOK, ShutdownStep \/ Test
  PROVE  TypeOK'
<1> USE DEF plugVars, innards, config
<1>1. CASE Send
  <2>1. PICK message \in IF program = "decode" THEN Chunks ELSE WholeFrames :
          StdinTakes(message) /\ fed' = fed \o message
    BY <1>1 DEF Send
  <2>2. fed \in Seq(Part)
    BY DEF TypeOK
  <2>3. message \in Seq(Part)
    BY <2>2, MessageType
  <2>4. input' \in Seq(Seq(Part)) /\ Len(input') <= InCap
    BY <2>1, <2>3, InputFed
  <2>5. fed' \in Seq(Part)
    BY <2>1, <2>2, <2>3, ConcatProperties
  <2> QED BY <1>1, <2>4, <2>5 DEF Send, TypeOK, PlugTypeOK
<1>2. CASE Recv
  BY <1>2 DEF Recv, TypeOK, PlugTypeOK
<1>3. CASE ReadHalf
  <2>1. output # <<>> /\ output' = Tail(output)
    BY <1>3 DEF ReadHalf, StdoutGives
  <2>2. Head(output) \in Half /\ output' \in Seq(Half) /\ Len(output') <= OutCap
    BY <2>1, QueueTypes, Bounds DEF TypeOK, PlugTypeOK
  <2>3. /\ inbox' \in Seq(Half) /\ Len(inbox') <= 1
        /\ receiving' \in BOOLEAN
        /\ got' \in Seq(Nat)
    <3>1. CASE Head(output).half = 1
      <4>1. inbox' = <<Head(output)>> /\ receiving' = receiving /\ got' = got
        BY <1>3, <3>1 DEF ReadHalf
      <4>2. <<Head(output)>> \in Seq(Half) /\ Len(<<Head(output)>>) = 1
        BY <2>2
      <4> QED BY <4>1, <4>2 DEF TypeOK
    <3>2. CASE Head(output).half # 1
      <4>1. inbox' = <<>> /\ receiving' = FALSE
              /\ got' = got \o [i \in 1 .. Len(inbox) |-> inbox[i].of]
        BY <1>3, <3>2 DEF ReadHalf
      <4>2. inbox \in Seq(Half) /\ got \in Seq(Nat)
        BY DEF TypeOK
      <4>3. \A i \in 1 .. Len(inbox) : inbox[i].of \in Nat
        <5>1. \A i \in 1 .. Len(inbox) : inbox[i] \in Half
          BY <4>2, ElementOfSeq
        <5> QED BY <5>1 DEF Half
      <4>4. [i \in 1 .. Len(inbox) |-> inbox[i].of] \in [1 .. Len(inbox) -> Nat]
        BY <4>3
      <4>5. [i \in 1 .. Len(inbox) |-> inbox[i].of] \in Seq(Nat)
        BY <4>4, QueueTypes
      <4>6. inbox' \in Seq(Half) /\ Len(inbox') <= 1
        BY <4>1, EmptySeq
      <4>7. got' \in Seq(Nat)
        BY <4>1, <4>2, <4>5, ConcatProperties
      <4> QED BY <4>1, <4>6, <4>7
    <3> QED BY <3>1, <3>2
  <2> QED BY <1>3, <2>2, <2>3 DEF ReadHalf, TypeOK, PlugTypeOK
<1>4. CASE RecvFails
  <2>1. PlugTypeOK'
    BY <1>4 DEF RecvFails, TypeOK, PlugTypeOK
  <2> QED BY <1>4, <2>1 DEF RecvFails, TypeOK
<1>5. CASE RecvTimesOut
  <2>1. PlugTypeOK'
    BY <1>5 DEF RecvTimesOut, TypeOK, PlugTypeOK
  <2> QED BY <1>5, <2>1 DEF RecvTimesOut, TypeOK
<1>6. CASE Shutdown
  BY <1>6 DEF Shutdown, TypeOK, PlugTypeOK
<1>7. CASE CloseSink
  <2>1. Close \in Seq(Part) /\ StdinTakes(Close)
    BY <1>7, EmptySeq DEF CloseSink, Close
  <2>2. input' \in Seq(Seq(Part)) /\ Len(input') <= InCap
    BY <2>1, InputFed
  <2> QED BY <1>7, <2>2 DEF CloseSink, TypeOK, PlugTypeOK
<1>8. CASE CloseFails
  BY <1>8 DEF CloseFails, TypeOK, PlugTypeOK
<1>9. CASE Reap
  BY <1>9 DEF Reap, Verdict, TypeOK, PlugTypeOK
<1>10. CASE GraceExpires
  BY <1>10 DEF GraceExpires, TypeOK, PlugTypeOK
<1>11. CASE ReapKilled
  BY <1>11 DEF ReapKilled, TypeOK, PlugTypeOK
<1>12. CASE DropPlug
  BY ZenonT(60), <1>12 DEF DropPlug, TypeOK, PlugTypeOK
<1>13. CASE Killed
  BY <1>13 DEF Killed, clientVars, TypeOK, PlugTypeOK
<1> QED
  BY <1>1, <1>2, <1>3, <1>4, <1>5, <1>6, <1>7, <1>8, <1>9, <1>10, <1>11, <1>12, <1>13
  DEF ShutdownStep, Test

LEMMA NextTypeOK ==
  ASSUME TypeOK, [Next]_vars
  PROVE  TypeOK'
<1>1. CASE PlugNext /\ UNCHANGED clientVars
  BY <1>1, PlugTypeStep
<1>2. CASE ShutdownStep \/ Test
  BY <1>2, TestTypeStep
<1>3. CASE UNCHANGED vars
  BY <1>3 DEF vars, plugVars, clientVars, innards, config, TypeOK, PlugTypeOK
<1> QED BY <1>1, <1>2, <1>3 DEF Next

(* The plug and its client keep to their types.                            *)
THEOREM TypeCorrect == Spec => []TypeOK
  BY InitTypeOK, NextTypeOK, PTL DEF Spec
-----------------------------------------------------------------------------
(* The parts of the invariant.                                             *)

(* Where the plug, the socket and the client stand.                        *)
Control ==
  /\ receiving => client = "open"
  /\ client \in {"open", "closing"} =>
       ws = "active" /\ \A i \in 1 .. Len(input) : input[i] # Close
  /\ \A i \in 1 .. Len(input) : input[i] = Close => i = Len(input)
  /\ ws # "active" => input = <<>>
  /\ status \in {"success", "failure"} => main = status
  /\ client = "returned" => status # "up"
  /\ outcome = "ok" => status = "success"

(* A filter sends only what it is busy with, and replies to Close when it  *)
(* has nothing to send.                                                    *)
Turns ==
  /\ ws # "active" => reader # "busy"
  /\ ws = "closed" => wbuf = <<>>
  /\ ws = "replying" => \A i \in 1 .. Len(wbuf) : wbuf[i].of = 0
  /\ main = "success" => ws = "closed"
  /\ main = "running" /\ reader # "busy" => ~ sending
  /\ main = "running" /\ ws = "active" /\ ~ sending => wbuf = <<>>

(* It does not read on while there is something in buf to do.              *)
Held ==
  /\ reader # "busy" => ~ FrameComplete /\ ~ JunkBegins
  /\ program # "decode" => buf = <<>>

(* Messages to a filter that is no decoder are whole frames.               *)
Framed ==
  program # "decode" =>
    /\ ~ MidFrame(fed)
    /\ \A i \in 1 .. Len(input) :
         input[i] # Close => input[i][1].part = 1 /\ input[i][1].size = Len(input[i])

(* The stream of halves between the plug and the test.                     *)
Pipe(a, b, w) == a \o (b \o w)

Stream == Pipe(inbox, output, wbuf)

(* It is one of whole messages ...                                         *)
Paired(s) ==
  /\ s # <<>> => s[1].half = 1 /\ s[Len(s)].half = 2
  /\ \A i \in 1 .. Len(s) - 1 :
       IF s[i].half = 1 THEN s[i + 1] = [of |-> s[i].of, half |-> 2]
                        ELSE s[i + 1].half = 1

(* ... of frames in order, and a reply to Close at the end, ...            *)
Rising(s) ==
  \A i, j \in 1 .. Len(s) :
    i < j /\ s[j].of # 0 =>
      /\ s[i].of # 0
      /\ s[i].of <= s[j].of
      /\ s[i].of = s[j].of => s[j].half = 2

Clear(s) == \A i \in 1 .. Len(s) : s[i].of # 0

(* ... behind those received, which are in order too.                      *)
Behind(g, s) ==
  \A k \in 1 .. Len(g), i \in 1 .. Len(s) : s[i].of # 0 => g[k] < s[i].of

Sorted(g) ==
  /\ \A k \in 1 .. Len(g) : g[k] # 0
  /\ \A j, k \in 1 .. Len(g) : j < k => g[j] < g[k]

Ordered(g, s) == Paired(s) /\ Rising(s) /\ Behind(g, s) /\ Sorted(g)

InOrder ==
  /\ \A i \in 1 .. Len(inbox) : inbox[i].half = 1
  /\ Ordered(got, Stream)
  /\ ws = "active" => Clear(Stream)

(* The parts fed are those of one frame after the other, with junk between *)
(* two frames and never inside one.                                        *)
PartOK(p) == /\ p.part \in 0 .. p.size
             /\ p.part = 0 => p.size = 0
             /\ p.part > 0 => p.of > 0

Nth(p, k) == [of |-> p.of, part |-> k, size |-> p.size]

Sized(f) == \A i \in 1 .. Len(f) : PartOK(f[i])

Preceded(f) ==
  \A i \in 1 .. Len(f) : f[i].part > 1 => i > 1 /\ f[i - 1] = Nth(f[i], f[i].part - 1)

Followed(f) ==
  \A i, j \in 1 .. Len(f) :
    f[i].part = 1 /\ i <= j /\ j - i < f[i].size => f[j] = Nth(f[i], j - i + 1)

Numbered(f) == \A i, j \in 1 .. Len(f) : i <= j => f[i].of <= f[j].of

Fresh(f) ==
  \A i, j \in 1 .. Len(f) : i < j /\ Ends(f[i]) /\ f[j].part > 0 => f[i].of < f[j].of

WellFed(f) == Sized(f) /\ Preceded(f) /\ Followed(f) /\ Numbered(f) /\ Fresh(f)

(* Where the messages in stdin, and what is in buf, lie in the parts fed.  *)
Cut(c, in, b, f) ==
  /\ c[Len(in)] = Len(f)
  /\ \A i \in 1 .. Len(in) :
       /\ c[i] = c[i - 1] + Len(in[i])
       /\ \A k \in 1 .. Len(in[i]) : in[i][k] = f[c[i - 1] + k]
  /\ Len(b) <= c[0]
  /\ \A k \in 1 .. Len(b) : b[k] = f[c[0] - Len(b) + k]

(* Frame n has been written, to be received sooner or later.               *)
Gone(g, s, n) ==
  \/ \E k \in 1 .. Len(g) : g[k] = n
  \/ \E i \in 1 .. Len(s) : s[i].of = n

IsDue(part) == Ends(part) /\ Passes(part)

(* The plug has dealt with the first p parts: their frames have been       *)
(* written, no others have, and none that it converts is cut off.          *)
Frontier(f, g, s, p) ==
  /\ \A n \in Nat \ {0} : Gone(g, s, n) => \E i \in 1 .. p : f[i].of = n /\ IsDue(f[i])
  /\ \A i \in 1 .. p : IsDue(f[i]) => Gone(g, s, f[i].of)
  /\ p > 0 => ~ (f[p].part \in 1 .. f[p].size - 1 /\ Passes(f[p]))

Flow(in, b, f, g, s) ==
  \E c \in [0 .. Len(in) -> 0 .. Len(f)] : Cut(c, in, b, f) /\ Frontier(f, g, s, c[0] - Len(b))

FilterInv ==
  Turns /\ Held /\ Framed /\ InOrder /\ WellFed(fed) /\ Flow(input, buf, fed, got, Stream)

IInv == Control /\ (Filter => FilterInv)

-----------------------------------------------------------------------------
(* The parts fed, one more part or one more whole frame.                   *)

LEMMA LastPart ==
  ASSUME NEW f \in Seq(Part), WellFed(f)
  PROVE  /\ Len(f) \in Nat
         /\ \A i \in 1 .. Len(f) : /\ f[i] \in Part
                                   /\ f[i].of \in Nat /\ f[i].part \in Nat /\ f[i].size \in Nat
                                   /\ f[i].part \in 0 .. f[i].size
                                   /\ f[i].part = 0 => f[i].size = 0
                                   /\ f[i].of <= Begun(f)
         /\ Begun(f) \in Nat
         /\ f # <<>> => Len(f) > 0 /\ Last(f) = f[Len(f)] /\ Begun(f) = f[Len(f)].of
<1>1. Len(f) \in Nat /\ (f # <<>> => Len(f) > 0) /\ (f = <<>> => Len(f) = 0)
  BY LenProperties, EmptySeq
<1>2. \A i \in 1 .. Len(f) : f[i] \in Part
  BY ElementOfSeq
<1>3. \A i \in 1 .. Len(f) : f[i].of \in Nat /\ f[i].part \in Nat /\ f[i].size \in Nat
  BY <1>2, PartFields
<1>4. \A i \in 1 .. Len(f) : f[i].part \in 0 .. f[i].size /\ (f[i].part = 0 => f[i].size = 0)
  BY DEF WellFed, Sized, PartOK
<1>5. f # <<>> => Last(f) = f[Len(f)] /\ Begun(f) = f[Len(f)].of
  BY DEF Last, Begun
<1>6. Begun(f) \in Nat
  <2>1. CASE f = <<>>
    BY <2>1 DEF Begun
  <2>2. CASE f # <<>>
    BY <1>1, <1>3, <1>5, <2>2
  <2> QED BY <2>1, <2>2
<1>7. \A i \in 1 .. Len(f) : f[i].of <= Begun(f)
  <2>1. \A i \in 1 .. Len(f) : f[i].of <= f[Len(f)].of
    BY <1>1 DEF WellFed, Numbered
  <2> QED BY <1>1, <1>5, <2>1
<1> QED BY <1>1, <1>2, <1>3, <1>4, <1>5, <1>6, <1>7

LEMMA PartComes ==
  ASSUME NEW f \in Seq(Part), WellFed(f), NEW p \in After(f)
  PROVE  WellFed(Append(f, p))
<1> DEFINE h == Append(f, p)
           l == Len(f)
<1>1. p \in Part /\ p.of \in Nat /\ p.part \in Nat /\ p.size \in Nat
  BY AfterType, PartFields
<1>2. h \in Seq(Part) /\ Len(h) = l + 1 /\ (\A i \in 1 .. l : h[i] = f[i]) /\ h[l + 1] = p
  BY <1>1, AppendProperties
<1>3. /\ l \in Nat
      /\ \A i \in 1 .. l : f[i] \in Part
      /\ \A i \in 1 .. l : f[i].of \in Nat /\ f[i].part \in Nat /\ f[i].size \in Nat
      /\ \A i \in 1 .. l : f[i].part \in 0 .. f[i].size /\ (f[i].part = 0 => f[i].size = 0)
      /\ \A i \in 1 .. l : f[i].of <= Begun(f)
      /\ Begun(f) \in Nat
      /\ f # <<>> => l > 0 /\ Last(f) = f[l] /\ Begun(f) = f[l].of
  BY LastPart
<1>4. Sized(f) /\ Preceded(f) /\ Followed(f) /\ Numbered(f) /\ Fresh(f)
  BY DEF WellFed
<1>5. \A i \in 1 .. Len(h) : i \in 1 .. l \/ i = l + 1
  BY <1>2, <1>3
<1>6. CASE MidFrame(f)
  <2>1. l > 0 /\ Last(f) = f[l] /\ f[l].part < f[l].size /\ Begun(f) = f[l].of
    BY <1>3, <1>6 DEF MidFrame
  <2>2. f[l] \in Part /\ l \in 1 .. l
    BY <1>3, <2>1
  <2>3. p = [f[l] EXCEPT !.part = @ + 1]
    BY <1>6, <2>1 DEF After
  <2>4. p = Nth(f[l], f[l].part + 1) /\ f[l].part > 0
    <3>1. p = [of |-> f[l].of, part |-> f[l].part + 1, size |-> f[l].size]
      BY <2>2, <2>3 DEF Part
    <3>2. f[l].part > 0
      BY <1>3, <2>1, <2>2
    <3> QED BY <3>1, <3>2 DEF Nth
  <2>5. p.of = f[l].of /\ p.part = f[l].part + 1 /\ p.size = f[l].size
    BY <2>4 DEF Nth
  <2>6. Nth(p, f[l].part) = f[l]
    BY <2>2, <2>5 DEF Nth, Part
  <2>7. PartOK(f[l])
    BY <1>4, <2>2 DEF Sized
  <2>8. PartOK(p)
    BY SMTT(30), <1>3, <2>1, <2>2, <2>4, <2>5, <2>7 DEF PartOK
  <2>9. Sized(h)
    BY <1>2, <1>4, <1>5, <2>8 DEF Sized
  <2>10. Preceded(h)
    <3> SUFFICES ASSUME NEW i \in 1 .. Len(h), h[i].part > 1
                 PROVE  i > 1 /\ h[i - 1] = Nth(h[i], h[i].part - 1)
      BY DEF Preceded
    <3>1. CASE i = l + 1
      BY <1>2, <1>3, <2>1, <2>2, <2>5, <2>6, <3>1
    <3>2. CASE i \in 1 .. l
      <4>1. i > 1 /\ f[i - 1] = Nth(f[i], f[i].part - 1)
        BY <1>2, <1>4, <3>2 DEF Preceded
      <4>2. i - 1 \in 1 .. l
        BY SMTT(30), <3>2, <4>1, <1>3
      <4> QED BY <1>2, <3>2, <4>1, <4>2
    <3> QED BY <1>5, <3>1, <3>2
  <2>11. Followed(h)
    <3> SUFFICES ASSUME NEW i \in 1 .. Len(h), NEW j \in 1 .. Len(h),
                        h[i].part = 1, i <= j, j - i < h[i].size
                 PROVE  h[j] = Nth(h[i], j - i + 1)
      BY DEF Followed
    <3>1. CASE j \in 1 .. l
      <4>1. i \in 1 .. l
        BY <1>3, <1>5, <3>1
      <4> QED BY <1>2, <1>4, <3>1, <4>1 DEF Followed
    <3>2. CASE j = l + 1 /\ i \in 1 .. l
      <4>1. f[i].part = 1 /\ i <= l /\ l - i < f[i].size
        BY SMTT(30), <1>2, <1>3, <3>2
      <4>2. f[l] = Nth(f[i], l - i + 1)
        BY <1>4, <2>2, <3>2, <4>1 DEF Followed
      <4>3. f[l].of = f[i].of /\ f[l].part = l - i + 1 /\ f[l].size = f[i].size
        BY <4>2 DEF Nth
      <4>4. p = Nth(f[i], j - i + 1)
        BY <1>3, <2>4, <3>2, <4>3 DEF Nth
      <4> QED BY <1>2, <3>2, <4>4
    <3>3. CASE i = l + 1
      BY SMTT(30), <1>2, <1>3, <2>2, <2>4, <2>5, <3>3
    <3> QED BY <1>3, <1>5, <3>1, <3>2, <3>3
  <2>12. Numbered(h)
    BY <1>1, <1>2, <1>3, <1>4, <1>5, <2>1, <2>5 DEF Numbered
  <2>13. Fresh(h)
    <3> SUFFICES ASSUME NEW i \in 1 .. Len(h), NEW j \in 1 .. Len(h),
                        i < j, Ends(h[i]), h[j].part > 0
                 PROVE  h[i].of < h[j].of
      BY DEF Fresh
    <3>1. i \in 1 .. l
      BY <1>2, <1>3, <1>5
    <3>2. CASE j \in 1 .. l
      BY <1>2, <1>4, <3>1, <3>2 DEF Fresh
    <3>3. CASE j = l + 1 /\ i = l
      <4>1. f[l].part = f[l].size
        BY <1>2, <3>1, <3>3 DEF Ends
      <4>2. f[l].size \in Nat
        BY <1>3, <2>2
      <4> QED BY <2>1, <4>1, <4>2
    <3>4. CASE j = l + 1 /\ i < l
      BY <1>2, <1>4, <2>2, <2>4, <2>5, <3>1, <3>4 DEF Fresh
    <3> QED BY <1>3, <1>5, <3>1, <3>2, <3>3, <3>4
  <2> QED BY <2>9, <2>10, <2>11, <2>12, <2>13 DEF WellFed
<1>7. CASE ~ MidFrame(f)
  <2>1. \/ p.of = Begun(f) + 1 /\ p.part = 1 /\ p.size >= 1 /\ p = [of |-> Begun(f) + 1, part |-> 1, size |-> p.size]
        \/ p.of = Begun(f) /\ p.part = 0 /\ p.size = 0
    BY <1>7 DEF After, Junk
  <2>2. PartOK(p) /\ Begun(f) <= p.of /\ (p.part > 0 => Begun(f) < p.of)
    BY <1>3, <2>1 DEF PartOK
  <2>3. Sized(h)
    BY <1>2, <1>4, <1>5, <2>2 DEF Sized
  <2>4. Preceded(h)
    <3> SUFFICES ASSUME NEW i \in 1 .. Len(h), h[i].part > 1
                 PROVE  i > 1 /\ h[i - 1] = Nth(h[i], h[i].part - 1)
      BY DEF Preceded
    <3>2. i \in 1 .. l
      BY <1>2, <1>5, <2>1
    <3>3. i > 1 /\ f[i - 1] = Nth(f[i], f[i].part - 1)
      BY <1>2, <1>4, <3>2 DEF Preceded
    <3>4. i - 1 \in 1 .. l
      BY <3>2, <3>3, <1>3
    <3> QED BY <1>2, <3>2, <3>3, <3>4
  <2>5. Followed(h)
    <3> SUFFICES ASSUME NEW i \in 1 .. Len(h), NEW j \in 1 .. Len(h),
                        h[i].part = 1, i <= j, j - i < h[i].size
                 PROVE  h[j] = Nth(h[i], j - i + 1)
      BY DEF Followed
    <3>1. CASE j \in 1 .. l
      <4>1. i \in 1 .. l
        BY <1>3, <1>5, <3>1
      <4> QED BY <1>2, <1>4, <3>1, <4>1 DEF Followed
    <3>2. CASE j = l + 1 /\ i \in 1 .. l
      <4>1. f[i].part = 1 /\ i <= l /\ l - i < f[i].size /\ l \in 1 .. l /\ l - i + 1 < f[i].size
        BY SMTT(30), <1>2, <1>3, <3>2
      <4>2. f[l] = Nth(f[i], l - i + 1)
        BY <1>4, <3>2, <4>1 DEF Followed
      <4>3. f[l].part = l - i + 1 /\ f[l].size = f[i].size
        BY <4>2 DEF Nth
      <4>4. f # <<>>
        BY <4>1, EmptySeq, <1>3
      <4>5. MidFrame(f)
        BY <1>3, <4>1, <4>3, <4>4 DEF MidFrame
      <4> QED BY <1>7, <4>5
    <3>3. CASE i = l + 1
      <4>1. j = i /\ j - i + 1 = 1 /\ p.part = 1
        BY <1>2, <1>3, <3>3
      <4>2. p = Nth(p, 1)
        BY <1>1, <4>1 DEF Part, Nth
      <4> QED BY <1>2, <3>3, <4>1, <4>2
    <3> QED BY <1>3, <1>5, <3>1, <3>2, <3>3
  <2>6. Numbered(h)
    BY SMTT(30), <1>1, <1>2, <1>3, <1>4, <1>5, <2>2 DEF Numbered
  <2>7. Fresh(h)
    <3> SUFFICES ASSUME NEW i \in 1 .. Len(h), NEW j \in 1 .. Len(h),
                        i < j, Ends(h[i]), h[j].part > 0
                 PROVE  h[i].of < h[j].of
      BY DEF Fresh
    <3>1. i \in 1 .. l
      BY <1>2, <1>3, <1>5
    <3>2. CASE j \in 1 .. l
      BY <1>2, <1>4, <3>1, <3>2 DEF Fresh
    <3>3. CASE j = l + 1
      BY SMTT(30), <1>1, <1>2, <1>3, <2>2, <3>1, <3>3
    <3> QED BY <1>5, <3>2, <3>3
  <2> QED BY <2>3, <2>4, <2>5, <2>6, <2>7 DEF WellFed
<1> QED BY <1>6, <1>7

(* A whole frame, number n, of z parts.                                    *)
IsFrame(m, n, z) ==
  /\ Len(m) = z
  /\ \A k \in 1 .. z : m[k] = [of |-> n, part |-> k, size |-> z]

LEMMA FrameComes ==
  ASSUME NEW f \in Seq(Part), WellFed(f), ~ MidFrame(f),
         NEW z \in Nat \ {0}, NEW m \in Seq(Part), IsFrame(m, Begun(f) + 1, z)
  PROVE  WellFed(f \o m) /\ ~ MidFrame(f \o m)
<1> DEFINE h == f \o m
           l == Len(f)
<1>1. h \in Seq(Part) /\ Len(h) = l + z /\ \A i \in 1 .. l + z : h[i] = IF i <= l THEN f[i] ELSE m[i - l]
  BY ConcatProperties DEF IsFrame
<1>2. /\ l \in Nat
      /\ \A i \in 1 .. l : f[i] \in Part
      /\ \A i \in 1 .. l : f[i].of \in Nat /\ f[i].part \in Nat /\ f[i].size \in Nat
      /\ \A i \in 1 .. l : f[i].part \in 0 .. f[i].size /\ (f[i].part = 0 => f[i].size = 0)
      /\ \A i \in 1 .. l : f[i].of <= Begun(f)
      /\ Begun(f) \in Nat
      /\ f # <<>> => l > 0 /\ Last(f) = f[l] /\ Begun(f) = f[l].of
  BY LastPart
<1>3. Sized(f) /\ Preceded(f) /\ Followed(f) /\ Numbered(f) /\ Fresh(f)
  BY DEF WellFed
<1>4. \A i \in 1 .. l : i \in 1 .. Len(h) /\ h[i] = f[i]
  BY <1>1, <1>2
<1>5. \A i \in l + 1 .. l + z : h[i] = [of |-> Begun(f) + 1, part |-> i - l, size |-> z]
  <2> SUFFICES ASSUME NEW i \in l + 1 .. l + z
               PROVE  h[i] = [of |-> Begun(f) + 1, part |-> i - l, size |-> z]
    OBVIOUS
  <2>1. i \in 1 .. l + z /\ ~ (i <= l) /\ i - l \in 1 .. z
    BY SMTT(30), <1>2
  <2>2. h[i] = m[i - l]
    BY <1>1, <2>1
  <2> QED BY <2>1, <2>2 DEF IsFrame
<1>6. \A i \in 1 .. Len(h) : i \in 1 .. l \/ i \in l + 1 .. l + z
  BY <1>1, <1>2
<1>7. \A i \in l + 1 .. l + z : h[i].of = Begun(f) + 1 /\ h[i].part = i - l /\ h[i].size = z
  <2> SUFFICES ASSUME NEW i \in l + 1 .. l + z
               PROVE  h[i].of = Begun(f) + 1 /\ h[i].part = i - l /\ h[i].size = z
    OBVIOUS
  <2>1. h[i] = [of |-> Begun(f) + 1, part |-> i - l, size |-> z]
    BY <1>5
  <2> QED BY <2>1
<1>20. \A i \in 1 .. l : h[i].of \in Nat /\ h[i].of <= Begun(f) /\ h[i].size \in Nat /\ h[i].part \in Nat
  BY <1>2, <1>4
<1>21. l \in Nat /\ Begun(f) \in Nat
  BY <1>2
<1> HIDE DEF h, l
<1>8. Sized(h)
  <2>1. \A i \in l + 1 .. l + z : PartOK(h[i])
    BY SMTT(30), <1>2, <1>7 DEF PartOK
  <2> QED BY <1>3, <1>4, <1>6, <2>1 DEF Sized, l
<1>9. Preceded(h)
  <2> SUFFICES ASSUME NEW i \in 1 .. Len(h), h[i].part > 1
               PROVE  i > 1 /\ h[i - 1] = Nth(h[i], h[i].part - 1)
    BY DEF Preceded
  <2>1. CASE i \in 1 .. l
    <3>1. i > 1 /\ f[i - 1] = Nth(f[i], f[i].part - 1)
      BY <1>3, <1>4, <2>1 DEF Preceded, l
    <3>2. i - 1 \in 1 .. l
      BY <2>1, <3>1, <1>2
    <3> QED BY <1>4, <2>1, <3>1, <3>2
  <2>2. CASE i \in l + 1 .. l + z
    <3>0. h[i].part = i - l
      BY <1>7, <2>2
    <3>1. i - l > 1 /\ i - 1 \in l + 1 .. l + z /\ i > 1
      BY SMTT(30), <1>21, <2>2, <3>0
    <3>2. h[i - 1] = [of |-> Begun(f) + 1, part |-> i - 1 - l, size |-> z]
      BY <1>5, <3>1
    <3>3. i - 1 - l = h[i].part - 1
      BY <1>21, <2>2, <3>0
    <3> QED BY <1>7, <2>2, <3>1, <3>2, <3>3 DEF Nth
  <2> QED BY <1>6, <2>1, <2>2
<1>10. Followed(h)
  <2> SUFFICES ASSUME NEW i \in 1 .. Len(h), NEW j \in 1 .. Len(h),
                      h[i].part = 1, i <= j, j - i < h[i].size
               PROVE  h[j] = Nth(h[i], j - i + 1)
    BY DEF Followed
  <2>1. CASE j \in 1 .. l
    <3>1. i \in 1 .. l
      BY <1>2, <1>6, <2>1
    <3> QED BY <1>3, <1>4, <2>1, <3>1 DEF Followed, l
  <2>2. CASE j \in l + 1 .. l + z /\ i \in 1 .. l
    <3>0. h[i] = f[i] /\ f[i].size \in Nat
      BY <1>4, <1>20, <2>2
    <3>6. i \in Nat /\ j \in Nat /\ l \in 1 .. l /\ i <= l /\ l + 1 <= j
      BY SMTT(30), <1>21, <2>2
    <3>7. f[i].part = 1 /\ j - i < f[i].size
      BY <3>0
    <3>8. l - i < f[i].size /\ l - i + 1 < f[i].size
      <4>1. \A a, b, c, e \in Nat : a + 1 <= b /\ b - c < e => a - c < e /\ a - c + 1 < e
        OBVIOUS
      <4> QED BY <1>21, <3>0, <3>6, <3>7, <4>1
    <3>1. f[i].part = 1 /\ i <= l /\ l - i < f[i].size /\ l \in 1 .. l /\ l - i + 1 < f[i].size
      BY <3>6, <3>7, <3>8
    <3>2. f[l] = Nth(f[i], l - i + 1)
      BY <1>3, <2>2, <3>1 DEF Followed, l
    <3>3. f[l].part = l - i + 1 /\ f[l].size = f[i].size
      BY <3>2 DEF Nth
    <3>4. f # <<>>
      BY <3>1, EmptySeq, <1>2 DEF l
    <3>5. MidFrame(f)
      BY <1>2, <3>1, <3>3, <3>4 DEF MidFrame
    <3> QED BY <3>5
  <2>3. CASE j \in l + 1 .. l + z /\ i \in l + 1 .. l + z
    <3>0. h[i].part = i - l
      BY <1>7, <2>3
    <3>4. i \in Int /\ l \in Int
      BY <1>21, <2>3
    <3>5. i - l = 1
      BY <3>0
    <3>1. i = l + 1
      BY <3>4, <3>5
    <3>2. j - l = j - i + 1
      BY <1>2, <2>3, <3>1
    <3>3. h[j] = [of |-> h[i].of, part |-> j - i + 1, size |-> h[i].size]
      BY <1>5, <1>7, <2>3, <3>2
    <3> QED BY <3>3 DEF Nth
  <2> QED BY <1>2, <1>6, <2>1, <2>2, <2>3
<1>11. Numbered(h)
  <2> SUFFICES ASSUME NEW i \in 1 .. Len(h), NEW j \in 1 .. Len(h), i <= j
               PROVE  h[i].of <= h[j].of
    BY DEF Numbered
  <2>1. CASE j \in 1 .. l
    <3>1. i \in 1 .. l
      BY <1>2, <1>6, <2>1
    <3> QED BY <1>3, <1>4, <2>1, <3>1 DEF Numbered, l
  <2>2. CASE j \in l + 1 .. l + z
    <3>1. h[i].of <= Begun(f) + 1
      <4>1. CASE i \in 1 .. l
        BY SMTT(30), <1>20, <1>21, <4>1
      <4>2. CASE i \in l + 1 .. l + z
        BY <1>7, <1>21, <4>2
      <4> QED BY <1>6, <4>1, <4>2
    <3> QED BY <1>7, <2>2, <3>1
  <2> QED BY <1>6, <2>1, <2>2
<1>12. Fresh(h)
  <2> SUFFICES ASSUME NEW i \in 1 .. Len(h), NEW j \in 1 .. Len(h),
                      i < j, Ends(h[i]), h[j].part > 0
               PROVE  h[i].of < h[j].of
    BY DEF Fresh
  <2>1. CASE j \in 1 .. l
    <3>1. i \in 1 .. l
      BY <1>2, <1>6, <2>1
    <3> QED BY <1>3, <1>4, <2>1, <3>1 DEF Fresh, l
  <2>2. CASE j \in l + 1 .. l + z /\ i \in 1 .. l
    <3>1. h[i].of \in Nat /\ h[i].of <= Begun(f)
      BY <1>2, <1>4, <2>2
    <3> QED BY SMTT(30), <1>2, <1>7, <2>2, <3>1
  <2>3. CASE i \in l + 1 .. l + z
    <3>1. i - l = z
      BY <1>7, <2>3 DEF Ends
    <3> QED BY <1>1, <1>2, <2>3, <3>1
  <2> QED BY <1>6, <2>1, <2>2, <2>3
<1>13. WellFed(h)
  BY <1>8, <1>9, <1>10, <1>11, <1>12 DEF WellFed
<1>14. ~ MidFrame(h)
  <2>1. Len(h) = l + z /\ Len(h) \in l + 1 .. l + z
    BY <1>1, <1>2 DEF h
  <2>2. h[Len(h)].part = z /\ h[Len(h)].size = z
    BY <1>2, <1>7, <2>1
  <2> QED BY <2>2 DEF MidFrame, Last
<1> QED BY <1>13, <1>14 DEF h

LEMMA MessageNotClose ==
  ASSUME fed \in Seq(Part), NEW m \in IF program = "decode" THEN Chunks ELSE WholeFrames
  PROVE  m \in Seq(Part) /\ m # Close
<1>1. m \in Seq(Part)
  BY MessageType
<1>2. CASE program = "decode"
  <2>1. CASE \E p \in After(fed) : m = <<p>>
    BY <1>1, <2>1 DEF Close
  <2>2. CASE \E p \in After(fed) : \E q \in After(Append(fed, p)) : m = <<p, q>>
    BY <1>1, <2>2 DEF Close
  <2> QED BY <1>2, <2>1, <2>2 DEF Chunks
<1>3. CASE program # "decode"
  <2>1. PICK z \in Sizes : m = [i \in 1 .. z |-> [of |-> Begun(fed) + 1, part |-> i, size |-> z]]
    BY <1>3 DEF WholeFrames
  <2>2. z \in Nat \ {0}
    OBVIOUS
  <2>3. Len(m) = z
    BY <1>1, <2>1, <2>2, LenProperties
  <2> QED BY <1>1, <2>2, <2>3, EmptySeq DEF Close
<1> QED BY <1>2, <1>3

(* The messages a test sends.                                              *)
LEMMA MessageFed ==
  ASSUME fed \in Seq(Part), WellFed(fed),
         program # "decode" => ~ MidFrame(fed),
         NEW m \in IF program = "decode" THEN Chunks ELSE WholeFrames
  PROVE  /\ m \in Seq(Part) /\ m # <<>>
         /\ WellFed(fed \o m)
         /\ program # "decode" =>
              /\ ~ MidFrame(fed \o m)
              /\ m[1].part = 1 /\ m[1].size = Len(m)
<1>1. m \in Seq(Part)
  BY MessageType
<1>2. CASE program = "decode"
  <2>1. CASE \E p \in After(fed) : m = <<p>>
    <3>1. PICK p \in After(fed) : m = <<p>>
      BY <2>1
    <3>2. p \in Part
      BY AfterType
    <3>3. fed \o m = Append(fed, p)
      BY <3>1, <3>2, AppendIsConcat
    <3> QED BY <1>1, <1>2, <3>1, <3>3, PartComes
  <2>2. CASE \E p \in After(fed) : \E q \in After(Append(fed, p)) : m = <<p, q>>
    <3>1. PICK p \in After(fed) : \E q \in After(Append(fed, p)) : m = <<p, q>>
      BY <2>2
    <3>2. PICK q \in After(Append(fed, p)) : m = <<p, q>>
      BY <3>1
    <3>3. p \in Part /\ Append(fed, p) \in Seq(Part)
      BY AfterType, AppendProperties
    <3>4. q \in Part
      BY <3>3, AfterType
    <3>5. WellFed(Append(fed, p))
      BY PartComes
    <3>6. WellFed(Append(Append(fed, p), q))
      BY <3>3, <3>5, PartComes
    <3>7. <<p>> \in Seq(Part) /\ <<q>> \in Seq(Part)
      BY <3>3, <3>4
    <3>10. <<p>> \o <<q>> = <<p, q>>
      <4>1. /\ <<p>> \o <<q>> \in Seq(Part)
            /\ Len(<<p>> \o <<q>>) = Len(<<p>>) + Len(<<q>>)
            /\ \A i \in 1 .. Len(<<p>>) + Len(<<q>>) : (<<p>> \o <<q>>)[i] =
                  IF i <= Len(<<p>>) THEN <<p>>[i] ELSE <<q>>[i - Len(<<p>>)]
        BY <3>7, ConcatProperties
      <4>2. <<p, q>> \in Seq(Part) /\ Len(<<p>>) = 1 /\ Len(<<q>>) = 1 /\ Len(<<p, q>>) = 2
        BY <3>3, <3>4
      <4>3. \A i \in 1 .. 2 : (<<p>> \o <<q>>)[i] = <<p, q>>[i]
        BY <4>1, <4>2
      <4>4. Len(<<p>> \o <<q>>) = 2
        BY <4>1, <4>2
      <4> QED BY <4>1, <4>2, <4>3, <4>4, SeqEqual
    <3>8. Append(Append(fed, p), q) = (fed \o <<p>>) \o <<q>>
      BY ZenonT(60), <3>3, <3>4, AppendIsConcat
    <3>9. (fed \o <<p>>) \o <<q>> = fed \o m
      BY SMTT(30), <3>2, <3>7, <3>10, ConcatAssociative
    <3> QED BY <1>1, <1>2, <3>2, <3>6, <3>8, <3>9
  <2> QED BY <1>2, <2>1, <2>2 DEF Chunks
<1>3. CASE program # "decode"
  <2>1. PICK z \in Sizes : m = [i \in 1 .. z |-> [of |-> Begun(fed) + 1, part |-> i, size |-> z]]
    BY <1>3 DEF WholeFrames
  <2>2. z \in Nat \ {0}
    OBVIOUS
  <2>3. \A k \in 1 .. z : m[k] = [of |-> Begun(fed) + 1, part |-> k, size |-> z]
    BY <2>1
  <2>4. Len(m) = z
    BY <1>1, <2>1, <2>2, LenProperties
  <2>8. IsFrame(m, Begun(fed) + 1, z)
    BY <2>3, <2>4 DEF IsFrame
  <2>5. WellFed(fed \o m) /\ ~ MidFrame(fed \o m)
    BY <1>1, <1>3, <2>2, <2>8, FrameComes
  <2>6. m[1].part = 1 /\ m[1].size = Len(m)
    BY <2>2, <2>3, <2>4
  <2>7. m # <<>>
    BY <2>2, <2>4, EmptySeq
  <2> QED BY <1>1, <2>5, <2>6, <2>7
<1> QED BY <1>2, <1>3
-----------------------------------------------------------------------------
(* The stream of halves, as it is written and read.                        *)

Message(n) == <<[of |-> n, half |-> 1], [of |-> n, half |-> 2]>>

LEMMA MessageParts ==
  ASSUME NEW n \in Nat
  PROVE  /\ Message(n) \in Seq(Half) /\ Len(Message(n)) = 2
         /\ Message(n)[1] = [of |-> n, half |-> 1]
         /\ Message(n)[2] = [of |-> n, half |-> 2]
  BY DEF Message, Half

LEMMA HalfFields ==
  ASSUME NEW s \in Seq(Half)
  PROVE  /\ Len(s) \in Nat
         /\ s # <<>> => Len(s) > 0
         /\ s = <<>> => Len(s) = 0
         /\ \A i \in 1 .. Len(s) : s[i] \in Half /\ s[i].of \in Nat /\ s[i].half \in {1, 2}
<1>1. \A i \in 1 .. Len(s) : s[i] \in Half
  BY ElementOfSeq
<1>2. \A i \in 1 .. Len(s) : s[i].of \in Nat /\ s[i].half \in {1, 2}
  BY <1>1 DEF Half
<1> QED BY <1>1, <1>2, EmptySeq

(* A message behind the others.                                            *)
LEMMA Written ==
  ASSUME NEW s \in Seq(Half), NEW g \in Seq(Nat), NEW n \in Nat, Ordered(g, s),
         n # 0 => /\ Clear(s)
                  /\ \A i \in 1 .. Len(s) : s[i].of < n
                  /\ \A k \in 1 .. Len(g) : g[k] < n
  PROVE  /\ s \o Message(n) \in Seq(Half)
         /\ Ordered(g, s \o Message(n))
         /\ n # 0 => Clear(s \o Message(n))
         /\ \A m : Gone(g, s \o Message(n), m) <=> Gone(g, s, m) \/ m = n
<1> DEFINE h == s \o Message(n)
           l == Len(s)
<1>1. /\ Message(n) \in Seq(Half) /\ Len(Message(n)) = 2
      /\ Message(n)[1] = [of |-> n, half |-> 1]
      /\ Message(n)[2] = [of |-> n, half |-> 2]
  BY MessageParts
<1>2. /\ h \in Seq(Half) /\ Len(h) = l + 2
      /\ \A i \in 1 .. l + 2 : h[i] = IF i <= l THEN s[i] ELSE Message(n)[i - l]
  <2>1. /\ h \in Seq(Half) /\ Len(h) = l + Len(Message(n))
        /\ \A i \in 1 .. l + Len(Message(n)) : h[i] = IF i <= l THEN s[i] ELSE Message(n)[i - l]
    BY <1>1, ConcatProperties
  <2> HIDE DEF h, l
  <2> QED BY <1>1, <2>1
<1>3. l \in Nat /\ (s # <<>> => l > 0) /\ (s = <<>> => l = 0)
  BY HalfFields
<1>4. \A i \in 1 .. l : h[i] = s[i] /\ s[i].of \in Nat /\ s[i].half \in {1, 2}
  BY <1>2, <1>3, HalfFields
<1>5. h[l + 1] = [of |-> n, half |-> 1]
  <2>1. l + 1 \in 1 .. l + 2 /\ ~ (l + 1 <= l) /\ l + 1 - l = 1
    BY <1>3
  <2> QED BY <1>1, <1>2, <2>1
<1>6. h[l + 2] = [of |-> n, half |-> 2]
  <2>1. l + 2 \in 1 .. l + 2 /\ ~ (l + 2 <= l) /\ l + 2 - l = 2
    BY <1>3
  <2> QED BY <1>1, <1>2, <2>1
<1>7. \A i \in 1 .. Len(h) : i \in 1 .. l \/ i = l + 1 \/ i = l + 2
  <2> HIDE DEF h, l
  <2> QED BY SMTT(30), <1>2, <1>3
<1>8. Paired(s) /\ Rising(s) /\ Behind(g, s) /\ Sorted(g)
  BY DEF Ordered
<1>9. Len(h) = l + 2 /\ h \in Seq(Half)
  BY <1>2
<1>13. h[l + 1].of = n /\ h[l + 1].half = 1 /\ h[l + 2].of = n /\ h[l + 2].half = 2
  BY <1>5, <1>6
<1>14. \A k \in 1 .. Len(g) : g[k] \in Nat
  BY ElementOfSeq
<1> HIDE DEF h
<1>10. Paired(h)
  <2>1. h[1].half = 1
    <3>1. CASE l = 0
      BY <1>13, <3>1
    <3>2. CASE l > 0
      <4>1. s # <<>> /\ 1 \in 1 .. l
        BY <1>3, <3>2
      <4> QED BY <1>4, <1>8, <4>1 DEF Paired
    <3> QED BY <1>3, <3>1, <3>2
  <2>2. h[Len(h)].half = 2
    BY <1>9, <1>13
  <2>3. ASSUME NEW i \in 1 .. Len(h) - 1
        PROVE  IF h[i].half = 1 THEN h[i + 1] = [of |-> h[i].of, half |-> 2]
                                ELSE h[i + 1].half = 1
    <3>1. CASE i \in 1 .. l - 1
      <4>1. i \in 1 .. l /\ i + 1 \in 1 .. l
        BY <1>3, <3>1
      <4>2. h[i] = s[i] /\ h[i + 1] = s[i + 1]
        BY <1>4, <4>1
      <4> QED BY <1>8, <3>1, <4>2 DEF Paired
    <3>2. CASE i = l
      <4>1. s # <<>> /\ l \in 1 .. l
        BY <1>3, <3>2
      <4>2. h[i].half = 2
        BY <1>4, <1>8, <3>2, <4>1 DEF Paired
      <4> QED BY <1>13, <3>2, <4>2
    <3>3. CASE i = l + 1
      <4>1. i + 1 = l + 2
        BY <1>3, <3>3
      <4> QED BY <1>6, <1>13, <3>3, <4>1
    <3> QED BY SMTT(30), <1>3, <1>9, <3>1, <3>2, <3>3
  <2> QED BY <2>1, <2>2, <2>3 DEF Paired
<1>11. Rising(h)
  <2> SUFFICES ASSUME NEW i \in 1 .. Len(h), NEW j \in 1 .. Len(h), i < j, h[j].of # 0
               PROVE  h[i].of # 0 /\ h[i].of <= h[j].of /\ (h[i].of = h[j].of => h[j].half = 2)
    BY DEF Rising
  <2>1. CASE j \in 1 .. l
    <3>1. i \in 1 .. l
      BY <1>3, <1>7, <2>1
    <3>2. h[i] = s[i] /\ h[j] = s[j] /\ i \in 1 .. Len(s) /\ j \in 1 .. Len(s)
      BY <1>4, <2>1, <3>1
    <3>3. Rising(s)
      BY <1>8
    <3>4. s[i].of # 0 /\ s[i].of <= s[j].of /\ (s[i].of = s[j].of => s[j].half = 2)
      BY <3>2, <3>3 DEF Rising
    <3> QED BY <3>2, <3>4
  <2>2. CASE j \notin 1 .. l /\ i \in 1 .. l
    <3>1. h[j].of = n /\ n # 0
      BY <1>7, <1>13, <2>2
    <3>2. s[i].of < n /\ s[i].of # 0
      BY <2>2, <3>1 DEF Clear
    <3> QED BY SMTT(30), <1>4, <2>2, <3>1, <3>2
  <2>3. CASE j = l + 2 /\ i = l + 1
    BY SMTT(30), <1>13, <2>3
  <2> QED BY <1>3, <1>7, <2>1, <2>2, <2>3
<1>12. Behind(g, h)
  <2> SUFFICES ASSUME NEW k \in 1 .. Len(g), NEW i \in 1 .. Len(h), h[i].of # 0
               PROVE  g[k] < h[i].of
    BY DEF Behind
  <2>1. CASE i \in 1 .. l
    BY <1>4, <1>8, <2>1 DEF Behind
  <2>2. CASE i \notin 1 .. l
    BY <1>7, <1>13, <2>2
  <2> QED BY <2>1, <2>2
<1>15. n # 0 => Clear(h)
  BY <1>4, <1>7, <1>13 DEF Clear
<1>16. ASSUME NEW m PROVE Gone(g, h, m) <=> Gone(g, s, m) \/ m = n
  <2>1. ASSUME NEW i \in 1 .. Len(h), h[i].of = m
        PROVE  (\E k \in 1 .. l : s[k].of = m) \/ m = n
    BY <1>4, <1>7, <1>13, <2>1
  <2>2. ASSUME NEW i \in 1 .. l, s[i].of = m
        PROVE  \E k \in 1 .. Len(h) : h[k].of = m
    <3>1. i \in 1 .. Len(h)
      BY <1>3, <1>9
    <3> QED BY <1>4, <2>2, <3>1
  <2>3. ASSUME m = n
        PROVE  \E k \in 1 .. Len(h) : h[k].of = m
    <3>1. l + 1 \in 1 .. Len(h)
      BY <1>3, <1>9
    <3> QED BY <1>13, <2>3, <3>1
  <2> QED BY <2>1, <2>2, <2>3 DEF Gone
<1> QED BY <1>8, <1>9, <1>10, <1>11, <1>12, <1>15, <1>16 DEF Ordered, h

(* The first message of the stream is received.                            *)
LEMMA Taken ==
  ASSUME NEW s \in Seq(Half), NEW t \in Seq(Half), NEW g \in Seq(Nat),
         Ordered(g, s), Clear(s), Len(s) = Len(t) + 2,
         \A i \in 1 .. Len(t) : t[i] = s[i + 2]
  PROVE  /\ Append(g, s[1].of) \in Seq(Nat)
         /\ Ordered(Append(g, s[1].of), t)
         /\ Clear(t)
         /\ \A n : Gone(Append(g, s[1].of), t, n) <=> Gone(g, s, n)
<1> DEFINE h == Append(g, s[1].of)
           l == Len(t)
           q == Len(g)
<1>1. l \in Nat /\ (t # <<>> => l > 0) /\ s # <<>> /\ q \in Nat
  BY HalfFields, LenProperties
<1>2. \A i \in 1 .. l + 2 : s[i].of \in Nat /\ s[i].half \in {1, 2}
  BY HalfFields
<1>3. 1 \in 1 .. l + 2 /\ 2 \in 1 .. l + 2 /\ 1 \in 1 .. Len(s) - 1
  BY <1>1
<1>4. s[1].of \in Nat /\ s[1].of # 0
  BY <1>2, <1>3 DEF Clear
<1>5. h \in Seq(Nat) /\ Len(h) = q + 1 /\ (\A k \in 1 .. q : h[k] = g[k]) /\ h[q + 1] = s[1].of
  BY <1>4, AppendProperties
<1>6. Paired(s) /\ Rising(s) /\ Behind(g, s) /\ Sorted(g)
  BY DEF Ordered
<1>7. s[1].half = 1 /\ s[2].half = 2 /\ s[2].of = s[1].of
  <2>1. s[1].half = 1
    BY <1>1, <1>6 DEF Paired
  <2>2. s[1 + 1] = [of |-> s[1].of, half |-> 2]
    BY <1>3, <1>6, <2>1 DEF Paired
  <2> QED BY <2>1, <2>2
<1>8. \A i \in 1 .. l : i + 2 \in 1 .. Len(s) /\ t[i] = s[i + 2]
  BY <1>1
<1>9. \A k \in 1 .. q : g[k] \in Nat
  BY ElementOfSeq
<1>10. Paired(t)
  <2>1. ASSUME t # <<>> PROVE t[1].half = 1 /\ t[Len(t)].half = 2
    <3>1. 2 \in 1 .. Len(s) - 1 /\ 1 \in 1 .. l /\ l \in 1 .. l
      BY <1>1, <2>1
    <3>4. IF s[2].half = 1 THEN s[2 + 1] = [of |-> s[2].of, half |-> 2] ELSE s[2 + 1].half = 1
      BY <1>6, <3>1 DEF Paired
    <3>2. s[2 + 1].half = 1
      BY <1>7, <3>4
    <3>3. t[1] = s[3] /\ t[l] = s[Len(s)]
      BY SMTT(30), <1>8, <3>1
    <3> QED BY <1>1, <1>6, <3>2, <3>3 DEF Paired
  <2>2. ASSUME NEW i \in 1 .. Len(t) - 1
        PROVE  IF t[i].half = 1 THEN t[i + 1] = [of |-> t[i].of, half |-> 2]
                                ELSE t[i + 1].half = 1
    <3>1. i \in 1 .. l /\ i + 1 \in 1 .. l /\ i + 2 \in 1 .. Len(s) - 1
      BY <1>1
    <3>2. t[i] = s[i + 2] /\ t[i + 1] = s[i + 1 + 2] /\ i + 1 + 2 = i + 2 + 1
      BY <3>1
    <3>3. IF s[i + 2].half = 1 THEN s[i + 2 + 1] = [of |-> s[i + 2].of, half |-> 2]
                               ELSE s[i + 2 + 1].half = 1
      BY <1>6, <3>1 DEF Paired
    <3> QED BY <3>2, <3>3
  <2> QED BY <2>1, <2>2 DEF Paired
<1>11. Rising(t)
  <2> SUFFICES ASSUME NEW i \in 1 .. l, NEW j \in 1 .. l, i < j, t[j].of # 0
               PROVE  t[i].of # 0 /\ t[i].of <= t[j].of /\ (t[i].of = t[j].of => t[j].half = 2)
    BY DEF Rising
  <2>1. i + 2 \in 1 .. Len(s) /\ j + 2 \in 1 .. Len(s) /\ i + 2 < j + 2
    BY <1>8
  <2>2. t[i] = s[i + 2] /\ t[j] = s[j + 2] /\ s[j + 2].of # 0
    BY <1>8
  <2>3. /\ s[i + 2].of # 0 /\ s[i + 2].of <= s[j + 2].of
        /\ s[i + 2].of = s[j + 2].of => s[j + 2].half = 2
    BY <1>6, <2>1, <2>2 DEF Rising
  <2> QED BY <2>2, <2>3
<1>12. Clear(t)
  BY <1>8 DEF Clear
<1>13. \A i \in 1 .. l : s[1].of < t[i].of
  <2> SUFFICES ASSUME NEW i \in 1 .. l PROVE s[1].of < t[i].of
    OBVIOUS
  <2>1. 1 \in 1 .. l /\ 3 \in 1 .. Len(s) /\ t[1] = s[3] /\ t # <<>>
    <3>1. 1 \in 1 .. l /\ 3 \in 1 .. Len(s)
      BY <1>1
    <3> QED BY <1>1, <1>8, <3>1, EmptySeq
  <2>2. s[3].half = 1 /\ s[3].of # 0 /\ s[3].of \in Nat
    BY <1>2, <1>10, <2>1 DEF Paired, Clear
  <2>3. s[1].of <= s[3].of /\ (s[1].of = s[3].of => s[3].half = 2)
    BY <1>1, <1>3, <1>6, <2>1, <2>2 DEF Rising
  <2>4. s[1].of < s[3].of
    BY SMTT(30), <1>4, <2>2, <2>3
  <2>5. CASE i = 1
    BY <2>1, <2>4, <2>5
  <2>6. CASE i > 1
    <3>1. t[1].of <= t[i].of
      BY <1>11, <1>12, <2>1, <2>6 DEF Rising, Clear
    <3>2. t[i].of \in Nat
      BY <1>2, <1>8
    <3>3. \A a, b, c \in Nat : a < b /\ b <= c => a < c
      OBVIOUS
    <3> QED BY <1>4, <2>1, <2>2, <2>4, <3>1, <3>2, <3>3
  <2> QED BY <1>1, <2>5, <2>6
<1>14. \A k \in 1 .. q : g[k] < s[1].of
  BY <1>1, <1>3, <1>4, <1>6 DEF Behind
<1>15. \A k \in 1 .. Len(h) : k \in 1 .. q \/ k = q + 1
  BY SMTT(30), <1>1, <1>5
<1>16. Behind(h, t)
  <2> SUFFICES ASSUME NEW k \in 1 .. Len(h), NEW i \in 1 .. l PROVE h[k] < t[i].of
    BY DEF Behind
  <2>1. CASE k \in 1 .. q
    <3>1. i + 2 \in 1 .. Len(s) /\ s[i + 2].of # 0 /\ t[i] = s[i + 2]
      BY <1>8 DEF Clear
    <3>2. g[k] < s[i + 2].of
      BY <1>6, <2>1, <3>1 DEF Behind
    <3> QED BY <1>5, <2>1, <3>1, <3>2
  <2>2. CASE k = q + 1
    BY <1>5, <1>13, <2>2
  <2> QED BY <1>15, <2>1, <2>2
<1>17. Sorted(h)
  <2>1. \A k \in 1 .. Len(h) : h[k] # 0
    BY <1>4, <1>5, <1>6, <1>15 DEF Sorted
  <2>2. ASSUME NEW j \in 1 .. Len(h), NEW k \in 1 .. Len(h), j < k
        PROVE  h[j] < h[k]
    <3>1. j \in 1 .. q
      BY <1>1, <1>5, <1>15, <2>2
    <3>2. CASE k \in 1 .. q
      BY <1>5, <1>6, <2>2, <3>1, <3>2 DEF Sorted
    <3>3. CASE k = q + 1
      BY <1>5, <1>14, <3>1, <3>3
    <3> QED BY <1>15, <3>2, <3>3
  <2> QED BY <2>1, <2>2 DEF Sorted
<1>18. ASSUME NEW n PROVE Gone(h, t, n) <=> Gone(g, s, n)
  <2>1. ASSUME NEW k \in 1 .. Len(h), h[k] = n PROVE Gone(g, s, n)
    BY <1>3, <1>5, <1>15, <2>1 DEF Gone
  <2>2. ASSUME NEW i \in 1 .. l, t[i].of = n PROVE Gone(g, s, n)
    BY <1>8, <2>2 DEF Gone
  <2>3. ASSUME NEW k \in 1 .. q, g[k] = n PROVE Gone(h, t, n)
    <3>1. k \in 1 .. Len(h)
      BY <1>1, <1>5
    <3> QED BY <1>5, <2>3, <3>1 DEF Gone
  <2>4. ASSUME NEW i \in 1 .. Len(s), s[i].of = n PROVE Gone(h, t, n)
    <3>1. CASE i \in {1, 2}
      <4>1. q + 1 \in 1 .. Len(h)
        BY <1>1, <1>5
      <4>2. h[q + 1] = n
        BY <1>5, <1>7, <2>4, <3>1
      <4> QED BY <4>1, <4>2 DEF Gone
    <3>2. CASE i \notin {1, 2}
      <4>1. i - 2 \in 1 .. l /\ (i - 2) + 2 = i
        BY <1>1, <3>2
      <4>2. t[i - 2] = s[i]
        BY <1>8, <4>1
      <4> QED BY <2>4, <4>1, <4>2 DEF Gone
    <3> QED BY <3>1, <3>2
  <2> QED BY <2>1, <2>2, <2>3, <2>4 DEF Gone
<1> QED BY <1>5, <1>10, <1>11, <1>12, <1>16, <1>17, <1>18 DEF Ordered

IsPipe(h, a, b, w) ==
  /\ h \in Seq(Half)
  /\ Len(h) = Len(a) + Len(b) + Len(w)
  /\ \A i \in 1 .. Len(a) : h[i] = a[i]
  /\ \A i \in 1 .. Len(b) : h[Len(a) + i] = b[i]
  /\ \A i \in 1 .. Len(w) : h[Len(a) + Len(b) + i] = w[i]

LEMMA PipeParts ==
  ASSUME NEW a \in Seq(Half), NEW b \in Seq(Half), NEW w \in Seq(Half)
  PROVE  IsPipe(Pipe(a, b, w), a, b, w)
<1> DEFINE d == b \o w
           h == a \o d
<1>1. Len(a) \in Nat /\ Len(b) \in Nat /\ Len(w) \in Nat
  BY HalfFields
<1>2. /\ d \in Seq(Half) /\ Len(d) = Len(b) + Len(w)
      /\ \A i \in 1 .. Len(b) + Len(w) : d[i] = IF i <= Len(b) THEN b[i] ELSE w[i - Len(b)]
  BY ConcatProperties
<1>3. d \in Seq(Half)
  BY <1>2
<1> HIDE DEF d
<1>4. /\ h \in Seq(Half) /\ Len(h) = Len(a) + Len(d)
      /\ \A i \in 1 .. Len(a) + Len(d) : h[i] = IF i <= Len(a) THEN a[i] ELSE d[i - Len(a)]
  BY <1>3, ConcatProperties
<1> HIDE DEF h
<1>5. \A i \in 1 .. Len(a) : h[i] = a[i]
  BY <1>1, <1>2, <1>4
<1>6. ASSUME NEW i \in 1 .. Len(b) PROVE h[Len(a) + i] = b[i]
  <2>1. Len(a) + i \in 1 .. Len(a) + Len(d) /\ ~ (Len(a) + i <= Len(a)) /\ Len(a) + i - Len(a) = i
    BY <1>1, <1>2
  <2>2. h[Len(a) + i] = d[i]
    BY <1>4, <2>1
  <2> QED BY <1>1, <1>2, <2>2
<1>7. ASSUME NEW i \in 1 .. Len(w) PROVE h[Len(a) + Len(b) + i] = w[i]
  <2>1. /\ Len(a) + Len(b) + i \in 1 .. Len(a) + Len(d) /\ ~ (Len(a) + Len(b) + i <= Len(a))
        /\ Len(a) + Len(b) + i - Len(a) = Len(b) + i
    BY <1>1, <1>2
  <2>2. h[Len(a) + Len(b) + i] = d[Len(b) + i]
    BY <1>4, <2>1
  <2>3. Len(b) + i \in 1 .. Len(b) + Len(w) /\ ~ (Len(b) + i <= Len(b)) /\ Len(b) + i - Len(b) = i
    BY <1>1
  <2>4. d[Len(b) + i] = w[i]
    BY <1>2, <2>3
  <2> QED BY <2>2, <2>4
<1>8. Len(h) = Len(a) + Len(b) + Len(w)
  BY <1>1, <1>2, <1>4
<1>9. Pipe(a, b, w) = h
  BY DEF Pipe, h, d
<1> QED BY <1>4, <1>5, <1>6, <1>7, <1>8, <1>9 DEF IsPipe

LEMMA HeadFirst ==
  ASSUME NEW s \in Seq(Half), s # <<>>
  PROVE  <<Head(s)>> \in Seq(Half) /\ <<Head(s)>> \o Tail(s) = s
<1>1. /\ Head(s) \in Half /\ Tail(s) \in Seq(Half) /\ Len(Tail(s)) = Len(s) - 1
      /\ \A i \in 1 .. Len(Tail(s)) : Tail(s)[i] = s[i + 1]
  BY HeadTailProperties
<1>2. Len(s) \in Nat \ {0} /\ Head(s) = s[1]
  BY EmptySeq
<1> DEFINE e == <<Head(s)>>
           t == Tail(s)
<1>3. e \in Seq(Half) /\ Len(e) = 1 /\ e[1] = s[1]
  BY <1>1, <1>2
<1>4. t \in Seq(Half) /\ Len(t) = Len(s) - 1 /\ \A i \in 1 .. Len(s) - 1 : t[i] = s[i + 1]
  BY <1>1
<1> HIDE DEF e, t
<1>5. /\ e \o t \in Seq(Half) /\ Len(e \o t) = Len(e) + Len(t)
      /\ \A i \in 1 .. Len(e) + Len(t) : (e \o t)[i] = IF i <= Len(e) THEN e[i] ELSE t[i - Len(e)]
  BY ZenonT(60), <1>3, <1>4, ConcatProperties
<1>6. Len(e \o t) = Len(s)
  BY <1>2, <1>3, <1>4, <1>5
<1>7. ASSUME NEW i \in 1 .. Len(s) PROVE (e \o t)[i] = s[i]
  <2>1. (e \o t)[i] = IF i <= 1 THEN e[i] ELSE t[i - 1]
    BY <1>2, <1>3, <1>4, <1>5
  <2>2. CASE i = 1
    BY <1>3, <2>1, <2>2
  <2>3. CASE i # 1
    <3>1. i - 1 \in 1 .. Len(s) - 1 /\ ~ (i <= 1) /\ i - 1 + 1 = i
      BY <1>2, <2>3
    <3>2. t[i - 1] = s[i - 1 + 1]
      BY <1>4, <3>1
    <3> QED BY <2>1, <3>1, <3>2
  <2> QED BY <2>2, <2>3
<1>8. e \o t = s
  BY <1>5, <1>6, <1>7, SeqEqual
<1> QED BY <1>3, <1>8 DEF e, t

LEMMA HalvesAssociate ==
  \A s, t, u \in Seq(Half) : (s \o t) \o u = s \o (t \o u)
  BY SMTT(30), ConcatAssociative

(* What is written or begun to be read stays in the stream.                *)
LEMMA PipeWritten ==
  ASSUME NEW a \in Seq(Half), NEW b \in Seq(Half), NEW w \in Seq(Half), w # <<>>
  PROVE  Pipe(a, Append(b, Head(w)), Tail(w)) = Pipe(a, b, w)
<1>1. Head(w) \in Half /\ Tail(w) \in Seq(Half)
  BY HeadTailProperties
<1>2. <<Head(w)>> \in Seq(Half) /\ <<Head(w)>> \o Tail(w) = w
  BY HeadFirst
<1>3. Append(b, Head(w)) = b \o <<Head(w)>>
  BY <1>1, AppendIsConcat
<1>4. (b \o <<Head(w)>>) \o Tail(w) = b \o (<<Head(w)>> \o Tail(w))
  BY ZenonT(60), <1>1, <1>2, HalvesAssociate
<1>5. Append(b, Head(w)) \o Tail(w) = b \o w
  BY <1>2, <1>3, <1>4
<1> QED BY <1>5 DEF Pipe

LEMMA PipeBegun ==
  ASSUME NEW b \in Seq(Half), NEW w \in Seq(Half), b # <<>>
  PROVE  Pipe(<<Head(b)>>, Tail(b), w) = Pipe(<<>>, b, w)
<1>1. Head(b) \in Half /\ Tail(b) \in Seq(Half)
  BY HeadTailProperties
<1>2. <<Head(b)>> \in Seq(Half) /\ <<Head(b)>> \o Tail(b) = b
  BY HeadFirst
<1>3. (<<Head(b)>> \o Tail(b)) \o w = <<Head(b)>> \o (Tail(b) \o w)
  BY <1>1, <1>2, HalvesAssociate
<1>4. b \o w \in Seq(Half)
  BY ConcatProperties
<1>5. <<>> \o (b \o w) = b \o w
  BY <1>4, ConcatEmptySeq
<1> QED BY <1>2, <1>3, <1>5 DEF Pipe

(* What is received leaves it.                                             *)
LEMMA PipeReceived ==
  ASSUME NEW a \in Seq(Half), NEW b \in Seq(Half), NEW w \in Seq(Half),
         b # <<>>, Len(a) = 1
  PROVE  /\ Pipe(<<>>, Tail(b), w) \in Seq(Half)
         /\ Len(Pipe(a, b, w)) = Len(Pipe(<<>>, Tail(b), w)) + 2
         /\ \A i \in 1 .. Len(Pipe(<<>>, Tail(b), w)) :
              Pipe(<<>>, Tail(b), w)[i] = Pipe(a, b, w)[i + 2]
         /\ Pipe(a, b, w)[1] = a[1]
<1> DEFINE t == Pipe(<<>>, Tail(b), w)
           h == Pipe(a, b, w)
<1>1. /\ Tail(b) \in Seq(Half) /\ Len(Tail(b)) = Len(b) - 1
      /\ \A i \in 1 .. Len(Tail(b)) : Tail(b)[i] = b[i + 1]
  BY HeadTailProperties
<1>2. <<>> \in Seq(Half) /\ Len(<<>>) = 0
  BY EmptySeq
<1>3. Len(b) \in Nat /\ Len(b) > 0 /\ Len(w) \in Nat
  BY HalfFields
<1>9. IsPipe(t, <<>>, Tail(b), w) /\ IsPipe(h, a, b, w)
  BY <1>1, <1>2, PipeParts
<1> HIDE DEF t, h
<1>4. /\ t \in Seq(Half)
      /\ Len(t) = 0 + Len(Tail(b)) + Len(w)
      /\ \A i \in 1 .. Len(Tail(b)) : t[0 + i] = Tail(b)[i]
      /\ \A i \in 1 .. Len(w) : t[0 + Len(Tail(b)) + i] = w[i]
  BY <1>2, <1>9 DEF IsPipe
<1>5. /\ h \in Seq(Half)
      /\ Len(h) = 1 + Len(b) + Len(w)
      /\ h[1] = a[1]
      /\ \A i \in 1 .. Len(b) : h[1 + i] = b[i]
      /\ \A i \in 1 .. Len(w) : h[1 + Len(b) + i] = w[i]
  BY <1>9 DEF IsPipe
<1>6. Len(t) = Len(b) - 1 + Len(w) /\ Len(h) = Len(t) + 2
  BY <1>1, <1>3, <1>4, <1>5
<1>7. ASSUME NEW i \in 1 .. Len(t) PROVE t[i] = h[i + 2]
  <2>1. CASE i \in 1 .. Len(b) - 1
    <3>1. t[i] = Tail(b)[i] /\ Tail(b)[i] = b[i + 1]
      BY <1>1, <1>4, <2>1
    <3>2. i + 1 \in 1 .. Len(b) /\ 1 + (i + 1) = i + 2
      BY <1>3, <2>1
    <3>3. h[1 + (i + 1)] = b[i + 1]
      BY <1>5, <3>2
    <3> QED BY <3>1, <3>2, <3>3
  <2>2. CASE i \notin 1 .. Len(b) - 1
    <3> DEFINE k == i - (Len(b) - 1)
    <3>1. /\ k \in 1 .. Len(w) /\ 0 + Len(Tail(b)) + k = i
          /\ 1 + Len(b) + k = i + 2
      BY <1>1, <1>3, <1>6, <2>2
    <3> HIDE DEF k
    <3>2. t[i] = w[k]
      BY <1>4, <3>1
    <3>3. h[1 + Len(b) + k] = w[k]
      BY <1>5, <3>1
    <3> QED BY <3>1, <3>2, <3>3
  <2> QED BY <2>1, <2>2
<1>8. h[1] = a[1]
  BY <1>5
<1> QED BY <1>4, <1>6, <1>7, <1>8 DEF t, h
-----------------------------------------------------------------------------
(* How far the plug has come in the parts fed.                             *)

LEMMA PassesBySize ==
  ASSUME NEW p, NEW q, p.size = q.size
  PROVE  Passes(p) <=> Passes(q)
  BY DEF Passes

LEMMA FedFields ==
  ASSUME NEW f \in Seq(Part)
  PROVE  /\ Len(f) \in Nat
         /\ \A i \in 1 .. Len(f) : /\ f[i] \in Part
                                   /\ f[i].of \in Nat /\ f[i].part \in Nat /\ f[i].size \in Nat
<1>1. \A i \in 1 .. Len(f) : f[i] \in Part
  BY ElementOfSeq
<1> QED BY <1>1, PartFields, LenProperties

LEMMA FrontierFed ==
  ASSUME NEW f, NEW h, NEW g, NEW s, NEW p \in Nat,
         \A i \in 1 .. p : h[i] = f[i], Frontier(f, g, s, p)
  PROVE  Frontier(h, g, s, p)
<1>1. ASSUME NEW n \in Nat \ {0}, Gone(g, s, n)
      PROVE  \E i \in 1 .. p : h[i].of = n /\ IsDue(h[i])
  BY <1>1 DEF Frontier
<1>2. \A i \in 1 .. p : IsDue(h[i]) => Gone(g, s, h[i].of)
  BY DEF Frontier
<1>3. p > 0 => ~ (h[p].part \in 1 .. h[p].size - 1 /\ Passes(h[p]))
  BY DEF Frontier
<1> QED BY <1>1, <1>2, <1>3 DEF Frontier

(* A frame begins next, and is one after all those written.                *)
LEMMA FrontierAbove ==
  ASSUME NEW f \in Seq(Part), WellFed(f), NEW g, NEW s, NEW p \in Nat, p < Len(f),
         f[p + 1].part = 1, Frontier(f, g, s, p), NEW n \in Nat \ {0}, Gone(g, s, n)
  PROVE  n < f[p + 1].of
<1>1. p + 1 \in 1 .. Len(f)
  BY FedFields
<1>2. PICK i \in 1 .. p : f[i].of = n /\ IsDue(f[i])
  BY DEF Frontier
<1>3. i \in 1 .. Len(f) /\ i < p + 1 /\ Ends(f[i])
  BY <1>1, <1>2 DEF IsDue
<1>4. f[i].of < f[p + 1].of
  BY <1>1, <1>3 DEF WellFed, Fresh
<1> QED BY <1>2, <1>4

LEMMA FrameHere ==
  ASSUME NEW f \in Seq(Part), WellFed(f), NEW p \in Nat, p < Len(f), f[p + 1].part = 1,
         NEW z \in Nat, z <= f[p + 1].size, p + z <= Len(f), NEW i \in p + 1 .. p + z
  PROVE  /\ i \in 1 .. Len(f)
         /\ f[i].of = f[p + 1].of /\ f[i].part = i - p /\ f[i].size = f[p + 1].size
<1>1. p + 1 \in 1 .. Len(f) /\ i \in 1 .. Len(f) /\ p + 1 <= i
  BY FedFields
<1>2. i - (p + 1) < f[p + 1].size
  BY <1>1, FedFields
<1>3. f[i] = Nth(f[p + 1], i - (p + 1) + 1)
  BY <1>1, <1>2 DEF WellFed, Followed
<1>4. i - (p + 1) + 1 = i - p
  BY <1>1
<1> QED BY <1>1, <1>3, <1>4 DEF Nth

(* The plug goes past a frame it converts, and writes it, ...              *)
LEMMA FrontierFrame ==
  ASSUME NEW f \in Seq(Part), WellFed(f), NEW g, NEW s, NEW t, NEW p \in Nat, p < Len(f),
         f[p + 1].part = 1, p + f[p + 1].size <= Len(f), Passes(f[p + 1]),
         Frontier(f, g, s, p),
         \A n : Gone(g, t, n) <=> Gone(g, s, n) \/ n = f[p + 1].of
  PROVE  Frontier(f, g, t, p + f[p + 1].size)
<1> DEFINE z == f[p + 1].size
           e == f[p + 1].of
<1>1. p + 1 \in 1 .. Len(f)
  BY FedFields
<1>2. z \in Nat /\ z > 0 /\ e \in Nat /\ Len(f) \in Nat
  <2>1. PartOK(f[p + 1])
    BY <1>1 DEF WellFed, Sized
  <2> QED BY <1>1, <2>1, FedFields DEF PartOK
<1>3. ASSUME NEW i \in p + 1 .. p + z
      PROVE  /\ i \in 1 .. Len(f)
             /\ f[i].of = e /\ f[i].part = i - p /\ f[i].size = z
  <2>1. z <= f[p + 1].size /\ p + z <= Len(f) /\ z \in Nat
    BY <1>2
  <2> HIDE DEF z
  <2>2. /\ i \in 1 .. Len(f)
        /\ f[i].of = f[p + 1].of /\ f[i].part = i - p /\ f[i].size = f[p + 1].size
    BY <2>1, FrameHere
  <2> QED BY <2>2 DEF z
<1>4. p + z \in p + 1 .. p + z /\ p + z - p = z
  BY <1>2
<1>5. f[p + z].of = e /\ f[p + z].part = z /\ f[p + z].size = z
  <2> HIDE DEF z, e
  <2>1. PICK v \in p + 1 .. p + z : v = p + z
    BY <1>4
  <2>2. f[v].of = e /\ f[v].part = v - p /\ f[v].size = z
    BY <1>3
  <2>3. v - p = z
    BY <1>2, <2>1
  <2> QED BY <2>1, <2>2, <2>3
<1>6. IsDue(f[p + z])
  <2>1. Passes(f[p + z])
    BY <1>5, PassesBySize
  <2> QED BY <1>2, <1>5, <2>1 DEF IsDue, Ends
<1>7. Passes(f[p + 1]) /\ Frontier(f, g, s, p) /\ (\A n : Gone(g, t, n) <=> Gone(g, s, n) \/ n = e)
  OBVIOUS
<1> HIDE DEF z, e
<1>8. ASSUME NEW n \in Nat \ {0}, Gone(g, t, n)
      PROVE  \E i \in 1 .. p + z : f[i].of = n /\ IsDue(f[i])
  <2>1. CASE Gone(g, s, n)
    <3>1. PICK i \in 1 .. p : f[i].of = n /\ IsDue(f[i])
      BY <1>7, <2>1 DEF Frontier
    <3>2. i \in 1 .. p + z
      BY <1>2
    <3> QED BY <3>1, <3>2
  <2>2. CASE n = e
    <3>1. p + z \in 1 .. p + z
      BY <1>2
    <3> QED BY <1>5, <1>6, <2>2, <3>1
  <2> QED BY <1>7, <1>8, <2>1, <2>2
<1>9. ASSUME NEW i \in 1 .. p + z, IsDue(f[i])
      PROVE  Gone(g, t, f[i].of)
  <2>1. CASE i \in 1 .. p
    BY <1>7, <1>9, <2>1 DEF Frontier
  <2>2. CASE i \in p + 1 .. p + z
    BY <1>3, <1>7, <2>2
  <2> QED BY <1>2, <2>1, <2>2
<1>10. ~ (f[p + z].part \in 1 .. f[p + z].size - 1)
  BY <1>2, <1>5
<1> QED BY <1>8, <1>9, <1>10 DEF Frontier, z

(* ... or past parts none of which makes a frame due.                      *)
LEMMA FrontierSkip ==
  ASSUME NEW f, NEW g, NEW s, NEW p \in Nat, NEW d \in Nat, Frontier(f, g, s, p),
         \A i \in p + 1 .. p + d : ~ IsDue(f[i]),
         ~ (f[p + d].part \in 1 .. f[p + d].size - 1 /\ Passes(f[p + d]))
  PROVE  Frontier(f, g, s, p + d)
<1>1. ASSUME NEW n \in Nat \ {0}, Gone(g, s, n)
      PROVE  \E i \in 1 .. p + d : f[i].of = n /\ IsDue(f[i])
  <2>1. PICK i \in 1 .. p : f[i].of = n /\ IsDue(f[i])
    BY <1>1 DEF Frontier
  <2>2. i \in 1 .. p + d
    OBVIOUS
  <2> QED BY <2>1, <2>2
<1>2. ASSUME NEW i \in 1 .. p + d, IsDue(f[i])
      PROVE  Gone(g, s, f[i].of)
  <2>1. i \in 1 .. p
    BY <1>2
  <2> QED BY <1>2, <2>1 DEF Frontier
<1> QED BY <1>1, <1>2 DEF Frontier

(* A part that no frame begins with is junk.                               *)
LEMMA FrontierJunk ==
  ASSUME NEW f \in Seq(Part), WellFed(f), NEW g, NEW s, NEW p \in Nat, p < Len(f),
         ~ (f[p + 1].part = 1 /\ Passes(f[p + 1])), Frontier(f, g, s, p)
  PROVE  Frontier(f, g, s, p + 1)
<1>1. p + 1 \in 1 .. Len(f) /\ f[p + 1].part \in Nat /\ f[p + 1].size \in Nat
  BY FedFields
<1>2. ~ (f[p + 1].part > 0 /\ f[p + 1].part <= f[p + 1].size /\ Passes(f[p + 1]))
  <2> SUFFICES ASSUME f[p + 1].part > 0, f[p + 1].part <= f[p + 1].size, Passes(f[p + 1])
               PROVE  FALSE
    OBVIOUS
  <2>1. f[p + 1].part > 1
    BY <1>1
  <2>2. p + 1 > 1 /\ f[p + 1 - 1] = Nth(f[p + 1], f[p + 1].part - 1)
    BY <1>1, <2>1 DEF WellFed, Preceded
  <2>3. p + 1 - 1 = p /\ p > 0
    BY <2>2
  <2>4. f[p].part = f[p + 1].part - 1 /\ f[p].size = f[p + 1].size
    BY <2>2, <2>3 DEF Nth
  <2>5. Passes(f[p])
    BY <2>4, PassesBySize
  <2>6. f[p].part \in 1 .. f[p].size - 1
    BY SMTT(30), <1>1, <2>1, <2>4
  <2> QED BY <2>3, <2>5, <2>6 DEF Frontier
<1>3. ~ IsDue(f[p + 1])
  BY <1>1, <1>2 DEF IsDue, Ends
<1>4. \A i \in p + 1 .. p + 1 : ~ IsDue(f[i])
  <2>1. \A i \in p + 1 .. p + 1 : i = p + 1
    OBVIOUS
  <2> QED BY <1>3, <2>1
<1>5. ~ (f[p + 1].part \in 1 .. f[p + 1].size - 1 /\ Passes(f[p + 1]))
  BY <1>1, <1>2
<1> QED BY <1>4, <1>5, FrontierSkip
-----------------------------------------------------------------------------
(* The same, with the messages on their way.                               *)

CutFacts(c, in, b, f) ==
  /\ Len(in) \in Nat /\ Len(f) \in Nat /\ Len(b) \in Nat
  /\ \A i \in 0 .. Len(in) : c[i] \in 0 .. Len(f)
  /\ c[0] \in 0 .. Len(f) /\ c[Len(in)] = Len(f)
  /\ c[0] - Len(b) \in Nat /\ c[0] - Len(b) + Len(b) = c[0]
  /\ \A i \in 1 .. Len(in) : /\ i - 1 \in 0 .. Len(in)
                             /\ in[i] \in Seq(Part) /\ Len(in[i]) \in Nat
                             /\ c[i] = c[i - 1] + Len(in[i])

LEMMA CutFields ==
  ASSUME NEW in \in Seq(Seq(Part)), NEW f \in Seq(Part), NEW b \in Seq(Part),
         NEW c \in [0 .. Len(in) -> 0 .. Len(f)], Cut(c, in, b, f)
  PROVE  CutFacts(c, in, b, f)
<1>1. Len(in) \in Nat /\ Len(f) \in Nat /\ Len(b) \in Nat
  BY LenProperties
<1>2. \A i \in 0 .. Len(in) : c[i] \in 0 .. Len(f)
  OBVIOUS
<1>3. c[0] \in 0 .. Len(f)
  BY <1>1, <1>2
<1>4. c[Len(in)] = Len(f) /\ Len(b) <= c[0]
  BY DEF Cut
<1>5. ASSUME NEW i \in 1 .. Len(in)
      PROVE  /\ i - 1 \in 0 .. Len(in)
             /\ in[i] \in Seq(Part) /\ Len(in[i]) \in Nat
             /\ c[i] = c[i - 1] + Len(in[i])
  <2>1. in[i] \in Seq(Part)
    BY ElementOfSeq
  <2>2. Len(in[i]) \in Nat
    BY <2>1, LenProperties
  <2>3. c[i] = c[i - 1] + Len(in[i])
    BY DEF Cut
  <2> QED BY <1>1, <2>1, <2>2, <2>3
<1> QED BY <1>1, <1>2, <1>3, <1>4, <1>5 DEF CutFacts

(* A message is fed.                                                       *)
LEMMA FlowFed ==
  ASSUME NEW in \in Seq(Seq(Part)), NEW f \in Seq(Part), NEW b \in Seq(Part),
         NEW g, NEW s, NEW m \in Seq(Part), Flow(in, b, f, g, s)
  PROVE  Flow(Append(in, m), b, f \o m, g, s)
<1>1. PICK c \in [0 .. Len(in) -> 0 .. Len(f)] :
        Cut(c, in, b, f) /\ Frontier(f, g, s, c[0] - Len(b))
  BY DEF Flow
<1> DEFINE l == Len(f)
           q == Len(m)
           w == Len(in)
           h == f \o m
           nin == Append(in, m)
           d == [i \in 0 .. w + 1 |-> IF i = w + 1 THEN l + q ELSE c[i]]
<1>20. CutFacts(c, in, b, f)
  <2> HIDE DEF l, q, w, h, nin, d
  <2> QED BY <1>1, CutFields
<1>2. w \in Nat /\ l \in Nat /\ Len(b) \in Nat
  BY <1>20 DEF CutFacts
<1>21. \A i \in 0 .. w : c[i] \in 0 .. l
  BY <1>20 DEF CutFacts
<1>22. c[0] \in 0 .. l /\ c[w] = l /\ c[0] - Len(b) \in Nat /\ c[0] - Len(b) + Len(b) = c[0]
  BY <1>20 DEF CutFacts
<1>23. \A i \in 1 .. w : /\ i - 1 \in 0 .. w
                         /\ in[i] \in Seq(Part) /\ Len(in[i]) \in Nat
                         /\ c[i] = c[i - 1] + Len(in[i])
  BY <1>20 DEF CutFacts
<1>3. q \in Nat
  BY LenProperties
<1>4. /\ h \in Seq(Part) /\ Len(h) = l + q
      /\ \A i \in 1 .. l + q : h[i] = IF i <= l THEN f[i] ELSE m[i - l]
  BY ConcatProperties
<1>5. /\ Len(nin) = w + 1 /\ (\A i \in 1 .. w : nin[i] = in[i]) /\ nin[w + 1] = m
  BY AppendProperties
<1>6. /\ \A i \in 1 .. w : \A k \in 1 .. Len(in[i]) : in[i][k] = f[c[i - 1] + k]
      /\ \A k \in 1 .. Len(b) : b[k] = f[c[0] - Len(b) + k]
  BY <1>1 DEF Cut
<1>7. d \in [0 .. w + 1 -> 0 .. l + q]
  <2> SUFFICES ASSUME NEW i \in 0 .. w + 1
               PROVE  (IF i = w + 1 THEN l + q ELSE c[i]) \in 0 .. l + q
    OBVIOUS
  <2> HIDE DEF l, q, w
  <2>1. CASE i = w + 1
    BY <1>2, <1>3, <2>1
  <2>2. CASE i # w + 1
    <3>1. i \in 0 .. w
      BY <1>2, <2>2
    <3>2. c[i] \in 0 .. l
      BY <1>21, <3>1
    <3> QED BY <1>2, <1>3, <2>2, <3>2
  <2> QED BY <2>1, <2>2
<1>8. d[w + 1] = l + q /\ \A i \in 0 .. w : d[i] = c[i]
  BY <1>2
<1> HIDE DEF l, q, w, h, nin, d
<1>9. \A i \in 1 .. l : h[i] = f[i]
  BY <1>2, <1>3, <1>4
<1>10. ASSUME NEW i \in 1 .. w + 1
       PROVE  d[i] = d[i - 1] + Len(nin[i]) /\ \A k \in 1 .. Len(nin[i]) : nin[i][k] = h[d[i - 1] + k]
  <2>1. CASE i \in 1 .. w
    <3>1. i - 1 \in 0 .. w /\ i \in 0 .. w
      BY <1>2, <2>1
    <3>2. d[i] = c[i] /\ d[i - 1] = c[i - 1] /\ nin[i] = in[i]
      BY <1>5, <1>8, <2>1, <3>1
    <3>3. c[i] = c[i - 1] + Len(in[i]) /\ Len(in[i]) \in Nat /\ c[i] \in 0 .. l /\ c[i - 1] \in 0 .. l
      BY <1>21, <1>23, <2>1, <3>1
    <3>5. \A x, y, z, k \in Nat : x = y + z /\ x <= l /\ k \in 1 .. z => y + k \in 1 .. l
      BY <1>2
    <3>4. ASSUME NEW k \in 1 .. Len(in[i]) PROVE in[i][k] = h[c[i - 1] + k]
      <4>3. c[i] \in Nat /\ c[i - 1] \in Nat /\ k \in Nat /\ c[i] <= l
        BY SMTT(30), <1>2, <3>3
      <4>1. c[i - 1] + k \in 1 .. l
        BY <3>3, <3>5, <4>3
      <4>2. in[i][k] = f[c[i - 1] + k]
        BY <1>6, <2>1
      <4> QED BY <1>9, <4>1, <4>2
    <3> QED BY <3>2, <3>3, <3>4
  <2>2. CASE i = w + 1
    <3>1. i - 1 = w /\ w \in 0 .. w
      BY <1>2, <2>2
    <3>2. d[i] = l + q /\ d[i - 1] = l /\ nin[i] = m
      BY <1>5, <1>8, <1>22, <2>2, <3>1
    <3>3. ASSUME NEW k \in 1 .. q PROVE m[k] = h[l + k]
      <4>1. PICK v \in 1 .. l + q : v = l + k
        BY <1>2, <1>3
      <4>2. ~ (v <= l) /\ v - l = k
        BY <1>2, <1>3, <4>1
      <4>3. h[v] = m[v - l]
        BY <1>4, <4>2
      <4> QED BY <4>1, <4>2, <4>3
    <3> QED BY <3>2, <3>3 DEF q
  <2>3. i \in 1 .. w \/ i = w + 1
    BY <1>2
  <2> QED BY <2>1, <2>2, <2>3
<1>11. 0 \in 0 .. w /\ d[0] = c[0]
  BY <1>2, <1>8
<1>12. ASSUME NEW k \in 1 .. Len(b) PROVE b[k] = h[d[0] - Len(b) + k]
  <2>3. \A x, y, j \in Nat : x - y \in Nat /\ x <= l /\ j \in 1 .. y => x - y + j \in 1 .. l
    BY <1>2
  <2>1. c[0] - Len(b) + k \in 1 .. l
    BY SMTT(30), <1>2, <1>22, <2>3
  <2>2. b[k] = f[c[0] - Len(b) + k]
    BY <1>6
  <2> QED BY <1>9, <1>11, <2>1, <2>2
<1>13. Cut(d, nin, b, h)
  <2>1. d[Len(nin)] = Len(h) /\ Len(b) <= d[0]
    BY SMTT(30), <1>2, <1>4, <1>5, <1>8, <1>11, <1>22
  <2>2. \A i \in 1 .. Len(nin) :
          /\ d[i] = d[i - 1] + Len(nin[i])
          /\ \A k \in 1 .. Len(nin[i]) : nin[i][k] = h[d[i - 1] + k]
    BY <1>5, <1>10
  <2> QED BY <1>12, <2>1, <2>2 DEF Cut
<1>14. Frontier(h, g, s, d[0] - Len(b))
  <2>1. \A i \in 1 .. c[0] - Len(b) : h[i] = f[i]
    BY <1>2, <1>9, <1>22
  <2>2. Frontier(h, g, s, c[0] - Len(b))
    BY <1>1, <1>22, <2>1, FrontierFed
  <2> QED BY <1>11, <2>2
<1>15. d \in [0 .. Len(nin) -> 0 .. Len(h)]
  BY <1>4, <1>5, <1>7
<1>16. Flow(nin, b, h, g, s)
  BY <1>13, <1>14, <1>15 DEF Flow
<1> QED BY <1>16 DEF nin, h

(* Something is received.                                                  *)
LEMMA FlowMoved ==
  ASSUME NEW in, NEW f, NEW b, NEW g, NEW s, NEW k, NEW t,
         \A n : Gone(g, s, n) => Gone(k, t, n),
         \A n \in Nat \ {0} : Gone(k, t, n) => Gone(g, s, n), Flow(in, b, f, g, s)
  PROVE  Flow(in, b, f, k, t)
<1>1. ASSUME NEW p, Frontier(f, g, s, p) PROVE Frontier(f, k, t, p)
  BY <1>1 DEF Frontier
<1> QED BY <1>1 DEF Flow

(* A message is read into buf.                                             *)
LEMMA FlowRead ==
  ASSUME NEW in \in Seq(Seq(Part)), NEW f \in Seq(Part), NEW b \in Seq(Part),
         NEW g, NEW s, in # <<>>, Flow(in, b, f, g, s)
  PROVE  Flow(Tail(in), b \o Head(in), f, g, s)
<1>1. PICK c \in [0 .. Len(in) -> 0 .. Len(f)] :
        Cut(c, in, b, f) /\ Frontier(f, g, s, c[0] - Len(b))
  BY DEF Flow
<1> DEFINE l == Len(f)
           w == Len(in)
           m == Head(in)
           q == Len(m)
           h == b \o m
           nin == Tail(in)
           d == [i \in 0 .. w - 1 |-> c[i + 1]]
<1>20. CutFacts(c, in, b, f)
  <2> HIDE DEF l, w, m, q, h, nin, d
  <2> QED BY <1>1, CutFields
<1>2. w \in Nat /\ l \in Nat /\ Len(b) \in Nat
  BY <1>20 DEF CutFacts
<1>21. \A i \in 0 .. w : c[i] \in 0 .. l
  BY <1>20 DEF CutFacts
<1>22. c[0] \in 0 .. l /\ c[w] = l /\ c[0] - Len(b) \in Nat /\ c[0] - Len(b) + Len(b) = c[0]
  BY <1>20 DEF CutFacts
<1>23. \A i \in 1 .. w : /\ i - 1 \in 0 .. w
                         /\ in[i] \in Seq(Part) /\ Len(in[i]) \in Nat
                         /\ c[i] = c[i - 1] + Len(in[i])
  BY <1>20 DEF CutFacts
<1>3. w > 0 /\ m = in[1]
  BY <1>2, EmptySeq
<1>4. m \in Seq(Part) /\ q \in Nat
  <2>1. 1 \in 1 .. w
    BY <1>2, <1>3
  <2> QED BY <1>3, <1>23, <2>1
<1>5. Len(nin) = w - 1 /\ \A i \in 1 .. w - 1 : nin[i] = in[i + 1]
  BY HeadTailProperties
<1>6. /\ h \in Seq(Part) /\ Len(h) = Len(b) + q
      /\ \A i \in 1 .. Len(b) + q : h[i] = IF i <= Len(b) THEN b[i] ELSE m[i - Len(b)]
  BY <1>4, ConcatProperties
<1>7. /\ \A i \in 1 .. w : \A k \in 1 .. Len(in[i]) : in[i][k] = f[c[i - 1] + k]
      /\ \A k \in 1 .. Len(b) : b[k] = f[c[0] - Len(b) + k]
  BY <1>1 DEF Cut
<1>8. d \in [0 .. w - 1 -> 0 .. l]
  <2> SUFFICES ASSUME NEW i \in 0 .. w - 1
               PROVE  c[i + 1] \in 0 .. l
    OBVIOUS
  <2>1. i + 1 \in 0 .. w
    BY <1>2
  <2> QED BY <1>21, <2>1
<1>9. \A i \in 0 .. w - 1 : d[i] = c[i + 1]
  OBVIOUS
<1>10. c[1] = c[0] + q
  <2>1. 1 \in 1 .. w /\ 1 - 1 = 0
    BY <1>2, <1>3
  <2> QED BY <1>3, <1>23, <2>1
<1>17. \A k \in 1 .. q : m[k] = f[c[0] + k]
  <2>1. 1 \in 1 .. w /\ 1 - 1 = 0
    BY <1>2, <1>3
  <2> QED BY <1>3, <1>7, <2>1
<1> HIDE DEF l, q, w, h, nin, d, m
<1>11. 0 \in 0 .. w - 1 /\ d[0] = c[0] + q
  <2>1. 0 \in 0 .. w - 1 /\ 0 + 1 = 1
    BY <1>2, <1>3
  <2> QED BY <1>9, <1>10, <2>1
<1>12. ASSUME NEW i \in 1 .. w - 1
       PROVE  d[i] = d[i - 1] + Len(nin[i]) /\ \A k \in 1 .. Len(nin[i]) : nin[i][k] = f[d[i - 1] + k]
  <2>1. i + 1 \in 1 .. w /\ i \in 0 .. w - 1 /\ i - 1 \in 0 .. w - 1 /\ i - 1 + 1 = i /\ i + 1 - 1 = i
    BY <1>2
  <2>2. d[i] = c[i + 1] /\ d[i - 1] = c[i] /\ nin[i] = in[i + 1]
    BY <1>5, <1>9, <2>1
  <2>3. c[i + 1] = c[i] + Len(in[i + 1])
    BY SMTT(30), <1>23, <2>1
  <2>4. \A k \in 1 .. Len(in[i + 1]) : in[i + 1][k] = f[c[i] + k]
    <3>1. PICK e \in 1 .. w : e = i + 1
      BY <2>1
    <3>2. e - 1 = i
      BY <2>1, <3>1
    <3>3. \A k \in 1 .. Len(in[e]) : in[e][k] = f[c[e - 1] + k]
      BY <1>7
    <3>4. \A k \in 1 .. Len(in[e]) : in[e][k] = f[c[i] + k]
      BY <3>2, <3>3
    <3> QED BY <3>1, <3>4
  <2> QED BY <2>2, <2>3, <2>4
<1>13. d[0] - Len(h) = c[0] - Len(b)
  BY <1>2, <1>4, <1>6, <1>11, <1>22
<1>14. ASSUME NEW k \in 1 .. Len(h) PROVE h[k] = f[d[0] - Len(h) + k]
  <2>1. CASE k \in 1 .. Len(b)
    <3>1. h[k] = b[k]
      BY SMTT(30), <1>2, <1>4, <1>6, <2>1
    <3> QED BY <1>7, <1>13, <2>1, <3>1
  <2>2. CASE k \notin 1 .. Len(b)
    <3>1. k - Len(b) \in 1 .. q /\ ~ (k <= Len(b)) /\ k \in 1 .. Len(b) + q
      BY <1>2, <1>4, <1>6, <2>2
    <3>2. h[k] = m[k - Len(b)]
      BY <1>6, <3>1
    <3>3. h[k] = f[c[0] + (k - Len(b))]
      BY <1>17, <3>1, <3>2
    <3>4. c[0] + (k - Len(b)) = c[0] - Len(b) + k
      BY <1>2, <1>22, <3>1
    <3> QED BY <1>13, <3>3, <3>4
  <2> QED BY <2>1, <2>2
<1>15. Cut(d, nin, h, f)
  <2>1. w - 1 \in 0 .. w - 1 /\ w - 1 + 1 = w
    BY <1>2, <1>3
  <2>2. d[Len(nin)] = Len(f)
    BY <1>5, <1>9, <1>22, <2>1 DEF l
  <2>3. Len(h) <= d[0]
    BY SMTT(30), <1>2, <1>4, <1>6, <1>11, <1>22
  <2>4. \A i \in 1 .. Len(nin) :
          /\ d[i] = d[i - 1] + Len(nin[i])
          /\ \A k \in 1 .. Len(nin[i]) : nin[i][k] = f[d[i - 1] + k]
    BY <1>5, <1>12
  <2> QED BY <1>14, <2>2, <2>3, <2>4 DEF Cut
<1>16. d \in [0 .. Len(nin) -> 0 .. Len(f)]
  BY <1>5, <1>8 DEF l
<1>18. Flow(nin, h, f, g, s)
  BY <1>1, <1>13, <1>15, <1>16 DEF Flow
<1> QED BY <1>18 DEF nin, h, m
-----------------------------------------------------------------------------
(* What the plug does with buf, at part p.                                 *)

At(p, in, b, f, g, s) ==
  /\ p + Len(b) <= Len(f)
  /\ \A k \in 1 .. Len(b) : b[k] = f[p + k]
  /\ Frontier(f, g, s, p)
  /\ in = <<>> => p + Len(b) = Len(f)
  /\ \A d \in 0 .. Len(b) : \A t :
       Frontier(f, g, t, p + d) => Flow(in, SubSeq(b, d + 1, Len(b)), f, g, t)

LEMMA FlowAt ==
  ASSUME NEW in \in Seq(Seq(Part)), NEW f \in Seq(Part), NEW b \in Seq(Part),
         NEW g, NEW s, Flow(in, b, f, g, s)
  PROVE  \E p \in Nat : At(p, in, b, f, g, s)
<1>1. PICK c \in [0 .. Len(in) -> 0 .. Len(f)] :
        Cut(c, in, b, f) /\ Frontier(f, g, s, c[0] - Len(b))
  BY DEF Flow
<1>2. CutFacts(c, in, b, f)
  BY <1>1, CutFields
<1> DEFINE p == c[0] - Len(b)
<1>3. /\ Len(f) \in Nat /\ Len(b) \in Nat /\ c[0] \in 0 .. Len(f)
      /\ c[Len(in)] = Len(f) /\ p \in Nat /\ p + Len(b) = c[0]
  BY <1>2 DEF CutFacts
<1>4. \A k \in 1 .. Len(b) : b[k] = f[p + k]
  BY <1>1 DEF Cut
<1>5. in = <<>> => p + Len(b) = Len(f)
  <2>1. in = <<>> => Len(in) = 0
    BY EmptySeq
  <2> QED BY <1>3, <2>1
<1>6. ASSUME NEW d \in 0 .. Len(b), NEW t, Frontier(f, g, t, p + d)
      PROVE  Flow(in, SubSeq(b, d + 1, Len(b)), f, g, t)
  <2> DEFINE e == SubSeq(b, d + 1, Len(b))
             z == Len(b)
  <2>2. /\ e \in Seq(Part)
        /\ Len(e) = z - d
        /\ \A i \in 1 .. z - d : e[i] = b[d + i]
    BY Dropped
  <2>3. z \in Nat /\ p \in Nat /\ p + z = c[0]
    BY <1>3
  <2> HIDE DEF e, z, p
  <2>4. Len(e) = z - d /\ Len(e) <= c[0] /\ c[0] - Len(e) = p + d
    BY <2>2, <2>3 DEF z
  <2>5. ASSUME NEW k \in 1 .. Len(e) PROVE e[k] = f[c[0] - Len(e) + k]
    <3>2. e[k] = b[d + k]
      BY <2>2, <2>4
    <3>3. PICK v \in 1 .. z : v = d + k
      BY <2>3, <2>4
    <3>4. p + v = p + d + k
      BY <2>3, <3>3
    <3>5. b[v] = f[p + v]
      BY <1>4 DEF z
    <3> QED BY <2>4, <3>2, <3>3, <3>4, <3>5
  <2>6. Cut(c, in, e, f)
    BY <1>1, <2>4, <2>5 DEF Cut
  <2>7. Frontier(f, g, t, c[0] - Len(e))
    BY <1>6, <2>4 DEF p
  <2>8. Flow(in, e, f, g, t)
    BY <2>6, <2>7 DEF Flow
  <2> QED BY <2>8 DEF e
<1>7. Frontier(f, g, s, p) /\ p \in Nat /\ p + Len(b) <= Len(f)
  BY <1>1, <1>3
<1> HIDE DEF p
<1>8. At(p, in, b, f, g, s)
  BY <1>4, <1>5, <1>6, <1>7 DEF At
<1> QED BY <1>7, <1>8

LEMMA AtFirst ==
  ASSUME NEW f \in Seq(Part), NEW b \in Seq(Part), b # <<>>, NEW in, NEW g, NEW s,
         NEW p \in Nat, At(p, in, b, f, g, s)
  PROVE  /\ Len(b) \in Nat \ {0} /\ Len(f) \in Nat /\ p < Len(f)
         /\ f[p + 1] = b[1] /\ b[1] \in Part
         /\ b[1].of \in Nat /\ b[1].part \in Nat /\ b[1].size \in Nat
<1>1. Len(b) \in Nat \ {0} /\ Len(f) \in Nat
  BY EmptySeq, LenProperties
<1>2. 1 \in 1 .. Len(b)
  BY <1>1
<1>3. f[p + 1] = b[1] /\ p + Len(b) <= Len(f)
  BY <1>2 DEF At
<1>4. b[1] \in Part
  BY <1>2, ElementOfSeq
<1> QED BY <1>1, <1>3, <1>4, PartFields

LEMMA FlowFrame ==
  ASSUME NEW in \in Seq(Seq(Part)), NEW f \in Seq(Part), WellFed(f), NEW b \in Seq(Part),
         NEW g, NEW s, NEW t, Flow(in, b, f, g, s), b # <<>>,
         b[1].part = 1, b[1].size <= Len(b), Passes(b[1]),
         \A n : Gone(g, t, n) <=> Gone(g, s, n) \/ n = b[1].of
  PROVE  Flow(in, SubSeq(b, b[1].size + 1, Len(b)), f, g, t)
<1>1. PICK p \in Nat : At(p, in, b, f, g, s)
  BY FlowAt
<1>2. /\ Len(b) \in Nat \ {0} /\ Len(f) \in Nat /\ p < Len(f)
      /\ f[p + 1] = b[1] /\ b[1].size \in Nat
  BY <1>1, AtFirst
<1>3. p + b[1].size <= Len(f) /\ Frontier(f, g, s, p)
  BY SMTT(30), <1>1, <1>2 DEF At
<1>4. Frontier(f, g, t, p + b[1].size)
  <2>1. /\ f[p + 1].part = 1 /\ p + f[p + 1].size <= Len(f) /\ Passes(f[p + 1])
        /\ \A n : Gone(g, t, n) <=> Gone(g, s, n) \/ n = f[p + 1].of
    BY <1>2, <1>3
  <2>2. Frontier(f, g, t, p + f[p + 1].size)
    BY <1>2, <1>3, <2>1, FrontierFrame
  <2> QED BY <1>2, <2>2
<1>5. b[1].size \in 0 .. Len(b)
  BY <1>2
<1> QED BY <1>1, <1>4, <1>5 DEF At

LEMMA FlowJunk ==
  ASSUME NEW in \in Seq(Seq(Part)), NEW f \in Seq(Part), WellFed(f), NEW b \in Seq(Part),
         NEW g, NEW s, Flow(in, b, f, g, s), b # <<>>, ~ (b[1].part = 1 /\ Passes(b[1]))
  PROVE  Flow(in, SubSeq(b, 1 + 1, Len(b)), f, g, s)
<1>1. PICK p \in Nat : At(p, in, b, f, g, s)
  BY FlowAt
<1>2. Len(b) \in Nat \ {0} /\ p < Len(f) /\ f[p + 1] = b[1]
  BY <1>1, AtFirst
<1>3. Frontier(f, g, s, p)
  BY <1>1 DEF At
<1>4. Frontier(f, g, s, p + 1)
  BY <1>2, <1>3, FrontierJunk
<1>5. 1 \in 0 .. Len(b)
  BY <1>2
<1> QED BY <1>1, <1>4, <1>5 DEF At

LEMMA FlowRefused ==
  ASSUME NEW in \in Seq(Seq(Part)), NEW f \in Seq(Part), WellFed(f), NEW b \in Seq(Part),
         NEW g, NEW s, Flow(in, b, f, g, s), b # <<>>,
         b[1].part = 1, b[1].size = Len(b), ~ Passes(b[1])
  PROVE  Flow(in, <<>>, f, g, s)
<1>1. PICK p \in Nat : At(p, in, b, f, g, s)
  BY FlowAt
<1> DEFINE z == Len(b)
<1>2. /\ z \in Nat \ {0} /\ Len(f) \in Nat /\ p < Len(f) /\ f[p + 1] = b[1]
      /\ f[p + 1].part = 1 /\ f[p + 1].size = z
  BY <1>1, AtFirst
<1>3. Frontier(f, g, s, p) /\ p + z <= Len(f)
  BY <1>1 DEF At
<1> HIDE DEF z
<1>4. ASSUME NEW i \in p + 1 .. p + z PROVE ~ Passes(f[i])
  <2>1. z <= f[p + 1].size /\ z \in Nat
    BY <1>2
  <2>2. f[i].size = f[p + 1].size
    BY SMTT(30), <1>2, <1>3, <2>1, FrameHere
  <2> QED BY <1>2, <2>2, PassesBySize
<1>5. p + z \in p + 1 .. p + z
  BY SMTT(30), <1>2
<1>6. Frontier(f, g, s, p + z)
  <2>1. \A i \in p + 1 .. p + z : ~ IsDue(f[i])
    BY <1>4 DEF IsDue
  <2>2. ~ Passes(f[p + z])
    BY <1>4, <1>5
  <2> QED BY <1>2, <1>3, <2>1, <2>2, FrontierSkip
<1>7. Flow(in, SubSeq(b, z + 1, Len(b)), f, g, s)
  <2>1. z \in 0 .. Len(b)
    BY <1>2 DEF z
  <2> QED BY <1>1, <1>6, <2>1 DEF At
<1>8. SubSeq(b, z + 1, Len(b)) = <<>>
  <2>1. z + 1 \in Int /\ Len(b) \in Int /\ Len(b) < z + 1
    BY <1>2 DEF z
  <2> QED BY <2>1, SubSeqEmpty
<1> QED BY <1>7, <1>8

LEMMA FlowAbove ==
  ASSUME NEW in \in Seq(Seq(Part)), NEW f \in Seq(Part), WellFed(f), NEW b \in Seq(Part),
         NEW g, NEW s, Flow(in, b, f, g, s), b # <<>>, b[1].part = 1
  PROVE  /\ b[1].of \in Nat \ {0}
         /\ \A n \in Nat \ {0} : Gone(g, s, n) => n < b[1].of
<1>1. PICK p \in Nat : At(p, in, b, f, g, s)
  BY FlowAt
<1>2. /\ Len(b) \in Nat \ {0} /\ Len(f) \in Nat /\ p < Len(f) /\ f[p + 1] = b[1]
      /\ b[1].of \in Nat /\ b[1].part \in Nat /\ b[1].size \in Nat
  BY <1>1, AtFirst
<1>3. Frontier(f, g, s, p)
  BY <1>1 DEF At
<1>4. \A n \in Nat \ {0} : Gone(g, s, n) => n < b[1].of
  BY <1>2, <1>3, FrontierAbove
<1>5. b[1].of > 0
  <2>1. p + 1 \in 1 .. Len(f)
    BY <1>2
  <2>2. PartOK(f[p + 1])
    BY <2>1 DEF WellFed, Sized
  <2> QED BY <1>2, <2>2 DEF PartOK
<1> QED BY <1>2, <1>4, <1>5

(* All that has been fed has been dealt with, but for the beginning of a   *)
(* frame.                                                                  *)
LEMMA FlowAll ==
  ASSUME NEW f \in Seq(Part), WellFed(f), NEW b \in Seq(Part),
         NEW g, NEW s, Flow(<<>>, b, f, g, s),
         b # <<>> => b[1].part = 1 /\ Len(b) < b[1].size,
         NEW i \in 1 .. Len(f), IsDue(f[i])
  PROVE  Gone(g, s, f[i].of)
<1>1. <<>> \in Seq(Seq(Part))
  BY EmptySeq
<1>2. PICK p \in Nat : At(p, <<>>, b, f, g, s)
  BY <1>1, FlowAt
<1>3. p + Len(b) = Len(f) /\ Frontier(f, g, s, p)
  BY <1>2 DEF At
<1>4. Len(b) \in Nat /\ Len(f) \in Nat
  BY LenProperties
<1>5. CASE i \in 1 .. p
  BY <1>3, <1>5 DEF Frontier
<1>6. CASE i \notin 1 .. p
  <2>1. b # <<>>
    <3>1. b = <<>> => Len(b) = 0
      BY EmptySeq
    <3> QED BY <1>3, <1>4, <1>6, <3>1
  <2>2. /\ p < Len(f) /\ f[p + 1] = b[1] /\ b[1].size \in Nat
    BY SMTT(30), <1>2, <2>1, AtFirst
  <2> DEFINE z == Len(b)
  <2>3. /\ z \in Nat /\ z <= f[p + 1].size /\ p + z <= Len(f) /\ f[p + 1].part = 1
        /\ i \in p + 1 .. p + z
    BY SMTT(30), <1>3, <1>4, <1>6, <2>1, <2>2
  <2>4. z < f[p + 1].size
    BY <2>1, <2>2
  <2> HIDE DEF z
  <2>5. f[i].part = i - p /\ f[i].size = f[p + 1].size
    BY SMTT(30), <2>2, <2>3, FrameHere
  <2>6. f[i].part < f[i].size
    BY SMTT(30), <2>2, <2>3, <2>4, <2>5
  <2> QED BY <2>2, <2>5, <2>6, <2>3 DEF IsDue, Ends
<1> QED BY <1>5, <1>6
-----------------------------------------------------------------------------
(* What a filter and its client do, by what it does to the streams.        *)

streamVars == <<config, input, output, reader, buf, sending, wbuf, ws, main, inbox, fed, got>>

(* EncodeNext and FromTcTfNext: the frame is written, or main fails.       *)
Convey ==
  /\ NextData /\ program # "decode" /\ reader' = "busy"
  /\ Passes(Head(input)[1])
  /\ StartSend(Head(input)[1].of)
  /\ UNCHANGED <<config, output, buf, ws, main, inbox, fed, got>>

Refuse ==
  /\ NextData /\ program # "decode" /\ reader' = "busy"
  /\ ~ Passes(Head(input)[1])
  /\ Return("failure")
  /\ UNCHANGED <<config, output, buf, ws, inbox, fed, got>>

FilterStep ==
  \/ UNCHANGED streamVars
  \/ (WriteHalf \/ RecvClose \/ InputEnds \/ DecodeNext \/ DecodeFrame \/ DecodeJunk \/ NextMessage)
       /\ UNCHANGED clientVars
  \/ Convey \/ Refuse
  \/ Send \/ ReadHalf \/ CloseSink

LEMMA FilterSteps ==
  ASSUME TypeOK, Filter, [Next]_vars
  PROVE  FilterStep
<1> USE DEF config
<1>0. program \in {"encode", "decode", "from_tc_tf"}
  BY DEF Filter, Filters
<1>1. CASE EncodeNext /\ UNCHANGED clientVars
  <2>1. program = "encode" /\ Convert(Head(input)[1].size <= MaxBody)
    BY <1>1 DEF EncodeNext, Length
  <2>2. Passes(Head(input)[1]) <=> Head(input)[1].size <= MaxBody
    BY <2>1 DEF Passes
  <2>3. Convey \/ Refuse
    BY <1>1, <2>1, <2>2 DEF Convert, Convey, Refuse, clientVars
  <2> QED BY <2>3 DEF FilterStep
<1>2. CASE FromTcTfNext /\ UNCHANGED clientVars
  <2>1. program = "from_tc_tf" /\ Convert(Head(input)[1].size >= MinTcTf)
    BY <1>2 DEF FromTcTfNext, LongEnough, Length
  <2>2. Passes(Head(input)[1]) <=> Head(input)[1].size >= MinTcTf
    BY <2>1 DEF Passes
  <2>3. Convey \/ Refuse
    BY <1>2, <2>1, <2>2 DEF Convert, Convey, Refuse, clientVars
  <2> QED BY <2>3 DEF FilterStep
<1>3. CASE /\ WriteHalf \/ RecvClose \/ InputEnds \/ DecodeNext \/ DecodeFrame \/ DecodeJunk \/ NextMessage
           /\ UNCHANGED clientVars
  BY <1>3 DEF FilterStep
<1>4. CASE Exit /\ UNCHANGED clientVars
  BY <1>4 DEF Exit, clientVars, streamVars, FilterStep
<1>5. CASE TakeMessage \/ MessageTaken \/ OwnFrame \/ OwnEnd
  BY <1>0, <1>5 DEF TakeMessage, MessageTaken, OwnFrame, OwnEnd, Filter, Filters
<1>6. CASE Send \/ ReadHalf \/ CloseSink
  BY <1>6 DEF FilterStep
<1>7. CASE Recv
  BY <1>7 DEF Recv, plugVars, innards, streamVars, FilterStep
<1>8. CASE RecvFails
  BY <1>8 DEF RecvFails, plugVars, innards, streamVars, FilterStep
<1>9. CASE RecvTimesOut
  BY <1>9 DEF RecvTimesOut, plugVars, innards, streamVars, FilterStep
<1>10. CASE Shutdown
  BY <1>10 DEF Shutdown, plugVars, innards, streamVars, FilterStep
<1>11. CASE GraceExpires
  BY <1>11 DEF GraceExpires, plugVars, innards, streamVars, FilterStep
<1>12. CASE DropPlug
  BY <1>12 DEF DropPlug, plugVars, innards, streamVars, FilterStep
<1>13. CASE CloseFails
  BY <1>13 DEF CloseFails, plugVars, innards, streamVars, FilterStep
<1>14. CASE Reap
  BY <1>14 DEF Reap, plugVars, innards, streamVars, FilterStep
<1>15. CASE ReapKilled
  BY <1>15 DEF ReapKilled, plugVars, innards, streamVars, FilterStep
<1>16. CASE Killed
  BY <1>16 DEF Killed, innards, clientVars, streamVars, FilterStep
<1>17. CASE UNCHANGED vars
  BY <1>17 DEF vars, plugVars, innards, clientVars, streamVars, FilterStep
<1>18. CASE PlugNext /\ UNCHANGED clientVars
  BY <1>1, <1>2, <1>3, <1>4, <1>5, <1>18 DEF PlugNext, PlugRuns
<1>19. CASE ShutdownStep \/ Test
  BY <1>6, <1>7, <1>8, <1>9, <1>10, <1>11, <1>12, <1>13, <1>14, <1>15, <1>16, <1>19
  DEF ShutdownStep, Test
<1> QED BY <1>17, <1>18, <1>19 DEF Next

LEMMA ProgramStays ==
  ASSUME [Next]_vars
  PROVE  UNCHANGED config
<1> USE DEF config
<1>1. CASE WriteHalf \/ RecvClose \/ InputEnds \/ Exit
  BY <1>1 DEF WriteHalf, RecvClose, InputEnds, Exit
<1>2. CASE EncodeNext \/ FromTcTfNext
  BY <1>2 DEF EncodeNext, FromTcTfNext, Convert
<1>3. CASE DecodeNext \/ DecodeFrame \/ DecodeJunk \/ NextMessage
  BY <1>3 DEF DecodeNext, DecodeFrame, DecodeJunk, NextMessage
<1>4. CASE TakeMessage \/ MessageTaken \/ OwnFrame \/ OwnEnd
  BY <1>4 DEF TakeMessage, MessageTaken, OwnFrame, OwnEnd
<1>5. CASE Test
  BY <1>5 DEF Test, Send, Recv, ReadHalf, RecvFails, RecvTimesOut, Shutdown, GraceExpires, DropPlug,
              plugVars, innards
<1>6. CASE ShutdownStep
  BY <1>6 DEF ShutdownStep, CloseSink, CloseFails, Reap, ReapKilled, Killed, plugVars, innards
<1>7. CASE UNCHANGED vars
  BY <1>7 DEF vars, plugVars, innards
<1> QED BY <1>1, <1>2, <1>3, <1>4, <1>5, <1>6, <1>7 DEF Next, PlugNext, PlugRuns
-----------------------------------------------------------------------------
(* Where everyone stands.                                                  *)

(* What a step of the plug may do to stdin, the WebSocket and the process. *)
PlugMoves ==
  /\ \/ input' = input /\ (ws' = ws \/ ws = "replying")
     \/ input # <<>> /\ Head(input) # Close /\ input' = Tail(input) /\ ws' = ws
     \/ input # <<>> /\ Head(input) = Close /\ input' = Tail(input) /\ ws = "active" /\ ws' = "replying"
  /\ \/ status' = status /\ (main' = main \/ status = "up")
     \/ status = "up" /\ status' = main /\ main # "running" /\ main' = main

LEMMA PlugSteps ==
  ASSUME TypeOK, PlugNext
  PROVE  PlugMoves
<1>1. CASE WriteHalf
  BY <1>1 DEF WriteHalf, PlugMoves
<1>2. CASE RecvClose
  BY <1>2 DEF RecvClose, NextItem, PollRead, PlugMoves
<1>3. CASE InputEnds
  BY <1>3 DEF InputEnds, Running, PlugMoves
<1>4. CASE Exit
  BY <1>4 DEF Exit, PlugMoves
<1>5. ASSUME NEW ok, Convert(ok) PROVE PlugMoves
  <2>1. /\ input # <<>> /\ Head(input) # Close /\ input' = Tail(input)
        /\ ws' = ws /\ status' = status /\ status = "up"
    BY <1>5 DEF Convert, NextData, NextItem, PollRead, Running
  <2> QED BY <2>1 DEF PlugMoves
<1>6. CASE EncodeNext \/ FromTcTfNext
  BY <1>5, <1>6 DEF EncodeNext, FromTcTfNext
<1>7. CASE DecodeNext
  BY <1>7 DEF DecodeNext, NextData, NextItem, PollRead, PlugMoves
<1>8. CASE DecodeFrame
  BY <1>8 DEF DecodeFrame, PlugMoves
<1>9. CASE DecodeJunk
  BY <1>9 DEF DecodeJunk, PlugMoves
<1>10. CASE NextMessage
  BY <1>10 DEF NextMessage, PlugMoves
<1>11. CASE TakeMessage
  BY <1>11 DEF TakeMessage, NextData, NextItem, PollRead, PlugMoves
<1>12. CASE MessageTaken
  BY <1>12 DEF MessageTaken, PlugMoves
<1>13. CASE OwnFrame
  BY <1>13 DEF OwnFrame, Running, PlugMoves
<1>14. CASE OwnEnd
  BY <1>14 DEF OwnEnd, Running, PlugMoves
<1> QED
  BY <1>1, <1>2, <1>3, <1>4, <1>6, <1>7, <1>8, <1>9, <1>10, <1>11, <1>12, <1>13, <1>14
  DEF PlugNext, PlugRuns

LEMMA PlugControl ==
  ASSUME TypeOK, Control, PlugMoves, UNCHANGED clientVars
  PROVE  Control'
<1>1. UNCHANGED <<client, receiving, outcome>>
  BY DEF clientVars
<1>2. /\ ws' # "active" => input' = <<>>
      /\ \A i \in 1 .. Len(input') : input'[i] = Close => i = Len(input')
      /\ client \in {"open", "closing"} =>
           ws' = "active" /\ \A i \in 1 .. Len(input') : input'[i] # Close
  <2>1. CASE input' = input /\ (ws' = ws \/ ws = "replying")
    BY <2>1 DEF Control
  <2>2. CASE input # <<>> /\ input' = Tail(input)
    <3>1. /\ Len(input) \in Nat \ {0} /\ Len(input') = Len(input) - 1 /\ Head(input) = input[1]
          /\ \A i \in 1 .. Len(input') : input'[i] = input[i + 1]
          /\ input' \in Seq(Seq(Part))
      BY <2>2, HeadTailProperties, EmptySeq DEF TypeOK, PlugTypeOK
    <3>2. \A i \in 1 .. Len(input') : i + 1 \in 1 .. Len(input)
      BY <3>1
    <3>3. \A i \in 1 .. Len(input') : input'[i] = Close => i + 1 = Len(input)
      BY <3>1, <3>2 DEF Control
    <3>4. \A i \in 1 .. Len(input') : input'[i] = Close => i = Len(input')
      BY <3>1, <3>3
    <3>5. client \in {"open", "closing"} => \A i \in 1 .. Len(input') : input'[i] # Close
      BY <3>1, <3>2 DEF Control
    <3>6. 1 \in 1 .. Len(input)
      BY <3>1
    <3>7. ws = "active"
      BY <2>2 DEF Control
    <3>8. CASE ws' = ws
      BY <3>4, <3>5, <3>7, <3>8
    <3>9. CASE Head(input) = Close
      <4>1. Len(input) = 1 /\ client \notin {"open", "closing"}
        BY <3>1, <3>6, <3>9 DEF Control
      <4>2. input' = <<>>
        BY <3>1, <4>1, EmptySeq
      <4> QED BY <3>4, <4>1, <4>2
    <3> QED BY <2>2, <3>7, <3>8, <3>9 DEF PlugMoves
  <2> QED BY <2>1, <2>2 DEF PlugMoves
<1>3. /\ status' \in {"success", "failure"} => main' = status'
      /\ client = "returned" => status' # "up"
      /\ outcome = "ok" => status' = "success"
  <2>1. CASE status' = status /\ (main' = main \/ status = "up")
    BY <2>1 DEF Control
  <2>2. CASE status = "up" /\ status' = main /\ main # "running" /\ main' = main
    BY <2>2 DEF Control, TypeOK, PlugTypeOK
  <2> QED BY <2>1, <2>2 DEF PlugMoves
<1>4. receiving => client = "open"
  BY DEF Control
<1> QED BY <1>1, <1>2, <1>3, <1>4 DEF Control

LEMMA TestControl ==
  ASSUME TypeOK, Control, ShutdownStep \/ Test
  PROVE  Control'
<1> USE DEF plugVars, innards
<1>1. CASE Send
  <2>1. PICK m \in IF program = "decode" THEN Chunks ELSE WholeFrames : StdinTakes(m)
    BY <1>1 DEF Send
  <2>2. m \in Seq(Part) /\ m # Close
    BY MessageNotClose DEF TypeOK
  <2>3. input' = Append(input, m) /\ Len(input') = Len(input) + 1 /\ input \in Seq(Seq(Part))
    BY <2>1, <2>2, InputFed DEF TypeOK, PlugTypeOK
  <2>4. (\A i \in 1 .. Len(input) : input'[i] = input[i]) /\ input'[Len(input) + 1] = m /\ Len(input) \in Nat
    BY <2>2, <2>3, AppendProperties, QueueTypes
  <2>5. client = "open" /\ UNCHANGED <<client, receiving, outcome, ws, main, status>>
    BY <1>1 DEF Send
  <2>6. ws = "active" /\ \A i \in 1 .. Len(input) : input[i] # Close
    BY <2>5 DEF Control
  <2>7. \A i \in 1 .. Len(input') : input'[i] # Close
    <3>1. \A i \in 1 .. Len(input') : i \in 1 .. Len(input) \/ i = Len(input) + 1
      BY <2>3, <2>4
    <3> QED BY <2>2, <2>4, <2>6, <3>1
  <2> QED BY <2>5, <2>6, <2>7 DEF Control
<1>2. CASE CloseSink
  <2>1. Close \in Seq(Part) /\ StdinTakes(Close)
    BY <1>2, EmptySeq DEF CloseSink, Close
  <2>2. input' = Append(input, Close) /\ Len(input') = Len(input) + 1 /\ input \in Seq(Seq(Part))
    BY <2>1, InputFed DEF TypeOK, PlugTypeOK
  <2>3. (\A i \in 1 .. Len(input) : input'[i] = input[i]) /\ Len(input) \in Nat
    BY <2>1, <2>2, AppendProperties, QueueTypes
  <2>4. client = "closing" /\ client' = "waiting" /\ UNCHANGED <<receiving, outcome, ws, main, status>>
    BY <1>2 DEF CloseSink
  <2>5. ws = "active" /\ \A i \in 1 .. Len(input) : input[i] # Close
    BY <2>4 DEF Control
  <2>6. \A i \in 1 .. Len(input') : input'[i] = Close => i = Len(input')
    BY <2>2, <2>3, <2>5
  <2> QED BY <2>4, <2>5, <2>6 DEF Control
<1>3. CASE Recv
  BY <1>3 DEF Recv, Control
<1>4. CASE ReadHalf
  BY <1>4 DEF ReadHalf, Control
<1>5. CASE RecvFails
  BY <1>5 DEF RecvFails, Control
<1>6. CASE RecvTimesOut
  BY <1>6 DEF RecvTimesOut, Control
<1>7. CASE Shutdown
  BY <1>7 DEF Shutdown, Control
<1>8. CASE CloseFails
  BY <1>8 DEF CloseFails, Control
<1>9. CASE Reap
  BY <1>9 DEF Reap, Verdict, Control
<1>10. CASE GraceExpires
  BY <1>10 DEF GraceExpires, Control
<1>11. CASE ReapKilled
  BY <1>11 DEF ReapKilled, Control
<1>12. CASE DropPlug
  BY <1>12 DEF DropPlug, Control
<1>13. CASE Killed
  <2>1. client \in {"killing", "dropped"} /\ status = "up" /\ status' = "killed"
          /\ UNCHANGED <<input, ws, main, client, receiving, outcome>>
    BY <1>13 DEF Killed, clientVars
  <2> QED BY <2>1 DEF Control
<1> QED
  BY <1>1, <1>2, <1>3, <1>4, <1>5, <1>6, <1>7, <1>8, <1>9, <1>10, <1>11, <1>12, <1>13
  DEF ShutdownStep, Test

LEMMA ControlStep ==
  ASSUME TypeOK, Control, [Next]_vars
  PROVE  Control'
<1>1. CASE PlugNext /\ UNCHANGED clientVars
  BY <1>1, PlugSteps, PlugControl
<1>2. CASE ShutdownStep \/ Test
  BY <1>2, TestControl
<1>3. CASE UNCHANGED vars
  BY <1>3 DEF vars, plugVars, innards, clientVars, Control
<1> QED BY <1>1, <1>2, <1>3 DEF Next
-----------------------------------------------------------------------------
(* What a filter sends, holds and is sent.                                 *)

LEMMA WhileReading ==
  ASSUME Turns, main = "running", reader = "polling", ws = "active"
  PROVE  ~ sending /\ wbuf = <<>>
  BY DEF Turns

LEMMA TurnsStep ==
  ASSUME TypeOK, Control, Filter, Turns, FilterStep
  PROVE  Turns'
<1>0. /\ ws \in {"active", "replying", "closed"} /\ reader \in {"polling", "busy", "done"}
      /\ main \in {"running", "success", "failure"} /\ sending \in BOOLEAN
  BY DEF TypeOK, PlugTypeOK
<1>1. CASE UNCHANGED streamVars
  BY <1>1 DEF streamVars, Turns
<1>2. CASE WriteHalf
  <2>1. wbuf # <<>> /\ wbuf' = Tail(wbuf) /\ sending' = (sending /\ Len(wbuf) > 1)
          /\ ws' = (IF ws = "replying" /\ Len(wbuf) = 1 THEN "closed" ELSE ws)
          /\ UNCHANGED <<reader, main>>
    BY <1>2 DEF WriteHalf, PollWrite
  <2>2. wbuf \in Seq(Half)
    BY DEF TypeOK, PlugTypeOK
  <2>3. /\ Len(wbuf) \in Nat \ {0} /\ wbuf' \in Seq(Half) /\ Len(wbuf') = Len(wbuf) - 1
        /\ \A i \in 1 .. Len(wbuf') : wbuf'[i] = wbuf[i + 1]
    BY <2>1, <2>2, HeadTailProperties, EmptySeq
  <2>4. Len(wbuf) = 1 => wbuf' = <<>>
    BY <2>3, EmptySeq
  <2>5. ws # "closed" /\ main # "success"
    BY <2>1 DEF Turns
  <2>6. ws' = "replying" => ws = "replying" /\ \A i \in 1 .. Len(wbuf') : wbuf'[i].of = 0
    <3>1. \A i \in 1 .. Len(wbuf') : i + 1 \in 1 .. Len(wbuf)
      BY <2>3
    <3>2. ws' = "replying" => ws = "replying"
      BY <2>1
    <3> QED BY <2>3, <3>1, <3>2 DEF Turns
  <2>7. ws' = "closed" => wbuf' = <<>>
    BY <2>1, <2>4, <2>5
  <2>8. ws' # "active" => ws # "active"
    BY <2>1
  <2>9. main' = "running" /\ ws' = "active" /\ ~ sending' => wbuf' = <<>>
    <3> SUFFICES ASSUME main' = "running", ws' = "active", ~ sending' PROVE wbuf' = <<>>
      OBVIOUS
    <3>1. ws = "active" /\ main = "running"
      BY <2>1
    <3>2. sending
      BY <2>1, <3>1 DEF Turns
    <3>4. ~ (Len(wbuf) > 1)
      BY <2>1, <3>2, Zenon
    <3>3. Len(wbuf) = 1
      BY <2>3, <3>4
    <3> QED BY <2>4, <3>3
  <2>10. main' = "running" /\ reader' # "busy" => ~ sending'
    BY <2>1 DEF Turns
  <2> QED BY <2>1, <2>5, <2>6, <2>7, <2>8, <2>9, <2>10 DEF Turns
<1>3. CASE RecvClose
  <2>1. main = "running" /\ reader = "polling" /\ ws = "active" /\ ws' = "replying"
          /\ wbuf' = wbuf \o Reply /\ UNCHANGED <<reader, sending, main>>
    BY <1>3 DEF RecvClose, NextItem, Running
  <2>2. wbuf = <<>> /\ ~ sending
    BY <2>1, WhileReading
  <2>3. wbuf' = Reply
    BY <2>1, <2>2, ReplyType, ConcatEmptySeq
  <2>4. \A i \in 1 .. Len(wbuf') : wbuf'[i].of = 0
    BY <2>3 DEF Reply
  <2> QED BY <2>1, <2>2, <2>4 DEF Turns
<1>4. CASE InputEnds
  <2>1. ws = "closed" /\ ws' = ws /\ main' = "success" /\ reader' = "done"
          /\ wbuf' = (IF StdoutWriter = "Pipe" THEN <<>> ELSE wbuf) /\ sending' = FALSE
    BY <1>4 DEF InputEnds, Return, Filter, Filters
  <2>2. wbuf' = <<>>
    BY <2>1 DEF Turns
  <2> QED BY <2>1, <2>2 DEF Turns
<1>5. CASE DecodeNext
  <2>1. reader' = "busy" /\ ws = "active" /\ main = "running" /\ reader = "polling"
          /\ UNCHANGED <<sending, wbuf, ws, main>>
    BY <1>5 DEF DecodeNext, NextData, NextItem, Running
  <2> QED BY <2>1 DEF Turns
<1>6. CASE DecodeFrame
  <2>1. reader = "busy" /\ main = "running" /\ sending' = TRUE /\ UNCHANGED <<reader, ws, main>>
    BY <1>6 DEF DecodeFrame, StartSend, Running
  <2> QED BY <1>0, <2>1 DEF Turns
<1>7. CASE DecodeJunk
  BY <1>7 DEF DecodeJunk, Turns
<1>8. CASE NextMessage
  BY <1>8 DEF NextMessage, Turns
<1>9. CASE Convey
  <2>1. reader' = "busy" /\ ws = "active" /\ main = "running" /\ sending' = TRUE /\ UNCHANGED <<ws, main>>
    BY <1>9 DEF Convey, NextData, NextItem, Running, StartSend
  <2> QED BY <2>1 DEF Turns
<1>10. CASE Refuse
  <2>1. reader' = "busy" /\ ws = "active" /\ ws' = ws /\ main' = "failure"
    BY <1>10 DEF Refuse, NextData, NextItem, Running, Return
  <2> QED BY <2>1 DEF Turns
<1>11. CASE Send
  BY <1>11 DEF Send, innards, Turns
<1>12. CASE ReadHalf
  BY <1>12 DEF ReadHalf, innards, Turns
<1>13. CASE CloseSink
  BY <1>13 DEF CloseSink, innards, Turns
<1> QED
  BY <1>1, <1>2, <1>3, <1>4, <1>5, <1>6, <1>7, <1>8, <1>9, <1>10, <1>11, <1>12, <1>13
  DEF FilterStep

LEMMA HeldStep ==
  ASSUME TypeOK, Control, Filter, Turns, Held, FilterStep
  PROVE  Held'
<1> USE DEF Held, FrameComplete, FrameBegins, JunkBegins, config
<1>1. CASE UNCHANGED streamVars
  BY <1>1 DEF streamVars
<1>2. CASE WriteHalf
  BY <1>2 DEF WriteHalf
<1>3. CASE RecvClose
  BY <1>3 DEF RecvClose
<1>4. CASE InputEnds
  BY <1>4 DEF InputEnds
<1>5. CASE DecodeNext
  BY <1>5 DEF DecodeNext
<1>6. CASE DecodeFrame
  BY <1>6 DEF DecodeFrame
<1>7. CASE DecodeJunk
  BY <1>7 DEF DecodeJunk
<1>8. CASE NextMessage
  BY <1>8 DEF NextMessage, NothingMore
<1>9. CASE Convey
  BY <1>9 DEF Convey
<1>10. CASE Refuse
  BY <1>10 DEF Refuse
<1>11. CASE Send
  BY <1>11 DEF Send, innards
<1>12. CASE ReadHalf
  BY <1>12 DEF ReadHalf, innards
<1>13. CASE CloseSink
  BY <1>13 DEF CloseSink, innards
<1> QED
  BY <1>1, <1>2, <1>3, <1>4, <1>5, <1>6, <1>7, <1>8, <1>9, <1>10, <1>11, <1>12, <1>13
  DEF FilterStep

LEMMA FramedStep ==
  ASSUME TypeOK, Control, Filter, Framed, WellFed(fed), FilterStep
  PROVE  Framed' /\ WellFed(fed')
<1>1. CASE fed' = fed /\ input' = input /\ program' = program
  BY <1>1 DEF Framed, MidFrame
<1>2. CASE fed' = fed /\ input # <<>> /\ input' = Tail(input) /\ program' = program
  <2>1. /\ Len(input) \in Nat /\ Len(input') = Len(input) - 1
        /\ \A i \in 1 .. Len(input') : input'[i] = input[i + 1]
    BY <1>2, HeadTailProperties, QueueTypes DEF TypeOK, PlugTypeOK
  <2>2. \A i \in 1 .. Len(input') : i + 1 \in 1 .. Len(input)
    BY <2>1
  <2>3. program # "decode" =>
          \A i \in 1 .. Len(input') :
            input'[i] # Close => input'[i][1].part = 1 /\ input'[i][1].size = Len(input'[i])
    BY <2>1, <2>2 DEF Framed
  <2>4. program # "decode" => ~ MidFrame(fed')
    BY <1>2 DEF Framed
  <2> QED BY <1>2, <2>3, <2>4 DEF Framed
<1>3. ASSUME NEW m \in Seq(Part), input' = Append(input, m), program' = program,
             program # "decode" =>
               ~ MidFrame(fed') /\ (m # Close => m[1].part = 1 /\ m[1].size = Len(m))
      PROVE  Framed'
  <2>1. input \in Seq(Seq(Part)) /\ Len(input) \in Nat
    BY QueueTypes DEF TypeOK, PlugTypeOK
  <2>2. /\ Len(input') = Len(input) + 1
        /\ \A i \in 1 .. Len(input) : input'[i] = input[i]
        /\ input'[Len(input) + 1] = m
    BY <1>3, <2>1, AppendProperties
  <2>3. \A i \in 1 .. Len(input') : i \in 1 .. Len(input) \/ i = Len(input) + 1
    <3>1. \A n \in Nat : \A i \in 1 .. n + 1 : i \in 1 .. n \/ i = n + 1
      OBVIOUS
    <3> QED BY <2>1, <2>2, <3>1
  <2>4. program # "decode" =>
          \A i \in 1 .. Len(input') :
            input'[i] # Close => input'[i][1].part = 1 /\ input'[i][1].size = Len(input'[i])
    BY <1>3, <2>2, <2>3 DEF Framed
  <2> QED BY <1>3, <2>4 DEF Framed
<1>4. CASE Send
  <2>1. PICK m \in IF program = "decode" THEN Chunks ELSE WholeFrames :
          StdinTakes(m) /\ fed' = fed \o m
    BY <1>4 DEF Send
  <2>2. fed \in Seq(Part) /\ (program # "decode" => ~ MidFrame(fed))
    BY DEF TypeOK, Framed
  <2>3. /\ m \in Seq(Part)
        /\ WellFed(fed \o m)
        /\ program # "decode" => ~ MidFrame(fed \o m) /\ m[1].part = 1 /\ m[1].size = Len(m)
    BY <2>2, MessageFed
  <2>4. input' = Append(input, m) /\ program' = program
    BY <1>4, <2>1 DEF StdinTakes, Send, innards, config
  <2> QED BY <1>3, <2>1, <2>3, <2>4
<1>5. CASE CloseSink
  <2>1. input' = Append(input, Close) /\ program' = program /\ fed' = fed
    BY <1>5 DEF CloseSink, StdinTakes, innards, config
  <2>2. Close \in Seq(Part)
    BY EmptySeq DEF Close
  <2>3. program # "decode" => ~ MidFrame(fed')
    BY <2>1 DEF Framed
  <2> QED BY <1>3, <2>1, <2>2, <2>3
<1>6. CASE UNCHANGED streamVars \/ ReadHalf
  BY <1>1, <1>6 DEF streamVars, ReadHalf, innards, config
<1>7. CASE (WriteHalf \/ InputEnds \/ DecodeFrame \/ DecodeJunk \/ NextMessage) /\ UNCHANGED clientVars
  BY <1>1, <1>7 DEF WriteHalf, InputEnds, DecodeFrame, DecodeJunk, NextMessage, clientVars, config
<1>8. CASE (RecvClose \/ DecodeNext) /\ UNCHANGED clientVars
  BY <1>2, <1>8 DEF RecvClose, DecodeNext, NextData, NextItem, PollRead, clientVars, config
<1>9. CASE Convey \/ Refuse
  BY <1>2, <1>9 DEF Convey, Refuse, NextData, NextItem, PollRead, config
<1> QED BY <1>4, <1>5, <1>6, <1>7, <1>8, <1>9 DEF FilterStep
-----------------------------------------------------------------------------
(* Frames go in and come out in order.                                     *)

LEMMA StreamTypes ==
  ASSUME TypeOK
  PROVE  /\ Stream \in Seq(Half) /\ IsPipe(Stream, inbox, output, wbuf)
         /\ inbox \in Seq(Half) /\ output \in Seq(Half) /\ wbuf \in Seq(Half)
         /\ input \in Seq(Seq(Part)) /\ buf \in Seq(Part) /\ fed \in Seq(Part) /\ got \in Seq(Nat)
<1>1. /\ inbox \in Seq(Half) /\ output \in Seq(Half) /\ wbuf \in Seq(Half)
      /\ input \in Seq(Seq(Part)) /\ buf \in Seq(Part) /\ fed \in Seq(Part) /\ got \in Seq(Nat)
  BY DEF TypeOK, PlugTypeOK
<1>2. IsPipe(Stream, inbox, output, wbuf)
  BY <1>1, PipeParts DEF Stream
<1>3. Stream \in Seq(Half)
  BY <1>2 DEF IsPipe
<1> QED BY <1>1, <1>2, <1>3

LEMMA StreamMore ==
  ASSUME TypeOK, NEW x \in Seq(Half)
  PROVE  Pipe(inbox, output, wbuf \o x) = Stream \o x
<1>1. inbox \in Seq(Half) /\ output \in Seq(Half) /\ wbuf \in Seq(Half)
  BY StreamTypes
<1>2. \A a, b, c \in Seq(Half) : (a \o b) \o c = a \o (b \o c)
  BY HalvesAssociate
<1>3. (output \o wbuf) \o x = output \o (wbuf \o x)
  BY ZenonT(60), <1>1, <1>2
<1>4. output \o wbuf \in Seq(Half)
  BY <1>1, ConcatProperties
<1>5. ASSUME NEW d \in Seq(Half)
      PROVE  (inbox \o d) \o x = inbox \o (d \o x)
  <2>1. PICK a \in Seq(Half) : a = inbox
    BY <1>1
  <2>2. (a \o d) \o x = a \o (d \o x)
    BY ZenonT(60), <1>2
  <2> QED BY <2>1, <2>2
<1> QED BY <1>3, <1>4, <1>5 DEF Stream, Pipe

(* Where the plug will be in the parts fed.                                 *)
Flows == Flow(input', buf', fed', got', Stream')

(* Number n is put behind what has been written.                           *)
LEMMA Appended ==
  ASSUME TypeOK, InOrder, NEW n \in Nat,
         n # 0 => ws = "active" /\ \A m \in Nat \ {0} : Gone(got, Stream, m) => m < n,
         wbuf' = wbuf \o Message(n), UNCHANGED <<inbox, output, got>>,
         ws' = "active" => ws = "active" /\ n # 0
  PROVE  /\ InOrder'
         /\ \A m : Gone(got', Stream', m) <=> Gone(got, Stream, m) \/ m = n
<1>1. Stream' = Stream \o Message(n)
  <2>1. PICK x \in Seq(Half) : x = Message(n)
    BY MessageParts
  <2>2. Pipe(inbox, output, wbuf \o x) = Stream \o x
    BY StreamMore
  <2> QED BY <2>1, <2>2 DEF Stream
<1>2. Ordered(got, Stream) /\ (ws = "active" => Clear(Stream)) /\ \A i \in 1 .. Len(inbox) : inbox[i].half = 1
  BY DEF InOrder
<1>3. Stream \in Seq(Half) /\ got \in Seq(Nat)
  BY StreamTypes
<1>4. ASSUME n # 0
      PROVE  /\ Clear(Stream)
             /\ \A i \in 1 .. Len(Stream) : Stream[i].of < n
             /\ \A k \in 1 .. Len(got) : got[k] < n
  <2>1. Clear(Stream)
    BY <1>2, <1>4
  <2>2. ASSUME NEW i \in 1 .. Len(Stream) PROVE Stream[i].of < n
    <3>1. Stream[i].of \in Nat \ {0}
      BY <1>3, <2>1, HalfFields DEF Clear
    <3>2. Gone(got, Stream, Stream[i].of)
      BY DEF Gone
    <3> QED BY <1>4, <3>1, <3>2
  <2>3. ASSUME NEW k \in 1 .. Len(got) PROVE got[k] < n
    <3>1. got[k] \in Nat \ {0}
      BY <1>2, <1>3, ElementOfSeq DEF Ordered, Sorted
    <3>2. Gone(got, Stream, got[k])
      BY DEF Gone
    <3> QED BY <1>4, <3>1, <3>2
  <2> QED BY <2>1, <2>2, <2>3
<1>5. /\ Ordered(got, Stream \o Message(n))
      /\ n # 0 => Clear(Stream \o Message(n))
      /\ \A m : Gone(got, Stream \o Message(n), m) <=> Gone(got, Stream, m) \/ m = n
  BY <1>2, <1>3, <1>4, Written
<1> QED BY <1>1, <1>2, <1>5 DEF InOrder

LEMMA WriteHalfFlows ==
  ASSUME TypeOK, Filter, FilterInv, WriteHalf, UNCHANGED clientVars
  PROVE  InOrder' /\ Flows
<1>1. /\ wbuf # <<>> /\ output' = Append(output, Head(wbuf)) /\ wbuf' = Tail(wbuf)
      /\ UNCHANGED <<input, buf, fed, got, inbox>>
      /\ ws' = "active" => ws = "active"
  BY DEF WriteHalf, PollWrite, clientVars
<1>2. Stream' = Stream
  BY SMTT(30), <1>1, StreamTypes, PipeWritten DEF Stream
<1>3. InOrder'
  BY <1>1, <1>2 DEF FilterInv, InOrder
<1>4. Flows
  BY <1>1, <1>2 DEF Flows, FilterInv
<1> QED BY <1>3, <1>4

LEMMA RecvCloseFlows ==
  ASSUME TypeOK, Filter, FilterInv, RecvClose, UNCHANGED clientVars
  PROVE  InOrder' /\ Flows
<1>1. /\ input # <<>> /\ Head(input) = Close /\ input' = Tail(input)
      /\ wbuf' = wbuf \o Reply /\ ws' = "replying"
      /\ UNCHANGED <<buf, output, fed, got, inbox>>
  BY DEF RecvClose, NextItem, PollRead, clientVars
<1>2. Reply = Message(0)
  BY DEF Reply, Message
<1>3. InOrder' /\ \A m : Gone(got', Stream', m) <=> Gone(got, Stream, m) \/ m = 0
  BY <1>1, <1>2, Appended DEF FilterInv
<1>4. Flow(input', buf \o Close, fed, got, Stream)
  BY <1>1, StreamTypes, FlowRead DEF FilterInv
<1>5. buf \o Close = buf
  BY StreamTypes, ConcatEmptySeq DEF Close
<1>6. /\ \A m : Gone(got, Stream, m) => Gone(got', Stream', m)
      /\ \A m \in Nat \ {0} : Gone(got', Stream', m) => Gone(got, Stream, m)
  BY <1>3
<1>7. Flow(input', buf, fed, got', Stream')
  BY <1>4, <1>5, <1>6, FlowMoved
<1> QED BY <1>1, <1>3, <1>7 DEF Flows

LEMMA InputEndsFlows ==
  ASSUME TypeOK, Filter, FilterInv, InputEnds, UNCHANGED clientVars
  PROVE  InOrder' /\ Flows
<1>1. /\ ws = "closed" /\ wbuf' = (IF StdoutWriter = "Pipe" THEN <<>> ELSE wbuf)
      /\ UNCHANGED <<input, output, buf, ws, fed, got, inbox>>
  BY DEF InputEnds, Return, clientVars, Filter, Filters
<1>2. wbuf' = wbuf
  BY <1>1 DEF FilterInv, Turns
<1>3. Stream' = Stream
  BY <1>1, <1>2 DEF Stream
<1>4. InOrder'
  BY <1>1, <1>3 DEF FilterInv, InOrder
<1> QED BY <1>1, <1>3, <1>4 DEF Flows, FilterInv

(* The message that is read by a filter that is no decoder.                *)
LEMMA WholeMessage ==
  ASSUME TypeOK, Filter, FilterInv, NextData, program # "decode"
  PROVE  /\ Head(input) \in Seq(Part) /\ Head(input) # <<>>
         /\ Head(input)[1].part = 1 /\ Head(input)[1].size = Len(Head(input))
         /\ Flow(Tail(input), Head(input), fed, got, Stream)
         /\ Tail(input) \in Seq(Seq(Part)) /\ input' = Tail(input)
         /\ buf = <<>> /\ wbuf = <<>> /\ ws = "active"
<1>1. /\ input # <<>> /\ input' = Tail(input) /\ Head(input) # Close
      /\ main = "running" /\ reader = "polling" /\ ws = "active"
  BY DEF NextData, NextItem, PollRead, Running
<1>2. Head(input) \in Seq(Part) /\ Tail(input) \in Seq(Seq(Part)) /\ Len(input) \in Nat \ {0}
  BY <1>1, QueueTypes, EmptySeq, StreamTypes
<1>3. Head(input) = input[1] /\ 1 \in 1 .. Len(input)
  BY <1>2
<1>4. Head(input)[1].part = 1 /\ Head(input)[1].size = Len(Head(input))
  BY <1>1, <1>3 DEF FilterInv, Framed
<1>5. buf = <<>> /\ wbuf = <<>>
  BY <1>1, WhileReading DEF FilterInv, Held
<1>6. Flow(Tail(input), buf \o Head(input), fed, got, Stream)
  BY <1>1, StreamTypes, FlowRead DEF FilterInv
<1>7. buf \o Head(input) = Head(input)
  BY <1>2, <1>5, ConcatEmptySeq
<1> QED BY <1>1, <1>2, <1>4, <1>5, <1>6, <1>7 DEF Close

LEMMA ConveyFlows ==
  ASSUME TypeOK, Filter, FilterInv, Convey
  PROVE  InOrder' /\ Flows
<1> DEFINE b == Head(input)
           n == b[1].of
<1>1. /\ NextData /\ program # "decode" /\ Passes(b[1])
      /\ wbuf' = wbuf \o Message(n)
      /\ UNCHANGED <<buf, output, ws, fed, got, inbox>>
  BY DEF Convey, StartSend, Message
<1>2. /\ b \in Seq(Part) /\ b # <<>> /\ b[1].part = 1 /\ b[1].size = Len(b)
      /\ Flow(Tail(input), b, fed, got, Stream)
      /\ Tail(input) \in Seq(Seq(Part)) /\ input' = Tail(input)
      /\ buf = <<>> /\ ws = "active"
  BY <1>1, WholeMessage
<1>3. fed \in Seq(Part) /\ WellFed(fed)
  BY StreamTypes DEF FilterInv
<1> HIDE DEF b
<1>4. n \in Nat \ {0} /\ \A m \in Nat \ {0} : Gone(got, Stream, m) => m < n
  BY <1>2, <1>3, FlowAbove
<1>5. InOrder' /\ \A m : Gone(got', Stream', m) <=> Gone(got, Stream, m) \/ m = n
  <2> HIDE DEF n
  <2> QED BY <1>1, <1>2, <1>4, Appended DEF FilterInv
<1>6. Len(b) \in Nat
  BY <1>2, LenProperties
<1>7. Flow(Tail(input), SubSeq(b, b[1].size + 1, Len(b)), fed, got', Stream')
  <2>1. b[1].size <= Len(b) /\ \A m : Gone(got, Stream', m) <=> Gone(got, Stream, m) \/ m = b[1].of
    BY <1>1, <1>2, <1>5, <1>6
  <2>2. Flow(Tail(input), SubSeq(b, b[1].size + 1, Len(b)), fed, got, Stream')
    BY <1>1, <1>2, <1>3, <2>1, FlowFrame
  <2> QED BY <1>1, <2>2
<1>8. SubSeq(b, b[1].size + 1, Len(b)) = <<>>
  <2>1. Len(b) + 1 \in Int /\ Len(b) \in Int /\ Len(b) < Len(b) + 1
    BY <1>6
  <2>2. SubSeq(b, Len(b) + 1, Len(b)) = <<>>
    BY <2>1, SubSeqEmpty
  <2> QED BY <1>2, <2>2
<1> QED BY <1>1, <1>2, <1>5, <1>7, <1>8 DEF Flows

LEMMA RefuseFlows ==
  ASSUME TypeOK, Filter, FilterInv, Refuse
  PROVE  InOrder' /\ Flows
<1> DEFINE b == Head(input)
<1>1. /\ NextData /\ program # "decode" /\ ~ Passes(b[1])
      /\ wbuf' = (IF StdoutWriter = "Pipe" THEN <<>> ELSE wbuf)
      /\ UNCHANGED <<buf, output, ws, fed, got, inbox>>
  BY DEF Refuse, Return
<1>2. /\ b \in Seq(Part) /\ b # <<>> /\ b[1].part = 1 /\ b[1].size = Len(b)
      /\ Flow(Tail(input), b, fed, got, Stream)
      /\ Tail(input) \in Seq(Seq(Part)) /\ input' = Tail(input)
      /\ buf = <<>> /\ wbuf = <<>>
  BY <1>1, WholeMessage
<1> HIDE DEF b
<1>3. wbuf' = wbuf
  BY <1>1, <1>2
<1>4. Stream' = Stream
  BY <1>1, <1>3 DEF Stream
<1>5. InOrder'
  BY <1>1, <1>4 DEF FilterInv, InOrder
<1>6. Flow(Tail(input), <<>>, fed, got, Stream)
  BY <1>1, <1>2, StreamTypes, FlowRefused DEF FilterInv
<1> QED BY <1>1, <1>2, <1>4, <1>5, <1>6 DEF Flows

LEMMA DecodeNextFlows ==
  ASSUME TypeOK, Filter, FilterInv, DecodeNext, UNCHANGED clientVars
  PROVE  InOrder' /\ Flows
<1>1. /\ input # <<>> /\ input' = Tail(input) /\ buf' = buf \o Head(input)
      /\ UNCHANGED <<output, wbuf, ws, fed, got, inbox>>
  BY DEF DecodeNext, NextData, NextItem, PollRead, clientVars
<1>2. Stream' = Stream
  BY <1>1 DEF Stream
<1>3. InOrder'
  BY <1>1, <1>2 DEF FilterInv, InOrder
<1>4. Flow(Tail(input), buf \o Head(input), fed, got, Stream)
  BY <1>1, StreamTypes, FlowRead DEF FilterInv
<1> QED BY <1>1, <1>2, <1>3, <1>4 DEF Flows

LEMMA DecodeFrameFlows ==
  ASSUME TypeOK, Filter, FilterInv, DecodeFrame, UNCHANGED clientVars
  PROVE  InOrder' /\ Flows
<1> DEFINE n == buf[1].of
<1>1. /\ program = "decode" /\ buf # <<>> /\ buf[1].part = 1
      /\ buf[1].size \in 1 .. bufferSize /\ Len(buf) >= buf[1].size
      /\ wbuf' = wbuf \o Message(n)
      /\ buf' = SubSeq(buf, buf[1].size + 1, Len(buf))
      /\ reader = "busy"
      /\ UNCHANGED <<input, output, ws, fed, got, inbox>>
  BY DEF DecodeFrame, FrameComplete, FrameBegins, StartSend, Message, Drop, clientVars
<1>2. /\ input \in Seq(Seq(Part)) /\ buf \in Seq(Part) /\ fed \in Seq(Part) /\ WellFed(fed)
      /\ Flow(input, buf, fed, got, Stream)
  BY StreamTypes DEF FilterInv
<1>3. Passes(buf[1])
  BY <1>1 DEF Passes
<1>4. ws = "active"
  BY <1>1 DEF FilterInv, Turns
<1>5. n \in Nat \ {0} /\ \A m \in Nat \ {0} : Gone(got, Stream, m) => m < n
  BY <1>1, <1>2, FlowAbove
<1>6. InOrder' /\ \A m : Gone(got', Stream', m) <=> Gone(got, Stream, m) \/ m = n
  <2> HIDE DEF n
  <2> QED BY <1>1, <1>4, <1>5, Appended DEF FilterInv
<1>7. \A m : Gone(got, Stream', m) <=> Gone(got, Stream, m) \/ m = buf[1].of
  BY <1>1, <1>6
<1>8. buf[1].size <= Len(buf)
  BY <1>1, <1>2, AtFirst, LenProperties
<1>9. Flow(input, SubSeq(buf, buf[1].size + 1, Len(buf)), fed, got, Stream')
  BY <1>1, <1>2, <1>3, <1>7, <1>8, FlowFrame
<1> QED BY <1>1, <1>6, <1>9 DEF Flows

LEMMA DecodeJunkFlows ==
  ASSUME TypeOK, Filter, FilterInv, DecodeJunk, UNCHANGED clientVars
  PROVE  InOrder' /\ Flows
<1>1. /\ program = "decode" /\ buf # <<>>
      /\ ~ (buf[1].part = 1 /\ buf[1].size \in 1 .. bufferSize)
      /\ buf' = SubSeq(buf, 1 + 1, Len(buf))
      /\ UNCHANGED <<input, output, wbuf, ws, fed, got, inbox>>
  BY DEF DecodeJunk, JunkBegins, FrameBegins, Drop, clientVars
<1>2. Passes(buf[1]) <=> buf[1].size \in 1 .. bufferSize
  BY <1>1 DEF Passes
<1>3. Stream' = Stream
  BY <1>1 DEF Stream
<1>4. InOrder'
  BY <1>1, <1>3 DEF FilterInv, InOrder
<1>5. Flow(input, SubSeq(buf, 1 + 1, Len(buf)), fed, got, Stream)
  BY <1>1, <1>2, StreamTypes, FlowJunk DEF FilterInv
<1> QED BY <1>1, <1>3, <1>4, <1>5 DEF Flows

LEMMA SendFlows ==
  ASSUME TypeOK, Filter, FilterInv, Send \/ CloseSink
  PROVE  InOrder' /\ Flows
<1>1. UNCHANGED <<output, wbuf, ws, got, inbox, buf>>
  BY DEF Send, CloseSink, innards
<1>2. Stream' = Stream
  BY <1>1 DEF Stream
<1>3. InOrder'
  BY <1>1, <1>2 DEF FilterInv, InOrder
<1>4. PICK m \in Seq(Part) : input' = Append(input, m) /\ fed' = fed \o m
  <2>1. CASE Send
    <3>1. PICK m \in IF program = "decode" THEN Chunks ELSE WholeFrames :
            StdinTakes(m) /\ fed' = fed \o m
      BY <2>1 DEF Send
    <3> QED BY <3>1, MessageNotClose, StreamTypes DEF StdinTakes
  <2>2. CASE CloseSink
    <3>1. input' = Append(input, Close) /\ fed' = fed
      BY <2>2 DEF CloseSink, StdinTakes
    <3>2. Close \in Seq(Part) /\ fed \o Close = fed
      BY StreamTypes, EmptySeq, ConcatEmptySeq DEF Close
    <3> QED BY <3>1, <3>2
  <2> QED BY <2>1, <2>2
<1>5. Flow(Append(input, m), buf, fed \o m, got, Stream)
  BY StreamTypes, FlowFed DEF FilterInv
<1> QED BY <1>1, <1>2, <1>3, <1>4, <1>5 DEF Flows

LEMMA ReadHalfFlows ==
  ASSUME TypeOK, Control, Filter, FilterInv, ReadHalf
  PROVE  InOrder' /\ Flows
<1>1. /\ receiving /\ output # <<>> /\ output' = Tail(output)
      /\ UNCHANGED <<input, buf, wbuf, ws, fed>>
  BY DEF ReadHalf, StdoutGives, innards
<1>2. ws = "active"
  BY <1>1 DEF Control
<1>3. Clear(Stream) /\ Ordered(got, Stream) /\ \A i \in 1 .. Len(inbox) : inbox[i].half = 1
  BY <1>2 DEF FilterInv, InOrder
<1>4. /\ Stream \in Seq(Half) /\ IsPipe(Stream, inbox, output, wbuf) /\ inbox \in Seq(Half)
      /\ output \in Seq(Half) /\ wbuf \in Seq(Half) /\ got \in Seq(Nat)
  BY StreamTypes
<1>5. Len(output) \in Nat \ {0} /\ Head(output) = output[1] /\ Len(wbuf) \in Nat /\ Len(inbox) \in {0, 1}
  <2>1. Len(output) \in Nat /\ Len(wbuf) \in Nat /\ Len(inbox) \in Nat
    BY <1>4, LenProperties
  <2>2. Len(output) # 0
    BY <1>1, <1>4, EmptySeq
  <2>3. Head(output) = output[1]
    BY <1>1, <1>4
  <2>4. Len(inbox) <= 1
    BY DEF TypeOK
  <2>5. \A k \in Nat : k <= 1 => k \in {0, 1}
    OBVIOUS
  <2> QED BY <2>1, <2>2, <2>3, <2>4, <2>5
<1>6. 1 \in 1 .. Len(output)
  BY <1>5
<1>7. Len(inbox) = 0 => inbox = <<>>
  BY <1>4, EmptySeq
<1>8. /\ Len(Stream) = Len(inbox) + Len(output) + Len(wbuf)
      /\ Stream[Len(inbox) + 1] = Head(output)
      /\ \A i \in 1 .. Len(inbox) : Stream[i] = inbox[i]
  BY <1>4, <1>5, <1>6 DEF IsPipe
<1>9. Paired(Stream)
  BY <1>3 DEF Ordered
<1>10. Len(inbox) = 0 => Head(output).half = 1
  <2>1. Len(Stream) > 0
    BY <1>5, <1>8
  <2>2. Stream # <<>>
    BY <2>1, EmptySeq
  <2> QED BY <1>8, <1>9, <2>2 DEF Paired
<1>11. Len(inbox) = 1 => Head(output).half = 2
  <2> SUFFICES ASSUME Len(inbox) = 1 PROVE Head(output).half = 2
    OBVIOUS
  <2>1. 1 \in 1 .. Len(inbox) /\ 1 \in 1 .. Len(Stream) - 1
    BY <1>5, <1>8
  <2>2. Stream[1].half = 1
    BY <1>3, <1>8, <2>1
  <2>3. Stream[1 + 1] = [of |-> Stream[1].of, half |-> 2]
    BY <1>9, <2>1, <2>2 DEF Paired
  <2>4. Stream[1 + 1] = Head(output)
    BY <1>8
  <2> QED BY <2>3, <2>4
<1>12. CASE Head(output).half = 1
  <2>1. inbox = <<>> /\ inbox' = <<Head(output)>> /\ got' = got
    BY <1>5, <1>7, <1>11, <1>12 DEF ReadHalf
  <2>2. Stream' = Stream
    BY <1>1, <1>4, <2>1, PipeBegun DEF Stream
  <2>3. \A i \in 1 .. Len(inbox') : inbox'[i].half = 1
    BY <1>12, <2>1
  <2>4. InOrder'
    BY <1>1, <1>2, <1>3, <2>1, <2>2, <2>3 DEF InOrder
  <2> QED BY <1>1, <2>1, <2>2, <2>4 DEF Flows, FilterInv
<1>13. CASE Head(output).half # 1
  <2>1. /\ Len(inbox) = 1 /\ inbox' = <<>>
        /\ got' = got \o [i \in 1 .. Len(inbox) |-> inbox[i].of]
    BY <1>5, <1>10, <1>13 DEF ReadHalf
  <2>2. inbox[1].of \in Nat
    BY <1>4, <2>1, HalfFields
  <2>3. [i \in 1 .. Len(inbox) |-> inbox[i].of] = <<inbox[1].of>>
    BY <2>1, <2>2
  <2>4. got' = Append(got, inbox[1].of)
    BY <1>4, <2>1, <2>2, <2>3, AppendIsConcat
  <2>5. /\ Stream' \in Seq(Half) /\ Len(Stream) = Len(Stream') + 2
        /\ \A i \in 1 .. Len(Stream') : Stream'[i] = Stream[i + 2]
        /\ Stream[1] = inbox[1]
    BY SMTT(30), <1>1, <1>4, <2>1, PipeReceived DEF Stream
  <2>6. /\ Ordered(got', Stream') /\ Clear(Stream')
        /\ \A n : Gone(got', Stream', n) <=> Gone(got, Stream, n)
    BY <1>3, <1>4, <2>4, <2>5, Taken
  <2>7. InOrder'
    BY <2>1, <2>6, EmptySeq DEF InOrder
  <2>8. Flow(input, buf, fed, got', Stream')
    BY <2>6, FlowMoved DEF FilterInv
  <2> QED BY <1>1, <2>7, <2>8 DEF Flows
<1> QED BY <1>12, <1>13

LEMMA FlowStep ==
  ASSUME TypeOK, Control, Filter, FilterInv, FilterStep
  PROVE  InOrder' /\ Flows
<1>1. CASE UNCHANGED <<input, buf, output, wbuf, ws, inbox, fed, got>>
  <2>1. Stream' = Stream
    BY <1>1 DEF Stream
  <2>2. InOrder'
    BY <1>1, <2>1 DEF FilterInv, InOrder
  <2> QED BY <1>1, <2>1, <2>2 DEF FilterInv, Flows
<1>2. CASE UNCHANGED streamVars
  BY <1>1, <1>2 DEF streamVars
<1>3. CASE NextMessage /\ UNCHANGED clientVars
  BY <1>1, <1>3 DEF NextMessage, clientVars
<1>4. CASE (WriteHalf \/ RecvClose \/ InputEnds) /\ UNCHANGED clientVars
  BY <1>4, WriteHalfFlows, RecvCloseFlows, InputEndsFlows
<1>5. CASE (DecodeNext \/ DecodeFrame \/ DecodeJunk) /\ UNCHANGED clientVars
  BY <1>5, DecodeNextFlows, DecodeFrameFlows, DecodeJunkFlows
<1>6. CASE Convey \/ Refuse
  BY <1>6, ConveyFlows, RefuseFlows
<1>7. CASE Send \/ ReadHalf \/ CloseSink
  BY <1>7, SendFlows, ReadHalfFlows
<1> QED BY <1>2, <1>3, <1>4, <1>5, <1>6, <1>7 DEF FilterStep

(* Which frames pass does not change.                                      *)
LEMMA FlowPrime ==
  ASSUME UNCHANGED config, Flows
  PROVE  Flow(input, buf, fed, got, Stream)'
<1>1. UNCHANGED <<program, bufferSize>>
  BY DEF config
<1>2. PICK c \in [0 .. Len(input') -> 0 .. Len(fed')] :
        /\ Cut(c, input', buf', fed')
        /\ Frontier(fed', got', Stream', c[0] - Len(buf'))
  BY DEF Flows, Flow
<1>3. Frontier(fed, got, Stream, c[0] - Len(buf))'
  BY <1>1, <1>2 DEF Frontier, IsDue, Passes
<1> QED BY <1>2, <1>3 DEF Flow
-----------------------------------------------------------------------------
(* The invariant.                                                          *)

LEMMA InitIInv == Init => IInv
<1> SUFFICES ASSUME Init PROVE IInv
  OBVIOUS
<1>1. Len(<<>>) = 0
  BY EmptySeq
<1>2. /\ input = <<>> /\ output = <<>> /\ buf = <<>> /\ wbuf = <<>>
      /\ inbox = <<>> /\ fed = <<>> /\ got = <<>>
      /\ client = "open" /\ receiving = FALSE /\ outcome = "none" /\ ws = "active"
      /\ status = "up" /\ main = "running" /\ reader = "polling" /\ sending = FALSE
  BY DEF Init, PlugInit
<1>3. Control
  BY <1>1, <1>2 DEF Control
<1>4. Stream = <<>>
  BY <1>2, EmptySeq, ConcatEmptySeq DEF Stream, Pipe
<1>5. Turns /\ Held
  BY <1>2 DEF Turns, Held, FrameComplete, FrameBegins, JunkBegins
<1>6. Framed
  BY <1>1, <1>2 DEF Framed, MidFrame
<1>7. InOrder
  BY <1>1, <1>2, <1>4 DEF InOrder, Ordered, Paired, Rising, Behind, Sorted, Clear
<1>8. WellFed(fed)
  BY <1>1, <1>2 DEF WellFed, Sized, Preceded, Followed, Numbered, Fresh
<1>9. Flow(<<>>, <<>>, <<>>, <<>>, <<>>)
  <2> DEFINE c == [i \in 0 .. 0 |-> 0]
  <2>1. c \in [0 .. 0 -> 0 .. 0] /\ c[0] = 0
    OBVIOUS
  <2> HIDE DEF c
  <2>2. Cut(c, <<>>, <<>>, <<>>)
    BY <1>1, <2>1 DEF Cut
  <2>3. Frontier(<<>>, <<>>, <<>>, 0)
    BY <1>1 DEF Frontier, Gone
  <2>4. c[0] - Len(<<>>) = 0
    <3>1. 0 - 0 = 0
      OBVIOUS
    <3> QED BY <1>1, <2>1, <3>1, Zenon
  <2> QED BY <1>1, <2>1, <2>2, <2>3, <2>4 DEF Flow
<1> QED BY <1>2, <1>3, <1>4, <1>5, <1>6, <1>7, <1>8, <1>9 DEF IInv, FilterInv

LEMMA NextIInv == TypeOK /\ IInv /\ [Next]_vars => IInv'
<1> SUFFICES ASSUME TypeOK, IInv, [Next]_vars PROVE IInv'
  OBVIOUS
<1>1. Control'
  BY ControlStep DEF IInv
<1>2. UNCHANGED program
  BY ProgramStays DEF config
<1>3. CASE Filter
  <2>1. FilterInv /\ Control /\ FilterStep
    BY <1>3, FilterSteps DEF IInv
  <2>2. Turns'
    BY <1>3, <2>1, TurnsStep DEF FilterInv
  <2>3. Held'
    BY <1>3, <2>1, HeldStep DEF FilterInv
  <2>4. Framed' /\ WellFed(fed')
    BY <1>3, <2>1, FramedStep DEF FilterInv
  <2>5. InOrder' /\ Flow(input, buf, fed, got, Stream)'
    BY <1>3, <2>1, FlowStep, ProgramStays, FlowPrime
  <2>6. WellFed(fed)'
    BY <2>4
  <2> QED BY <1>1, <2>2, <2>3, <2>4, <2>5, <2>6 DEF IInv, FilterInv
<1>4. CASE ~ Filter
  BY <1>1, <1>2, <1>4 DEF IInv, Filter
<1> QED BY <1>3, <1>4

(* What the theorems below rest on; FilterInv is about the three filters.  *)
THEOREM InductiveInvariant == Spec => [](TypeOK /\ IInv)
<1>1. Init => TypeOK /\ IInv
  BY InitTypeOK, InitIInv
<1>2. TypeOK /\ IInv /\ [Next]_vars => (TypeOK /\ IInv)'
  BY NextTypeOK, NextIInv
<1> QED BY <1>1, <1>2, PTL DEF Spec
-----------------------------------------------------------------------------
(* What follows for the client.                                            *)

(* Where the plug stands in the parts fed.                                 *)
LEMMA Position ==
  ASSUME TypeOK, IInv, Filter
  PROVE  \E p \in Nat : p <= Len(fed) /\ Frontier(fed, got, Stream, p)
<1>1. PICK p \in Nat : At(p, input, buf, fed, got, Stream)
  BY StreamTypes, FlowAt DEF IInv, FilterInv
<1>2. p + Len(buf) <= Len(fed) /\ Frontier(fed, got, Stream, p)
  BY <1>1 DEF At
<1>3. Len(buf) \in Nat /\ Len(fed) \in Nat
  BY QueueTypes
<1> QED BY <1>2, <1>3

(* A plug with nothing to read has written all that is due.                *)
LEMMA AllDone ==
  ASSUME TypeOK, IInv, Filter, input = <<>>, reader # "busy",
         NEW n, Due(n)
  PROVE  Gone(got, Stream, n)
<1>1. fed \in Seq(Part) /\ WellFed(fed) /\ buf \in Seq(Part) /\ Flow(<<>>, buf, fed, got, Stream)
  BY StreamTypes DEF IInv, FilterInv
<1>2. buf # <<>> => buf[1].part = 1 /\ Len(buf) < buf[1].size
  <2> SUFFICES ASSUME buf # <<>> PROVE buf[1].part = 1 /\ Len(buf) < buf[1].size
    OBVIOUS
  <2>1. FrameBegins /\ ~ FrameComplete
    BY DEF IInv, FilterInv, Held, JunkBegins
  <2>2. buf[1].part = 1 /\ ~ (Len(buf) >= buf[1].size)
    BY <2>1 DEF FrameBegins, FrameComplete
  <2>3. buf[1].size \in Nat /\ Len(buf) \in Nat
    <3>1. 1 \in 1 .. Len(buf) /\ Len(buf) \in Nat
      BY <1>1, EmptySeq, LenProperties
    <3>2. buf[1] \in Part
      BY <1>1, <3>1, ElementOfSeq
    <3> QED BY <3>1, <3>2, PartFields
  <2> QED BY <2>2, <2>3
<1>3. PICK i \in 1 .. Len(fed) : fed[i].of = n /\ IsDue(fed[i])
  BY DEF Due, IsDue
<1>4. Gone(got, Stream, fed[i].of)
  BY <1>1, <1>2, <1>3, FlowAll
<1> QED BY <1>3, <1>4

LEMMA ReceivedInOrder ==
  ASSUME TypeOK, IInv, Filter, NEW i \in 1 .. Len(got)
  PROVE  /\ Due(got[i])
         /\ \A j \in 1 .. i - 1 : got[j] < got[i]
         /\ \A n \in 1 .. got[i] : Due(n) => Received(n)
<1>1. Sorted(got) /\ Behind(got, Stream) /\ WellFed(fed)
  BY DEF IInv, FilterInv, InOrder, Ordered
<1>2. got \in Seq(Nat) /\ fed \in Seq(Part) /\ Len(got) \in Nat /\ Len(fed) \in Nat
  BY StreamTypes, LenProperties
<1>3. got[i] \in Nat \ {0}
  BY <1>1, <1>2, ElementOfSeq DEF Sorted
<1>4. PICK p \in Nat : p <= Len(fed) /\ Frontier(fed, got, Stream, p)
  BY Position
<1>5. Gone(got, Stream, got[i])
  BY DEF Gone
<1>6. PICK k \in 1 .. p : fed[k].of = got[i] /\ IsDue(fed[k])
  BY <1>3, <1>4, <1>5 DEF Frontier
<1>7. k \in 1 .. Len(fed)
  BY <1>2, <1>4
<1>8. Due(got[i])
  BY <1>6, <1>7 DEF Due, IsDue
<1>9. \A j \in 1 .. i - 1 : got[j] < got[i]
  <2>1. \A j \in 1 .. i - 1 : j \in 1 .. Len(got) /\ j < i
    BY <1>2
  <2> QED BY <1>1, <2>1 DEF Sorted
<1>10. ASSUME NEW n \in 1 .. got[i], Due(n) PROVE Received(n)
  <2>1. CASE n = got[i]
    BY <2>1 DEF Received
  <2>2. CASE n < got[i]
    <3>1. PICK m \in 1 .. Len(fed) : fed[m].of = n /\ IsDue(fed[m])
      BY <1>10 DEF Due, IsDue
    <3>2. ~ (k <= m)
      <4>1. k <= m => fed[k].of <= fed[m].of
        BY <1>1, <1>7 DEF WellFed, Numbered
      <4>2. ~ (got[i] <= n)
        BY <1>3, <2>2
      <4> QED BY <1>6, <3>1, <4>1, <4>2
    <3>3. m \in 1 .. p
      BY <1>2, <3>2
    <3>4. Gone(got, Stream, n)
      BY <1>4, <3>1, <3>3 DEF Frontier
    <3>5. ASSUME NEW x \in 1 .. Len(Stream), Stream[x].of = n PROVE FALSE
      <4>1. got[i] < Stream[x].of
        BY <1>1, <3>5 DEF Behind
      <4> QED BY <1>3, <2>2, <3>5, <4>1
    <3> QED BY <3>4, <3>5 DEF Gone, Received
  <2> QED BY <1>3, <2>1, <2>2
<1> QED BY <1>8, <1>9, <1>10

LEMMA NoneHeldBack ==
  ASSUME TypeOK, IInv, Filter, Settled, NEW n \in Numbers, Due(n)
  PROVE  Received(n)
<1>1. /\ main = "running" /\ reader = "polling" /\ ~ sending
      /\ input = <<>> /\ output = <<>> /\ inbox = <<>>
  BY DEF Settled, Running
<1>2. Gone(got, Stream, n)
  BY <1>1, AllDone
<1>3. Stream = wbuf
  <2>1. wbuf \in Seq(Half)
    BY StreamTypes
  <2> QED BY <1>1, <2>1, ConcatEmptySeq DEF Stream, Pipe
<1>4. ASSUME NEW x \in 1 .. Len(wbuf) PROVE wbuf[x].of = 0
  <2>1. wbuf # <<>>
    BY EmptySeq
  <2>2. ws = "replying"
    BY <1>1, <2>1 DEF IInv, FilterInv, Turns, TypeOK, PlugTypeOK
  <2> QED BY <2>2 DEF IInv, FilterInv, Turns
<1>5. n # 0
  BY DEF Numbers
<1> QED BY <1>2, <1>3, <1>4, <1>5 DEF Gone, Received

(* What has come out of a filter, in one state: whole frames, in order and *)
(* without a gap, and all of them when it rests.                           *)
FramesComeThrough ==
  Filter =>
    /\ \A i \in 1 .. Len(got) :
         /\ Due(got[i])
         /\ \A j \in 1 .. i - 1 : got[j] < got[i]
         /\ \A n \in 1 .. got[i] : Due(n) => Received(n)
    /\ Settled => \A n \in Numbers : Due(n) => Received(n)

LEMMA ComeThrough == TypeOK /\ IInv => FramesComeThrough
  BY ReceivedInOrder, NoneHeldBack DEF FramesComeThrough

(* Frames come through a filter whole, in order and without delay, however *)
(* the stream was cut and whatever lies in between                         *)
(* (kble-eb90/src/main.rs:71-86, kble-test-support/src/lib.rs:131-139).    *)
THEOREM FramesComeThroughHolds == Spec => []FramesComeThrough
  BY ComeThrough, InductiveInvariant, PTL
-----------------------------------------------------------------------------
(* The refinement of FrameFilter.                                          *)

DueIn(f) == {n \in 1 .. Begun(f) : \E i \in 1 .. Len(f) : f[i].of = n /\ IsDue(f[i])}

LEMMA DueInFed == DueIn(fed) = {n \in Numbers : Due(n)}
  BY DEF DueIn, Numbers, Due, IsDue

(* More parts fed may be the end of more frames, with higher numbers.      *)
LEMMA DueGrows ==
  ASSUME NEW f \in Seq(Part), NEW h \in Seq(Part), NEW m \in Seq(Part), h = f \o m,
         WellFed(f), WellFed(h)
  PROVE  /\ DueIn(f) \subseteq DueIn(h)
         /\ \A n \in DueIn(f), k \in DueIn(h) \ DueIn(f) : n < k
<1>1. /\ Len(f) \in Nat /\ Len(h) \in Nat /\ Len(m) \in Nat /\ Len(h) = Len(f) + Len(m)
      /\ \A i \in 1 .. Len(f) : h[i] = f[i]
  BY ConcatProperties, LenProperties
<1>2. \A i \in 1 .. Len(f) : i \in 1 .. Len(h)
  BY <1>1
<1>3. /\ \A i \in 1 .. Len(h) : h[i].of \in Nat /\ h[i].of <= Begun(h)
      /\ Begun(h) \in Nat
  BY LastPart
<1>4. /\ \A i \in 1 .. Len(f) : f[i].of \in Nat /\ f[i].of <= Begun(f)
      /\ Begun(f) \in Nat
  BY LastPart
<1>5. ASSUME NEW n \in DueIn(f) PROVE n \in DueIn(h)
  <2>1. PICK i \in 1 .. Len(f) : f[i].of = n /\ IsDue(f[i])
    BY DEF DueIn
  <2>2. i \in 1 .. Len(h) /\ h[i].of = n /\ IsDue(h[i])
    BY <1>1, <1>2, <2>1
  <2>3. n \in 1 .. Begun(f)
    BY DEF DueIn
  <2>4. n \in 1 .. Begun(h)
    <3>1. n \in Nat /\ n >= 1
      BY <1>4, <2>3
    <3>2. n <= Begun(h)
      BY <1>3, <2>2
    <3> QED BY <1>3, <3>1, <3>2
  <2> QED BY <2>2, <2>4 DEF DueIn
<1>6. ASSUME NEW n \in DueIn(f), NEW k \in DueIn(h) \ DueIn(f) PROVE n < k
  <2>1. PICK i \in 1 .. Len(f) : f[i].of = n /\ IsDue(f[i])
    BY DEF DueIn
  <2>2. PICK j \in 1 .. Len(h) : h[j].of = k /\ IsDue(h[j])
    BY DEF DueIn
  <2>3. k \in Nat /\ k >= 1
    <3>1. k \in 1 .. Begun(h)
      BY DEF DueIn
    <3> QED BY <1>3, <3>1
  <2>4. j \notin 1 .. Len(f)
    <3> SUFFICES ASSUME j \in 1 .. Len(f) PROVE FALSE
      OBVIOUS
    <3>1. f[j].of = k /\ IsDue(f[j])
      BY <1>1, <2>2
    <3>2. k \in 1 .. Begun(f)
      BY <1>4, <2>3, <3>1
    <3>3. k \in DueIn(f)
      BY <3>1, <3>2 DEF DueIn
    <3> QED BY <3>3
  <2>5. i < j
    BY <1>1, <2>4
  <2>6. Ends(h[i]) /\ h[i].of = n /\ h[j].part > 0
    BY <1>1, <2>1, <2>2 DEF IsDue, Ends
  <2>7. h[i].of < h[j].of
    BY <1>2, <2>5, <2>6 DEF WellFed, Fresh
  <2> QED BY <2>2, <2>6, <2>7
<1> QED BY <1>5, <1>6

(* A recv takes one frame or none.                                         *)
LEMMA Receives ==
  ASSUME TypeOK, ReadHalf
  PROVE  got' = got \/ \E n \in Nat : got' = Append(got, n)
<1>1. inbox \in Seq(Half) /\ Len(inbox) \in {0, 1} /\ got \in Seq(Nat)
  <2>1. inbox \in Seq(Half) /\ got \in Seq(Nat) /\ Len(inbox) <= 1
    BY DEF TypeOK
  <2>2. Len(inbox) \in Nat
    BY <2>1, LenProperties
  <2>3. \A k \in Nat : k <= 1 => k \in {0, 1}
    OBVIOUS
  <2> QED BY <2>1, <2>2, <2>3
<1>2. CASE got' = got
  BY <1>2
<1>3. CASE got' = got \o [i \in 1 .. Len(inbox) |-> inbox[i].of]
  <2>1. CASE Len(inbox) = 0
    <3>1. [i \in 1 .. Len(inbox) |-> inbox[i].of] = <<>>
      BY <2>1
    <3> QED BY <1>1, <1>3, <3>1, ConcatEmptySeq
  <2>2. CASE Len(inbox) = 1
    <3>1. inbox[1].of \in Nat
      BY <1>1, <2>2, HalfFields
    <3>2. [i \in 1 .. Len(inbox) |-> inbox[i].of] = <<inbox[1].of>>
      BY <2>2, <3>1
    <3>3. got' = Append(got, inbox[1].of)
      BY <1>1, <1>3, <3>1, <3>2, AppendIsConcat
    <3> QED BY <3>1, <3>3
  <2> QED BY <1>1, <2>1, <2>2
<1> QED BY <1>2, <1>3 DEF ReadHalf

LEMMA OneMore ==
  ASSUME NEW g \in Seq(Nat), NEW n \in Nat, NEW h, h = Append(g, n)
  PROVE  /\ Len(g) \in Nat /\ Len(h) = Len(g) + 1 /\ h[Len(h)] = n
         /\ Len(h) \in 1 .. Len(h)
         /\ \A i \in 1 .. Len(g) : h[i] = g[i] /\ i \in 1 .. Len(h) - 1
         /\ \A i \in 1 .. Len(h) : h[i] = n \/ \E j \in 1 .. Len(g) : h[i] = g[j]
<1>1. /\ Len(g) \in Nat /\ Len(h) = Len(g) + 1 /\ h[Len(g) + 1] = n
      /\ \A i \in 1 .. Len(g) : h[i] = g[i]
  BY AppendProperties, LenProperties
<1>2. \A i \in 1 .. Len(g) + 1 : i \in 1 .. Len(g) \/ i = Len(g) + 1
  BY <1>1
<1>3. ASSUME NEW i \in 1 .. Len(h) PROVE h[i] = n \/ \E j \in 1 .. Len(g) : h[i] = g[j]
  BY <1>1, <1>2
<1>4. Len(h) \in 1 .. Len(h)
  BY <1>1
<1>5. \A i \in 1 .. Len(g) : i \in 1 .. Len(h) - 1
  <2>1. Len(h) - 1 = Len(g)
    BY <1>1
  <2> QED BY <2>1
<1> QED BY <1>1, <1>3, <1>4, <1>5

(* What FramesComeThrough says of the numbers due, those received, and     *)
(* whether the filter rests.                                               *)
InSequence(d, g, r) ==
  /\ \A i \in 1 .. Len(g) :
       /\ g[i] \in d
       /\ \A j \in 1 .. i - 1 : g[j] < g[i]
       /\ \A k \in d : k <= g[i] => \E j \in 1 .. Len(g) : g[j] = k
  /\ r => \A k \in d : \E j \in 1 .. Len(g) : g[j] = k

Missing(d, g) == {k \in d : \A i \in 1 .. Len(g) : g[i] # k}

(* The frame that comes is the oldest that was outstanding; if the filter  *)
(* rests then, it was the only one.                                        *)
LEMMA OldestComes ==
  ASSUME NEW d \in SUBSET Nat, NEW g \in Seq(Nat), NEW n \in Nat, NEW h, h = Append(g, n),
         NEW r, InSequence(d, h, r)
  PROVE  /\ n \in Missing(d, g)
         /\ \A m \in Missing(d, g) : n <= m
         /\ r => Missing(d, g) = {n}
<1>1. PICK last \in 1 .. Len(h) : last = Len(h)
  BY OneMore
<1>2. h[last] = n /\ \A j \in 1 .. Len(g) : h[j] = g[j] /\ j \in 1 .. last - 1
  BY <1>1, OneMore
<1>3. \A k : (\E j \in 1 .. Len(h) : h[j] = k) => k = n \/ \E j \in 1 .. Len(g) : g[j] = k
  BY OneMore
<1>4. n \in d /\ \A k \in d : k <= n => \E j \in 1 .. Len(h) : h[j] = k
  BY <1>2 DEF InSequence
<1>5. \A j \in 1 .. Len(g) : g[j] # n
  <2> SUFFICES ASSUME NEW j \in 1 .. Len(g) PROVE g[j] # n
    OBVIOUS
  <2>1. h[j] < h[last]
    BY <1>2 DEF InSequence
  <2>2. g[j] < n
    BY <1>2, <2>1
  <2>3. \A k \in Nat : k < n => k # n
    OBVIOUS
  <2>4. g[j] \in Nat
    BY ElementOfSeq
  <2> QED BY <2>2, <2>3, <2>4
<1>6. n \in Missing(d, g)
  BY <1>4, <1>5 DEF Missing
<1>7. ASSUME NEW m \in Missing(d, g) PROVE n <= m
  <2>1. m \in d /\ m \in Nat /\ \A i \in 1 .. Len(g) : g[i] # m
    BY DEF Missing
  <2>2. CASE m <= n
    <3>1. m = n
      BY <1>3, <1>4, <2>1, <2>2
    <3> QED BY <3>1
  <2> QED BY <2>1, <2>2
<1>8. ASSUME r, NEW m \in Missing(d, g) PROVE m = n
  <2>1. m \in d /\ \A i \in 1 .. Len(g) : g[i] # m
    BY DEF Missing
  <2>2. \E j \in 1 .. Len(h) : h[j] = m
    BY <1>8, <2>1 DEF InSequence
  <2> QED BY <1>3, <2>1, <2>2
<1> QED BY <1>6, <1>7, <1>8

Sequenced == Filter => InSequence(DueIn(fed), got, Settled)

LEMMA AlwaysSequenced == TypeOK /\ IInv => Sequenced
<1> SUFFICES ASSUME TypeOK, IInv, Filter PROVE InSequence(DueIn(fed), got, Settled)
  BY DEF Sequenced
<1>1. /\ \A i \in 1 .. Len(got) :
           /\ Due(got[i])
           /\ \A j \in 1 .. i - 1 : got[j] < got[i]
           /\ \A k \in 1 .. got[i] : Due(k) => Received(k)
      /\ Settled => \A k \in Numbers : Due(k) => Received(k)
  BY ComeThrough DEF FramesComeThrough
<1>2. DueIn(fed) = {n \in Numbers : Due(n)}
  BY DueInFed
<1>3. fed \in Seq(Part) /\ WellFed(fed) /\ got \in Seq(Nat)
  BY StreamTypes DEF IInv, FilterInv
<1>4. \A i \in 1 .. Len(fed) : fed[i].of \in Nat /\ fed[i].part \in Nat /\ fed[i].of <= Begun(fed)
  BY <1>3, LastPart
<1>5. Begun(fed) \in Nat
  BY <1>3, LastPart
<1>6. ASSUME NEW k, Due(k) PROVE k \in Numbers
  <2>1. PICK i \in 1 .. Len(fed) : fed[i].of = k /\ fed[i].part > 0
    BY <1>6 DEF Due, Ends
  <2>2. fed[i].of > 0
    BY <1>3, <2>1 DEF WellFed, Sized, PartOK
  <2> QED BY <1>4, <1>5, <2>1, <2>2 DEF Numbers
<1>7. \A k \in DueIn(fed) : k \in Numbers /\ Due(k) /\ k \in Nat /\ k >= 1
  BY <1>2, <1>5 DEF Numbers
<1>8. \A i \in 1 .. Len(got) : got[i] \in Nat
  BY <1>3, ElementOfSeq
<1>9. ASSUME NEW i \in 1 .. Len(got)
      PROVE  /\ got[i] \in DueIn(fed)
             /\ \A j \in 1 .. i - 1 : got[j] < got[i]
             /\ \A k \in DueIn(fed) : k <= got[i] => \E j \in 1 .. Len(got) : got[j] = k
  <2>1. Due(got[i])
    BY <1>1
  <2>2. got[i] \in DueIn(fed)
    BY <1>2, <1>6, <2>1
  <2>3. ASSUME NEW k \in DueIn(fed), k <= got[i] PROVE Received(k)
    <3>1. k \in 1 .. got[i]
      BY <1>7, <1>8, <2>3
    <3> QED BY <1>1, <1>7, <3>1
  <2> QED BY <1>1, <2>2, <2>3 DEF Received
<1>10. Settled => \A k \in DueIn(fed) : \E j \in 1 .. Len(got) : got[j] = k
  BY <1>1, <1>7 DEF Received
<1> QED BY <1>9, <1>10 DEF InSequence

(* A step as FrameFilter sees it.                                          *)
LEMMA PromiseNext ==
  ASSUME TypeOK, IInv, Sequenced, TypeOK', IInv', Sequenced', [Next]_vars
  PROVE  [Promise!Next]_(Promise!filterVars)
<1>1. UNCHANGED <<program, bufferSize>>
  BY ProgramStays DEF config
<1>2. Filter' = Filter
  BY <1>1 DEF Filter
<1>3. CASE ~ Filter
  BY <1>2, <1>3 DEF Promise!filterVars
<1>4. CASE Filter
  <2> DEFINE due == IF Filter THEN {n \in Numbers : Due(n)} ELSE {}
             delivered == IF Filter THEN got ELSE <<>>
             resting == Filter /\ Settled
             out == {n \in due : \A i \in 1 .. Len(delivered) : delivered[i] # n}
  <2>1. due = DueIn(fed) /\ delivered = got /\ delivered' = got'
    BY <1>2, <1>4, DueInFed
  <2>2. due' = DueIn(fed')
    BY <1>1, <1>2, <1>4 DEF DueIn, Numbers, Due, IsDue, Passes
  <2>3. resting' \in BOOLEAN /\ (resting' <=> Settled')
    BY <1>2, <1>4
  <2>4. Promise!Outstanding = out
    BY DEF Promise!Outstanding
  <2>5. out = Missing(DueIn(fed), got)
    BY <2>1 DEF Missing
  <2>6. Promise!Feed <=> /\ due \subseteq due'
                         /\ \A m \in due, n \in due' \ due : m < n
                         /\ resting' = FALSE
                         /\ delivered' = delivered
    BY DEF Promise!Feed
  <2>7. Promise!Deliver <=> \E n \in out : /\ \A m \in out : n <= m
                                           /\ delivered' = Append(delivered, n)
                                           /\ resting' \in {FALSE, out = {n}}
                                           /\ due' = due
    BY <2>4 DEF Promise!Deliver
  <2>8. Promise!Rest <=> out = {} /\ resting' = TRUE /\ due' = due /\ delivered' = delivered
    BY <2>4 DEF Promise!Rest
  <2>9. Promise!Stir <=> resting' = FALSE /\ due' = due /\ delivered' = delivered
    BY DEF Promise!Stir
  <2> HIDE DEF due, delivered, resting, out
  <2>10. /\ fed \in Seq(Part) /\ WellFed(fed) /\ got \in Seq(Nat)
         /\ DueIn(fed) \in SUBSET Nat
    <3>1. fed \in Seq(Part) /\ WellFed(fed) /\ got \in Seq(Nat)
      BY <1>4, StreamTypes DEF IInv, FilterInv
    <3>2. Begun(fed) \in Nat
      BY <3>1, LastPart
    <3> QED BY <3>1, <3>2 DEF DueIn
  <2>11. InSequence(DueIn(fed'), got', Settled')
    <3>1. DueIn(fed)' = DueIn(fed')
      BY <1>1 DEF DueIn, Begun, Last, IsDue, Ends, Passes
    <3>2. InSequence(DueIn(fed)', got', Settled')
      BY <1>2, <1>4 DEF Sequenced, InSequence
    <3> QED BY <3>1, <3>2
  <2>12. CASE UNCHANGED <<fed, got>>
    <3>1. due' = due /\ delivered' = delivered
      BY <2>1, <2>2, <2>12
    <3>2. CASE Settled'
      <4>1. InSequence(DueIn(fed), got, Settled')
        BY <2>11, <2>12
      <4>2. out = {}
        BY <2>5, <3>2, <4>1 DEF InSequence, Missing
      <4> QED BY <2>3, <2>8, <3>1, <3>2, <4>2 DEF Promise!Next
    <3>3. CASE ~ Settled'
      BY <2>3, <2>9, <3>1, <3>3 DEF Promise!Next
    <3> QED BY <3>2, <3>3
  <2>13. CASE Send
    <3>1. PICK m \in Seq(Part) : input' = Append(input, m) /\ fed' = fed \o m
      <4>1. PICK m \in IF program = "decode" THEN Chunks ELSE WholeFrames :
              StdinTakes(m) /\ fed' = fed \o m
        BY <2>13 DEF Send
      <4> QED BY <1>4, <4>1, MessageNotClose, StreamTypes DEF StdinTakes, IInv, FilterInv
    <3>2. ~ Settled'
      <4>1. input \in Seq(Seq(Part))
        BY StreamTypes
      <4>2. input' # <<>>
        BY <3>1, <4>1, AppendProperties
      <4> QED BY <4>2 DEF Settled
    <3>3. fed' \in Seq(Part) /\ WellFed(fed')
      BY <1>2, <1>4 DEF IInv, FilterInv, TypeOK
    <3>4. PICK h \in Seq(Part) : h = fed'
      BY <3>3
    <3>5. /\ DueIn(fed) \subseteq DueIn(h)
          /\ \A n \in DueIn(fed), k \in DueIn(h) \ DueIn(fed) : n < k
      BY <2>10, <3>1, <3>3, <3>4, DueGrows
    <3>6. got' = got
      BY <2>13 DEF Send
    <3> QED BY <2>1, <2>2, <2>3, <2>6, <3>2, <3>4, <3>5, <3>6 DEF Promise!Next
  <2>14. CASE ReadHalf
    <3>1. fed' = fed
      BY <2>14 DEF ReadHalf
    <3>2. CASE got' = got
      BY <2>12, <3>1, <3>2
    <3>3. CASE \E n \in Nat : got' = Append(got, n)
      <4>1. PICK n \in Nat : got' = Append(got, n)
        BY <3>3
      <4>2. PICK h : h = got'
        OBVIOUS
      <4>3. InSequence(DueIn(fed), h, Settled')
        BY <2>11, <3>1, <4>2
      <4>4. /\ n \in out
            /\ \A m \in out : n <= m
            /\ Settled' => out = {n}
        BY <2>5, <2>10, <4>1, <4>2, <4>3, OldestComes
      <4>5. due' = due /\ delivered' = Append(delivered, n)
        BY <2>1, <2>2, <3>1, <4>1
      <4>6. resting' \in {FALSE, out = {n}}
        BY <2>3, <4>4
      <4> QED BY <2>7, <4>4, <4>5, <4>6 DEF Promise!Next
    <3> QED BY <2>14, <3>2, <3>3, Receives
  <2>15. FilterStep
    BY <1>4, FilterSteps
  <2>16. UNCHANGED <<fed, got>> \/ Send \/ ReadHalf
    BY <2>15 DEF FilterStep, streamVars, clientVars, Convey, Refuse, CloseSink
  <2> QED BY <2>12, <2>13, <2>14, <2>16
<1> QED BY <1>3, <1>4

(* To those who feed it and read from it a filter is FrameFilter: frames   *)
(* go in and come out one by one, in order, and it does not rest before    *)
(* they have (kble-eb90/src/main.rs:44-88, kble-c2a/src/main.rs,           *)
(* kble-test-support/src/lib.rs:77-92, 131-139).                           *)
THEOREM ImplementsFrameFilter == Spec => FilterSpec
<1>1. Init => Promise!Init
  <2> SUFFICES ASSUME Init PROVE Promise!Init
    OBVIOUS
  <2>1. fed = <<>> /\ got = <<>>
    BY DEF Init
  <2>2. Begun(fed) = 0
    BY <2>1 DEF Begun
  <2>3. Numbers = {}
    BY <2>2 DEF Numbers
  <2> QED BY <2>1, <2>3 DEF Promise!Init
<1>2. TypeOK /\ IInv /\ Sequenced /\ (TypeOK /\ IInv /\ Sequenced)' /\ [Next]_vars
        => [Promise!Next]_(Promise!filterVars)
  BY PromiseNext
<1>3. TypeOK /\ IInv => Sequenced
  BY AlwaysSequenced
<1> QED BY <1>1, <1>2, <1>3, InductiveInvariant, PTL DEF Spec, FilterSpec, Promise!Spec
-----------------------------------------------------------------------------
(* A frame is in the pipe as long as its second half is.                   *)
LEMMA SecondHalf ==
  ASSUME TypeOK, IInv, Filter, wbuf = <<>>,
         NEW x \in 1 .. Len(Stream), Stream[x].half = 2
  PROVE  InThePipe(Stream[x].of)
<1>1. /\ Stream \in Seq(Half) /\ IsPipe(Stream, inbox, output, wbuf)
      /\ Len(inbox) \in Nat /\ Len(output) \in Nat /\ Len(wbuf) = 0
  BY StreamTypes, QueueTypes, EmptySeq
<1>2. /\ Len(Stream) = Len(inbox) + Len(output) + Len(wbuf)
      /\ \A i \in 1 .. Len(inbox) : Stream[i] = inbox[i]
      /\ \A i \in 1 .. Len(output) : Stream[Len(inbox) + i] = output[i]
  BY <1>1 DEF IsPipe
<1>3. x \notin 1 .. Len(inbox)
  <2>1. \A i \in 1 .. Len(inbox) : inbox[i].half = 1
    BY DEF IInv, FilterInv, InOrder
  <2> QED BY <1>2, <2>1
<1>4. PICK y \in 1 .. Len(output) : Len(inbox) + y = x
  <2>1. x - Len(inbox) \in 1 .. Len(output) /\ Len(inbox) + (x - Len(inbox)) = x
    BY <1>1, <1>2, <1>3
  <2> QED BY <2>1
<1>5. output[y] = Stream[x]
  BY <1>2, <1>4
<1>6. Stream[x] = [of |-> Stream[x].of, half |-> 2]
  <2>1. Stream[x] \in Half
    BY <1>1, ElementOfSeq
  <2> QED BY <2>1 DEF Half
<1> QED BY <1>5, <1>6 DEF InThePipe

LEMMA AllWritten ==
  ASSUME TypeOK, IInv, Filter, main = "success", NEW n \in Numbers, Due(n)
  PROVE  Received(n) \/ InThePipe(n)
<1>1. ws = "closed" /\ wbuf = <<>> /\ reader # "busy" /\ input = <<>>
  BY DEF IInv, FilterInv, Turns, Control
<1>2. Gone(got, Stream, n)
  BY <1>1, AllDone
<1>3. ASSUME NEW x \in 1 .. Len(Stream), Stream[x].of = n
      PROVE  InThePipe(n)
  <2>1. Stream \in Seq(Half) /\ Len(Stream) \in Nat
    BY StreamTypes, LenProperties
  <2>2. Paired(Stream)
    BY DEF IInv, FilterInv, InOrder, Ordered
  <2>3. Stream[x].half \in {1, 2} /\ Stream # <<>>
    BY <2>1, HalfFields, EmptySeq
  <2>4. CASE Stream[x].half = 2
    BY <1>1, <1>3, <2>4, SecondHalf
  <2>5. CASE Stream[x].half = 1
    <3>1. x # Len(Stream)
      BY <2>2, <2>3, <2>5 DEF Paired
    <3>2. x \in 1 .. Len(Stream) - 1 /\ x + 1 \in 1 .. Len(Stream)
      BY <2>1, <3>1
    <3>3. Stream[x + 1] = [of |-> Stream[x].of, half |-> 2]
      BY <2>2, <2>5, <3>2 DEF Paired
    <3>4. PICK y \in 1 .. Len(Stream) : y = x + 1
      BY <3>2
    <3>5. Stream[y].half = 2 /\ Stream[y].of = n
      BY <1>3, <3>3, <3>4
    <3> QED BY <1>1, <3>5, SecondHalf
  <2> QED BY <2>3, <2>4, <2>5
<1> QED BY <1>2, <1>3 DEF Gone, Received

LEMMA OutputInOrder ==
  ASSUME TypeOK, IInv, Filter
  PROVE  WrittenInOrder
<1>1. /\ Stream \in Seq(Half) /\ IsPipe(Stream, inbox, output, wbuf)
      /\ Len(inbox) \in Nat /\ Len(output) \in Nat /\ Len(wbuf) \in Nat
  BY StreamTypes, QueueTypes
<1>2. \A i \in 1 .. Len(output) : Stream[Len(inbox) + i] = output[i]
  BY <1>1 DEF IsPipe
<1>3. \A i \in 1 .. Len(output) : Len(inbox) + i \in 1 .. Len(Stream)
  <2>1. Len(Stream) = Len(inbox) + Len(output) + Len(wbuf)
    BY <1>1 DEF IsPipe
  <2> QED BY <1>1, <2>1
<1>4. Rising(Stream) /\ Behind(got, Stream)
  BY DEF IInv, FilterInv, InOrder, Ordered
<1> SUFFICES ASSUME NEW i \in 1 .. Len(output), output[i].of # 0
             PROVE  /\ \A j \in 1 .. i - 1 : output[j].of \in 1 .. output[i].of
                    /\ \A j \in 1 .. Len(got) : got[j] < output[i].of
  BY DEF WrittenInOrder
<1>5. PICK x \in 1 .. Len(Stream) : x = Len(inbox) + i
  BY <1>3
<1>6. Stream[x] = output[i]
  BY <1>2, <1>5
<1>7. \A j \in 1 .. Len(got) : got[j] < output[i].of
  BY <1>4, <1>6 DEF Behind
<1>8. ASSUME NEW j \in 1 .. i - 1 PROVE output[j].of \in 1 .. output[i].of
  <2>1. j \in 1 .. Len(output)
    BY <1>1
  <2>2. PICK y \in 1 .. Len(Stream) : y = Len(inbox) + j
    BY <1>3, <2>1
  <2>3. Stream[y] = output[j] /\ y < x
    <3>1. Stream[y] = output[j]
      BY <1>2, <2>1, <2>2
    <3>2. i \in Nat /\ j \in Nat /\ j < i
      BY <1>1
    <3>3. y < x
      BY <1>1, <1>5, <2>2, <3>2
    <3> QED BY <3>1, <3>3
  <2>4. output[j].of # 0 /\ output[j].of <= output[i].of
    BY <1>4, <1>6, <2>3 DEF Rising
  <2>5. Stream[x].of \in Nat /\ Stream[y].of \in Nat
    BY <1>1, HalfFields
  <2> QED BY SMTT(30), <1>6, <2>3, <2>4, <2>5
<1> QED BY <1>7, <1>8

(* shutdown leaves no process behind, and an Ok means that a filter has    *)
(* written all that was due, in order (kble-test-support/src/lib.rs:94-125).*)
THEOREM OkMeansAllIsWrittenHolds == Spec => []OkMeansAllIsWritten
<1>1. ASSUME TypeOK, IInv PROVE OkMeansAllIsWritten
  <2>1. client = "returned" => status # "up"
    BY <1>1 DEF IInv, Control
  <2>2. client = "returned" /\ outcome = "ok" => main = "success"
    BY <1>1 DEF IInv, Control
  <2>3. ASSUME Filter, main = "success"
        PROVE  /\ \A n \in Numbers : Due(n) => Received(n) \/ InThePipe(n)
               /\ WrittenInOrder
    BY <1>1, <2>3, AllWritten, OutputInOrder
  <2> QED BY <2>1, <2>2, <2>3 DEF OkMeansAllIsWritten
<1> QED BY <1>1, InductiveInvariant, PTL
=============================================================================
