----------------------------- MODULE DumpProofs -----------------------------
(***************************************************************************)
(* Proofs about kble-dump: about DumpRecord, for any number of frames and  *)
(* pieces, wherever a write, a send or the process itself fails, and about *)
(* DumpReplay, for every set of dumps and every clock.                     *)
(***************************************************************************)
EXTENDS DumpRecord, DumpReplay, SequenceTheorems, TLAPS

-----------------------------------------------------------------------------
(* record                                                                  *)

(* The file is what was handed over but for the piece under way, or the    *)
(* one that failed or died.                                                *)
FileInv ==
  /\ FileIsPrefix
  /\ writing # <<>> => /\ pc \notin {"exited", "killed"}
                       /\ ~ failed
                       /\ Len(handed) = Len(file) + 1
                       /\ writing[1] = handed[Len(handed)]
  /\ writing = <<>> /\ ~ failed /\ pc # "killed" => Len(handed) = Len(file)
  /\ failed => Len(handed) = Len(file) + 1
  /\ torn => failed \/ pc = "killed"

(* The records handed over end with the whole record of frame n.           *)
EndsWith(n) ==
  IF n = 0 THEN Len(handed) = 0
           ELSE Len(handed) > 0 /\ handed[Len(handed)] = [frame |-> n, last |-> TRUE]

HandedInOrder ==
  \A i \in 1 .. Len(handed) :
    IF i = 1
      THEN handed[i].frame = 1
      ELSE handed[i].frame = IF handed[i - 1].last THEN handed[i - 1].frame + 1
                                                   ELSE handed[i - 1].frame

(* Where the program stands in its loop, told by what it handed over.      *)
LoopInv ==
  /\ pc \in {"reading", "writing", "echoing"} => result = "none"
  /\ result = "ok" => received = echoed
  /\ pc = "reading" => received = echoed /\ EndsWith(received)
  /\ pc = "echoing" => received = echoed + 1 /\ EndsWith(received)
  /\ pc = "writing" =>
       /\ received = echoed + 1
       /\ \/ EndsWith(echoed)
          \/ /\ Len(handed) > 0
             /\ handed[Len(handed)] = [frame |-> received, last |-> FALSE]

(* The records of the frames echoed; none but the last can be the very     *)
(* last piece.                                                             *)
EchoedHanded ==
  \A n \in 1 .. echoed :
    \E i \in 1 .. Len(handed) :
      handed[i] = [frame |-> n, last |-> TRUE] /\ (n # echoed => i < Len(handed))

RecordInv == TypeOK /\ FileInv /\ HandedInOrder /\ LoopInv /\ EchoedHanded
-----------------------------------------------------------------------------
LEMMA InitRecordInv == Init => RecordInv
<1> SUFFICES ASSUME Init PROVE RecordInv
  OBVIOUS
<1>1. TypeOK
  <2>1. <<>> \in Seq(Piece) /\ Len(<<>>) = 0
    BY EmptySeq
  <2>2. received \in Nat /\ echoed \in 0 .. received
    BY DEF Init
  <2>3. torn \in BOOLEAN /\ failed \in BOOLEAN
    BY DEF Init
  <2> QED BY <2>1, <2>2, <2>3 DEF Init, TypeOK
<1>2. FileInv /\ HandedInOrder /\ LoopInv /\ EchoedHanded
  BY DEF Init, FileInv, FileIsPrefix, HandedInOrder, LoopInv, EndsWith, EchoedHanded
<1> QED BY <1>1, <1>2 DEF RecordInv

LEMMA Lengths ==
  ASSUME TypeOK
  PROVE  /\ Len(handed) \in Nat /\ Len(file) \in Nat
         /\ received \in Nat /\ echoed \in Nat /\ echoed <= received
         /\ \A i \in 1 .. Len(handed) : handed[i] \in Piece
BY LenProperties DEF TypeOK

(* What a step that hands nothing over keeps.                              *)
LEMMA QuietRecordInv ==
  ASSUME RecordInv, UNCHANGED <<received, echoed, handed>>
  PROVE  HandedInOrder' /\ EchoedHanded'
BY DEF RecordInv, HandedInOrder, EchoedHanded

LEMMA ReceiveRecordInv == RecordInv /\ Receive => RecordInv'
<1> SUFFICES ASSUME RecordInv, Receive PROVE RecordInv'
  OBVIOUS
<1> USE Lengths DEF RecordInv
<1>1. TypeOK'
  BY DEF Receive, Leave, fileVars, TypeOK
<1>2. FileInv'
  BY DEF Receive, Leave, fileVars, FileInv, FileIsPrefix
<1>3. LoopInv'
  BY DEF Receive, Leave, fileVars, LoopInv, EndsWith
<1>4. HandedInOrder' /\ EchoedHanded'
  BY DEF Receive, fileVars, HandedInOrder, EchoedHanded
<1> QED BY <1>1, <1>2, <1>3, <1>4

LEMMA LeavingRecordInv == RecordInv /\ (InputEnds \/ SeeError \/ Exit) => RecordInv'
<1> SUFFICES ASSUME RecordInv, InputEnds \/ SeeError \/ Exit PROVE RecordInv'
  OBVIOUS
<1> USE Lengths DEF RecordInv
<1>1. TypeOK'
  BY DEF InputEnds, SeeError, Exit, Leave, fileVars, TypeOK
<1>2. FileInv'
  BY DEF InputEnds, SeeError, Exit, Leave, fileVars, FileInv, FileIsPrefix
<1>3. LoopInv'
  BY DEF InputEnds, SeeError, Exit, Leave, fileVars, LoopInv, EndsWith
<1>4. HandedInOrder' /\ EchoedHanded'
  BY QuietRecordInv DEF InputEnds, SeeError, Exit, fileVars
<1> QED BY <1>1, <1>2, <1>3, <1>4

LEMMA HandPieceRecordInv ==
  ASSUME RecordInv, NEW last \in BOOLEAN, HandPiece(last)
  PROVE  RecordInv'
<1> USE DEF RecordInv
<1> DEFINE piece == [frame |-> received, last |-> last]
<1>1. /\ Len(handed) \in Nat /\ Len(file) \in Nat
      /\ received \in Nat /\ echoed \in Nat
      /\ received = echoed + 1
      /\ piece \in Piece
  BY Lengths DEF HandPiece, LoopInv, Piece
<1>2. /\ handed' = Append(handed, piece)
      /\ handed' \in Seq(Piece)
      /\ Len(handed') = Len(handed) + 1
      /\ \A i \in 1 .. Len(handed) : handed'[i] = handed[i]
      /\ handed'[Len(handed) + 1] = piece
  BY <1>1, AppendProperties DEF HandPiece, TypeOK
<1>3. TypeOK'
  <2>1. writing' \in Seq(Piece) /\ Len(writing') \in {0, 1}
    BY <1>1 DEF HandPiece
  <2> QED BY <1>2, <2>1 DEF HandPiece, AfterPiece, TypeOK
<1>4. FileInv'
  <2>1. Len(handed) = Len(file) /\ writing' = <<piece>> /\ writing'[1] = piece
    BY DEF HandPiece, FileReady, FileInv
  <2>2. FileIsPrefix'
    <3>1. ~ torn
      BY <1>1, <2>1 DEF FileInv, FileIsPrefix
    <3> QED BY <1>1, <1>2, <2>1, <3>1 DEF HandPiece, FileInv, FileIsPrefix
  <2>3. pc' \notin {"exited", "killed"} /\ ~ failed' /\ writing' # <<>>
    BY <2>1 DEF HandPiece, FileReady, AfterPiece
  <2>4. Len(handed') = Len(file') + 1 /\ writing'[1] = handed'[Len(handed')] /\ ~ torn'
    BY <1>1, <1>2, <2>1 DEF HandPiece, FileInv, FileIsPrefix
  <2> QED BY <2>2, <2>3, <2>4 DEF FileInv
<1>5. HandedInOrder'
  <2> SUFFICES ASSUME NEW i \in 1 .. Len(handed')
               PROVE  IF i = 1
                        THEN handed'[i].frame = 1
                        ELSE handed'[i].frame = IF handed'[i - 1].last
                                                  THEN handed'[i - 1].frame + 1
                                                  ELSE handed'[i - 1].frame
    BY DEF HandedInOrder
  <2>1. CASE i \in 1 .. Len(handed)
    <3>1. i # 1 => i - 1 \in 1 .. Len(handed)
      BY <1>1, <2>1
    <3>2. handed'[i] = handed[i] /\ (i # 1 => handed'[i - 1] = handed[i - 1])
      BY <1>2, <2>1, <3>1
    <3> QED BY <2>1, <3>2 DEF HandedInOrder
  <2>2. CASE i = Len(handed) + 1
    <3>1. handed'[i].frame = received
      BY <1>2, <2>2
    <3>2. CASE Len(handed) = 0
      BY <1>1, <2>2, <3>1, <3>2 DEF HandPiece, LoopInv, EndsWith
    <3>3. CASE Len(handed) # 0
      <4>1. handed'[i - 1] = handed[Len(handed)] /\ i # 1
        BY <1>1, <1>2, <2>2, <3>3
      <4>2. \/ handed[Len(handed)] = [frame |-> echoed, last |-> TRUE]
            \/ handed[Len(handed)] = [frame |-> received, last |-> FALSE]
        BY <1>1, <3>3 DEF HandPiece, LoopInv, EndsWith
      <4> QED BY <1>1, <3>1, <4>1, <4>2
    <3> QED BY <3>2, <3>3
  <2> QED BY <1>1, <1>2, <2>1, <2>2
<1>6. LoopInv'
  <2>1. received' = received /\ echoed' = echoed /\ result' = result
        /\ pc = "writing" /\ pc' = AfterPiece(last)
    BY DEF HandPiece
  <2>2. Len(handed') > 0 /\ handed'[Len(handed')] = piece /\ received # 0
    BY <1>1, <1>2
  <2>3. CASE last
    BY <1>1, <2>1, <2>2, <2>3 DEF LoopInv, EndsWith, AfterPiece
  <2>4. CASE ~ last
    <3>1. piece = [frame |-> received, last |-> FALSE]
      BY <2>4
    <3> QED BY <1>1, <2>1, <2>2, <2>4, <3>1 DEF LoopInv, AfterPiece
  <2> QED BY <2>3, <2>4
<1>7. EchoedHanded'
  BY <1>1, <1>2 DEF HandPiece, EchoedHanded
<1> QED BY <1>3, <1>4, <1>5, <1>6, <1>7

LEMMA EchoRecordInv == RecordInv /\ Echo => RecordInv'
<1> SUFFICES ASSUME RecordInv, Echo PROVE RecordInv'
  OBVIOUS
<1> USE DEF RecordInv
<1>1. /\ Len(handed) \in Nat /\ received \in Nat /\ echoed \in Nat
      /\ received = echoed + 1 /\ Len(handed) > 0
      /\ handed[Len(handed)] = [frame |-> received, last |-> TRUE]
  BY Lengths DEF Echo, LoopInv, EndsWith
<1>2. TypeOK'
  BY <1>1 DEF Echo, Leave, fileVars, TypeOK
<1>3. FileInv'
  BY DEF Echo, Leave, fileVars, FileInv, FileIsPrefix
<1>4. LoopInv'
  BY <1>1 DEF Echo, Leave, fileVars, LoopInv, EndsWith
<1>5. HandedInOrder'
  BY DEF Echo, fileVars, HandedInOrder
<1>6. EchoedHanded'
  <2>1. CASE echoed' = echoed
    BY <2>1 DEF Echo, fileVars, EchoedHanded
  <2>2. CASE echoed' = received
    <3> SUFFICES ASSUME NEW n \in 1 .. received
                 PROVE  \E i \in 1 .. Len(handed) :
                          /\ handed[i] = [frame |-> n, last |-> TRUE]
                          /\ n # received => i < Len(handed)
      BY <2>2 DEF Echo, fileVars, EchoedHanded
    <3>1. CASE n = received
      BY <1>1, <3>1
    <3>2. CASE n # received
      <4>1. n \in 1 .. echoed
        BY <1>1, <3>2
      <4>2. PICK i \in 1 .. Len(handed) : handed[i] = [frame |-> n, last |-> TRUE]
        BY <4>1 DEF EchoedHanded
      <4>3. i # Len(handed)
        BY <1>1, <3>2, <4>2
      <4> QED BY <1>1, <4>2, <4>3
    <3> QED BY <3>1, <3>2
  <2> QED BY <2>1, <2>2 DEF Echo
<1> QED BY <1>2, <1>3, <1>4, <1>5, <1>6

(* A piece that reaches the file is the one that was missing there.        *)
LEMMA Landing ==
  ASSUME RecordInv, writing # <<>>, file' = file \o writing, UNCHANGED handed
  PROVE  /\ file' \in Seq(Piece)
         /\ Len(file') = Len(file) + 1
         /\ Len(handed') = Len(file')
         /\ \A i \in 1 .. Len(file') : file'[i] = handed'[i]
<1> USE DEF RecordInv
<1>1. /\ Len(handed) \in Nat /\ Len(file) \in Nat
      /\ file \in Seq(Piece)
      /\ writing \in Seq(Piece) /\ Len(writing) = 1
  <2>1. writing \in Seq(Piece) /\ Len(writing) \in {0, 1}
    BY DEF TypeOK
  <2>2. Len(writing) = 1
    <3>1. Len(writing) \in Nat /\ Len(writing) # 0
      BY <2>1, EmptySeq
    <3> QED BY <2>1, <3>1
  <2>3. Len(handed) \in Nat /\ Len(file) \in Nat /\ file \in Seq(Piece)
    BY Lengths DEF TypeOK
  <2> HIDE DEF RecordInv
  <2> QED BY <2>1, <2>2, <2>3
<1>2. /\ file' \in Seq(Piece)
      /\ Len(file') = Len(file) + 1
      /\ \A i \in 1 .. Len(file) : file'[i] = file[i]
      /\ file'[Len(file) + 1] = writing[1]
  <2>1. /\ file' \in Seq(Piece)
        /\ Len(file') = Len(file) + Len(writing)
        /\ \A i \in 1 .. Len(file) + Len(writing) :
             file'[i] = IF i <= Len(file) THEN file[i] ELSE writing[i - Len(file)]
    BY <1>1, ConcatProperties
  <2> QED BY <1>1, <2>1
<1>3. Len(handed) = Len(file) + 1 /\ writing[1] = handed[Len(handed)]
  BY DEF FileInv
<1>4. \A i \in 1 .. Len(file') : file'[i] = handed'[i]
  <2> SUFFICES ASSUME NEW i \in 1 .. Len(file') PROVE file'[i] = handed[i]
    OBVIOUS
  <2>1. i \in 1 .. Len(file) \/ i = Len(file) + 1
    BY <1>1, <1>2
  <2> QED BY <1>1, <1>2, <1>3, <2>1 DEF FileInv, FileIsPrefix
<1> QED BY <1>2, <1>3, <1>4

LEMMA WriterRecordInv == RecordInv /\ (Land \/ LandFails \/ Kill) => RecordInv'
<1> SUFFICES ASSUME RecordInv, Land \/ LandFails \/ Kill PROVE RecordInv'
  OBVIOUS
<1> USE DEF RecordInv
<1>1. UNCHANGED <<received, echoed, handed, result>>
  BY DEF Land, LandFails, Kill
<1>2. HandedInOrder' /\ EchoedHanded'
  BY <1>1, QuietRecordInv
<1>3. LoopInv'
  BY <1>1 DEF Land, LandFails, Kill, LoopInv, EndsWith
<1>4. /\ Len(handed) \in Nat /\ Len(file) \in Nat /\ file \in Seq(Piece)
      /\ writing' = <<>> /\ pc' \in {pc, "killed"}
  BY Lengths DEF Land, LandFails, Kill, TypeOK
<1>5. CASE writing # <<>> /\ file' = file \o writing
  <2>1. ~ failed /\ ~ torn
    BY <1>5 DEF FileInv
  <2>2. file' # file
    BY <1>4, <1>5, Landing
  <2>3. ~ failed' /\ ~ torn'
    BY <1>5, <2>1, <2>2 DEF Land, LandFails, Kill
  <2>4. TypeOK'
    BY <1>1, <1>4, <1>5, <2>3, Landing, EmptySeq DEF Land, LandFails, Kill, TypeOK
  <2>5. FileInv'
    BY <1>1, <1>4, <1>5, <2>3, Landing DEF FileInv, FileIsPrefix
  <2> QED BY <1>2, <1>3, <2>4, <2>5
<1>6. CASE writing # <<>> /\ file' = file
  <2>1. /\ Len(handed) = Len(file) + 1
        /\ torn' \in BOOLEAN
        /\ failed' \/ pc' = "killed"
    <3>1. ~ Land
      BY <1>4, <1>6, Landing DEF Land
    <3>2. LandFails \/ Kill
      BY <3>1
    <3> QED BY <1>6, <3>2 DEF LandFails, Kill, FileInv, TypeOK
  <2>2. TypeOK'
    <3>1. writing' \in Seq(Piece) /\ Len(writing') \in {0, 1}
      BY <1>4, EmptySeq
    <3>2. failed' \in BOOLEAN
      BY DEF LandFails, Land, Kill, TypeOK
    <3> QED BY <1>1, <1>4, <1>6, <2>1, <3>1, <3>2 DEF TypeOK
  <2>3. FileInv'
    BY <1>1, <1>4, <1>6, <2>1 DEF FileInv, FileIsPrefix
  <2> QED BY <1>2, <1>3, <2>2, <2>3
<1>7. CASE writing = <<>>
  <2>1. Kill /\ file' = file /\ torn' = torn /\ failed' = failed /\ pc' = "killed"
    BY <1>4, <1>7, ConcatEmptySeq DEF Land, LandFails, Kill
  <2>2. TypeOK'
    BY <1>1, <1>4, <2>1 DEF TypeOK
  <2>3. FileInv'
    BY <1>1, <1>4, <1>7, <2>1 DEF FileInv, FileIsPrefix
  <2> QED BY <1>2, <1>3, <2>2, <2>3
<1>8. writing = <<>> \/ file' = file \/ file' = file \o writing
  BY DEF Land, LandFails, Kill
<1> QED BY <1>5, <1>6, <1>7, <1>8

LEMMA NextRecordInv == RecordInv /\ [Next]_vars => RecordInv'
<1> SUFFICES ASSUME RecordInv, [Next]_vars PROVE RecordInv'
  OBVIOUS
<1>1. CASE UNCHANGED vars
  BY <1>1 DEF vars, RecordInv, TypeOK, FileInv, FileIsPrefix, HandedInOrder, LoopInv,
              EndsWith, EchoedHanded
<1>2. CASE Receive
  BY <1>2, ReceiveRecordInv
<1>3. CASE InputEnds \/ SeeError \/ Exit
  BY <1>3, LeavingRecordInv
<1>4. CASE \E last \in BOOLEAN : HandPiece(last)
  BY <1>4, HandPieceRecordInv
<1>5. CASE Echo
  BY <1>5, EchoRecordInv
<1>6. CASE Land \/ LandFails \/ Kill
  BY <1>6, WriterRecordInv
<1> QED BY <1>1, <1>2, <1>3, <1>4, <1>5, <1>6 DEF Next, Step

(* The invariant of record, for every number of frames and pieces.         *)
THEOREM RecordInvariant == Spec => []RecordInv
BY InitRecordInv, NextRecordInv, PTL DEF Spec
-----------------------------------------------------------------------------
(* The state stays well typed, and no frame is echoed that did not come.   *)
THEOREM RecordTypeCorrect == Spec => []TypeOK
<1>1. RecordInv => TypeOK
  BY DEF RecordInv
<1> QED BY <1>1, RecordInvariant, PTL

(* At any moment, dead or alive, the file is the records handed over but   *)
(* for at most one piece at the end: whole, and in the order of frames.    *)
THEOREM FileIsReplayableHolds == Spec => []FileIsReplayable
<1>1. RecordInv => RecordsInOrder
  <2> SUFFICES ASSUME RecordInv, NEW i \in 1 .. Len(file)
               PROVE  IF i = 1
                        THEN file[i].frame = 1
                        ELSE file[i].frame = IF file[i - 1].last
                                               THEN file[i - 1].frame + 1
                                               ELSE file[i - 1].frame
    BY DEF RecordsInOrder
  <2>1. /\ Len(file) \in Nat /\ Len(handed) \in Nat /\ Len(file) <= Len(handed)
        /\ \A j \in 1 .. Len(file) : file[j] = handed[j]
    BY Lengths DEF RecordInv, FileInv, FileIsPrefix
  <2>2. i \in 1 .. Len(handed) /\ (i # 1 => i - 1 \in 1 .. Len(file))
    BY <2>1
  <2>3. file[i] = handed[i] /\ (i # 1 => file[i - 1] = handed[i - 1])
    BY <2>1, <2>2
  <2> QED BY <2>2, <2>3 DEF RecordInv, HandedInOrder
<1>2. RecordInv => FileIsReplayable
  BY <1>1 DEF RecordInv, FileInv, FileIsReplayable
<1> QED BY <1>2, RecordInvariant, PTL

(* At any moment, dead or alive, at most the last frame echoed is missing  *)
(* from the file.                                                          *)
THEOREM EchoedIsRecordedHolds == Spec => []EchoedIsRecorded
<1>1. RecordInv => EchoedIsRecorded
  <2> SUFFICES ASSUME RecordInv, NEW n \in 1 .. echoed, n # echoed PROVE Recorded(n)
    BY DEF EchoedIsRecorded
  <2>1. PICK i \in 1 .. Len(handed) :
          handed[i] = [frame |-> n, last |-> TRUE] /\ i < Len(handed)
    BY DEF RecordInv, EchoedHanded
  <2>2. i \in 1 .. Len(file) /\ file[i] = handed[i]
    BY <2>1, Lengths DEF RecordInv, FileInv, FileIsPrefix
  <2> QED BY <2>1, <2>2 DEF Recorded
<1> QED BY <1>1, RecordInvariant, PTL

(* A clean exit leaves every frame in the file, unless the very last write *)
(* failed.                                                                 *)
THEOREM CleanExitIsCompleteHolds == Spec => []CleanExitIsComplete
<1>1. RecordInv => CleanExitIsComplete
  <2> SUFFICES ASSUME RecordInv, pc = "exited", result = "ok", NEW n \in 1 .. received
               PROVE  Recorded(n) \/ (failed /\ n = received)
    BY DEF CleanExitIsComplete
  <2>1. echoed = received /\ writing = <<>>
    BY DEF RecordInv, LoopInv, FileInv
  <2>2. PICK i \in 1 .. Len(handed) :
          handed[i] = [frame |-> n, last |-> TRUE] /\ (n # echoed => i < Len(handed))
    BY <2>1 DEF RecordInv, EchoedHanded
  <2>3. CASE failed
    <3>1. n # received => i \in 1 .. Len(file) /\ file[i] = handed[i]
      BY <2>1, <2>2, Lengths DEF RecordInv, FileInv, FileIsPrefix
    <3> QED BY <2>2, <2>3, <3>1 DEF Recorded
  <2>4. CASE ~ failed
    <3>1. i \in 1 .. Len(file) /\ file[i] = handed[i]
      BY <2>1, <2>2, <2>4, Lengths DEF RecordInv, FileInv, FileIsPrefix
    <3> QED BY <2>2, <3>1 DEF Recorded
  <2> QED BY <2>3, <2>4
<1> QED BY <1>1, RecordInvariant, PTL
-----------------------------------------------------------------------------
(* replay                                                                  *)

USE DumpsAssumption, TimesAssumption

(* Where the program stands in the file.                                   *)
PlaceInv ==
  /\ next <= Len(dump) + 1
  /\ outcome = "ok" => next > Len(dump) \/ dump[next].quality = "unreadable"
  /\ phase # "ended" => outcome = "none"
  /\ Len(origin) \in {0, 1}
  /\ phase = "reading" => (origin = <<>> <=> next = 1)
  /\ sent # <<>> => Len(origin) = 1
  /\ phase \in {"sleeping", "sending"} => next <= Len(dump) /\ Len(origin) = 1

(* The record being read, slept for or sent is on time so far: what it is  *)
(* late is what `waited` counts.                                           *)
OnTime ==
  /\ phase = "reading" /\ next # 1 => now = sent[next - 1] + waited[next]
  /\ phase \in {"sleeping", "sending"} =>
       /\ wake \in Earliest(next) .. Earliest(next) + waited[next]
       /\ now <= Earliest(next) + waited[next]
  /\ phase = "sending" => wake <= now

ReplayInv == ReplayTypeOK /\ PlaceInv /\ OnTime /\ PaceIsKept
-----------------------------------------------------------------------------
(* The types of what a state holds, element by element.                    *)
LEMMA ReplayTypes ==
  ASSUME ReplayTypeOK
  PROVE  /\ Len(dump) \in Nat /\ Len(origin) \in Nat
         /\ now \in Nat /\ wake \in Nat /\ next \in Nat \ {0}
         /\ Len(sent) = next - 1 /\ Len(waited) = next
         /\ \A n \in 1 .. Len(dump) : dump[n].stamp \in Nat
         /\ \A n \in 1 .. Len(sent) : sent[n] \in Nat
         /\ \A n \in 1 .. Len(waited) : waited[n] \in Nat
         /\ \A n \in 1 .. Len(origin) : origin[n] \in Nat
<1>1. dump \in Seq(Record)
  BY DEF ReplayTypeOK
<1>2. Len(dump) \in Nat /\ \A n \in 1 .. Len(dump) : dump[n] \in Record
  BY <1>1, LenProperties
<1>3. /\ Len(origin) \in Nat
      /\ \A n \in 1 .. Len(sent) : sent[n] \in Nat
      /\ \A n \in 1 .. Len(waited) : waited[n] \in Nat
      /\ \A n \in 1 .. Len(origin) : origin[n] \in Nat
  BY LenProperties DEF ReplayTypeOK
<1> QED BY <1>2, <1>3 DEF ReplayTypeOK, Record

LEMMA DueIsInt ==
  ASSUME ReplayTypeOK, Len(origin) = 1, NEW n \in 1 .. Len(dump)
  PROVE  Due(n) \in Int
<1>1. 1 \in 1 .. Len(dump) /\ 1 \in 1 .. Len(origin)
  BY ReplayTypes
<1>2. dump[n].stamp \in Nat /\ dump[1].stamp \in Nat /\ origin[1] \in Nat
  BY <1>1, ReplayTypes
<1> QED BY <1>2 DEF Due

LEMMA EarliestIsInt ==
  ASSUME ReplayTypeOK, Len(origin) = 1, NEW n \in 1 .. Len(dump), n <= Len(sent) + 1
  PROVE  Earliest(n) \in Int
<1>1. Due(n) \in Int
  BY DueIsInt
<1>2. CASE n = 1
  BY <1>2, ReplayTypes DEF Earliest
<1>3. CASE n # 1
  <2>1. n - 1 \in 1 .. Len(sent)
    BY <1>3, ReplayTypes
  <2>2. sent[n - 1] \in Nat
    BY <2>1, ReplayTypes
  <2> QED BY <1>1, <1>3, <2>2 DEF Earliest, Later
<1> QED BY <1>2, <1>3

LEMMA InitReplayInv == ReplayInit => ReplayInv
<1> SUFFICES ASSUME ReplayInit PROVE ReplayInv
  OBVIOUS
<1>1. ReplayTypeOK
  <2>1. <<>> \in Seq(Nat) /\ Len(<<>>) = 0
    BY EmptySeq
  <2>2. <<0>> \in Seq(Nat) /\ Len(<<0>>) = 1
    OBVIOUS
  <2> QED BY <2>1, <2>2 DEF ReplayInit, ReplayTypeOK
<1>2. PlaceInv /\ OnTime /\ PaceIsKept
  BY <1>1, ReplayTypes DEF ReplayInit, PlaceInv, OnTime, PaceIsKept
<1> QED BY <1>1, <1>2 DEF ReplayInv

(* The steps that end the program.                                         *)
LEMMA LeavingReplayInv ==
  ReplayInv /\ (ReadEnd \/ ReadGarbled \/ ReadFuture) => ReplayInv'
<1> SUFFICES ASSUME ReplayInv, ReadEnd \/ ReadGarbled \/ ReadFuture PROVE ReplayInv'
  OBVIOUS
<1> USE DEF ReplayInv, ReadEnd, ReadGarbled, ReadFuture, LeaveReplay
<1>1. ReplayTypeOK'
  BY DEF ReplayTypeOK
<1>2. PlaceInv'
  BY ReplayTypes DEF PlaceInv
<1>3. OnTime' /\ PaceIsKept'
  BY DEF OnTime, PaceIsKept, Earliest, Due
<1> QED BY <1>1, <1>2, <1>3

LEMMA ReadReplayInv == ReplayInv /\ Read => ReplayInv'
<1> SUFFICES ASSUME ReplayInv, Read PROVE ReplayInv'
  OBVIOUS
<1> USE DEF ReplayInv
<1>1. /\ next \in 1 .. Len(dump)
      /\ UNCHANGED <<dump, now, next, sent, waited, outcome>>
      /\ phase = "reading" /\ phase' = "sleeping"
      /\ wake' = Later(now, dump[next].stamp + Offset(next))
  BY ReplayTypes DEF Read
<1>2. /\ origin' \in Seq(Nat) /\ Len(origin') = 1
      /\ origin # <<>> => origin' = origin
      /\ next = 1 <=> origin = <<>>
  BY ReplayTypes, EmptySeq DEF Read, ReplayTypeOK, PlaceInv
<1>3. next = 1 => origin'[1] = now
  BY <1>2 DEF Read
<1>4. /\ now \in Nat /\ dump[next].stamp \in Nat /\ dump[1].stamp \in Nat
      /\ origin'[1] \in Nat
  <2>1. origin' \in [1 .. 1 -> Nat]
    BY <1>2, LenProperties
  <2> QED BY <1>1, <2>1, ReplayTypes
<1>5. Offset(next) = origin'[1] - dump[1].stamp
  BY <1>1, <1>2, <1>3 DEF Offset
<1>6. Due(next)' = dump[next].stamp + Offset(next) /\ Due(next)' \in Int
  BY <1>1, <1>4, <1>5 DEF Due
<1>7. wake' = Later(now, Due(next)')
  BY <1>1, <1>6
<1>8. ReplayTypeOK'
  BY <1>1, <1>2, <1>4, <1>6, <1>7 DEF ReplayTypeOK, Later
<1>9. PlaceInv'
  BY <1>1, <1>2, ReplayTypes DEF PlaceInv
<1>10. OnTime'
  <2>1. waited[next] \in Nat
    <3>1. next \in 1 .. Len(waited)
      BY ReplayTypes
    <3> QED BY <3>1, ReplayTypes, Zenon
  <2>2. CASE next = 1
    <3>1. Earliest(next)' = now /\ wake' = now
      BY <1>1, <1>3, <1>4, <1>5, <1>6, <1>7, <2>2 DEF Earliest, Later
    <3> QED BY <1>1, <1>4, <2>1, <2>2, <3>1 DEF OnTime
  <2>3. CASE next # 1
    <3>1. sent[next - 1] \in Nat /\ now = sent[next - 1] + waited[next]
      BY <1>1, <2>3, ReplayTypes DEF OnTime
    <3>2. Earliest(next)' = Later(Due(next)', sent[next - 1])
      BY <1>1, <2>3 DEF Earliest
    <3>3. /\ wake' \in Earliest(next)' .. Earliest(next)' + waited[next]
          /\ now <= Earliest(next)' + waited[next]
      BY <1>4, <1>6, <1>7, <2>1, <3>1, <3>2 DEF Later
    <3> QED BY <1>1, <3>3 DEF OnTime
  <2> QED BY <2>2, <2>3
<1>11. PaceIsKept'
  <2>1. CASE origin = <<>>
    BY <1>1, <1>2, <2>1, ReplayTypes DEF PaceIsKept
  <2>2. CASE origin # <<>>
    BY <1>1, <1>2, <2>2 DEF PaceIsKept, Earliest, Due
  <2> QED BY <2>1, <2>2
<1> QED BY <1>8, <1>9, <1>10, <1>11

LEMMA AwakeReplayInv == ReplayInv /\ Awake => ReplayInv'
<1> SUFFICES ASSUME ReplayInv, Awake PROVE ReplayInv'
  OBVIOUS
<1> USE DEF ReplayInv, Awake
<1>1. ReplayTypeOK' /\ PlaceInv'
  BY DEF ReplayTypeOK, PlaceInv
<1>2. OnTime'
  BY ReplayTypes DEF OnTime, Earliest, Due
<1>3. PaceIsKept'
  BY DEF PaceIsKept, Earliest, Due
<1> QED BY <1>1, <1>2, <1>3

LEMMA SendReplayInv == ReplayInv /\ Send => ReplayInv'
<1> SUFFICES ASSUME ReplayInv, Send PROVE ReplayInv'
  OBVIOUS
<1> USE DEF ReplayInv
<1>1. /\ phase = "sending" /\ next \in 1 .. Len(dump) /\ Len(origin) = 1
      /\ UNCHANGED <<dump, now, origin, wake>>
  BY ReplayTypes DEF Send, PlaceInv
<1>2. CASE LeaveReplay("err") /\ UNCHANGED <<next, sent, waited>>
  <2>1. ReplayTypeOK' /\ PlaceInv'
    BY <1>1, <1>2 DEF LeaveReplay, ReplayTypeOK, PlaceInv
  <2>2. OnTime' /\ PaceIsKept'
    BY <1>1, <1>2 DEF LeaveReplay, OnTime, PaceIsKept, Earliest, Due
  <2> QED BY <2>1, <2>2
<1>3. CASE /\ sent' = Append(sent, now)
           /\ waited' = Append(waited, 0)
           /\ next' = next + 1
           /\ phase' = "reading"
           /\ UNCHANGED outcome
  <2>1. /\ sent' \in Seq(Nat) /\ Len(sent') = next
        /\ \A n \in 1 .. next - 1 : sent'[n] = sent[n]
        /\ sent'[next] = now
    BY SMTT(30), <1>3, ReplayTypes, AppendProperties DEF ReplayTypeOK
  <2>2. /\ waited' \in Seq(Nat) /\ Len(waited') = next + 1
        /\ \A n \in 1 .. next : waited'[n] = waited[n]
        /\ waited'[next + 1] = 0
    BY <1>3, ReplayTypes, AppendProperties DEF ReplayTypeOK
  <2>3. ReplayTypeOK'
    BY <1>1, <1>3, <2>1, <2>2, ReplayTypes DEF ReplayTypeOK
  <2>4. PlaceInv'
    <3>1. origin # <<>> /\ next' # 1
      <4>1. Len(<<>>) = 0
        BY EmptySeq
      <4>2. next' # 1
        BY <1>1, <1>3
      <4> QED BY <1>1, <4>1, <4>2
    <3>2. next' <= Len(dump) + 1 /\ outcome' = "none"
      BY <1>1, <1>3, ReplayTypes DEF PlaceInv
    <3> QED BY <1>1, <1>3, <3>1, <3>2 DEF PlaceInv
  <2>5. OnTime'
    BY <1>1, <1>3, <2>1, <2>2, ReplayTypes DEF OnTime
  <2>6. \A n \in 1 .. next : Earliest(n)' = Earliest(n)
    BY <1>1, <1>3, <2>1, ReplayTypes DEF Earliest, Due
  <2>7. PaceIsKept'
    <3> SUFFICES ASSUME NEW n \in 1 .. next
                 PROVE  sent'[n] \in Earliest(n) .. Earliest(n) + waited[n]
      BY <2>1, <2>2, <2>6, ReplayTypes DEF PaceIsKept
    <3>1. CASE n = next
      <4>1. Earliest(n) \in Int
        BY <1>1, <3>1, EarliestIsInt, ReplayTypes
      <4>2. now \in Earliest(n) .. Earliest(n) + waited[n]
        BY <1>1, <3>1, <4>1, ReplayTypes DEF OnTime
      <4> QED BY <2>1, <3>1, <4>2
    <3>2. CASE n # next
      <4>1. n \in 1 .. Len(sent) /\ sent'[n] = sent[n]
        BY SMTT(30), <2>1, <3>2, ReplayTypes
      <4> QED BY <4>1 DEF PaceIsKept
    <3> QED BY <3>1, <3>2
  <2> QED BY <2>3, <2>4, <2>5, <2>7
<1> QED BY <1>2, <1>3 DEF Send

LEMMA TickReplayInv == ReplayInv /\ Tick => ReplayInv'
<1> SUFFICES ASSUME ReplayInv, Tick PROVE ReplayInv'
  OBVIOUS
<1> USE DEF ReplayInv
<1>1. /\ UNCHANGED <<dump, next, origin, wake, sent, phase, outcome>>
      /\ now' = now + 1
      /\ phase # "ended"
  BY DEF Tick
<1>2. /\ next \in 1 .. Len(waited) /\ waited[next] \in Nat
      /\ waited' \in Seq(Nat) /\ Len(waited') = Len(waited)
      /\ \A n \in 1 .. Len(waited) : n # next => waited'[n] = waited[n]
      /\ waited'[next] = IF Asleep THEN waited[next] ELSE waited[next] + 1
  <2>1. next \in 1 .. Len(waited) /\ waited[next] \in Nat /\ waited \in Seq(Nat)
    BY ReplayTypes DEF ReplayTypeOK
  <2> DEFINE w == IF Asleep THEN waited[next] ELSE waited[next] + 1
  <2>2. w \in Nat /\ waited' = [waited EXCEPT ![next] = w]
    BY <2>1 DEF Tick
  <2> HIDE DEF w
  <2>3. /\ waited' \in Seq(Nat) /\ Len(waited') = Len(waited)
        /\ \A n \in 1 .. Len(waited) : waited'[n] = IF n = next THEN w ELSE waited[n]
    BY <2>1, <2>2, ExceptSeq
  <2> QED BY <2>1, <2>3 DEF w
<1>3. ReplayTypeOK'
  BY <1>1, <1>2, ReplayTypes DEF ReplayTypeOK
<1>4. PlaceInv'
  BY <1>1 DEF PlaceInv
<1>5. \A n \in 1 .. Len(dump) : Earliest(n)' = Earliest(n)
  BY <1>1 DEF Earliest, Due
<1>6. OnTime'
  <2>1. CASE phase = "reading"
    <3>1. ~ Asleep
      BY <2>1 DEF Asleep
    <3>2. next # 1 => sent[next - 1] \in Nat
      BY ReplayTypes
    <3> QED BY SMTT(30), <1>1, <1>2, <2>1, <3>1, <3>2, ReplayTypes DEF OnTime
  <2>2. CASE phase \in {"sleeping", "sending"}
    <3>1. next \in 1 .. Len(dump) /\ Earliest(next) \in Int
      BY <2>2, ReplayTypes, EarliestIsInt DEF PlaceInv
    <3>2. /\ Earliest(next)' = Earliest(next) /\ next' = next
          /\ wake \in Earliest(next) .. Earliest(next) + waited[next]
          /\ now <= Earliest(next) + waited[next]
      BY <1>1, <1>5, <2>2, <3>1 DEF OnTime
    <3>3. /\ now \in Nat /\ wake \in Nat /\ waited[next] \in Nat
          /\ waited'[next] = IF Asleep THEN waited[next] ELSE waited[next] + 1
          /\ Asleep => phase = "sleeping" /\ now < wake
      BY <1>2, ReplayTypes DEF Asleep
    <3>4. PICK e \in Int : e = Earliest(next)
      BY <3>1
    <3>5. wake \in e .. e + waited[next] /\ now <= e + waited[next]
      BY <3>2, <3>4
    <3>6. wake \in e .. e + waited'[next] /\ now + 1 <= e + waited'[next]
      BY <3>3, <3>5
    <3>7. phase = "sending" => wake <= now + 1
      <4>1. phase = "sending" => wake <= now
        BY DEF OnTime
      <4> QED BY <3>3, <4>1
    <3>8. Earliest(next)' = e /\ phase # "reading"
      BY <2>2, <3>2, <3>4
    <3> QED BY <1>1, <3>6, <3>7, <3>8 DEF OnTime
  <2> QED BY <1>1, <2>1, <2>2 DEF ReplayTypeOK
<1>7. PaceIsKept'
  <2> SUFFICES ASSUME NEW n \in 1 .. Len(sent)
               PROVE  sent[n] \in Earliest(n) .. Earliest(n) + waited'[n]
    BY <1>1 DEF PaceIsKept, Earliest, Due
  <2>1. n \in 1 .. Len(waited) /\ n # next
    BY ReplayTypes
  <2> QED BY <1>2, <2>1 DEF PaceIsKept
<1> QED BY <1>3, <1>4, <1>6, <1>7

LEMMA NextReplayInv == ReplayInv /\ [ReplayNext]_replayVars => ReplayInv'
<1> SUFFICES ASSUME ReplayInv, [ReplayNext]_replayVars PROVE ReplayInv'
  OBVIOUS
<1>1. CASE UNCHANGED replayVars
  BY <1>1 DEF replayVars, ReplayInv, ReplayTypeOK, PlaceInv, OnTime, PaceIsKept, Earliest, Due
<1>2. CASE ReadEnd \/ ReadGarbled \/ ReadFuture
  BY <1>2, LeavingReplayInv
<1>3. CASE Read
  BY <1>3, ReadReplayInv
<1>4. CASE Awake
  BY <1>4, AwakeReplayInv
<1>5. CASE Send
  BY <1>5, SendReplayInv
<1>6. CASE Tick
  BY <1>6, TickReplayInv
<1> QED BY <1>1, <1>2, <1>3, <1>4, <1>5, <1>6 DEF ReplayNext, OwnStep

(* The invariant of replay.                                                *)
THEOREM ReplayInvariant == ReplaySpec => []ReplayInv
BY InitReplayInv, NextReplayInv, PTL DEF ReplaySpec
-----------------------------------------------------------------------------
(* The state stays well typed, with one time for each record replayed.     *)
THEOREM ReplayTypeCorrect == ReplaySpec => []ReplayTypeOK
<1>1. ReplayInv => ReplayTypeOK
  BY DEF ReplayInv
<1> QED BY <1>1, ReplayInvariant, PTL

(* Replay keeps the pace of the recording, for every dump and every delay. *)
THEOREM PaceIsKeptHolds == ReplaySpec => []PaceIsKept
<1>1. ReplayInv => PaceIsKept
  BY DEF ReplayInv
<1> QED BY <1>1, ReplayInvariant, PTL

(* A replay that ends well has sent every record in front of the first     *)
(* unreadable one: it passes over none that could be read, and takes none  *)
(* that is garbled for the end (main.rs:117-120).                          *)
THEOREM CleanExitSentReadableHolds == ReplaySpec => []CleanExitSentReadable
<1>1. ReplayInv => CleanExitSentReadable
  <2> SUFFICES ASSUME ReplayInv, outcome = "ok", NEW n \in 1 .. Len(dump),
                      ~ (n <= Len(sent))
               PROVE  \E i \in 1 .. n : dump[i].quality = "unreadable"
    BY DEF CleanExitSentReadable
  <2>1. next \in 1 .. n
    BY ReplayTypes DEF ReplayInv
  <2>2. dump[next].quality = "unreadable"
    BY <2>1, ReplayTypes DEF ReplayInv, PlaceInv
  <2> QED BY <2>1, <2>2
<1> QED BY <1>1, ReplayInvariant, PTL
=============================================================================
