----------------------------- MODULE DumpRecord -----------------------------
(***************************************************************************)
(* kble-dump record: run_record (kble-dump/src/main.rs) writes each frame  *)
(* to a file and echoes it.                                                *)
(*                                                                         *)
(* tokio's File writes behind: a write_all returns when the bytes are in   *)
(* its buffer and a background thread has been told to write them.  The    *)
(* next write waits for that thread and returns its error if it failed; a  *)
(* record beyond the size of the buffer goes through it in several pieces. *)
(* The runtime lets the thread finish when main has returned, but not when *)
(* the process is killed.  Frames are numbered as they are received.       *)
(***************************************************************************)
EXTENDS Naturals, Sequences

CONSTANTS MaxFrames,         \* bound: frames received
          MaxPieces          \* bound: after so many pieces no record is split

ASSUME BoundsAssumption == MaxFrames \in Nat /\ MaxPieces \in Nat

VARIABLES received,          \* frames taken from rx
          echoed,            \* frames sent on tx
          handed,            \* pieces of records the File has accepted
          writing,           \* the piece the background thread is writing
          file,              \* the pieces in the file
          torn,              \* the file ends in a part of the next piece
          failed,            \* a background write failed
          pc, result

vars == <<received, echoed, handed, writing, file, torn, failed, pc, result>>

Piece == [frame : Nat \ {0}, last : BOOLEAN]

TypeOK ==
  /\ received \in Nat
  /\ echoed \in 0 .. received
  /\ handed \in Seq(Piece)
  /\ writing \in Seq(Piece) /\ Len(writing) \in {0, 1}
  /\ file \in Seq(Piece)
  /\ torn \in BOOLEAN
  /\ failed \in BOOLEAN
  /\ pc \in {"reading", "writing", "echoing", "shutdown", "exited", "killed"}
  /\ result \in {"none", "ok", "err"}

(* The file is new: its name holds the time.                               *)
Init ==
  /\ received = 0
  /\ echoed = 0
  /\ handed = <<>>
  /\ writing = <<>>
  /\ file = <<>>
  /\ torn = FALSE
  /\ failed = FALSE
  /\ pc = "reading"
  /\ result = "none"

fileVars == <<handed, writing, file, torn, failed>>

(* run_record returns, and main with it.                                   *)
Leave(r) == pc' = "shutdown" /\ result' = r
-----------------------------------------------------------------------------
(* rx.next() yields a frame; it becomes a record unless the clock is set   *)
(* before 1970.                                                            *)
Receive ==
  /\ pc = "reading"
  /\ received < MaxFrames
  /\ received' = received + 1
  /\ \/ pc' = "writing" /\ UNCHANGED result
     \/ Leave("err")
  /\ UNCHANGED <<echoed, fileVars>>

(* ... the end of the stream, or an error reading it.                      *)
InputEnds ==
  /\ pc = "reading"
  /\ Leave("ok") \/ Leave("err")
  /\ UNCHANGED <<received, echoed, fileVars>>

(* file.write_all(&bin): the File takes a piece, once it is done with the  *)
(* one before.                                                             *)
ShortWrite(last) == "echoing"                            \* mutant of AfterPiece

AfterPiece(last) == IF last THEN "echoing" ELSE "writing"

FileReady == writing = <<>> /\ ~ failed

HandPiece(last) ==
  /\ pc = "writing"
  /\ FileReady
  /\ last \/ Len(handed) < MaxPieces
  /\ handed' = Append(handed, [frame |-> received, last |-> last])
  /\ writing' = <<[frame |-> received, last |-> last]>>
  /\ pc' = AfterPiece(last)
  /\ UNCHANGED <<received, echoed, file, torn, failed, result>>

(* ... or returns the error of the write before.                           *)
IgnoreError ==                                           \* mutant of SeeError
  /\ pc = "writing"
  /\ failed
  /\ failed' = FALSE
  /\ UNCHANGED <<received, echoed, handed, writing, file, torn, pc, result>>

SeeError ==
  /\ pc = "writing"
  /\ failed
  /\ Leave("err")
  /\ UNCHANGED <<received, echoed, fileVars>>

(* tx.send(data): an error ends the program.                               *)
Echo ==
  /\ pc = "echoing"
  /\ \/ /\ echoed' = received
        /\ pc' = "reading"
        /\ UNCHANGED result
     \/ Leave("err") /\ UNCHANGED echoed
  /\ UNCHANGED <<received, fileVars>>

(* The runtime shuts down: it waits for the background thread.             *)
ExitAtOnce ==                                            \* mutant of Exit
  /\ pc = "shutdown"
  /\ pc' = "exited"
  /\ writing' = <<>>
  /\ UNCHANGED <<received, echoed, handed, file, torn, failed, result>>

Exit ==
  /\ pc = "shutdown"
  /\ writing = <<>>
  /\ pc' = "exited"
  /\ UNCHANGED <<received, echoed, fileVars, result>>
-----------------------------------------------------------------------------
(* The background thread (external)                                        *)

Running == pc \notin {"exited", "killed"}

Land ==
  /\ Running
  /\ writing # <<>>
  /\ file' = file \o writing
  /\ writing' = <<>>
  /\ UNCHANGED <<received, echoed, handed, torn, failed, pc, result>>

(* A full disk may take a part of the piece.                               *)
LandFails ==
  /\ Running
  /\ writing # <<>>
  /\ writing' = <<>>
  /\ failed' = TRUE
  /\ torn' \in BOOLEAN
  /\ UNCHANGED <<received, echoed, handed, file, pc, result>>

(* SIGKILL, from the orchestrator when its grace period is over.           *)
Kill ==
  /\ Running
  /\ pc' = "killed"
  /\ writing' = <<>>
  /\ \/ file' = file \o writing /\ UNCHANGED torn
     \/ writing # <<>> /\ torn' \in BOOLEAN /\ UNCHANGED file
  /\ UNCHANGED <<received, echoed, handed, failed, result>>

Step ==
  \/ Receive \/ InputEnds \/ SeeError \/ Echo \/ Exit
  \/ \E last \in BOOLEAN : HandPiece(last)

Next == Step \/ Land \/ LandFails \/ Kill

Spec == Init /\ [][Next]_vars
-----------------------------------------------------------------------------
Recorded(n) == \E i \in 1 .. Len(file) : file[i] = [frame |-> n, last |-> TRUE]

FileIsPrefix ==
  /\ Len(file) <= Len(handed)
  /\ \A i \in 1 .. Len(file) : file[i] = handed[i]
  /\ Len(handed) <= Len(file) + 1
  /\ torn => Len(handed) = Len(file) + 1

(* A new record begins only behind the last piece of the one before.       *)
RecordsInOrder ==
  \A i \in 1 .. Len(file) :
    IF i = 1
      THEN file[i].frame = 1
      ELSE file[i].frame = IF file[i - 1].last THEN file[i - 1].frame + 1
                                               ELSE file[i - 1].frame

(* Whatever fails and whenever the process dies, what is in the file can   *)
(* be replayed up to its end: the records stand in it whole, in the order  *)
(* of their frames and with none missing between two, except that the last *)
(* one may be cut short (main.rs:93-103).                                  *)
FileIsReplayable == FileIsPrefix /\ RecordsInOrder

(* An echo says that the frame before is safe: at any moment, even after a *)
(* kill or a failed write, at most the last frame echoed is not in the     *)
(* file (main.rs:103-104 sends it while it is still being written).        *)
EchoedIsRecorded == \A n \in 1 .. echoed : n # echoed => Recorded(n)

(* main.rs:34-38 counts on the shutdown to flush the file: when record     *)
(* exits without error every frame it received is in the file, but for the *)
(* last one if its own write failed, which nothing reports any more.       *)
CleanExitIsComplete ==
  pc = "exited" /\ result = "ok" =>
    \A n \in 1 .. received : Recorded(n) \/ (failed /\ n = received)
=============================================================================
