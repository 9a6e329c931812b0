---------------------------- MODULE PlugHarness -----------------------------
(***************************************************************************)
(* A plug process under test: the client that kble-test-support's Plug     *)
(* (kble-test-support/src/lib.rs) gives a test, composed with the process  *)
(* (module StdioPlug).  A test sends, receives with a deadline, and shuts  *)
(* the plug down or drops it, in any order; it need not read at all.       *)
(***************************************************************************)
EXTENDS StdioPlug

CONSTANTS Sizes,             \* bound: the sizes of the frames a test sends
          MaxFed             \* bound: parts a test sends

ASSUME FeedAssumption == Sizes \subseteq Nat \ {0} /\ MaxFed \in Nat

VARIABLES
  client,                    \* where the test and its Plug stand
  receiving,                 \* a recv is waiting for a frame
  inbox,                     \* halves read that are no message yet
  outcome,                   \* what shutdown returned
  fed, got                   \* histories: parts sent, frames received

clientVars == <<client, receiving, inbox, outcome, fed, got>>
vars == <<plugVars, clientVars>>

TypeOK ==
  /\ PlugTypeOK
  /\ client \in {"open", "closing", "waiting", "killing", "returned", "dropped"}
  /\ receiving \in BOOLEAN
  /\ inbox \in Seq(Half) /\ Len(inbox) <= 1
  /\ outcome \in {"none", "ok", "err"}
  /\ fed \in Seq(Part)
  /\ got \in Seq(Nat)

Init ==
  /\ PlugInit
  /\ client = "open"
  /\ receiving = FALSE
  /\ inbox = <<>>
  /\ outcome = "none"
  /\ fed = <<>>
  /\ got = <<>>
-----------------------------------------------------------------------------
(* The stream a test feeds: whole frames and junk, cut anywhere.           *)

Last(parts) == parts[Len(parts)]

Begun(parts) == IF parts = <<>> THEN 0 ELSE Last(parts).of

MidFrame(parts) == parts # <<>> /\ Last(parts).part < Last(parts).size

Junk(parts) == [of |-> Begun(parts), part |-> 0, size |-> 0]

After(parts) ==
  IF MidFrame(parts)
    THEN {[Last(parts) EXCEPT !.part = @ + 1]}
    ELSE {[of |-> Begun(parts) + 1, part |-> 1, size |-> s] :
            s \in Sizes \cap 1 .. MaxBody}
           \cup {Junk(parts)}

Chunks ==
  LET first == After(fed) IN
  {<<p>> : p \in first}
    \cup UNION {{<<p, q>> : q \in After(Append(fed, p))} : p \in first}

WholeFrames ==
  {[i \in 1 .. s |-> [of |-> Begun(fed) + 1, part |-> i, size |-> s]] : s \in Sizes}

(* The child's pipes (ChildStdio).                                         *)
StdinTakes(message) ==
  /\ status = "up"
  /\ Len(input) < InCap
  /\ input' = Append(input, message)

StdoutGives ==
  /\ output # <<>>
  /\ output' = Tail(output)

(* Plug::send, once there is room in the pipe.                             *)
Send ==
  /\ client = "open"
  /\ \E message \in IF program = "decode" THEN Chunks ELSE WholeFrames :
       /\ Len(fed) + Len(message) <= MaxFed
       /\ StdinTakes(message)
       /\ fed' = fed \o message
  /\ UNCHANGED <<innards, output, status, client, receiving, inbox, outcome, got>>
-----------------------------------------------------------------------------
(* Plug::recv_timeout (next_frame)                                         *)

Recv ==
  /\ client = "open"
  /\ ~ receiving
  /\ receiving' = TRUE
  /\ UNCHANGED <<plugVars, client, inbox, outcome, fed, got>>

(* stream.next() reads; a second half completes the frame begun before.    *)
ReadHalf ==
  /\ receiving
  /\ StdoutGives
  /\ IF Head(output).half = 1
       THEN inbox' = <<Head(output)>> /\ UNCHANGED <<receiving, got>>
       ELSE /\ inbox' = <<>>
            /\ got' = got \o [i \in 1 .. Len(inbox) |-> inbox[i].of]
            /\ receiving' = FALSE
  /\ UNCHANGED <<innards, input, status, client, outcome, fed>>

(* End of file, which is an error in the middle of a frame and out of it,  *)
(* for the plug has not said Close.                                        *)
RecvFails ==
  /\ receiving
  /\ output = <<>>
  /\ status # "up"
  /\ receiving' = FALSE
  /\ UNCHANGED <<plugVars, client, inbox, outcome, fed, got>>

(* The deadline passes and the future is dropped; the stream keeps what it *)
(* has read.                                                               *)
RecvTimesOut ==
  /\ receiving
  /\ receiving' = FALSE
  /\ UNCHANGED <<plugVars, client, inbox, outcome, fed, got>>
-----------------------------------------------------------------------------
(* Plug::shutdown                                                          *)

Shutdown ==
  /\ client = "open"
  /\ ~ receiving
  /\ client' = "closing"
  /\ UNCHANGED <<plugVars, receiving, inbox, outcome, fed, got>>

(* sink.close(): a Close frame into the pipe, ...                          *)
CloseSink ==
  /\ client = "closing"
  /\ StdinTakes(Close)
  /\ client' = "waiting"
  /\ UNCHANGED <<innards, output, status, receiving, inbox, outcome, fed, got>>

(* ... or an error, which is ignored: no one holds the other end.          *)
CloseFails ==
  /\ client = "closing"
  /\ status # "up"
  /\ client' = "waiting"
  /\ UNCHANGED <<plugVars, receiving, inbox, outcome, fed, got>>

AnyStatus == "ok"                                        \* mutant of Verdict

Verdict == IF status = "success" THEN "ok" ELSE "err"

(* child.wait() within the grace period                                    *)
Reap ==
  /\ client = "waiting"
  /\ status # "up"
  /\ client' = "returned"
  /\ outcome' = Verdict
  /\ UNCHANGED <<plugVars, receiving, inbox, fed, got>>

NoDeadline == FALSE                                      \* mutant of GraceExpires

(* ... or after it: child.kill() sends SIGKILL and waits.                  *)
GraceExpires ==
  /\ client = "waiting"
  /\ status = "up"
  /\ client' = "killing"
  /\ UNCHANGED <<plugVars, receiving, inbox, outcome, fed, got>>

ReapKilled ==
  /\ client = "killing"
  /\ status # "up"
  /\ client' = "returned"
  /\ outcome' = "err"
  /\ UNCHANGED <<plugVars, receiving, inbox, fed, got>>

(* A test that fails drops its Plug: kill_on_drop.                         *)
DropPlug ==
  /\ client = "open"
  /\ client' = "dropped"
  /\ receiving' = FALSE
  /\ UNCHANGED <<plugVars, inbox, outcome, fed, got>>

Killed ==
  /\ client \in {"killing", "dropped"}
  /\ status = "up"
  /\ status' = "killed"
  /\ UNCHANGED <<innards, input, output, clientVars>>
-----------------------------------------------------------------------------
ShutdownStep == CloseSink \/ CloseFails \/ Reap \/ ReapKilled \/ Killed

Test ==
  \/ Send \/ Recv \/ ReadHalf \/ RecvFails \/ RecvTimesOut
  \/ Shutdown \/ GraceExpires \/ DropPlug

Next ==
  \/ PlugNext /\ UNCHANGED clientVars
  \/ ShutdownStep
  \/ Test

Spec == Init /\ [][Next]_vars

(* The plug's runtime polls what is ready, replay's file has an end, and   *)
(* shutdown goes on as soon as it can.  The test may stop sending and      *)
(* receiving for good, and the TCP peer need never do anything.            *)
FairSpec ==
  /\ Spec
  /\ WF_vars(PlugRuns /\ UNCHANGED clientVars)
  /\ WF_vars(program = "replay" /\ (OwnFrame \/ OwnEnd) /\ UNCHANGED clientVars)
  /\ WF_vars(ShutdownStep)
-----------------------------------------------------------------------------
(* The numbers of the frames in the stream fed that the plug converts.     *)
Passes(part) ==
  CASE program = "encode"     -> part.size <= MaxBody
    [] program = "from_tc_tf" -> part.size >= MinTcTf
    [] program = "decode"     -> part.size \in 1 .. bufferSize
    [] OTHER                  -> FALSE

Ends(part) == part.part > 0 /\ part.part = part.size

(* Frame n has been fed whole, and is one that the plug converts.          *)
Due(n) == \E i \in 1 .. Len(fed) : fed[i].of = n /\ Ends(fed[i]) /\ Passes(fed[i])

Received(n) == \E i \in 1 .. Len(got) : got[i] = n

Numbers == 1 .. Begun(fed)

(* What the plug has nothing more to do about until it is sent a message.  *)
Settled ==
  /\ Running /\ reader = "polling" /\ ~ sending
  /\ input = <<>> /\ output = <<>> /\ inbox = <<>>

(* Frames come out of a filter as they went in, one by one and in order,   *)
(* however the stream was cut, whatever junk and oversize frames lie in    *)
(* between, and whether or not a recv timed out in the middle of one; none *)
(* is held back until the next message (kble-eb90/src/main.rs:71-86,       *)
(* kble-test-support/src/lib.rs:131-139).                                  *)
Promise == INSTANCE FrameFilter WITH
  due       <- IF Filter THEN {n \in Numbers : Due(n)} ELSE {},
  delivered <- IF Filter THEN got ELSE <<>>,
  resting   <- Filter /\ Settled

FilterSpec == Promise!Spec

(* Frame n has been written, and the test has not received it.             *)
InThePipe(n) == \E i \in 1 .. Len(output) : output[i] = [of |-> n, half |-> 2]

(* What has been written comes behind what has been received, in order; a  *)
(* reply to Close comes last.                                              *)
WrittenInOrder ==
  \A i \in 1 .. Len(output) :
    output[i].of # 0 =>
      /\ \A j \in 1 .. i - 1 : output[j].of \in 1 .. output[i].of
      /\ \A j \in 1 .. Len(got) : got[j] < output[i].of

(* shutdown leaves no process behind, and its Ok is worth something: the   *)
(* plug ended by itself and without an error, and a filter has written all *)
(* that was due (lib.rs:94-125).                                           *)
OkMeansAllIsWritten ==
  client = "returned" =>
    /\ status # "up"
    /\ outcome = "ok" => /\ main = "success"
                         /\ Filter =>
                              /\ \A n \in Numbers : Due(n) => Received(n) \/ InThePipe(n)
                              /\ WrittenInOrder

(* A plug that has returned from main exits, also with stdin still open    *)
(* and stdout full, if both are pipes; one that they do not belong to may  *)
(* hang on a blocking thread (kble-socket/src/stdio.rs:12-15, 26-31).      *)
HeldByThread ==
  \/ stdin = "other" /\ reader = "polling" /\ input = <<>>
  \/ stdout = "other" /\ Len(output) = OutCap

ReturnMeansExit ==
  \/ main # "running" ~> status # "up"
  \/ <>[](main # "running" /\ HeldByThread)

(* A Close ends the plug without its being killed, unless it cannot write  *)
(* what it owes, since no one reads its stdout, or to TCP (lib.rs:96-98).  *)
OutputStuck == Len(output) = OutCap \/ (program = "tcp" /\ reader = "busy")

CloseEndsPlug ==
  \/ client = "waiting" ~> status # "up"
  \/ <>[](status = "up" /\ OutputStuck)

(* shutdown returns, for it kills what does not exit in time: if only the  *)
(* Close frame goes into the pipe (lib.rs:98-105).                         *)
ShutdownReturns ==
  WF_vars(GraceExpires) =>
    \/ client = "closing" ~> client = "returned"
    \/ <>[](client = "closing" /\ Len(input) = InCap)
=============================================================================
