----------------------------- MODULE StdioPlug ------------------------------
(***************************************************************************)
(* A plug process: the socket that from_stdio (kble-socket/src/stdio.rs)   *)
(* builds over its stdin and stdout, and the program that uses it:         *)
(*   encode, decode  the loops of kble-eb90, one message at a time;        *)
(*   from_tc_tf      the loop of kble-c2a "spacepacket from-tc-tf";        *)
(*   replay          kble-dump: a task reads while main sends;             *)
(*   tcp             kble-tcp: both at once, and main ends with either.    *)
(* When main has returned, the runtime waits for every read or write that  *)
(* a blocking thread has begun, and for none that a pipe would cancel.     *)
(*                                                                         *)
(* Input is a stream of parts of numbered frames, cut into messages; for   *)
(* encode and from_tc_tf each message is a whole frame.  Output is counted *)
(* in halves of messages: a pipe may be full in the middle of one.         *)
(***************************************************************************)
EXTENDS Naturals, Sequences

CONSTANTS MaxBody,           \* u16::MAX: the largest EB90 frame
          MinTcTf,           \* the smallest TC transfer frame
          InCap,             \* messages stdin holds before a write blocks
          OutCap,            \* halves stdout holds before a write blocks
          MaxOwn             \* bound: frames replay or tcp has of its own

ASSUME SizesAssumption == {MaxBody, MinTcTf} \subseteq Nat \ {0}
ASSUME CapsAssumption == {InCap, OutCap} \subseteq Nat \ {0} /\ MaxOwn \in Nat

VARIABLES
  program, bufferSize,       \* the command line
  stdin, stdout,             \* what each is attached to: "pipe" or "other"
  input,                     \* messages in stdin
  output,                    \* halves in stdout
  reader,                    \* the task that reads: in rx.next(), busy, done
  buf,                       \* decode: the BytesMut
  sending,                   \* tx.send is waiting for its flush
  wbuf,                      \* the write buffer of the WebSocket
  ws,                        \* the WebSocket: "active", "replying", "closed"
  made,                      \* how many frames of its own the plug has sent
  main,                      \* "running", or the Result main returned
  status                     \* "up", or the exit status

config   == <<program, bufferSize, stdin, stdout>>
innards  == <<config, reader, buf, sending, wbuf, ws, made, main>>
plugVars == <<innards, input, output, status>>

(* Part `part` of frame number `of`, which has `size` parts; 0 for junk.   *)
Part == [of : Nat, part : Nat, size : Nat]

Close == <<>>                \* as a message on stdin: a Close frame

Half == [of : Nat, half : {1, 2}]

NoReply == <<>>                                          \* mutant of Reply

Reply == <<[of |-> 0, half |-> 1], [of |-> 0, half |-> 2]>>

Filters == {"encode", "decode", "from_tc_tf"}

Duplexes == {"replay", "tcp"}

PlugTypeOK ==
  /\ program \in Filters \cup Duplexes
  /\ bufferSize \in Nat
  /\ {stdin, stdout} \subseteq {"pipe", "other"}
  /\ input \in Seq(Seq(Part)) /\ Len(input) <= InCap
  /\ output \in Seq(Half) /\ Len(output) <= OutCap
  /\ reader \in {"polling", "busy", "done"}
  /\ buf \in Seq(Part)
  /\ sending \in BOOLEAN
  /\ wbuf \in Seq(Half)
  /\ ws \in {"active", "replying", "closed"}
  /\ made \in 0 .. MaxOwn
  /\ main \in {"running", "success", "failure"}
  /\ status \in {"up", "success", "failure", "killed"}

(* A decoder is run with the default buffer or with a smaller one.         *)
BufferSizes == IF program = "decode" THEN 1 .. MaxBody ELSE {MaxBody}

PlugInit ==
  /\ program \in Filters \cup Duplexes
  /\ bufferSize \in BufferSizes
  /\ stdin \in {"pipe", "other"}
  /\ stdout \in {"pipe", "other"}
  /\ input = <<>>
  /\ output = <<>>
  /\ reader = "polling"
  /\ buf = <<>>
  /\ sending = FALSE
  /\ wbuf = <<>>
  /\ ws = "active"
  /\ made = 0
  /\ main = "running"
  /\ status = "up"

Running == status = "up" /\ main = "running"

Filter == program \in Filters
-----------------------------------------------------------------------------
(* from_stdio: each half is cancellable if it is a pipe.                   *)

NeverPipe == "Blocking"                                  \* mutant of StdinReader

StdinReader == IF stdin = "pipe" THEN "Pipe" ELSE "Blocking"

StdoutWriter == IF stdout = "pipe" THEN "Pipe" ELSE "Blocking"

(* main returns.  What a pipe was still to be given is dropped; a blocking *)
(* thread goes on with it.                                                 *)
Return(result) ==
  /\ main' = result
  /\ wbuf' = IF StdoutWriter = "Pipe" THEN <<>> ELSE wbuf
  /\ sending' = FALSE

(* tx.send(frame): into the write buffer, then flush.                      *)
StartSend(n) ==
  /\ sending' = TRUE
  /\ wbuf' = wbuf \o <<[of |-> n, half |-> 1], [of |-> n, half |-> 2]>>

PollRead ==
  /\ input # <<>>
  /\ input' = Tail(input)

PollWrite ==
  /\ wbuf # <<>>
  /\ Len(output) < OutCap
  /\ output' = Append(output, Head(wbuf))
  /\ wbuf' = Tail(wbuf)

(* The flush goes on; once it is through, tx.send resolves, and a Close    *)
(* has been replied to.                                                    *)
WriteHalf ==
  /\ status = "up"
  /\ main = "running" \/ StdoutWriter = "Blocking"
  /\ PollWrite
  /\ sending' = (sending /\ Len(wbuf) > 1)
  /\ ws' = IF ws = "replying" /\ Len(wbuf) = 1 THEN "closed" ELSE ws
  /\ UNCHANGED <<config, input, reader, buf, made, main, status>>

(* rx.next() resolves with what stdin holds.                               *)
NextItem ==
  /\ Running /\ reader = "polling" /\ ws = "active"
  /\ PollRead

NextData ==
  /\ NextItem
  /\ Head(input) # Close

(* rx.next() meets a Close frame, and goes on to flush the reply.          *)
RecvClose ==
  /\ NextItem
  /\ Head(input) = Close
  /\ ws' = "replying"
  /\ wbuf' = wbuf \o Reply
  /\ UNCHANGED <<config, output, reader, buf, sending, made, main, status>>

(* ... then yields None: a loop over rx is done, and with it main, but for *)
(* replay, where the loop is that of a task of its own.                    *)
InputEnds ==
  /\ Running
  /\ reader = "polling"
  /\ ws = "closed"
  /\ reader' = "done"
  /\ IF program = "replay" THEN UNCHANGED <<main, wbuf, sending>>
                           ELSE Return("success")
  /\ UNCHANGED <<config, input, output, buf, ws, made, status>>

(* The runtime shuts down: it waits for the blocking threads.              *)
ReadInFlight ==
  /\ StdinReader = "Blocking"
  /\ reader = "polling" /\ ws = "active"
  /\ input = <<>>

Exit ==
  /\ status = "up"
  /\ main # "running"
  /\ ~ ReadInFlight
  /\ wbuf = <<>>
  /\ status' = main
  /\ UNCHANGED <<config, input, output, reader, buf, sending, wbuf, ws, made, main>>
-----------------------------------------------------------------------------
Length(message) == message[1].size

(* A message that is a whole frame becomes one, or an error ends main.     *)
Convert(ok) ==
  /\ NextData
  /\ reader' = "busy"
  /\ IF ok THEN StartSend(Head(input)[1].of) /\ UNCHANGED main
           ELSE Return("failure")
  /\ UNCHANGED <<config, output, buf, ws, made, status>>

(* run_encode: eb90's encoder (external) refuses what exceeds u16::MAX.    *)
EncodeNext ==
  /\ program = "encode"
  /\ input # <<>> /\ Convert(Length(Head(input)) <= MaxBody)

(* from_tc_tf: header and trailer must be there to be cut off.             *)
LongEnough(message) == Length(message) >= MinTcTf

(* run_sp_from_tc_tf                                                       *)
FromTcTfNext ==
  /\ program = "from_tc_tf"
  /\ input # <<>> /\ Convert(LongEnough(Head(input)))

(* run_decode: a chunk of the stream goes into buf.                        *)
DecodeNext ==
  /\ program = "decode"
  /\ NextData
  /\ buf' = buf \o Head(input)
  /\ reader' = "busy"
  /\ UNCHANGED <<config, output, sending, wbuf, ws, made, main, status>>

(* What eb90's decoder makes of buf (external): a frame that fits its own  *)
(* buffer begins, or there is junk to skip.                                *)
FrameBegins ==
  buf # <<>> /\ buf[1].part = 1 /\ buf[1].size \in 1 .. bufferSize

FrameComplete == FrameBegins /\ Len(buf) >= buf[1].size

JunkBegins == buf # <<>> /\ ~ FrameBegins

Drop(n) == SubSeq(buf, n + 1, Len(buf))

(* The inner loop: Decoded::Frame is sent, Decoded::Junk is logged.        *)
DecodeFrame ==
  /\ program = "decode"
  /\ Running /\ reader = "busy" /\ ~ sending
  /\ FrameComplete
  /\ StartSend(buf[1].of)
  /\ buf' = Drop(buf[1].size)
  /\ UNCHANGED <<config, input, output, reader, ws, made, main, status>>

DecodeJunk ==
  /\ program = "decode"
  /\ Running /\ reader = "busy" /\ ~ sending
  /\ JunkBegins
  /\ buf' = Drop(1)
  /\ UNCHANGED <<config, input, output, reader, sending, wbuf, ws, made, main, status>>

OneFrameOnly == reader = "busy"                          \* mutant of NothingMore

(* The decoder has no more to give, or the frame has been sent.             *)
NothingMore == reader = "busy" /\ ~ FrameComplete /\ ~ JunkBegins

NextMessage ==
  /\ Filter
  /\ Running /\ ~ sending
  /\ NothingMore
  /\ reader' = "polling"
  /\ UNCHANGED <<config, input, output, buf, sending, wbuf, ws, made, main, status>>
-----------------------------------------------------------------------------
(* The other two programs: the reading side takes what it is given, ...    *)
TakeMessage ==
  /\ ~ Filter
  /\ NextData
  /\ reader' = IF program = "tcp" THEN "busy" ELSE "polling"
  /\ UNCHANGED <<config, output, buf, sending, wbuf, ws, made, main, status>>

(* (the TCP connection takes the bytes of the message)                     *)
MessageTaken ==
  /\ program = "tcp"
  /\ Running /\ reader = "busy"
  /\ reader' = "polling"
  /\ UNCHANGED <<config, input, output, buf, sending, wbuf, ws, made, main, status>>

(* ... the other one sends a frame of its own, or is refused, for a Close  *)
(* has been read, ...                                                      *)
OwnFrame ==
  /\ ~ Filter
  /\ Running /\ ~ sending
  /\ made < MaxOwn
  /\ IF ws = "active"
       THEN made' = made + 1 /\ StartSend(made + 1) /\ UNCHANGED main
       ELSE Return("failure") /\ UNCHANGED made
  /\ UNCHANGED <<config, input, output, reader, buf, ws, status>>

(* ... and either ends main: replay's file is exhausted or broken, or the  *)
(* TCP peer is gone, which to_tcp can find out while tx.send waits.        *)
OwnEnd ==
  /\ Running
  /\ \/ program = "replay" /\ ~ sending
     \/ program = "tcp" /\ (sending => reader = "busy")
  /\ Return("success") \/ Return("failure")
  /\ UNCHANGED <<config, input, output, reader, buf, ws, made, status>>

PlugRuns ==
  \/ WriteHalf \/ RecvClose \/ InputEnds \/ Exit
  \/ EncodeNext \/ FromTcTfNext \/ DecodeNext \/ DecodeFrame \/ DecodeJunk \/ NextMessage
  \/ TakeMessage

PlugNext == PlugRuns \/ MessageTaken \/ OwnFrame \/ OwnEnd
=============================================================================
