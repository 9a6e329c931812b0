----------------------------- MODULE TcpBridge ------------------------------
(***************************************************************************)
(* kble-tcp (kble-tcp/src/main.rs): two copy loops between the WebSocket   *)
(* on stdin and stdout and a TCP connection, polled by one select! that    *)
(* ends with the first of them and drops the other where it stands.        *)
(*                                                                         *)
(* Bytes are numbered in the order in which their sender wrote them.  How  *)
(* kble cut its bytes into messages is decided when one is read.  `biased` *)
(* orders the two loops within a poll; what arrives between the two still  *)
(* goes either way, so both orders are allowed.                            *)
(***************************************************************************)
EXTENDS Naturals, Sequences

CONSTANTS ReadSize,          \* the size of `buffer`
          PipeCap,           \* frames stdout holds before it blocks
          TcpCap,            \* bytes the TCP connection holds before it blocks
          MaxBytes           \* bound: bytes each side writes

ASSUME SizesAssumption ==
  {ReadSize, PipeCap, TcpCap} \subseteq Nat \ {0} /\ MaxBytes \in Nat

VARIABLES
  wsIn,       \* bytes of messages on stdin not read yet
  wsEnd,      \* what follows them
  gone,       \* kble has let go of both pipes
  ws,         \* the WebSocket on our side
  body,       \* to_tcp: what write_all has still to write
  tcpOut,     \* how many bytes the TCP peer has not taken yet
  tcpIn,      \* bytes of the peer not read yet
  tcpEnd,     \* what follows them
  chunk,      \* from_tcp: what tx.send has still to flush
  pipeOut,    \* how many frames kble has not taken yet
  fed, written, said, sent,  \* histories: bytes of kble, and those of them
                             \* written to TCP; of the peer, and sent to kble
  winner, result

inVars  == <<wsIn, wsEnd, gone, fed>>
toVars  == <<body, tcpOut, written>>
peerIn  == <<tcpIn, tcpEnd, said>>
outVars == <<chunk, pipeOut, sent>>
vars == <<inVars, ws, toVars, peerIn, outVars, winner, result>>

Byte == Nat \ {0}

TypeOK ==
  /\ wsIn \in Seq(Byte) /\ body \in Seq(Byte) /\ tcpIn \in Seq(Byte) /\ chunk \in Seq(Byte)
  /\ Len(chunk) <= ReadSize
  /\ wsEnd \in {"open", "close"}
  /\ gone \in BOOLEAN
  /\ ws \in {"active", "replying", "closed"}
  /\ tcpOut \in 0 .. TcpCap
  /\ tcpEnd \in {"open", "fin", "reset"}
  /\ pipeOut \in 0 .. PipeCap
  /\ fed \in Seq(Byte) /\ written \in Seq(Byte) /\ said \in Seq(Byte) /\ sent \in Seq(Byte)
  /\ winner \in {"none", "to_tcp", "from_tcp"}
  /\ result \in {"none", "ok", "err"}

Init ==
  /\ wsIn = <<>> /\ body = <<>> /\ tcpIn = <<>> /\ chunk = <<>>
  /\ wsEnd = "open"
  /\ gone = FALSE
  /\ ws = "active"
  /\ tcpOut = 0
  /\ tcpEnd = "open"
  /\ pipeOut = 0
  /\ fed = <<>> /\ written = <<>> /\ said = <<>> /\ sent = <<>>
  /\ winner = "none"
  /\ result = "none"

Running == winner = "none"

Ends(loop, r) == winner' = loop /\ result' = r

Goes == UNCHANGED <<winner, result>>
-----------------------------------------------------------------------------
(* to_tcp                                                                  *)

Receiving == Running /\ body = <<>>

Writing == Running /\ body # <<>>

PipeRoom == pipeOut < PipeCap /\ ~ gone

(* rx.next() yields a message, the next k bytes.                           *)
ToRecv(k) ==
  /\ Receiving
  /\ ws = "active"
  /\ k \in 1 .. Len(wsIn)
  /\ body' = SubSeq(wsIn, 1, k)
  /\ wsIn' = SubSeq(wsIn, k + 1, Len(wsIn))
  /\ Goes
  /\ UNCHANGED <<wsEnd, gone, fed, ws, tcpOut, written, peerIn, outVars>>

WriteNotAll(k) == <<>>                                   \* mutant of Unwritten

Unwritten(k) == SubSeq(body, k + 1, Len(body))

(* write_all: the connection takes k bytes.                                *)
ToWrite(k) ==
  /\ Writing
  /\ k \in 1 .. Len(body)
  /\ tcpOut + k <= TcpCap
  /\ tcpOut' = tcpOut + k
  /\ written' = written \o SubSeq(body, 1, k)
  /\ body' = Unwritten(k)
  /\ Goes
  /\ UNCHANGED <<inVars, ws, peerIn, outVars>>

(* ... or fails: the peer is gone, at least for reading.                   *)
ToWriteFails ==
  /\ Writing
  /\ tcpEnd # "open"
  /\ Ends("to_tcp", "err")
  /\ UNCHANGED <<inVars, ws, toVars, peerIn, outVars>>

EndSeen == wsEnd = "close"                               \* mutant of CloseSeen

CloseSeen == wsIn = <<>> /\ wsEnd = "close"

(* kble's Close frame: the reply goes out, with what tx.send has not       *)
(* flushed in front of it, and rx.next() yields None ...                   *)
ToClosed ==
  /\ Receiving
  /\ CloseSeen \/ ws = "replying"
  /\ PipeRoom
  /\ sent' = sent \o chunk
  /\ chunk' = <<>>
  /\ pipeOut' = pipeOut + 1
  /\ ws' = "closed"
  /\ Ends("to_tcp", "ok")
  /\ UNCHANGED <<inVars, toVars, peerIn>>

(* ... or waits for stdout to take it.                                     *)
ToSeesClose ==
  /\ Receiving
  /\ ws = "active"
  /\ CloseSeen
  /\ ~ PipeRoom
  /\ ~ gone
  /\ ws' = "replying"
  /\ Goes
  /\ UNCHANGED <<inVars, toVars, peerIn, outVars>>

(* tx.send flushed the reply along with its frame: None.                   *)
ToEnds ==
  /\ Receiving
  /\ ws = "closed"
  /\ Ends("to_tcp", "ok")
  /\ UNCHANGED <<inVars, ws, toVars, peerIn, outVars>>

(* End of file without a Close, or no one to reply to: an error.           *)
ToEof ==
  /\ Receiving
  /\ wsIn = <<>>
  /\ gone
  /\ ws # "closed"
  /\ Ends("to_tcp", "err")
  /\ UNCHANGED <<inVars, ws, toVars, peerIn, outVars>>
-----------------------------------------------------------------------------
(* from_tcp                                                                *)

Reading == Running /\ chunk = <<>>

Sending == Running /\ chunk # <<>>

(* read yields k bytes and tx.send takes them into its buffer ...          *)
FromRead(k) ==
  /\ Reading
  /\ ws = "active"
  /\ k \in 1 .. Len(tcpIn) /\ k <= ReadSize
  /\ chunk' = SubSeq(tcpIn, 1, k)
  /\ tcpIn' = SubSeq(tcpIn, k + 1, Len(tcpIn))
  /\ Goes
  /\ UNCHANGED <<inVars, ws, toVars, tcpEnd, said, pipeOut, sent>>

(* ... or refuses them: a Close was read.                                  *)
FromRefused ==
  /\ Reading
  /\ ws # "active"
  /\ tcpIn # <<>>
  /\ Ends("from_tcp", "err")
  /\ UNCHANGED <<inVars, ws, toVars, peerIn, outVars>>

(* tx.send(..) resolves: the frame is in the pipe, and a reply behind it.  *)
FromSent ==
  /\ Sending
  /\ PipeRoom
  /\ sent' = sent \o chunk
  /\ chunk' = <<>>
  /\ pipeOut' = pipeOut + 1
  /\ ws' = IF ws = "replying" THEN "closed" ELSE ws
  /\ Goes
  /\ UNCHANGED <<inVars, toVars, peerIn>>

FromSendFails ==
  /\ Sending
  /\ gone
  /\ Ends("from_tcp", "err")
  /\ UNCHANGED <<inVars, ws, toVars, peerIn, outVars>>

NeverAtEof == FALSE                                      \* mutant of AtEof

AtEof == tcpIn = <<>> /\ tcpEnd = "fin"

(* read yields 0: the peer has closed, or has finished writing.            *)
FromEof ==
  /\ Reading
  /\ AtEof
  /\ Ends("from_tcp", "ok")
  /\ UNCHANGED <<inVars, ws, toVars, peerIn, outVars>>

(* A reset connection: bytes not read yet may be gone.                     *)
FromReset ==
  /\ Reading
  /\ tcpEnd = "reset"
  /\ Ends("from_tcp", "err")
  /\ UNCHANGED <<inVars, ws, toVars, peerIn, outVars>>
-----------------------------------------------------------------------------
(* kble and the TCP peer (external)                                        *)

KbleFeeds ==
  /\ Running /\ ~ gone /\ wsEnd = "open"
  /\ Len(fed) < MaxBytes
  /\ fed' = Append(fed, Len(fed) + 1)
  /\ wsIn' = Append(wsIn, Len(fed) + 1)
  /\ UNCHANGED <<wsEnd, gone, ws, toVars, peerIn, outVars, winner, result>>

KbleCloses ==
  /\ Running /\ ~ gone /\ wsEnd = "open"
  /\ wsEnd' = "close"
  /\ UNCHANGED <<wsIn, gone, fed, ws, toVars, peerIn, outVars, winner, result>>

KbleReads ==
  /\ Running /\ ~ gone
  /\ pipeOut > 0
  /\ pipeOut' = pipeOut - 1
  /\ UNCHANGED <<inVars, ws, toVars, peerIn, chunk, sent, winner, result>>

KbleExits ==
  /\ Running /\ ~ gone
  /\ gone' = TRUE
  /\ UNCHANGED <<wsIn, wsEnd, fed, ws, toVars, peerIn, outVars, winner, result>>

PeerSays ==
  /\ Running /\ tcpEnd = "open"
  /\ Len(said) < MaxBytes
  /\ said' = Append(said, Len(said) + 1)
  /\ tcpIn' = Append(tcpIn, Len(said) + 1)
  /\ UNCHANGED <<inVars, ws, toVars, tcpEnd, outVars, winner, result>>

PeerReads ==
  /\ Running
  /\ tcpOut > 0
  /\ tcpOut' = tcpOut - 1
  /\ UNCHANGED <<inVars, ws, body, written, peerIn, outVars, winner, result>>

PeerEnds ==
  /\ Running
  /\ \/ tcpEnd = "open" /\ tcpEnd' = "fin"
     \/ tcpEnd # "reset" /\ tcpEnd' = "reset"
  /\ UNCHANGED <<inVars, ws, toVars, tcpIn, said, outVars, winner, result>>
-----------------------------------------------------------------------------
ToStep ==
  \/ ToWriteFails \/ ToClosed \/ ToSeesClose \/ ToEnds \/ ToEof
  \/ \E k \in 1 .. MaxBytes : ToRecv(k) \/ ToWrite(k)

FromStep ==
  \/ FromRefused \/ FromSent \/ FromSendFails \/ FromEof \/ FromReset
  \/ \E k \in 1 .. MaxBytes : FromRead(k)

Outside ==
  \/ KbleFeeds \/ KbleCloses \/ KbleReads \/ KbleExits
  \/ PeerSays \/ PeerReads \/ PeerEnds

Next == ToStep \/ FromStep \/ Outside

Spec == Init /\ [][Next]_vars

(* select! polls both loops whenever one of them can go on.                *)
FairSpec == Spec /\ WF_vars(ToStep) /\ WF_vars(FromStep)
-----------------------------------------------------------------------------
(* Neither loop loses, repeats or reorders a byte, however messages, reads *)
(* and partial writes cut the two streams: what one side wrote is what the *)
(* other was given, then what is in hand, then what was not read yet.      *)
BytesInOrder ==
  /\ fed = written \o body \o wsIn
  /\ said = sent \o chunk \o tcpIn

(* When the bridge ends without an error, every byte of the side that      *)
(* closed has been passed on: dropping the other loop costs the side that  *)
(* still had something to say, never the one that ended it (main.rs:32-60).*)
CleanEndIsComplete ==
  result = "ok" => \/ winner = "to_tcp" /\ wsEnd = "close" /\ written = fed
                   \/ winner = "from_tcp" /\ tcpEnd = "fin" /\ sent = said

(* "Either side closing ends the bridge" (main.rs:51), unless the loop     *)
(* that would see it is parked in a write, or the reply to a Close, to     *)
(* the other side, and that side never reads again.                        *)
TcpParked == body # <<>> /\ tcpOut = TcpCap

PipeParked == (chunk # <<>> \/ ws = "replying") /\ pipeOut = PipeCap

EitherCloseEnds ==
  \/ (wsEnd = "close" \/ gone \/ tcpEnd # "open") ~> ~ Running
  \/ <>[](Running /\ TcpParked)
  \/ <>[](Running /\ PipeParked)
=============================================================================
