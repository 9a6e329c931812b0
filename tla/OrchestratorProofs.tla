------------------------- MODULE OrchestratorProofs -------------------------
(***************************************************************************)
(* Proofs about Orchestrator, for any set of plugs, any set of valid       *)
(* configurations, any pipe capacity and any number of frames.             *)
(***************************************************************************)
EXTENDS Orchestrator, SequenceTheorems, TLAPS

USE DEF Phase, Result, Open, OwesBytes, FrameReady, AllDone, WaitResolves, UnderGrace,
        Insert, ReturnLinks, Kill, FailWith, Connected, MayWrite

LEMMA LinksJoinPlugs ==
  ASSUME links \in Configs
  PROVE  /\ DOMAIN links \subseteq Plug
         /\ Dests(links) \subseteq Plug
         /\ NoSinkShared(links)
         /\ \A s \in DOMAIN links : links[s] \in Plug
  BY ConfigsAssumption DEF WellFormed, Dests

(* A sequence that is not empty is its head before its tail.               *)
LEMMA HeadBeforeTail ==
  ASSUME NEW S, NEW q \in Seq(S), q # <<>>
  PROVE  /\ <<Head(q)>> \in Seq(S)
         /\ Tail(q) \in Seq(S)
         /\ q = <<Head(q)>> \o Tail(q)
<1>1. Head(q) \in S /\ Tail(q) \in Seq(S)
  BY HeadTailProperties
<1>2. <<Head(q)>> \in Seq(S)
  BY <1>1
<1>3. q = <<Head(q)>> \o Tail(q)
  <2>1. Len(q) \in Nat \ {0}
    BY EmptySeq
  <2>2. /\ SubSeq(q, 1, Len(q)) = <<q[1]>> \o SubSeq(q, 2, Len(q))
        /\ SubSeq(q, 1, Len(q)) = q
        /\ Tail(q) = SubSeq(q, 2, Len(q))
        /\ Head(q) = q[1]
    <3>1. 1 \in 1 .. Len(q) /\ Len(q) \in 1 .. Len(q) /\ 1 + 1 = 2
      BY <2>1
    <3>2. SubSeq(q, 1, Len(q)) = <<q[1]>> \o SubSeq(q, 1 + 1, Len(q))
      BY <3>1, SubSeqRecursiveFirst
    <3> QED BY <3>1, <3>2, SubSeqFull, TailIsSubSeq
  <2> QED BY <2>2
<1> QED BY <1>1, <1>2, <1>3

(* A write fills one slot of the pipe.                                     *)
LEMMA WriteTypeOK ==
  ASSUME TypeOK, NEW p \in Plug, Write(p)
  PROVE  backlog' \in [Plug -> 0 .. Cap]
<1>1. backlog[p] \in 0 .. Cap /\ backlog[p] < Cap
  BY DEF TypeOK, Write, Writable
<1>2. backlog[p] + 1 \in 0 .. Cap
  BY <1>1, BoundsAssumption
<1> QED BY <1>2 DEF Write, TypeOK

LEMMA InitTypeOK == Init => TypeOK
<1> SUFFICES ASSUME Init PROVE TypeOK
  OBVIOUS
<1>1. <<>> \in Seq(Frame)
  OBVIOUS
<1>2. 0 \in 0 .. Cap
  BY BoundsAssumption
<1> QED BY <1>1, <1>2 DEF Init, TypeOK

LEMMA ConnectTypeOK ==
  ASSUME TypeOK, NEW p \in Plug, ConnectStep(p)
  PROVE  TypeOK'
<1> USE DEF TypeOK, runVars, halfVars, linkVars, wsVars, pipeVars, plugVars
<1>1. CASE Dial(p)
  BY <1>1 DEF Dial
<1>2. CASE ConnectOk(p)
  BY <1>2 DEF ConnectOk
<1>3. CASE ConnectErr(p)
  BY <1>3 DEF ConnectErr, StartClosing
<1> QED BY <1>1, <1>2, <1>3 DEF ConnectStep

LEMMA RunTypeOK ==
  ASSUME TypeOK, StartLinks \/ Join \/ Return
  PROVE  TypeOK'
<1> USE LinksJoinPlugs DEF TypeOK, runVars, halfVars, linkVars, wsVars, pipeVars, plugVars
<1>1. CASE StartLinks
  BY <1>1 DEF StartLinks
<1>2. CASE Join
  BY <1>2 DEF Join, StartClosing
<1>3. CASE Return
  BY <1>3 DEF Return
<1> QED BY <1>1, <1>2, <1>3

LEMMA LinkTypeOK ==
  ASSUME TypeOK, NEW s \in DOMAIN links, LinkQuit(s) \/ LinkStep(s)
  PROVE  TypeOK'
<1>0. s \in Plug /\ links[s] \in Plug
  BY LinksJoinPlugs DEF TypeOK
<1> USE <1>0 DEF TypeOK, runVars, halfVars, linkVars, wsVars, pipeVars, plugVars
<1>1. CASE LinkQuit(s)
  BY <1>1 DEF LinkQuit, LinkEnds
<1>2. CASE LinkRecv(s)
  <2>1. <<Head(from[s])>> \in Seq(Frame) /\ Tail(from[s]) \in Seq(Frame)
    BY <1>2, HeadBeforeTail DEF LinkRecv
  <2> QED BY <1>2, <2>1 DEF LinkRecv
<1>3. CASE LinkRefused(s)
  <2>1. <<Head(from[s])>> \in Seq(Frame) /\ Tail(from[s]) \in Seq(Frame)
    BY <1>3, HeadBeforeTail DEF LinkRefused
  <2> QED BY <1>3, <2>1 DEF LinkRefused, LinkEnds
<1>4. CASE LinkFlushed(s)
  <2>1. delivered[s] \o held[s] \in Seq(Frame)
    BY ConcatProperties
  <2>2. backlog' \in [Plug -> 0 .. Cap]
    BY <1>4, WriteTypeOK DEF LinkFlushed
  <2>3. <<>> \in Seq(Frame)
    OBVIOUS
  <2> QED BY <1>4, <2>1, <2>2, <2>3 DEF LinkFlushed
<1>5. CASE LinkFlushFails(s)
  <2>1. <<>> \in Seq(Frame)
    OBVIOUS
  <2> QED BY <1>5, <2>1 DEF LinkFlushFails, LinkEnds
<1>6. CASE LinkSeesClose(s)
  BY <1>6 DEF LinkSeesClose
<1>7. CASE LinkReplies(s)
  <2>1. backlog' \in [Plug -> 0 .. Cap]
    BY <1>7, WriteTypeOK DEF LinkReplies
  <2> QED BY <1>7, <2>1 DEF LinkReplies
<1>8. CASE LinkReplyFails(s)
  BY <1>8 DEF LinkReplyFails, LinkEnds
<1>9. CASE LinkSourceEnds(s)
  BY <1>9 DEF LinkSourceEnds, LinkEnds
<1>10. CASE LinkReadError(s)
  BY <1>10 DEF LinkReadError, LinkEnds
<1> QED BY <1>1, <1>2, <1>3, <1>4, <1>5, <1>6, <1>7, <1>8, <1>9, <1>10 DEF LinkStep

LEMMA CloseTypeOK ==
  ASSUME TypeOK, NEW p \in Plug, CloseStep(p)
  PROVE  TypeOK'
<1> USE DEF TypeOK, runVars, halfVars, linkVars, wsVars, pipeVars, plugVars
<1>1. CASE CloseSink(p)
  <2>1. CASE p \in sink /\ OwesBytes(p)
    <3>1. backlog' \in [Plug -> 0 .. Cap]
      BY <1>1, <2>1, WriteTypeOK DEF CloseSink
    <3>2. ws' = [ws EXCEPT ![p] = IF @ = "active" THEN "closed_by_us" ELSE @]
      BY <1>1, <2>1 DEF CloseSink
    <3>3. ws' \in [Plug -> {"active", "closed_by_us", "closed_by_peer", "terminated"}]
      BY <3>2
    <3> QED BY <1>1, <2>1, <3>1, <3>3 DEF CloseSink
  <2>2. CASE ~ (p \in sink /\ OwesBytes(p))
    BY <1>1, <2>2 DEF CloseSink
  <2> QED BY <2>1, <2>2
<1>2. CASE CloseFails(p)
  BY <1>2 DEF CloseFails
<1>3. CASE WaitExits(p)
  BY <1>3 DEF WaitExits
<1>4. CASE GraceExpires(p)
  BY <1>4, ProcessAssumption DEF GraceExpires
<1>5. CASE KillFails(p)
  BY <1>5 DEF KillFails
<1> QED BY <1>1, <1>2, <1>3, <1>4, <1>5 DEF CloseStep

LEMMA PlugTypeOK ==
  ASSUME TypeOK, NEW p \in Plug, PlugStep(p)
  PROVE  TypeOK'
<1> USE DEF TypeOK, runVars, halfVars, linkVars, wsVars, pipeVars, plugVars
<1>1. CASE PlugEmits(p)
  <2>1. Len(emitted[p]) + 1 \in Frame
    BY <1>1, BoundsAssumption DEF PlugEmits, Frame
  <2>2. /\ Append(from[p], Len(emitted[p]) + 1) \in Seq(Frame)
        /\ Append(emitted[p], Len(emitted[p]) + 1) \in Seq(Frame)
    BY <2>1, AppendProperties
  <2> QED BY <1>1, <2>2 DEF PlugEmits
<1>2. CASE PlugReads(p)
  <2>1. backlog[p] - 1 \in 0 .. Cap
    BY <1>2, BoundsAssumption DEF PlugReads
  <2> QED BY <1>2, <2>1 DEF PlugReads
<1>3. CASE PlugEndsStream(p)
  BY <1>3 DEF PlugEndsStream
<1>4. CASE PlugExits(p) \/ PlugClosesInput(p) \/ PlugClosesOutput(p)
  BY <1>4, ProcessAssumption, PlainAssumption
     DEF PlugExits, PlugClosesInput, PlugClosesOutput
<1> QED BY <1>1, <1>2, <1>3, <1>4 DEF PlugStep

LEMMA NextTypeOK == TypeOK /\ [Next]_vars => TypeOK'
<1> SUFFICES ASSUME TypeOK, [Next]_vars PROVE TypeOK'
  OBVIOUS
<1>1. CASE UNCHANGED vars
  BY <1>1 DEF vars, runVars, halfVars, linkVars, wsVars, pipeVars, plugVars, TypeOK
<1>2. CASE Next
  BY <1>2, RunTypeOK, ConnectTypeOK, CloseTypeOK, PlugTypeOK, LinkTypeOK DEF Next
<1> QED BY <1>1, <1>2

(* The state the model keeps for run, its links, its connections and the   *)
(* plugs is always what the declarations of VARIABLES say.                 *)
THEOREM TypeCorrect == Spec => []TypeOK
<1> QED BY InitTypeOK, NextTypeOK, PTL DEF Spec
-----------------------------------------------------------------------------
(* The inductive invariant, in parts.                                      *)

(* Who owns the halves of the connections in each phase of run, and which  *)
(* links are under way.                                                    *)
PhaseInv ==
  /\ phase = "connecting" =>
       /\ stream = connected
       /\ sink = connected
       /\ \A p \in Plug : pc[p] = "idle" /\ ws[p] = "active"
  /\ phase \in {"running", "joining"} =>
       /\ connected = Plug
       /\ stream = Plug \ DOMAIN links
       /\ sink = Plug \ Dests(links)
  /\ phase = "closing" => stream = connected /\ sink = connected
  /\ \A p \in Plug :
       /\ pc[p] \in {"select", "flush"} => phase \in {"running", "joining"}
       /\ pc[p] # "idle" => p \in DOMAIN links
       /\ closer[p] # "idle" => p \in connected
  /\ result = "panic" => DOMAIN links = {}
  /\ result # "none" <=> phase = "returned"

(* A link holds one frame while it flushes and none otherwise; it gives up *)
(* a frame only as it ends.                                                *)
HandInv ==
  \A p \in Plug :
    /\ pc[p] # "flush" => held[p] = <<>>
    /\ pc[p] = "flush" => \E frame \in Frame : held[p] = <<frame>>
    /\ pc[p] # "done" => lost[p] = <<>>

(* A connection leaves the active state for a reason.                      *)
SocketInv ==
  \A p \in Plug :
    /\ ws[p] = "closed_by_peer" => ending[p] = "close"
    /\ ws[p] = "terminated" => p \in mute
    /\ ws[p] \in {"closed_by_peer", "terminated"} => p \in DOMAIN links
    /\ ws[p] = "closed_by_us" => phase \in {"closing", "returned"}

(* Bytes are left in a write buffer by a reply to Close or a failed write; *)
(* a frame being flushed holds the reply back.                             *)
LostTo(p) == \E s \in DOMAIN links : links[s] = p /\ lost[s] # <<>>

UnsentInv ==
  /\ \A p \in unsent : ending[p] = "close" \/ LostTo(p)
  /\ \A s \in DOMAIN links :
       (/\ pc[s] = "flush"
        /\ ending[links[s]] = "close"
        /\ ws[links[s]] # "active") => links[s] \in unsent

(* A closer that is done has seen its child exit.                          *)
ReapInv ==
  /\ phase = "closing" => \A p \in Process : closer[p] = "done" => p \in exited
  /\ CleanExitReapsEveryChild

IInv ==
  /\ TypeOK
  /\ PhaseInv
  /\ HandInv
  /\ SocketInv
  /\ UnsentInv
  /\ ReapInv
  /\ Conservation
  /\ LostOnlyToAClosedPlug
  /\ TearDownHasACause
  /\ FailureHasASubject
-----------------------------------------------------------------------------
(* What the steps of one actor leave alone.                                *)

LEMMA RunFrame ==
  ASSUME StartLinks \/ Join \/ Return
  PROVE  UNCHANGED <<links, dialing, connected, held, delivered, lost, ws,
                     unsent, exited, deaf, mute, from, ending, emitted,
                     backlog>>
  BY DEF StartLinks, Join, Return, StartClosing, runVars, halfVars, linkVars,
     wsVars, pipeVars, plugVars

LEMMA ConnectFrame ==
  ASSUME NEW p \in Plug, ConnectStep(p)
  PROVE  UNCHANGED <<links, result, pc, held, delivered, lost, ws, unsent,
                     exited, deaf, mute, from, ending, emitted, backlog>>
  BY DEF ConnectStep, Dial, ConnectOk, ConnectErr, StartClosing, runVars,
     halfVars, linkVars, wsVars, pipeVars, plugVars

LEMMA LinkFrame ==
  ASSUME TypeOK, NEW s \in DOMAIN links, LinkQuit(s) \/ LinkStep(s)
  PROVE  /\ UNCHANGED <<links, result, dialing, connected, stream, sink, closer,
                        exited, deaf, mute, ending, emitted>>
         /\ phase \in {"running", "joining"}
         /\ phase' = IF pc'[s] = "done" THEN "joining" ELSE phase
         /\ pc[s] \in {"select", "flush"}
         /\ \A t \in Plug \ {s} :
              pc'[t] = pc[t] /\ held'[t] = held[t] /\ lost'[t] = lost[t]
<1> USE LinksJoinPlugs DEF TypeOK, runVars, halfVars, linkVars, wsVars, pipeVars, plugVars,
        Selecting, Flushing
<1>1. CASE LinkQuit(s)
  BY <1>1 DEF LinkQuit, LinkEnds
<1>2. CASE LinkRecv(s)
  BY <1>2 DEF LinkRecv
<1>3. CASE LinkRefused(s)
  BY <1>3 DEF LinkRefused, LinkEnds
<1>4. CASE LinkFlushed(s)
  BY <1>4 DEF LinkFlushed
<1>5. CASE LinkFlushFails(s)
  BY <1>5 DEF LinkFlushFails, LinkEnds
<1>6. CASE LinkSeesClose(s)
  BY <1>6 DEF LinkSeesClose
<1>7. CASE LinkReplies(s)
  BY <1>7 DEF LinkReplies
<1>8. CASE LinkReplyFails(s)
  BY <1>8 DEF LinkReplyFails, LinkEnds
<1>9. CASE LinkSourceEnds(s)
  BY <1>9 DEF LinkSourceEnds, LinkEnds
<1>10. CASE LinkReadError(s)
  BY <1>10 DEF LinkReadError, LinkEnds
<1> QED BY <1>1, <1>2, <1>3, <1>4, <1>5, <1>6, <1>7, <1>8, <1>9, <1>10 DEF LinkStep

LEMMA CloseFrame ==
  ASSUME NEW p \in Plug, CloseStep(p)
  PROVE  /\ UNCHANGED <<links, dialing, connected, stream, sink, pc, held,
                        delivered, lost, from, ending, emitted>>
         /\ phase = "closing"
  BY DEF CloseStep, CloseSink, CloseFails, WaitExits, GraceExpires, KillFails, Closing,
     runVars, halfVars, linkVars, wsVars, pipeVars, plugVars

LEMMA PlugFrame ==
  ASSUME NEW p \in Plug, PlugStep(p)
  PROVE  UNCHANGED <<links, phase, result, dialing, connected, stream, sink, pc,
                     held, delivered, lost, closer, ws, unsent>>
  BY DEF PlugStep, PlugEmits, PlugReads, PlugEndsStream, PlugClosesInput, PlugClosesOutput, PlugExits, runVars,
     halfVars, linkVars, wsVars, pipeVars, plugVars

LEMMA InitInv == Init => IInv
<1> SUFFICES ASSUME Init PROVE IInv
  OBVIOUS
<1>1. TypeOK
  BY InitTypeOK
<1>2. PhaseInv /\ HandInv
  BY DEF Init, PhaseInv, HandInv
<1>3. SocketInv /\ ReapInv
  BY DEF Init, SocketInv, ReapInv, CleanExitReapsEveryChild
<1>4. UnsentInv
  BY <1>1, LinksJoinPlugs DEF Init, UnsentInv, TypeOK
<1>5. Conservation
  BY ConcatEmptySeq, <<>> \in Seq(Frame) DEF Init, Conservation
<1>6. LostOnlyToAClosedPlug
  BY <1>1, LinksJoinPlugs DEF TypeOK, Init, LostOnlyToAClosedPlug
<1>7. TearDownHasACause /\ FailureHasASubject
  BY DEF Init, TearDownHasACause, FailureHasASubject
<1> QED BY <1>1, <1>2, <1>3, <1>4, <1>5, <1>6, <1>7 DEF IInv
-----------------------------------------------------------------------------
LEMMA PhaseInvKept ==
  ASSUME IInv, [Next]_vars
  PROVE  PhaseInv'
<1> USE DEF IInv, TypeOK
<1>1. CASE StartLinks
  <2>1. CASE TakesSucceed /\ DOMAIN links # {}
    BY <1>1, <2>1, RunFrame DEF StartLinks, PhaseInv
  <2>2. CASE ~ (TakesSucceed /\ DOMAIN links # {})
    <3>1. TakesSucceed
      BY <1>1, LinksJoinPlugs DEF StartLinks, PhaseInv, TakesSucceed
    <3> QED BY <1>1, <2>2, <3>1, RunFrame DEF StartLinks, PhaseInv
  <2> QED BY <2>1, <2>2
<1>2. CASE Join
  <2>1. \A p \in Plug : pc'[p] \notin {"select", "flush"}
    BY <1>2 DEF Join, PhaseInv, linkVars
  <2>2. stream' = connected /\ sink' = connected
    BY <1>2, LinksJoinPlugs DEF Join, PhaseInv
  <2>3. phase' = "closing" /\ phase # "returned" /\ UNCHANGED <<links, result, connected, pc>>
    BY <1>2 DEF Join, StartClosing, linkVars
  <2>4. \A p \in Plug : closer'[p] # "idle" => p \in connected
    BY <1>2 DEF Join, StartClosing
  <2> QED BY <2>1, <2>2, <2>3, <2>4 DEF PhaseInv
<1>3. CASE Return
  BY <1>3, RunFrame DEF Return, PhaseInv, halfVars, linkVars
<1>4. ASSUME NEW p \in Plug, ConnectStep(p) PROVE PhaseInv'
  <2>1. CASE Dial(p)
    BY <2>1 DEF Dial, PhaseInv, halfVars, linkVars, wsVars
  <2>2. CASE ConnectOk(p)
    BY <2>2 DEF ConnectOk, PhaseInv, linkVars, wsVars
  <2>3. CASE ConnectErr(p)
    BY <2>3 DEF ConnectErr, StartClosing, PhaseInv, halfVars, linkVars, wsVars
  <2> QED BY <1>4, <2>1, <2>2, <2>3 DEF ConnectStep
<1>5. ASSUME NEW p \in Plug, CloseStep(p) PROVE PhaseInv'
  <2>1. CASE CloseFails(p) \/ KillFails(p)
    <3>1. phase' = "returned" /\ result' \in {"close_error", "kill_error"} /\ closer' = closer
      BY <2>1 DEF CloseFails, KillFails
    <3>2. UNCHANGED <<links, connected, stream, sink, pc>> /\ phase = "closing"
      BY <1>5, CloseFrame
    <3>3. PhaseInv
      OBVIOUS
    <3> HIDE DEF IInv, TypeOK
    <3> QED BY <3>1, <3>2, <3>3 DEF PhaseInv
  <2>2. CASE CloseSink(p) \/ WaitExits(p) \/ GraceExpires(p)
    <3>1. phase' = phase /\ result' = result
      BY <2>2 DEF CloseSink, WaitExits, GraceExpires, runVars
    <3>2. closer[p] # "idle" /\ \A q \in Plug \ {p} : closer'[q] = closer[q]
      BY <2>2 DEF CloseSink, WaitExits, GraceExpires, Closing
    <3>3. \A q \in Plug : closer'[q] # "idle" => q \in connected
      BY <3>2 DEF PhaseInv
    <3>4. UNCHANGED <<links, connected, stream, sink, pc>> /\ phase = "closing"
      BY <1>5, CloseFrame
    <3>5. PhaseInv
      OBVIOUS
    <3> HIDE DEF IInv, TypeOK
    <3> QED BY <3>1, <3>3, <3>4, <3>5 DEF PhaseInv
  <2> QED BY <1>5, <2>1, <2>2 DEF CloseStep
<1>6. ASSUME NEW p \in Plug, PlugStep(p) PROVE PhaseInv'
  <2>1. UNCHANGED <<links, phase, result, connected, stream, sink, pc, closer, ws>>
    BY <1>6, PlugFrame
  <2>2. PhaseInv
    OBVIOUS
  <2> HIDE DEF IInv, TypeOK
  <2> QED BY <2>1, <2>2 DEF PhaseInv
<1>7. ASSUME NEW s \in DOMAIN links, LinkQuit(s) \/ LinkStep(s) PROVE PhaseInv'
  <2>1. phase \in {"running", "joining"} /\ phase' \in {"running", "joining"}
    BY <1>7, LinkFrame
  <2>2. UNCHANGED <<links, result, connected, stream, sink, closer>>
    BY <1>7, LinkFrame
  <2>3. pc[s] # "idle" /\ \A t \in Plug \ {s} : pc'[t] = pc[t]
    BY <1>7, LinkFrame
  <2>4. \A t \in Plug : pc'[t] # "idle" => t \in DOMAIN links
    BY <2>3 DEF PhaseInv
  <2> QED BY <2>1, <2>2, <2>4 DEF PhaseInv
<1>8. CASE UNCHANGED vars
  BY <1>8 DEF vars, runVars, halfVars, linkVars, wsVars, PhaseInv
<1> QED BY <1>1, <1>2, <1>3, <1>4, <1>5, <1>6, <1>7, <1>8 DEF Next

LEMMA HandInvKept ==
  ASSUME IInv, [Next]_vars
  PROVE  HandInv'
<1> USE DEF IInv, TypeOK
<1>1. CASE StartLinks
  <2>1. \A p \in Plug : pc'[p] \in {"idle", "select"} /\ held[p] = <<>> /\ lost[p] = <<>>
    BY <1>1 DEF StartLinks, PhaseInv, HandInv
  <2> QED BY <1>1, <2>1, RunFrame DEF HandInv
<1>2. CASE Join \/ Return
  BY <1>2, RunFrame DEF Join, Return, HandInv, linkVars
<1>3. ASSUME NEW p \in Plug, ConnectStep(p) PROVE HandInv'
  BY <1>3, ConnectFrame DEF HandInv
<1>4. ASSUME NEW p \in Plug, CloseStep(p) PROVE HandInv'
  BY <1>4, CloseFrame DEF HandInv
<1>5. ASSUME NEW p \in Plug, PlugStep(p) PROVE HandInv'
  BY <1>5, PlugFrame DEF HandInv
<1>6. ASSUME NEW s \in DOMAIN links, LinkQuit(s) \/ LinkStep(s) PROVE HandInv'
  <2> s \in Plug
    BY LinksJoinPlugs
  <2> DEFINE Hand(t) == /\ pc'[t] # "flush" => held'[t] = <<>>
                        /\ pc'[t] = "flush" => \E frame \in Frame : held'[t] = <<frame>>
                        /\ pc'[t] # "done" => lost'[t] = <<>>
  <2>1. ASSUME NEW t \in Plug \ {s} PROVE Hand(t)
    <3>1. pc'[t] = pc[t] /\ held'[t] = held[t] /\ lost'[t] = lost[t]
      BY <1>6, LinkFrame
    <3> QED BY <3>1 DEF HandInv
  <2>2. Hand(s)
    <3>1. CASE LinkRecv(s)
      <4>1. Head(from[s]) \in Frame
        BY <3>1, HeadTailProperties DEF LinkRecv
      <4> QED BY <3>1, <4>1 DEF LinkRecv, HandInv, Selecting
    <3>2. CASE LinkRefused(s)
      BY <3>2 DEF LinkRefused, LinkEnds, HandInv, Selecting
    <3>3. CASE LinkFlushed(s)
      BY <3>3 DEF LinkFlushed, HandInv, Flushing
    <3>4. CASE LinkFlushFails(s)
      BY <3>4 DEF LinkFlushFails, LinkEnds, HandInv, Flushing
    <3>5. CASE LinkSeesClose(s) \/ LinkReplies(s)
      BY <3>5 DEF LinkSeesClose, LinkReplies, HandInv, linkVars
    <3>6. CASE LinkQuit(s) \/ LinkReplyFails(s) \/ LinkSourceEnds(s) \/ LinkReadError(s)
      BY <3>6 DEF LinkQuit, LinkReplyFails, LinkSourceEnds, LinkReadError,
         LinkEnds, HandInv, Selecting
    <3> QED BY <1>6, <3>1, <3>2, <3>3, <3>4, <3>5, <3>6 DEF LinkStep
  <2> QED BY <2>1, <2>2 DEF HandInv
<1>7. CASE UNCHANGED vars
  BY <1>7 DEF vars, linkVars, HandInv
<1> QED BY <1>1, <1>2, <1>3, <1>4, <1>5, <1>6, <1>7 DEF Next

LEMMA SocketInvKept ==
  ASSUME IInv, [Next]_vars
  PROVE  SocketInv'
<1> USE DEF IInv, TypeOK
<1>1. CASE StartLinks \/ Join \/ Return
  BY <1>1, RunFrame DEF StartLinks, Join, StartClosing, Return, SocketInv
<1>2. ASSUME NEW p \in Plug, ConnectStep(p) PROVE SocketInv'
  <2>1. \A q \in Plug : ws'[q] = "active"
    BY <1>2, ConnectFrame DEF ConnectStep, Dial, ConnectOk, ConnectErr, PhaseInv
  <2> QED BY <2>1 DEF SocketInv
<1>3. ASSUME NEW p \in Plug, CloseStep(p) PROVE SocketInv'
  <2>1. phase = "closing" /\ phase' \in {"closing", "returned"}
    BY <1>3, CloseFrame DEF CloseStep, CloseSink, CloseFails, WaitExits,
       GraceExpires, KillFails, runVars
  <2>2. \A q \in Plug : ws'[q] = ws[q] \/ ws'[q] = "closed_by_us"
    BY <1>3 DEF CloseStep, CloseSink, CloseFails, WaitExits, GraceExpires, KillFails, wsVars
  <2>3. mute' = mute
    BY <1>3 DEF CloseStep, CloseSink, CloseFails, WaitExits, GraceExpires, KillFails, pipeVars, plugVars
  <2> QED BY <1>3, <2>1, <2>2, <2>3, CloseFrame DEF SocketInv
<1>4. ASSUME NEW p \in Plug, PlugStep(p) PROVE SocketInv'
  <2>1. mute \subseteq mute' /\ \A q \in Plug : ending[q] = "close" => ending'[q] = "close"
    BY <1>4 DEF PlugStep, PlugEmits, PlugReads, PlugEndsStream, PlugClosesInput, PlugClosesOutput, PlugExits, pipeVars, plugVars
  <2> QED BY <1>4, <2>1, PlugFrame DEF SocketInv
<1>5. ASSUME NEW s \in DOMAIN links, LinkQuit(s) \/ LinkStep(s) PROVE SocketInv'
  <2> s \in Plug
    BY LinksJoinPlugs
  <2>1. \A q \in Plug \ {s} : ws'[q] = ws[q]
    BY <1>5 DEF LinkQuit, LinkStep, LinkRecv, LinkRefused, LinkFlushed,
       LinkFlushFails, LinkSeesClose, LinkReplies, LinkReplyFails,
       LinkSourceEnds, LinkReadError, wsVars
  <2>2. \/ ws'[s] = ws[s]
        \/ ws'[s] = "closed_by_peer" /\ ending[s] = "close"
        \/ ws'[s] = "terminated" /\ s \in mute
    BY <1>5 DEF LinkQuit, LinkStep, LinkRecv, LinkRefused, LinkFlushed,
       LinkFlushFails, LinkSeesClose, LinkReplies, LinkReplyFails,
       LinkSourceEnds, LinkReadError, AtEof, wsVars
  <2>3. phase \in {"running", "joining"} /\ UNCHANGED <<links, mute, ending>>
    BY <1>5, LinkFrame
  <2> QED BY <2>1, <2>2, <2>3 DEF SocketInv
<1>6. CASE UNCHANGED vars
  BY <1>6 DEF vars, runVars, wsVars, pipeVars, plugVars, SocketInv
<1> QED BY <1>1, <1>2, <1>3, <1>4, <1>5, <1>6 DEF Next

LEMMA ReapInvKept ==
  ASSUME IInv, [Next]_vars
  PROVE  ReapInv'
<1> USE DEF IInv, TypeOK, CleanExitReapsEveryChild
<1>1. CASE StartLinks
  BY <1>1, RunFrame DEF StartLinks, ReapInv, PhaseInv
<1>2. CASE Join
  BY <1>2, RunFrame, ProcessAssumption DEF Join, StartClosing, ReapInv
<1>3. CASE Return
  BY <1>3, RunFrame DEF Return, ReapInv
<1>4. ASSUME NEW p \in Plug, ConnectStep(p) PROVE ReapInv'
  <2>1. phase = "connecting" /\ result' = "none"
    BY <1>4, ConnectFrame DEF ConnectStep, Dial, ConnectOk, ConnectErr, PhaseInv
  <2>2. phase' = "closing" => \A q \in Plug : closer'[q] # "done"
    BY <1>4, <2>1 DEF ConnectStep, Dial, ConnectOk, ConnectErr, StartClosing
  <2> QED BY <2>1, <2>2, ProcessAssumption DEF ReapInv
<1>5. ASSUME NEW p \in Plug, CloseStep(p) PROVE ReapInv'
  <2>1. CASE CloseSink(p)
    BY <2>1 DEF CloseSink, Closing, ReapInv, PhaseInv, runVars, pipeVars, plugVars
  <2>2. CASE CloseFails(p)
    BY <2>2 DEF CloseFails, Closing, ReapInv
  <2>3. CASE WaitExits(p)
    BY <2>3 DEF WaitExits, ReapInv, PhaseInv, runVars, pipeVars, plugVars
  <2>4. CASE GraceExpires(p)
    BY <2>4 DEF GraceExpires, ReapInv, PhaseInv, runVars
  <2>5. CASE KillFails(p)
    BY <2>5 DEF KillFails, ReapInv
  <2> QED BY <1>5, <2>1, <2>2, <2>3, <2>4, <2>5 DEF CloseStep
<1>6. ASSUME NEW p \in Plug, PlugStep(p) PROVE ReapInv'
  <2>1. exited \subseteq exited'
    BY <1>6 DEF PlugStep, PlugEmits, PlugReads, PlugEndsStream, PlugClosesInput, PlugClosesOutput, PlugExits, pipeVars, plugVars
  <2> QED BY <1>6, <2>1, PlugFrame, ProcessAssumption DEF ReapInv
<1>7. ASSUME NEW s \in DOMAIN links, LinkQuit(s) \/ LinkStep(s) PROVE ReapInv'
  BY <1>7, LinkFrame DEF ReapInv, PhaseInv
<1>8. CASE UNCHANGED vars
  BY <1>8 DEF vars, runVars, pipeVars, plugVars, ReapInv
<1> QED BY <1>1, <1>2, <1>3, <1>4, <1>5, <1>6, <1>7, <1>8 DEF Next
-----------------------------------------------------------------------------
(* The ways a frame moves along `delivered \o lost \o held \o from`.       *)

LEMMA ReadMoves ==
  ASSUME NEW d \in Seq(Frame), NEW f \in Seq(Frame), f # <<>>
  PROVE  /\ d \o <<>> \o <<>> \o f = d \o <<>> \o <<Head(f)>> \o Tail(f)
         /\ d \o <<>> \o <<>> \o f = d \o <<Head(f)>> \o <<>> \o Tail(f)
<1> DEFINE h == <<Head(f)>>
           t == Tail(f)
<1>1. h \in Seq(Frame) /\ t \in Seq(Frame) /\ f = h \o t
  BY HeadBeforeTail
<1>2. d \o <<>> = d /\ d \o h \in Seq(Frame) /\ (d \o h) \o <<>> = d \o h
  BY <1>1, ConcatEmptySeq, ConcatProperties
<1>3. d \o f = (d \o h) \o t
  BY <1>1, ConcatAssociative
<1> HIDE DEF h, t
<1>4. d \o <<>> \o <<>> \o f = d \o <<>> \o h \o t
  BY <1>2, <1>3
<1>5. d \o <<>> \o <<>> \o f = d \o h \o <<>> \o t
  BY <1>2, <1>3
<1> QED BY <1>4, <1>5 DEF h, t

LEMMA WriteMoves ==
  ASSUME NEW d \in Seq(Frame), NEW h \in Seq(Frame), NEW f \in Seq(Frame)
  PROVE  /\ d \o <<>> \o h \o f = (d \o h) \o <<>> \o <<>> \o f
         /\ d \o <<>> \o h \o f = d \o h \o <<>> \o f
<1>1. d \o <<>> = d /\ d \o h \in Seq(Frame)
  BY ConcatEmptySeq, ConcatProperties
<1>2. (d \o h) \o <<>> = d \o h
  BY <1>1, ConcatEmptySeq
<1> QED BY <1>1, <1>2

LEMMA EmitMoves ==
  ASSUME NEW x \in Seq(Frame), NEW f \in Seq(Frame), NEW frame \in Frame
  PROVE  Append(x \o f, frame) = x \o Append(f, frame)
<1>1. x \o f \in Seq(Frame) /\ <<frame>> \in Seq(Frame)
  BY ConcatProperties
<1>2. Append(x \o f, frame) = (x \o f) \o <<frame>>
  BY <1>1, AppendIsConcat
<1>3. Append(f, frame) = f \o <<frame>>
  BY AppendIsConcat
<1> QED BY <1>1, <1>2, <1>3, ConcatAssociative

LEMMA ConservationKept ==
  ASSUME IInv, [Next]_vars
  PROVE  Conservation'
<1> USE DEF IInv, TypeOK
<1>1. CASE StartLinks \/ Join \/ Return
  BY <1>1, RunFrame DEF Conservation
<1>2. ASSUME NEW p \in Plug, ConnectStep(p) PROVE Conservation'
  BY <1>2, ConnectFrame DEF Conservation
<1>3. ASSUME NEW p \in Plug, CloseStep(p) PROVE Conservation'
  BY <1>3, CloseFrame DEF Conservation
<1>4. ASSUME NEW p \in Plug, PlugStep(p) PROVE Conservation'
  <2>1. CASE PlugEmits(p)
    <3> DEFINE frame == Len(emitted[p]) + 1
               x == delivered[p] \o lost[p] \o held[p]
    <3>1. frame \in Frame /\ x \in Seq(Frame)
      BY <2>1, BoundsAssumption, ConcatProperties DEF PlugEmits, Frame
    <3>2. emitted'[p] = Append(emitted[p], frame) /\ from'[p] = Append(from[p], frame)
      BY <2>1 DEF PlugEmits
    <3>3. emitted[p] = x \o from[p]
      BY DEF Conservation
    <3> HIDE DEF frame, x
    <3>4. emitted'[p] = x \o from'[p]
      <4>1. from[p] \in Seq(Frame)
        OBVIOUS
      <4>2. Append(x \o from[p], frame) = x \o Append(from[p], frame)
        BY <3>1, <4>1, EmitMoves
      <4> QED BY <3>2, <3>3, <4>2
    <3>5. \A q \in Plug \ {p} : emitted'[q] = emitted[q] /\ from'[q] = from[q]
      BY <2>1 DEF PlugEmits
    <3> QED BY <1>4, <3>4, <3>5, PlugFrame DEF Conservation, x
  <2>2. CASE \/ PlugReads(p) \/ PlugEndsStream(p) \/ PlugClosesInput(p)
             \/ PlugClosesOutput(p) \/ PlugExits(p)
    <3>1. UNCHANGED <<from, emitted>>
      BY <2>2 DEF PlugReads, PlugEndsStream, PlugClosesInput, PlugClosesOutput,
         PlugExits, pipeVars, plugVars
    <3> QED BY <1>4, <3>1, PlugFrame DEF Conservation
  <2> QED BY <1>4, <2>1, <2>2 DEF PlugStep
<1>5. ASSUME NEW s \in DOMAIN links, LinkQuit(s) \/ LinkStep(s) PROVE Conservation'
  <2> s \in Plug
    BY LinksJoinPlugs
  <2>1. UNCHANGED emitted /\ pc[s] \in {"select", "flush"}
    BY <1>5, LinkFrame
  <2>2. lost[s] = <<>> /\ (pc[s] = "select" => held[s] = <<>>)
    BY <2>1 DEF HandInv
  <2>3. \A t \in Plug \ {s} : /\ delivered'[t] = delivered[t]
                              /\ lost'[t] = lost[t]
                              /\ held'[t] = held[t]
                              /\ from'[t] = from[t]
    BY <1>5 DEF LinkQuit, LinkStep, LinkRecv, LinkRefused, LinkFlushed,
       LinkFlushFails, LinkSeesClose, LinkReplies, LinkReplyFails,
       LinkSourceEnds, LinkReadError, linkVars, pipeVars, plugVars
  <2>4. emitted[s] = delivered'[s] \o lost'[s] \o held'[s] \o from'[s]
    <3> delivered[s] \in Seq(Frame) /\ held[s] \in Seq(Frame) /\ from[s] \in Seq(Frame)
      OBVIOUS
    <3>0. emitted[s] = delivered[s] \o lost[s] \o held[s] \o from[s]
      BY DEF Conservation
    <3>1. CASE LinkRecv(s)
      <4>1. /\ held[s] = <<>>
            /\ delivered'[s] = delivered[s]
            /\ lost'[s] = <<>>
            /\ held'[s] = <<Head(from[s])>>
            /\ from'[s] = Tail(from[s])
        BY <3>1, <2>2 DEF LinkRecv, Selecting
      <4>2. delivered[s] \o <<>> \o <<>> \o from[s]
              = delivered[s] \o <<>> \o <<Head(from[s])>> \o Tail(from[s])
        BY <3>1, ReadMoves DEF LinkRecv
      <4> QED BY <2>2, <3>0, <4>1, <4>2
    <3>2. CASE LinkRefused(s)
      <4>1. /\ held[s] = <<>>
            /\ delivered'[s] = delivered[s]
            /\ lost'[s] = <<Head(from[s])>>
            /\ held'[s] = <<>>
            /\ from'[s] = Tail(from[s])
        BY <3>2, <2>2 DEF LinkRefused, Selecting
      <4>2. delivered[s] \o <<>> \o <<>> \o from[s]
              = delivered[s] \o <<Head(from[s])>> \o <<>> \o Tail(from[s])
        BY <3>2, ReadMoves DEF LinkRefused
      <4> QED BY <2>2, <3>0, <4>1, <4>2
    <3>3. CASE LinkFlushed(s)
      <4>1. /\ pc[s] = "flush"
            /\ delivered'[s] = (delivered[s] \o held[s])
            /\ lost'[s] = <<>>
            /\ held'[s] = <<>>
            /\ from'[s] = from[s]
        BY <3>3, <2>2 DEF LinkFlushed, Flushing, pipeVars, plugVars
      <4>2. delivered[s] \o <<>> \o held[s] \o from[s]
              = (delivered[s] \o held[s]) \o <<>> \o <<>> \o from[s]
        BY WriteMoves
      <4> QED BY <2>2, <3>0, <4>1, <4>2
    <3>4. CASE LinkFlushFails(s)
      <4>1. /\ pc[s] = "flush"
            /\ delivered'[s] = delivered[s]
            /\ lost'[s] = held[s]
            /\ held'[s] = <<>>
            /\ from'[s] = from[s]
        BY <3>4, <2>2 DEF LinkFlushFails, Flushing, pipeVars, plugVars
      <4>2. delivered[s] \o <<>> \o held[s] \o from[s]
              = delivered[s] \o held[s] \o <<>> \o from[s]
        BY WriteMoves
      <4> QED BY <2>2, <3>0, <4>1, <4>2
    <3>5. CASE \/ LinkQuit(s) \/ LinkSeesClose(s) \/ LinkReplies(s)
               \/ LinkReplyFails(s) \/ LinkSourceEnds(s) \/ LinkReadError(s)
      BY <3>5 DEF LinkQuit, LinkSeesClose, LinkReplies, LinkReplyFails,
         LinkSourceEnds, LinkReadError, Conservation, linkVars, pipeVars, plugVars
    <3> QED BY <1>5, <3>1, <3>2, <3>3, <3>4, <3>5 DEF LinkStep
  <2> QED BY <2>1, <2>3, <2>4 DEF Conservation
<1>6. CASE UNCHANGED vars
  BY <1>6 DEF vars, linkVars, pipeVars, plugVars, Conservation
<1> QED BY <1>1, <1>2, <1>3, <1>4, <1>5, <1>6 DEF Next
-----------------------------------------------------------------------------
(* A frame given up stays given up, a Close stays announced, and what was  *)
(* closed or has exited stays so.                                          *)
LEMMA LossesStay ==
  ASSUME IInv, [Next]_vars
  PROVE  /\ \A s \in Plug : lost[s] # <<>> => lost'[s] = lost[s]
         /\ \A p \in Plug : ending[p] = "close" => ending'[p] = "close"
         /\ exited \subseteq exited' /\ deaf \subseteq deaf' /\ mute \subseteq mute'
         /\ links' = links
<1> USE DEF IInv, TypeOK
<1>1. CASE StartLinks \/ Join \/ Return
  BY <1>1, RunFrame
<1>2. ASSUME NEW p \in Plug, ConnectStep(p)
      PROVE  UNCHANGED <<lost, ending, links, exited, deaf, mute>>
  BY <1>2, ConnectFrame
<1>3. ASSUME NEW p \in Plug, CloseStep(p)
      PROVE  /\ UNCHANGED <<lost, ending, links, deaf, mute>>
             /\ exited \subseteq exited'
  BY <1>3, CloseFrame DEF CloseStep, CloseSink, CloseFails, WaitExits,
     GraceExpires, KillFails, pipeVars, plugVars
<1>4. ASSUME NEW p \in Plug, PlugStep(p)
      PROVE  /\ UNCHANGED <<lost, links>>
             /\ \A q \in Plug : ending[q] = "close" => ending'[q] = "close"
             /\ exited \subseteq exited' /\ deaf \subseteq deaf' /\ mute \subseteq mute'
  BY <1>4, PlugFrame DEF PlugStep, PlugEmits, PlugReads, PlugEndsStream, PlugClosesInput,
     PlugClosesOutput, PlugExits, pipeVars, plugVars
<1>5. ASSUME NEW s \in DOMAIN links, LinkQuit(s) \/ LinkStep(s)
      PROVE  /\ \A t \in Plug : lost[t] # <<>> => lost'[t] = lost[t]
             /\ UNCHANGED <<ending, links, exited, deaf, mute>>
  <2>1. lost[s] = <<>>
    BY <1>5, LinkFrame, LinksJoinPlugs DEF HandInv
  <2> QED BY <1>5, <2>1, LinkFrame
<1>6. CASE UNCHANGED vars
  BY <1>6 DEF vars, runVars, linkVars, pipeVars, plugVars
<1> QED BY <1>1, <1>2, <1>3, <1>4, <1>5, <1>6 DEF Next

LEMMA LostOnlyKept ==
  ASSUME IInv, [Next]_vars
  PROVE  LostOnlyToAClosedPlug'
<1> USE DEF IInv, TypeOK
<1> SUFFICES ASSUME NEW s \in DOMAIN links, lost'[s] # <<>>
             PROVE  \/ links[s] \in deaf'
                    \/ /\ ws'[links[s]] # "active"
                       /\ ending'[links[s]] = "close" \/ links[s] \in mute'
  BY LossesStay DEF LostOnlyToAClosedPlug
<1> s \in Plug /\ links[s] \in Plug
  BY LinksJoinPlugs
<1>1. ws[links[s]] # "active" => ws'[links[s]] # "active"
  BY DEF Next, StartLinks, Join, Return, ConnectStep, Dial, ConnectOk, ConnectErr,
     CloseStep, CloseSink, CloseFails, WaitExits, GraceExpires, KillFails, PlugStep,
     PlugEmits, PlugReads, PlugEndsStream, PlugClosesInput, PlugClosesOutput, PlugExits, LinkQuit, LinkStep,
     LinkRecv, LinkRefused, LinkFlushed, LinkFlushFails, LinkSeesClose,
     LinkReplies, LinkReplyFails, LinkSourceEnds, LinkReadError, LinkEnds,
     vars, wsVars
<1>2. CASE lost[s] # <<>>
  BY <1>1, <1>2, LossesStay DEF LostOnlyToAClosedPlug
<1>3. CASE lost[s] = <<>>
  <2>1. LinkRefused(s) \/ LinkFlushFails(s)
    <3>1. lost' # lost
      BY <1>3
    <3>2. PICK t \in DOMAIN links : LinkQuit(t) \/ LinkStep(t)
      BY <3>1, RunFrame, ConnectFrame, CloseFrame, PlugFrame DEF Next, vars, linkVars
    <3>3. t = s
      BY <1>3, <3>2, LinkFrame
    <3> QED BY <3>1, <3>2, <3>3 DEF LinkQuit, LinkStep, LinkRecv, LinkFlushed,
         LinkSeesClose, LinkReplies, LinkReplyFails, LinkSourceEnds,
         LinkReadError, linkVars
  <2>2. phase \in {"running", "joining"}
    BY <2>1 DEF LinkRefused, LinkFlushFails, Selecting, Flushing
  <2>3. CASE LinkRefused(s)
    <3>1. ws[links[s]] \in {"closed_by_peer", "terminated"}
      BY <2>2, <2>3 DEF LinkRefused, SocketInv
    <3>2. links[s] \in mute \/ ending[links[s]] = "close"
      BY <3>1 DEF SocketInv
    <3> QED BY <1>1, <2>2, <3>1, <3>2, LossesStay
  <2>4. CASE LinkFlushFails(s)
    BY <2>2, <2>4, LossesStay DEF LinkFlushFails
  <2> QED BY <2>1, <2>3, <2>4
<1> QED BY <1>2, <1>3

LEMMA TearDownKept ==
  ASSUME IInv, [Next]_vars
  PROVE  TearDownHasACause'
<1> USE DEF IInv, TypeOK
<1> SUFFICES ASSUME phase' = "joining"
             PROVE  \E s \in DOMAIN links :
                      s \in mute' \/ ending'[s] # "none" \/ links[s] \in deaf'
  BY LossesStay DEF TearDownHasACause
<1>1. CASE phase = "joining"
  <2>1. \A p \in Plug : ending[p] # "none" => ending'[p] # "none"
    BY DEF Next, StartLinks, Join, Return, ConnectStep, Dial, ConnectOk, ConnectErr,
     CloseStep, CloseSink, CloseFails, WaitExits, GraceExpires, KillFails, PlugStep,
     PlugEmits, PlugReads, PlugEndsStream, PlugClosesInput, PlugClosesOutput, PlugExits, LinkQuit, LinkStep,
     LinkRecv, LinkRefused, LinkFlushed, LinkFlushFails, LinkSeesClose,
     LinkReplies, LinkReplyFails, LinkSourceEnds, LinkReadError, vars, pipeVars, plugVars
  <2>2. DOMAIN links \subseteq Plug
    BY LinksJoinPlugs
  <2> QED BY <1>1, <2>1, <2>2, LossesStay DEF TearDownHasACause
<1>2. CASE phase # "joining"
  <2>1. PICK s \in DOMAIN links :
          \/ LinkRefused(s) \/ LinkFlushFails(s) \/ LinkReplyFails(s)
          \/ LinkSourceEnds(s) \/ LinkReadError(s)
    BY <1>2 DEF Next, StartLinks, Join, Return, StartClosing, ConnectStep, Dial,
     ConnectOk, ConnectErr, CloseStep, CloseSink, CloseFails, WaitExits,
     GraceExpires, KillFails, PlugStep, PlugEmits, PlugReads, PlugEndsStream, PlugClosesInput, PlugClosesOutput, PlugExits,
     LinkQuit, LinkStep, LinkRecv, LinkFlushed, LinkSeesClose, LinkReplies,
     vars, runVars
  <2> s \in Plug /\ links[s] \in Plug
    BY LinksJoinPlugs
  <2>2. phase \in {"running", "joining"}
    BY <2>1 DEF LinkRefused, LinkFlushFails, LinkReplyFails, LinkSourceEnds,
       LinkReadError, Selecting, Flushing
  <2>3. CASE LinkRefused(s)
    <3>1. ws[links[s]] \in {"closed_by_peer", "terminated"}
      BY <2>2, <2>3 DEF LinkRefused, SocketInv
    <3> QED BY <2>2, <3>1, LossesStay DEF SocketInv
  <2>4. CASE LinkFlushFails(s)
    BY <2>2, <2>4, LossesStay DEF LinkFlushFails
  <2>5. CASE LinkReplyFails(s)
    BY <2>5, LossesStay DEF LinkReplyFails, SocketInv
  <2>6. CASE LinkSourceEnds(s)
    BY <2>6, LossesStay DEF LinkSourceEnds, AtEof
  <2>7. CASE LinkReadError(s)
    BY <2>7 DEF LinkReadError, pipeVars, plugVars
  <2> QED BY <2>1, <2>3, <2>4, <2>5, <2>6, <2>7
<1> QED BY <1>1, <1>2

LEMMA LostToStays ==
  ASSUME IInv, [Next]_vars, NEW p \in Plug, LostTo(p)
  PROVE  LostTo(p)'
<1>1. PICK s \in DOMAIN links : links[s] = p /\ lost[s] # <<>>
  BY DEF LostTo
<1>2. s \in Plug
  BY LinksJoinPlugs DEF IInv, TypeOK
<1> QED BY <1>1, <1>2, LossesStay DEF LostTo

LEMMA UnsentInvKept ==
  ASSUME IInv, [Next]_vars
  PROVE  UnsentInv'
<1> USE DEF IInv, TypeOK
<1>1. CASE StartLinks
  <2>1. \A s \in Plug : pc'[s] # "flush"
    BY <1>1 DEF StartLinks, PhaseInv
  <2>2. UNCHANGED <<links, lost, ws, unsent, ending>> /\ DOMAIN links \subseteq Plug
    BY <1>1, RunFrame, LinksJoinPlugs
  <2>3. UnsentInv
    OBVIOUS
  <2> HIDE DEF IInv, TypeOK
  <2> QED BY <2>1, <2>2, <2>3 DEF UnsentInv, LostTo
<1>2. CASE Join \/ Return
  <2>1. UNCHANGED <<links, pc, lost, ws, unsent, ending>>
    BY <1>2, RunFrame DEF Join, Return, linkVars
  <2> QED BY <2>1 DEF UnsentInv, LostTo
<1>3. ASSUME NEW p \in Plug, ConnectStep(p) PROVE UnsentInv'
  <2>1. UNCHANGED <<links, pc, lost, ws, unsent, ending>>
    BY <1>3, ConnectFrame
  <2> QED BY <2>1 DEF UnsentInv, LostTo
<1>4. ASSUME NEW p \in Plug, CloseStep(p) PROVE UnsentInv'
  <2>1. UNCHANGED <<links, pc, lost, ending>> /\ phase = "closing"
    BY <1>4, CloseFrame
  <2>2. unsent' \subseteq unsent
    BY <1>4 DEF CloseStep, CloseSink, CloseFails, WaitExits, GraceExpires, KillFails, wsVars
  <2>3. UnsentInv /\ PhaseInv /\ DOMAIN links \subseteq Plug
    BY LinksJoinPlugs
  <2> HIDE DEF IInv, TypeOK
  <2>4. \A s \in Plug : pc[s] # "flush"
    BY <2>1, <2>3 DEF PhaseInv
  <2> QED BY <2>1, <2>2, <2>3, <2>4 DEF UnsentInv, LostTo
<1>5. ASSUME NEW p \in Plug, PlugStep(p) PROVE UnsentInv'
  <2>1. UNCHANGED <<links, pc, lost, ws, unsent, phase>>
    BY <1>5, PlugFrame
  <2>2. \A q \in Plug : ending[q] = "close" => ending'[q] = "close"
    BY LossesStay
  <2>3. ASSUME NEW q \in Plug, ending'[q] = "close", ws[q] # "active",
               phase \in {"running", "joining"}
        PROVE  ending[q] = "close"
    <3>1. ending[q] # "close" => q \in mute
      BY <2>3 DEF SocketInv
    <3> QED BY <1>5, <2>3, <3>1 DEF PlugStep, PlugEmits, PlugReads,
         PlugEndsStream, PlugClosesInput, PlugClosesOutput, PlugExits, pipeVars, plugVars
  <2>4. \A s \in DOMAIN links : pc[s] = "flush" =>
          phase \in {"running", "joining"} /\ links[s] \in Plug
    BY LinksJoinPlugs DEF PhaseInv
  <2> QED BY <2>1, <2>2, <2>3, <2>4 DEF UnsentInv, LostTo
<1>6. ASSUME NEW s \in DOMAIN links, LinkQuit(s) \/ LinkStep(s) PROVE UnsentInv'
  <2> s \in Plug /\ links[s] \in Plug
    BY LinksJoinPlugs
  <2>1. UNCHANGED <<links, ending>> /\ \A t \in Plug \ {s} : pc'[t] = pc[t]
    BY <1>6, LinkFrame
  <2>2. \A t \in DOMAIN links : t \in Plug /\ links[t] \in Plug
    BY LinksJoinPlugs
  <2>3. \A q \in Plug : LostTo(q) => LostTo(q)'
    BY LostToStays
  <2>4. CASE LinkRecv(s)
    BY <2>1, <2>2, <2>3, <2>4 DEF LinkRecv, UnsentInv, wsVars
  <2>5. CASE LinkRefused(s) \/ LinkQuit(s) \/ LinkReplyFails(s) \/ LinkReadError(s)
    <3>1. UNCHANGED <<ws, unsent>> /\ pc'[s] = "done"
      BY <2>5 DEF LinkRefused, LinkQuit, LinkReplyFails, LinkReadError,
         LinkEnds, wsVars
    <3> QED BY <2>1, <2>2, <2>3, <3>1 DEF UnsentInv
  <2>6. CASE LinkFlushed(s)
    <3>1. UNCHANGED ws /\ unsent' = unsent \ {links[s]} /\ pc'[s] = "select"
      BY <2>6 DEF LinkFlushed
    <3>2. \A t \in DOMAIN links \ {s} : links[t] # links[s]
      BY LinksJoinPlugs DEF NoSinkShared
    <3>3. ASSUME NEW t \in DOMAIN links, pc'[t] = "flush",
                 ending[links[t]] = "close", ws[links[t]] # "active"
          PROVE  links[t] \in unsent'
      BY <2>1, <2>2, <3>1, <3>2, <3>3 DEF UnsentInv
    <3> QED BY <2>1, <2>3, <3>1, <3>3 DEF UnsentInv
  <2>7. CASE LinkFlushFails(s)
    <3>1. UNCHANGED ws /\ unsent' = unsent \cup {links[s]} /\ pc'[s] = "done"
      BY <2>7 DEF LinkFlushFails, LinkEnds
    <3>2. lost'[s] # <<>>
      <4>1. lost'[s] = held[s] /\ pc[s] = "flush"
        BY <2>7 DEF LinkFlushFails, Flushing
      <4>2. PICK frame \in Frame : held[s] = <<frame>>
        BY <4>1 DEF HandInv
      <4> QED BY <4>1, <4>2
    <3>3. LostTo(links[s])'
      BY <2>1, <3>2 DEF LostTo
    <3> QED BY <2>1, <2>2, <2>3, <3>1, <3>3 DEF UnsentInv
  <2>8. CASE LinkSeesClose(s)
    <3>1. /\ unsent' = unsent \cup {s}
          /\ ws' = [ws EXCEPT ![s] = "closed_by_peer"]
          /\ ending[s] = "close"
          /\ UNCHANGED <<pc, lost>>
      BY <2>8 DEF LinkSeesClose, linkVars
    <3> QED BY <2>1, <2>2, <2>3, <3>1 DEF UnsentInv
  <2>9. CASE LinkReplies(s)
    <3>1. /\ unsent' = unsent \ {s}
          /\ \A t \in DOMAIN links : links[t] = s => pc[t] # "flush"
          /\ UNCHANGED <<ws, pc, lost>>
      BY <2>9 DEF LinkReplies, linkVars
    <3> QED BY <2>1, <2>2, <2>3, <3>1 DEF UnsentInv
  <2>10. CASE LinkSourceEnds(s)
    <3>1. unsent' = unsent /\ ws' = [ws EXCEPT ![s] = "terminated"]
      BY <2>10 DEF LinkSourceEnds
    <3>2. pc'[s] = "done" /\ (ending[s] = "none" \/ ws[s] = "closed_by_peer")
      BY <2>10 DEF LinkSourceEnds, LinkEnds, AtEof
    <3>3. ASSUME NEW t \in DOMAIN links, pc'[t] = "flush",
                 ending[links[t]] = "close", ws'[links[t]] # "active"
          PROVE  links[t] \in unsent
      <4>1. ws[links[t]] # "active"
        BY <2>2, <3>1, <3>2, <3>3
      <4>2. pc[t] = "flush"
        BY <2>1, <2>2, <3>2, <3>3
      <4> QED BY <3>3, <4>1, <4>2 DEF UnsentInv
    <3>4. \A q \in unsent : ending[q] = "close" \/ LostTo(q)'
      BY <2>3 DEF UnsentInv
    <3> QED BY <2>1, <3>1, <3>3, <3>4 DEF UnsentInv
  <2> QED BY <1>6, <2>4, <2>5, <2>6, <2>7, <2>8, <2>9, <2>10 DEF LinkStep
<1>7. CASE UNCHANGED vars
  BY <1>7 DEF vars, runVars, linkVars, wsVars, pipeVars, plugVars, UnsentInv, LostTo
<1> QED BY <1>1, <1>2, <1>3, <1>4, <1>5, <1>6, <1>7 DEF Next

LEMMA FailureKept ==
  ASSUME IInv, [Next]_vars
  PROVE  FailureHasASubject'
<1> USE DEF IInv, TypeOK
<1>1. CASE result \in {"close_error", "kill_error"}
  <2>1. phase = "returned"
    BY <1>1 DEF PhaseInv
  <2>2. UNCHANGED <<result, connected, deaf, ws, ending, closer, links, lost>>
    BY <2>1, LinkFrame, CloseFrame DEF Next, StartLinks, Join, Return,
       ConnectStep, Dial, ConnectOk, ConnectErr, PlugStep, PlugEmits, PlugReads,
       PlugEndsStream, PlugClosesInput, PlugClosesOutput, PlugExits, vars,
       runVars, linkVars, wsVars, pipeVars, plugVars
  <2> QED BY <2>2 DEF FailureHasASubject
<1>2. CASE result \notin {"close_error", "kill_error"}
  <2>1. CASE result' \notin {"close_error", "kill_error"}
    BY <2>1 DEF FailureHasASubject
  <2>2. CASE result' \in {"close_error", "kill_error"}
    <3>1. PICK p \in Plug : CloseFails(p) \/ KillFails(p)
      BY <1>2, <2>2, RunFrame, ConnectFrame, LinkFrame, PlugFrame DEF Next,
         StartLinks, Join, Return, CloseStep, CloseSink, WaitExits, GraceExpires,
         vars, runVars
    <3>2. UNCHANGED <<connected, deaf, ws, ending, closer, links, lost>>
      BY <3>1 DEF CloseFails, KillFails, pipeVars, plugVars, wsVars, linkVars
    <3>3. CASE CloseFails(p)
      <4>1. result' = "close_error" /\ p \in connected \cap deaf
        BY <3>3 DEF CloseFails, Closing, PhaseInv
      <4>2. ws[p] # "terminated" \/ ending[p] = "close" \/ LostTo(p)
        BY <3>3 DEF CloseFails, UnsentInv
      <4> QED BY <3>2, <4>1, <4>2 DEF FailureHasASubject, LostTo
    <3>4. CASE KillFails(p)
      <4>1. result' = "kill_error" /\ p \in connected \cap Unkillable
        BY <3>4, ProcessAssumption DEF KillFails, PhaseInv
      <4> QED BY <3>2, <3>4, <4>1 DEF FailureHasASubject, KillFails
    <3> QED BY <3>1, <3>3, <3>4
  <2> QED BY <2>1, <2>2
<1> QED BY <1>1, <1>2
-----------------------------------------------------------------------------
LEMMA NextInv == IInv /\ [Next]_vars => IInv'
<1> SUFFICES ASSUME IInv, [Next]_vars PROVE IInv'
  OBVIOUS
<1>1. TypeOK'
  BY NextTypeOK DEF IInv
<1> QED BY <1>1, PhaseInvKept, HandInvKept, SocketInvKept, UnsentInvKept,
     ReapInvKept, ConservationKept, LostOnlyKept, TearDownKept, FailureKept
     DEF IInv

(* The inductive invariant holds in every reachable state.                 *)
THEOREM InductiveInvariant == Spec => []IInv
<1> QED BY InitInv, NextInv, PTL DEF Spec

(* Every frame a plug wrote is delivered, given up, in hand or unread, in  *)
(* this order: Link::forward loses, duplicates and reorders nothing.       *)
THEOREM ConservationHolds == Spec => []Conservation
<1>1. IInv => Conservation
  BY DEF IInv
<1> QED BY <1>1, InductiveInvariant, PTL

(* A frame read is given up only when its destination closed its input, or *)
(* was seen to close its output or to say Close: quit does not drop it.    *)
THEOREM LostOnlyHolds == Spec => []LostOnlyToAClosedPlug
<1>1. IInv => LostOnlyToAClosedPlug
  BY DEF IInv
<1> QED BY <1>1, InductiveInvariant, PTL

(* close_and_wait finds what it assumes: every half returned, no link      *)
(* holding a frame.                                                        *)
THEOREM EndpointsHold == Spec => []EndpointsReturned
<1>1. IInv => EndpointsReturned
  <2> SUFFICES ASSUME IInv, phase = "closing"
               PROVE  /\ stream = connected /\ sink = connected
                      /\ \A s \in connected : held[s] = <<>>
    BY DEF EndpointsReturned
  <2>1. \A s \in Plug : pc[s] # "flush"
    BY DEF IInv, PhaseInv
  <2> QED BY <2>1 DEF IInv, TypeOK, PhaseInv, HandInv
<1> QED BY <1>1, InductiveInvariant, PTL

(* With a validated configuration the takes of connect_links never panic.  *)
THEOREM PanicHolds == Spec => []PanicOnlyWithoutLinks
<1>1. IInv => PanicOnlyWithoutLinks
  BY DEF IInv, PhaseInv, PanicOnlyWithoutLinks
<1> QED BY <1>1, InductiveInvariant, PTL

(* run does not tear its links down unless a linked plug ended or closed   *)
(* its stream, broke the protocol, or closed an input it is written to.    *)
THEOREM TearDownHolds == Spec => []TearDownHasACause
<1>1. IInv => TearDownHasACause
  BY DEF IInv
<1> QED BY <1>1, InductiveInvariant, PTL

(* No child survives a run whose closes all succeeded.                     *)
THEOREM ReapHolds == Spec => []CleanExitReapsEveryChild
<1>1. IInv => CleanExitReapsEveryChild
  BY DEF IInv, ReapInv
<1> QED BY <1>1, InductiveInvariant, PTL

(* A close error is about a plug that closed its input and that run had    *)
(* not done with, a kill error about a child that was still to be killed.  *)
THEOREM FailureHolds == Spec => []FailureHasASubject
<1>1. IInv => FailureHasASubject
  BY DEF IInv
<1> QED BY <1>1, InductiveInvariant, PTL

(* The Result of run is earned.                                            *)
THEOREM ResultHolds == Spec => []ResultIsEarned
<1>1. CleanExitReapsEveryChild /\ FailureHasASubject => ResultIsEarned
  BY DEF ResultIsEarned
<1> QED BY <1>1, ReapHolds, FailureHolds, PTL

(* No data follows a Close frame on any connection.                        *)
THEOREM CloseLastHolds == Spec => CloseIsLast
<1> DEFINE Silent == \A s \in DOMAIN links :
                       delivered'[s] # delivered[s] => ~ CloseWritten(links[s])
<1>1. ASSUME IInv, [Next]_vars PROVE Silent
  <2> USE <1>1 DEF IInv, TypeOK
  <2> SUFFICES ASSUME NEW s \in DOMAIN links, delivered'[s] # delivered[s]
               PROVE  ~ CloseWritten(links[s])
    OBVIOUS
  <2> s \in Plug /\ links[s] \in Plug
    BY LinksJoinPlugs
  <2>1. LinkFlushed(s)
    <3>1. delivered' # delivered
      OBVIOUS
    <3>2. PICK t \in DOMAIN links : LinkQuit(t) \/ LinkStep(t)
      BY <3>1, RunFrame, ConnectFrame, CloseFrame, PlugFrame DEF Next, vars, linkVars
    <3>3. LinkFlushed(t)
      BY <3>1, <3>2 DEF LinkQuit, LinkStep, LinkRecv, LinkRefused, LinkFlushFails,
         LinkSeesClose, LinkReplies, LinkReplyFails, LinkSourceEnds,
         LinkReadError, linkVars
    <3>4. t = s
      BY <3>3 DEF LinkFlushed
    <3> QED BY <3>3, <3>4
  <2>2. phase \in {"running", "joining"} /\ pc[s] = "flush"
    BY <2>1 DEF LinkFlushed, Flushing
  <2> QED BY <2>2 DEF SocketInv, UnsentInv, CloseWritten
<1>2. ASSUME UNCHANGED vars PROVE Silent
  BY <1>2 DEF vars, linkVars
<1> HIDE DEF Silent
<1>3. []IInv /\ [][Next]_vars => [][Silent]_vars
  BY <1>1, PTL
<1> QED BY <1>3, InductiveInvariant, PTL DEF Spec, CloseIsLast, Silent
-----------------------------------------------------------------------------
(* Orchestrator implements Cable.                                          *)

LEMMA RelayInit == Init => Relay!Init
  BY DEF Init, Relay!Init

LEMMA DeliverStep ==
  ASSUME IInv, NEW s \in DOMAIN links, LinkFlushed(s)
  PROVE  Relay!Deliver(s)
<1> USE DEF IInv, TypeOK
<1> s \in Plug
  BY LinksJoinPlugs
<1>1. pc[s] = "flush" /\ lost[s] = <<>>
  BY DEF LinkFlushed, Flushing, HandInv
<1>2. PICK frame \in Frame : held[s] = <<frame>>
  BY <1>1 DEF HandInv
<1> DEFINE d == delivered[s]
           f == from[s]
<1>3. d \in Seq(Frame) /\ f \in Seq(Frame) /\ <<frame>> \in Seq(Frame)
  OBVIOUS
<1>4. emitted[s] = (d \o <<frame>>) \o f
  <2>1. emitted[s] = d \o <<>> \o <<frame>> \o f
    BY <1>1, <1>2 DEF Conservation
  <2>2. d \o <<>> = d
    BY <1>3, ConcatEmptySeq
  <2> QED BY <2>1, <2>2
<1>5. Len(d) < Len(emitted[s]) /\ emitted[s][Len(d) + 1] = frame
  <2>1. d \o <<frame>> = Append(d, frame)
    BY <1>3, AppendIsConcat
  <2>2. /\ d \o <<frame>> \in Seq(Frame)
        /\ Len(d \o <<frame>>) = Len(d) + 1
        /\ (d \o <<frame>>)[Len(d) + 1] = frame
    BY <1>3, <2>1, AppendProperties
  <2>3. Len(d) \in Nat /\ Len(f) \in Nat
    BY <1>3, LenProperties
  <2> QED BY SMTT(30), <1>3, <1>4, <2>2, <2>3, ConcatProperties
<1>6. delivered' = [delivered EXCEPT ![s] = Append(d, frame)]
  <2>1. delivered' = [delivered EXCEPT ![s] = d \o <<frame>>]
    BY <1>2 DEF LinkFlushed
  <2>2. d \o <<frame>> = Append(d, frame)
    BY <1>3, AppendIsConcat
  <2> QED BY <2>1, <2>2
<1>7. UNCHANGED emitted /\ {p \in Plug : pc'[p] # "done"} = {p \in Plug : pc[p] # "done"}
  BY <1>1 DEF LinkFlushed, pipeVars, plugVars
<1> QED BY <1>1, <1>5, <1>6, <1>7 DEF Relay!Deliver

LEMMA RelayNext ==
  ASSUME IInv, [Next]_vars
  PROVE  [Relay!Next]_(Relay!cableVars)
<1> USE DEF IInv, TypeOK
<1> DEFINE open == {p \in Plug : pc[p] # "done"}
<1>1. ASSUME UNCHANGED <<emitted, delivered, pc>>
      PROVE  UNCHANGED Relay!cableVars
  BY <1>1 DEF Relay!cableVars
<1>2. CASE StartLinks
  <2>1. open' = open
    BY <1>2 DEF StartLinks, PhaseInv
  <2> QED BY <1>2, <2>1, RunFrame DEF Relay!cableVars
<1>3. CASE Join \/ Return
  BY <1>1, <1>3, RunFrame DEF Join, Return, linkVars
<1>4. ASSUME NEW p \in Plug, ConnectStep(p) \/ CloseStep(p)
      PROVE  UNCHANGED <<emitted, delivered, pc>>
  BY <1>4, ConnectFrame, CloseFrame
<1>5. ASSUME NEW p \in Plug, PlugStep(p) PROVE [Relay!Next]_(Relay!cableVars)
  <2>1. CASE PlugEmits(p)
    <3>1. Len(emitted[p]) + 1 \in Frame
      BY <2>1, BoundsAssumption DEF PlugEmits, Frame
    <3>2. Relay!Emit(p)
      BY <1>5, <2>1, <3>1, PlugFrame DEF PlugEmits, Relay!Emit
    <3> QED BY <3>2 DEF Relay!Next
  <2>2. CASE \/ PlugReads(p) \/ PlugEndsStream(p) \/ PlugClosesInput(p)
             \/ PlugClosesOutput(p) \/ PlugExits(p)
    BY <1>1, <1>5, <2>2, PlugFrame DEF PlugReads, PlugEndsStream, PlugClosesInput, PlugClosesOutput,
         PlugExits, pipeVars, plugVars
  <2> QED BY <1>5, <2>1, <2>2 DEF PlugStep
<1>6. ASSUME NEW s \in DOMAIN links, LinkQuit(s) \/ LinkStep(s)
      PROVE  [Relay!Next]_(Relay!cableVars)
  <2> s \in Plug
    BY LinksJoinPlugs
  <2>1. CASE LinkFlushed(s)
    BY <2>1, DeliverStep DEF Relay!Next
  <2>2. CASE LinkRecv(s) \/ LinkSeesClose(s) \/ LinkReplies(s)
    <3>1. open' = open /\ UNCHANGED <<emitted, delivered>>
      <4>1. UNCHANGED <<emitted, delivered>>
        BY <2>2 DEF LinkRecv, LinkSeesClose, LinkReplies, linkVars, pipeVars, plugVars
      <4>2. pc' = pc \/ (pc[s] = "select" /\ pc' = [pc EXCEPT ![s] = "flush"])
        BY <2>2 DEF LinkRecv, LinkSeesClose, LinkReplies, Selecting, linkVars
      <4> QED BY <4>1, <4>2
    <3> QED BY <3>1 DEF Relay!cableVars
  <2>3. CASE \/ LinkQuit(s) \/ LinkRefused(s) \/ LinkFlushFails(s)
             \/ LinkReplyFails(s) \/ LinkSourceEnds(s) \/ LinkReadError(s)
    <3>1. pc' = [pc EXCEPT ![s] = "done"] /\ UNCHANGED <<emitted, delivered>>
      BY <2>3 DEF LinkQuit, LinkRefused, LinkFlushFails, LinkReplyFails,
         LinkSourceEnds, LinkReadError, LinkEnds, pipeVars, plugVars
    <3>2. open' = open \ {s}
      BY <3>1
    <3> QED BY <3>1, <3>2 DEF Relay!Next, Relay!Unplug
  <2> QED BY <1>6, <2>1, <2>2, <2>3 DEF LinkStep
<1>7. CASE UNCHANGED vars
  BY <1>1, <1>7 DEF vars, linkVars, pipeVars, plugVars
<1> QED BY <1>1, <1>2, <1>3, <1>4, <1>5, <1>6, <1>7 DEF Next

(* To the plugs, run is a set of cables: frames come out one by one, in    *)
(* the order they were written, until the cable is unplugged for good.     *)
THEOREM ImplementsCable == Spec => RelaySpec
<1> QED BY RelayInit, RelayNext, InductiveInvariant, PTL DEF Spec, RelaySpec, Relay!Spec
=============================================================================
