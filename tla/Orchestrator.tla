---------------------------- MODULE Orchestrator ----------------------------
(***************************************************************************)
(* One execution of app::run (kble/src/app.rs) over the plug connections   *)
(* of kble/src/plug.rs: connect to every plug, forward every link until    *)
(* one of them ends, signal the others to quit, take the stream and sink   *)
(* halves back and close every connection within a grace period.           *)
(*                                                                         *)
(* All links are polled by one task, so a link runs without interruption   *)
(* from one await point to the next; these stretches are the actions.      *)
(* The plugs, and the pipes and sockets that reach them, are outside src's *)
(* control: PlugEmits ... PlugExits say what they may do at any moment.    *)
(* The two directions of a connection are apart, and both apart from the   *)
(* child itself (plug.rs:70-88): a living child may close or redirect its  *)
(* stdin or its stdout, and pipes it passed on may outlive it.             *)
(* A frame is the ordinal number of a binary message on its own stream.    *)
(***************************************************************************)
EXTENDS Config, Naturals, Sequences

CONSTANTS Plug,              \* the names in the `plugs` table
          Process,           \* those with an exec: URL; the others are ws:
          Unkillable,        \* children that kill may be refused for
          Plain,             \* bound: plugs whose connection closes as a whole
          Configs,           \* the validated `links` tables to consider
          Cap,               \* frames a pipe or socket holds before it blocks
          MaxFrames,         \* bound: frames a plug emits in an execution
          NoPlug

ASSUME ProcessAssumption == Unkillable \subseteq Process /\ Process \subseteq Plug
ASSUME PlainAssumption == Plain \subseteq Plug
ASSUME ConfigsAssumption == \A links \in Configs : WellFormed(Plug, links)
ASSUME BoundsAssumption == Cap \in Nat \ {0} /\ MaxFrames \in Nat
ASSUME NoPlugAssumption == NoPlug \notin Plug

VARIABLES
  links,      \* Config::links(), fixed for the execution
  phase,      \* where run stands
  result,     \* what run returned; "none" while it has not
  dialing,    \* the plug plug::connect is busy with (or failed on), or NoPlug
  connected,  \* plugs with an entry in Connections.map
  stream,     \* plugs whose Connection.stream is Some
  sink,       \* plugs whose Connection.sink is Some
  pc,         \* by source plug: where its Link::forward stands
  held,       \* by source plug: the frame read and not yet written, if any
  closer,     \* by plug: where its future in close_and_wait stands
  ws,         \* by plug: state of the WebSocket on our side
  unsent,     \* plugs for which our write buffer still holds bytes that
              \* no link is busy flushing
  exited,     \* plugs whose child process has exited
  deaf,       \* plugs whose input is closed: nobody reads what we write
  mute,       \* plugs whose output is closed: end of file follows `from`
  from,       \* by plug: frames it wrote that we have not read
  ending,     \* by plug: what follows the frames of `from`, if anything
  backlog,    \* by plug: how many frames we wrote that it has not read
  emitted, delivered, lost   \* by source plug: histories of its frames

runVars  == <<links, phase, result, dialing, connected>>
halfVars == <<stream, sink>>
linkVars == <<pc, held, delivered, lost>>
wsVars   == <<ws, unsent>>
pipeVars == <<exited, deaf, mute>>
plugVars == <<pipeVars, from, ending, emitted>>
vars == <<runVars, halfVars, linkVars, closer, wsVars, plugVars, backlog>>

Phase  == {"connecting", "running", "joining", "closing", "returned"}
Result == {"none", "ok", "connect_error", "close_error", "kill_error", "panic"}
Frame  == 1 .. MaxFrames

TypeOK ==
  /\ links \in Configs
  /\ phase \in Phase
  /\ result \in Result
  /\ dialing \in Plug \cup {NoPlug}
  /\ connected \subseteq Plug
  /\ stream \subseteq Plug
  /\ sink \subseteq Plug
  /\ pc \in [Plug -> {"idle", "select", "flush", "done"}]
  /\ held \in [Plug -> Seq(Frame)]
  /\ closer \in [Plug -> {"idle", "close", "wait", "done"}]
  /\ ws \in [Plug -> {"active", "closed_by_us", "closed_by_peer", "terminated"}]
  /\ unsent \subseteq Plug
  /\ exited \subseteq Plug
  /\ deaf \subseteq Plug
  /\ mute \subseteq Plug
  /\ from \in [Plug -> Seq(Frame)]
  /\ ending \in [Plug -> {"none", "close", "bad"}]
  /\ backlog \in [Plug -> 0 .. Cap]
  /\ emitted \in [Plug -> Seq(Frame)]
  /\ delivered \in [Plug -> Seq(Frame)]
  /\ lost \in [Plug -> Seq(Frame)]

Init ==
  /\ links \in Configs
  /\ phase = "connecting"
  /\ result = "none"
  /\ dialing = NoPlug
  /\ connected = {}
  /\ stream = {}
  /\ sink = {}
  /\ pc = [p \in Plug |-> "idle"]
  /\ held = [p \in Plug |-> <<>>]
  /\ closer = [p \in Plug |-> "idle"]
  /\ ws = [p \in Plug |-> "active"]
  /\ unsent = {}
  /\ exited = {}
  /\ deaf = {}
  /\ mute = {}
  /\ from = [p \in Plug |-> <<>>]
  /\ ending = [p \in Plug |-> "none"]
  /\ backlog = [p \in Plug |-> 0]
  /\ emitted = [p \in Plug |-> <<>>]
  /\ delivered = [p \in Plug |-> <<>>]
  /\ lost = [p \in Plug |-> <<>>]
-----------------------------------------------------------------------------
(* What the transport lets us do (pipes of a child, or a TCP socket).      *)

(* A write to a pipe nobody reads fails with EPIPE; bytes for a peer that  *)
(* hung up may still go into the socket buffer, or wait for room there.    *)
MayAccept(p) == p \in deaf => p \notin Process

Writable(p) == MayAccept(p) /\ backlog[p] < Cap
Blocked(p)  == MayAccept(p) /\ backlog[p] = Cap

Write(p) ==
  /\ Writable(p)
  /\ backlog' = [backlog EXCEPT ![p] = @ + 1]

(* A send is refused as soon as a Close was sent or seen.                  *)
OpenUntilEof(p) == ws[p] # "terminated"                  \* mutant of Open

Open(p) == ws[p] = "active"

(* What closing has to write: a Close frame, or bytes left in the buffer.  *)
OwesBytes(p) == ws[p] = "active" \/ p \in unsent

FullBatch(s) == Len(from[s]) > 1                         \* mutant of FrameReady

FrameReady(s) == from[s] # <<>>

(* End of file: at once for a plug that said nothing; after its Close once *)
(* the reply is out, or stuck for want of room (reading goes on then).     *)
AtEof(s) ==
  /\ from[s] = <<>>
  /\ s \in mute
  /\ \/ ending[s] = "none"
     \/ ws[s] = "closed_by_peer" /\ (s \in unsent => Blocked(s))
-----------------------------------------------------------------------------
(* connect_to_plugs and connect_links                                      *)

(* The next entry of the plugs HashMap, in whatever order it yields them.  *)
Dial(p) ==
  /\ phase = "connecting"
  /\ dialing = NoPlug
  /\ p \notin connected
  /\ dialing' = p
  /\ UNCHANGED <<links, phase, result, connected, halfVars, linkVars, closer,
                 wsVars, plugVars, backlog>>

Insert(p) ==
  /\ connected' = connected \cup {p}
  /\ stream' = stream \cup {p}
  /\ sink' = sink \cup {p}

ConnectOk(p) ==
  /\ phase = "connecting"
  /\ dialing = p
  /\ dialing' = NoPlug
  /\ Insert(p)
  /\ UNCHANGED <<links, phase, result, linkVars, closer, wsVars, plugVars,
                 backlog>>

(* close_and_wait: one future per connection made so far.                  *)
StartClosing ==
  /\ phase' = "closing"
  /\ closer' = [p \in Plug |-> IF p \in connected THEN "close" ELSE "idle"]

(* `dialing` keeps the plug: the error to return once all is closed.       *)
ConnectErr(p) ==
  /\ phase = "connecting"
  /\ dialing = p
  /\ StartClosing
  /\ UNCHANGED <<links, result, dialing, connected, halfVars, linkVars, wsVars,
                 plugVars, backlog>>

(* connect_links, run by the select_all that collects its iterator: every  *)
(* link takes its source's stream and its destination's sink, or panics;   *)
(* so does select_all when there is no link at all.                        *)
TakeWholePlugs ==                                        \* mutant of TakesSucceed
  /\ DOMAIN links \cup Dests(links) \subseteq stream \cap sink
  /\ DOMAIN links \cap Dests(links) = {}

TakesSucceed ==
  /\ DOMAIN links \subseteq stream
  /\ Dests(links) \subseteq sink
  /\ NoSinkShared(links)

StartLinks ==
  /\ phase = "connecting"
  /\ dialing = NoPlug
  /\ connected = Plug
  /\ IF TakesSucceed /\ DOMAIN links # {}
       THEN /\ phase' = "running"
            /\ stream' = stream \ DOMAIN links
            /\ sink' = sink \ Dests(links)
            /\ pc' = [p \in Plug |-> IF p \in DOMAIN links THEN "select" ELSE "idle"]
            /\ UNCHANGED result
       ELSE /\ phase' = "returned"
            /\ result' = "panic"
            /\ UNCHANGED <<stream, sink, pc>>
  /\ UNCHANGED <<links, dialing, connected, held, delivered, lost, closer,
                 wsVars, plugVars, backlog>>
-----------------------------------------------------------------------------
(* Link::forward, for the link that reads plug s                           *)

Selecting(s) == phase \in {"running", "joining"} /\ pc[s] = "select"
Flushing(s)  == phase \in {"running", "joining"} /\ pc[s] = "flush"

(* The first link to end makes select_all return, and run sends quit.      *)
LinkEnds(s) ==
  /\ pc' = [pc EXCEPT ![s] = "done"]
  /\ phase' = IF phase = "running" THEN "joining" ELSE phase
  /\ UNCHANGED <<links, result, dialing, connected, halfVars, closer>>

QuitCancelsSend(s) ==                                    \* mutant of LinkQuit
  /\ Selecting(s) \/ Flushing(s)
  /\ phase = "joining"
  /\ held' = [held EXCEPT ![s] = <<>>]
  /\ LinkEnds(s)
  /\ UNCHANGED <<delivered, lost, wsVars, plugVars, backlog>>

QuitGivesUpFrame(s) ==                                   \* mutant of LinkQuit
  /\ Selecting(s) \/ Flushing(s)
  /\ phase = "joining"
  /\ held' = [held EXCEPT ![s] = <<>>]
  /\ lost' = [lost EXCEPT ![s] = held[s]]
  /\ LinkEnds(s)
  /\ UNCHANGED <<delivered, wsVars, plugVars, backlog>>

QuitAfterFrame(s) ==                                     \* mutant of LinkQuit
  /\ Selecting(s)
  /\ phase = "joining"
  /\ FrameReady(s)
  /\ LinkEnds(s)
  /\ UNCHANGED <<held, delivered, lost, wsVars, plugVars, backlog>>

LinkQuit(s) ==
  /\ Selecting(s)
  /\ phase = "joining"
  /\ LinkEnds(s)
  /\ UNCHANGED <<held, delivered, lost, wsVars, plugVars, backlog>>

(* source.next() yields a frame and dest.send accepts it into its buffer.  *)
LinkRecv(s) ==
  /\ Selecting(s)
  /\ FrameReady(s)
  /\ Open(links[s])
  /\ held' = [held EXCEPT ![s] = <<Head(from[s])>>]
  /\ from' = [from EXCEPT ![s] = Tail(@)]
  /\ pc' = [pc EXCEPT ![s] = "flush"]
  /\ UNCHANGED <<runVars, halfVars, delivered, lost, closer, wsVars,
                 pipeVars, ending, emitted, backlog>>

(* ... but dest.send refuses it: the connection is no longer open.         *)
LinkRefused(s) ==
  /\ Selecting(s)
  /\ FrameReady(s)
  /\ ~ Open(links[s])
  /\ lost' = [lost EXCEPT ![s] = <<Head(from[s])>>]
  /\ from' = [from EXCEPT ![s] = Tail(@)]
  /\ LinkEnds(s)
  /\ UNCHANGED <<held, delivered, wsVars, pipeVars, ending, emitted, backlog>>

(* dest.send(data) resolves; a Close reply waiting behind goes out too.    *)
LinkFlushed(s) ==
  /\ Flushing(s)
  /\ Write(links[s])
  /\ delivered' = [delivered EXCEPT ![s] = @ \o held[s]]
  /\ held' = [held EXCEPT ![s] = <<>>]
  /\ unsent' = unsent \ {links[s]}
  /\ pc' = [pc EXCEPT ![s] = "select"]
  /\ UNCHANGED <<runVars, halfVars, lost, closer, ws, plugVars>>

(* ... or fails; the bytes stay in the write buffer of the connection.     *)
GoOnWithNextFrame(s) ==                                  \* mutant of LinkFlushFails
  /\ Flushing(s)
  /\ links[s] \in deaf
  /\ held' = [held EXCEPT ![s] = <<>>]
  /\ pc' = [pc EXCEPT ![s] = "select"]
  /\ UNCHANGED <<runVars, halfVars, lost, closer, delivered, wsVars, plugVars,
                 backlog>>

LinkFlushFails(s) ==
  /\ Flushing(s)
  /\ links[s] \in deaf
  /\ lost' = [lost EXCEPT ![s] = held[s]]
  /\ held' = [held EXCEPT ![s] = <<>>]
  /\ unsent' = unsent \cup {links[s]}
  /\ LinkEnds(s)
  /\ UNCHANGED <<delivered, ws, plugVars, backlog>>

(* The plug's Close frame: the stream goes on, waiting for end of file.    *)
LinkSeesClose(s) ==
  /\ Selecting(s)
  /\ from[s] = <<>>
  /\ ending[s] = "close"
  /\ ws[s] = "active"
  /\ ws' = [ws EXCEPT ![s] = "closed_by_peer"]
  /\ unsent' = unsent \cup {s}
  /\ UNCHANGED <<runVars, halfVars, linkVars, closer, plugVars, backlog>>

(* Polling the stream again flushes the reply, behind any frame that the   *)
(* link into s has in the buffer.                                          *)
LinkReplies(s) ==
  /\ Selecting(s)
  /\ ws[s] = "closed_by_peer"
  /\ s \in unsent
  /\ \A t \in DOMAIN links : links[t] = s => pc[t] # "flush"
  /\ Write(s)
  /\ unsent' = unsent \ {s}
  /\ UNCHANGED <<runVars, halfVars, linkVars, closer, ws, plugVars>>

(* ... or meets a write error, which source.next() yields.                 *)
LinkReplyFails(s) ==
  /\ Selecting(s)
  /\ ws[s] = "closed_by_peer"
  /\ s \in unsent
  /\ s \in deaf
  /\ LinkEnds(s)
  /\ UNCHANGED <<held, delivered, lost, wsVars, plugVars, backlog>>

(* End of file: None after a Close, an error without one.                  *)
LinkSourceEnds(s) ==
  /\ Selecting(s)
  /\ AtEof(s)
  /\ ws' = [ws EXCEPT ![s] = "terminated"]
  /\ LinkEnds(s)
  /\ UNCHANGED <<held, delivered, lost, unsent, plugVars, backlog>>

(* Bytes that are no WebSocket message: an error, the state is kept.       *)
LinkReadError(s) ==
  /\ Selecting(s)
  /\ from[s] = <<>>
  /\ ending[s] = "bad"
  /\ LinkEnds(s)
  /\ UNCHANGED <<held, delivered, lost, wsVars, plugVars, backlog>>

LinkStep(s) ==
  \/ LinkRecv(s) \/ LinkRefused(s) \/ LinkFlushed(s) \/ LinkFlushFails(s)
  \/ LinkSeesClose(s) \/ LinkReplies(s) \/ LinkReplyFails(s)
  \/ LinkSourceEnds(s) \/ LinkReadError(s)

ReturnLinks ==
  /\ stream' = stream \cup DOMAIN links
  /\ sink' = sink \cup Dests(links)

(* join_all is through: return_link for each link, then close_and_wait.    *)
OneDone == \E s \in DOMAIN links : pc[s] = "done"         \* mutant of AllDone

AllDone == \A s \in DOMAIN links : pc[s] = "done"

Join ==
  /\ phase = "joining"
  /\ AllDone
  /\ ReturnLinks
  /\ StartClosing
  /\ UNCHANGED <<links, result, dialing, connected, linkVars, wsVars, plugVars,
                 backlog>>
-----------------------------------------------------------------------------
(* close_and_wait, the future of plug p                                    *)

Closing(p) == phase = "closing" /\ closer[p] = "close"

(* sink.close() writes a Close frame, or what is left in the write buffer; *)
(* a connection whose sink is None is only waited for.                     *)
CloseSink(p) ==
  /\ Closing(p)
  /\ IF p \in sink /\ OwesBytes(p)
       THEN /\ Write(p)
            /\ ws' = [ws EXCEPT ![p] = IF @ = "active" THEN "closed_by_us" ELSE @]
            /\ unsent' = unsent \ {p}
       ELSE UNCHANGED <<backlog, wsVars>>
  /\ closer' = [closer EXCEPT ![p] = "wait"]
  /\ UNCHANGED <<runVars, halfVars, linkVars, plugVars>>

(* One future fails: try_join_all returns its error and drops the futures  *)
(* of the other plugs, wherever they stand.                                *)
FailWith(error) ==
  /\ phase' = "returned"
  /\ result' = error
  /\ UNCHANGED <<links, dialing, connected, halfVars, linkVars, closer, wsVars,
                 plugVars, backlog>>

CloseFails(p) ==
  /\ Closing(p)
  /\ p \in sink
  /\ OwesBytes(p)
  /\ p \in deaf
  /\ FailWith("close_error")

(* Backend::wait: nothing to wait for on a WebSocket.                      *)
NothingToWaitFor(p) == TRUE                              \* mutant of WaitResolves

WaitResolves(p) == p \in Process => p \in exited

WaitExits(p) ==
  /\ phase = "closing"
  /\ closer[p] = "wait"
  /\ WaitResolves(p)
  /\ closer' = [closer EXCEPT ![p] = "done"]
  /\ UNCHANGED <<runVars, halfVars, linkVars, wsVars, plugVars, backlog>>

(* Backend::kill, which waits for the child too.                           *)
Kill(p) == exited' = exited \cup ({p} \cap Process)

TimedWait(p) == closer[p] = "wait"                       \* mutant of UnderGrace

UnderGrace(p) == closer[p] \in {"close", "wait"}

(* The grace period is over: it covers the close as well as the wait.      *)
GraceExpires(p) ==
  /\ phase = "closing"
  /\ UnderGrace(p)
  /\ Kill(p)
  /\ closer' = [closer EXCEPT ![p] = "done"]
  /\ UNCHANGED <<runVars, halfVars, linkVars, wsVars, deaf, mute, from, ending,
                 emitted, backlog>>

(* The signal is refused (a child that runs as another user).              *)
KillFails(p) ==
  /\ phase = "closing"
  /\ UnderGrace(p)
  /\ p \in Unkillable
  /\ FailWith("kill_error")

Return ==
  /\ phase = "closing"
  /\ \A p \in connected : closer[p] = "done"
  /\ phase' = "returned"
  /\ result' = IF dialing = NoPlug THEN "ok" ELSE "connect_error"
  /\ UNCHANGED <<links, dialing, connected, halfVars, linkVars, closer, wsVars,
                 plugVars, backlog>>
-----------------------------------------------------------------------------
(* The plugs (external)                                                    *)

Connected(p) == phase # "returned" /\ p \in connected
MayWrite(p)  == Connected(p) /\ p \notin mute

PlugEmits(p) ==
  /\ MayWrite(p)
  /\ ending[p] = "none"
  /\ Len(from[p]) < Cap
  /\ Len(emitted[p]) < MaxFrames
  /\ from' = [from EXCEPT ![p] = Append(@, Len(emitted[p]) + 1)]
  /\ emitted' = [emitted EXCEPT ![p] = Append(@, Len(emitted[p]) + 1)]
  /\ UNCHANGED <<runVars, halfVars, linkVars, closer, wsVars, pipeVars, ending,
                 backlog>>

PlugReads(p) ==
  /\ Connected(p)
  /\ p \notin deaf
  /\ backlog[p] > 0
  /\ backlog' = [backlog EXCEPT ![p] = @ - 1]
  /\ UNCHANGED <<runVars, halfVars, linkVars, closer, wsVars, plugVars>>

(* A Close frame, or bytes no WebSocket peer may send.                     *)
PlugEndsStream(p) ==
  /\ MayWrite(p)
  /\ ending[p] = "none"
  /\ ending' = [ending EXCEPT ![p] = "close"] \/ ending' = [ending EXCEPT ![p] = "bad"]
  /\ UNCHANGED <<runVars, halfVars, linkVars, closer, wsVars, pipeVars, from,
                 emitted, backlog>>

(* Each may happen alone and in any order: `exec:producer </dev/null` has  *)
(* no reader of its input, a descendant keeps the pipes of a child that    *)
(* has exited.  Only a Plain plug closes both, and just as it exits.       *)
PlugClosesInput(p) ==
  /\ Connected(p)
  /\ p \notin Plain
  /\ deaf' = deaf \cup {p}
  /\ UNCHANGED <<runVars, halfVars, linkVars, closer, wsVars, exited, mute, from,
                 ending, emitted, backlog>>

PlugClosesOutput(p) ==
  /\ MayWrite(p)
  /\ p \notin Plain
  /\ mute' = mute \cup {p}
  /\ UNCHANGED <<runVars, halfVars, linkVars, closer, wsVars, exited, deaf, from,
                 ending, emitted, backlog>>

PlugExits(p) ==
  /\ Connected(p)
  /\ exited' = exited \cup ({p} \cap Process)
  /\ deaf' = deaf \cup ({p} \cap Plain)
  /\ mute' = mute \cup ({p} \cap Plain)
  /\ UNCHANGED <<runVars, halfVars, linkVars, closer, wsVars, from, ending,
                 emitted, backlog>>
-----------------------------------------------------------------------------
ConnectStep(p) == Dial(p) \/ ConnectOk(p) \/ ConnectErr(p)

CloseStep(p) ==
  CloseSink(p) \/ CloseFails(p) \/ WaitExits(p) \/ GraceExpires(p) \/ KillFails(p)

PlugStep(p) ==
  \/ PlugEmits(p) \/ PlugReads(p) \/ PlugEndsStream(p)
  \/ PlugClosesInput(p) \/ PlugClosesOutput(p) \/ PlugExits(p)

Next ==
  \/ StartLinks \/ Join \/ Return
  \/ \E p \in Plug : ConnectStep(p) \/ CloseStep(p) \/ PlugStep(p)
  \/ \E s \in DOMAIN links : LinkQuit(s) \/ LinkStep(s)

Spec == Init /\ [][Next]_vars

(* The runtime polls whatever is ready: every step of run is owed, except  *)
(* the dialling of a ws: plug, which may hang.  select! polls its branches *)
(* in random order, so a link that is ready to quit again and again, with  *)
(* frames arriving in between, does quit: strong fairness.                 *)
RunFairness ==
  /\ WF_vars(StartLinks) /\ WF_vars(Join) /\ WF_vars(Return)
  /\ WF_vars(\E p \in Plug : Dial(p))
  /\ \A p \in Process : WF_vars(ConnectOk(p) \/ ConnectErr(p))
  /\ \A s \in Plug : WF_vars(LinkStep(s)) /\ SF_vars(LinkQuit(s))
  /\ \A p \in Plug : WF_vars(CloseSink(p) \/ CloseFails(p))
                     /\ WF_vars(WaitExits(p))
                     /\ WF_vars(GraceExpires(p) \/ KillFails(p))

FairSpec == Spec /\ RunFairness
-----------------------------------------------------------------------------
(* The relay neither loses, duplicates, reorders nor invents frames: what  *)
(* a plug wrote is what reached the linked plug, then the frame a failed   *)
(* write gave up, then the one in hand, then those not read yet (the loop  *)
(* of forward, app.rs:194-226).                                            *)
Conservation ==
  \A p \in Plug : emitted[p] = delivered[p] \o lost[p] \o held[p] \o from[p]

(* A frame in hand is given up only because its destination has closed its *)
(* input, or run has read the end of its output or its Close: quitting     *)
(* never drops a frame between the read and the write (app.rs:197 selects  *)
(* against the read only), nor does the mere exit of a child.              *)
LostOnlyToAClosedPlug ==
  \A s \in DOMAIN links :
    LET d == links[s] IN
    lost[s] # <<>> => \/ d \in deaf
                      \/ ws[d] # "active" /\ (ending[d] = "close" \/ d \in mute)

(* "assume all links are returned" (app.rs:101): when close_and_wait runs  *)
(* every connection has both its halves back and no link holds a frame, so *)
(* no plug is waited for before its sink was closed.                       *)
EndpointsReturned ==
  phase = "closing" => /\ stream = connected
                       /\ sink = connected
                       /\ \A s \in connected : held[s] = <<>>

(* "Those panics shouldn't happen if config is valid and conns is properly *)
(* initialized" (app.rs:176): the take of a half succeeds for every valid  *)
(* configuration; what does panic is select_all, on one without links.     *)
PanicOnlyWithoutLinks == result = "panic" => DOMAIN links = {}

(* run tears everything down only after some linked plug ended or closed   *)
(* its output, broke the protocol, or closed the input a link writes to    *)
(* (app.rs:42, 196-220).  What an unlinked plug does, and the mere exit of *)
(* a child whose pipes others hold, leave the links alone.                 *)
TearDownHasACause ==
  phase = "joining" =>
    \E s \in DOMAIN links : s \in mute \/ ending[s] # "none" \/ links[s] \in deaf

(* When every close succeeded, whether run returns Ok or the connect error *)
(* it started from, each child it spawned has exited: on its own or killed *)
(* after the grace period (app.rs:111-133).                                *)
CleanExitReapsEveryChild ==
  result \in {"ok", "connect_error"} => connected \cap Process \subseteq exited

(* A close error is about a plug that had closed its input, and that run   *)
(* had not done with: its output not read to the end, a Close of it not    *)
(* answered, or a frame lost to it (app.rs:105-107).  It says nothing of   *)
(* whether that child is alive.  A kill error is about a child that was    *)
(* still to be killed.                                                     *)
FailureHasASubject ==
  /\ result = "close_error" =>
       \E p \in connected \cap deaf :
         \/ ws[p] # "terminated" \/ ending[p] = "close"
         \/ \E s \in DOMAIN links : links[s] = p /\ lost[s] # <<>>
  /\ result = "kill_error" =>
       \E p \in connected \cap Unkillable : UnderGrace(p)

(* What the Result of run tells whoever started it.                        *)
ResultIsEarned == CleanExitReapsEveryChild /\ FailureHasASubject

(* Nothing follows a Close frame on the wire, be it the one close_and_wait *)
(* sends or the reply to the plug's: links are all done before the closes  *)
(* start (app.rs:46-52).                                                   *)
CloseWritten(p) ==
  \/ ws[p] = "closed_by_us"
  \/ ending[p] = "close" /\ ws[p] # "active" /\ p \notin unsent

CloseIsLast ==
  [][\A s \in DOMAIN links :
       delivered'[s] # delivered[s] => ~ CloseWritten(links[s])]_vars
-----------------------------------------------------------------------------
(* What dest.send(data).await waits for: room at the plug it writes to.    *)
Parked(s) == s \in DOMAIN links /\ pc[s] = "flush" /\ backlog[links[s]] = Cap

(* One link's end brings run to its return: every other link sees quit,    *)
(* also one whose source never pauses, and no close hangs.  The one thing  *)
(* that can hold run up is a plug that has stopped reading (app.rs:42-52). *)
TearDownCompletes ==
  (phase = "joining" ~> phase = "returned") \/ \E s \in Plug : <>[]Parked(s)

(* Once closing, run returns whatever the plugs do: the grace period     *)
(* bounds both the close and the wait (app.rs:115-119).                    *)
CloseIsBounded == phase = "closing" ~> phase = "returned"

(* Every frame a linked plug emits is delivered, unless the links are torn *)
(* down first or the very plug it is for has stopped reading: a link that  *)
(* is stuck holds no other link up (app.rs:37-42, 195-223).                *)
FramesArrive ==
  \A s \in Plug : \A n \in Frame :
    \/ (phase = "running" /\ s \in DOMAIN links /\ Len(emitted[s]) >= n)
          ~> (phase # "running" \/ Len(delivered[s]) >= n)
    \/ <>[]Parked(s)
-----------------------------------------------------------------------------
(* What the plugs can tell of the relay: module Cable.                     *)
Relay == INSTANCE Cable WITH open <- {p \in Plug : pc[p] # "done"}

RelaySpec == Relay!Spec
-----------------------------------------------------------------------------
(* kble/src/main.rs:20: the grace period is the "Period to wait for each   *)
(* child process to exit after a closing handshake before killing it", so  *)
(* no child outlives run.                                                  *)
EveryChildReapedOrKilled ==
  phase = "returned" => connected \cap Process \subseteq exited

(* CHANGELOG.md:44: "Close all streams even when one stream closes         *)
(* normally": a stream that ends after its plug's Close frame brings run   *)
(* to close all of them.                                                   *)
EndedNormally(s) == ending[s] = "close" /\ ws[s] = "terminated"

OneEndClosesAll ==
  \A s \in Plug : EndedNormally(s) ~> phase \in {"closing", "returned"}
=============================================================================
