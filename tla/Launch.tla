------------------------------- MODULE Launch -------------------------------
(***************************************************************************)
(* How kble starts: main (kble/src/main.rs) loads the configuration, has   *)
(* it validated (module Spaghetti) and calls run, which dials the plugs    *)
(* one at a time in the order of a HashMap; composed with the ws: plugs    *)
(* that a test puts up (WsPlug in kble-test-support/src/lib.rs), each of   *)
(* which accepts one connection before a deadline.  What run does once it  *)
(* is connected, and how it closes connections, is module Orchestrator.    *)
(***************************************************************************)
EXTENDS Spaghetti

CONSTANTS Endpoints,         \* what may stand behind the URL of each plug
          NoName

(* exec: is a command that can be spawned; test: a WsPlug; silent: a peer  *)
(* that takes the connection and never answers; broken: an unsupported     *)
(* URL, a command that cannot be spawned, a port that no one listens on.   *)
ASSUME EndpointsAssumption ==
  Endpoints \subseteq [Name -> {"exec", "test", "silent", "broken"}]
ASSUME NoNameAssumption == NoName \notin Name

VARIABLES readable,          \* the file can be opened and parsed
          endpoint,          \* by name: what is behind the URL
          phase,             \* where main stands
          dialing,           \* the plug being dialled, or NoName
          connected,         \* Connections.map
          joined,            \* the test accepts all at once, or in turn
          accept             \* by name: where WsPlug::accept stands

fileVars   == <<vars, readable, endpoint>>
dialVars   == <<phase, dialing, connected>>
testVars   == <<joined, accept>>
launchVars == <<fileVars, dialVars, testVars>>

LaunchTypeOK ==
  /\ TypeOK
  /\ readable \in BOOLEAN
  /\ endpoint \in Endpoints
  /\ phase \in {"loading", "dialing", "running", "closing", "failed"}
  /\ dialing \in Name \cup {NoName}
  /\ connected \subseteq plugs
  /\ joined \in BOOLEAN
  /\ accept \in [Name -> {"bound", "accepting", "accepted", "gone"}]

(* WsPlug::bind: before kble is spawned, for its file names the ports.     *)
LaunchInit ==
  /\ Init
  /\ readable \in BOOLEAN
  /\ endpoint \in Endpoints
  /\ phase = "loading"
  /\ dialing = NoName
  /\ connected = {}
  /\ joined \in BOOLEAN
  /\ accept = [p \in Name |-> "bound"]
-----------------------------------------------------------------------------
(* load_spaghetti_config: open and parse, then validate.                   *)
Unreadable ==
  /\ phase = "loading"
  /\ ~ readable
  /\ phase' = "failed"
  /\ UNCHANGED <<fileVars, dialing, connected, testVars>>

Validate ==
  /\ phase = "loading"
  /\ readable
  /\ Next
  /\ UNCHANGED <<readable, endpoint, dialVars, testVars>>

Loaded ==
  /\ phase = "loading"
  /\ verdict # "checking"
  /\ phase' = IF verdict = "validated" THEN "dialing" ELSE "failed"
  /\ UNCHANGED <<fileVars, dialing, connected, testVars>>

(* connect_to_plugs: one turn of the loop dials and waits.                 *)
Dial(p) ==
  /\ phase = "dialing"
  /\ dialing = NoName
  /\ p \in plugs \ connected
  /\ dialing' = p
  /\ UNCHANGED <<fileVars, phase, connected, testVars>>

Insert(p) ==
  /\ dialing' = NoName
  /\ connected' = connected \cup {p}

(* plug::connect_exec: spawning is all there is to it.                     *)
ConnectExec(p) ==
  /\ phase = "dialing" /\ dialing = p
  /\ endpoint[p] = "exec"
  /\ Insert(p)
  /\ UNCHANGED <<fileVars, phase, testVars>>

(* plug::connect_ws: waits for the answer of the peer to the handshake.    *)
ConnectWs(p) ==
  /\ phase = "dialing" /\ dialing = p
  /\ endpoint[p] = "test" /\ accept[p] = "accepted"
  /\ Insert(p)
  /\ UNCHANGED <<fileVars, phase, testVars>>

(* A listener that is gone takes the connection waiting in it along.       *)
Refused(p) ==
  endpoint[p] = "broken" \/ (endpoint[p] = "test" /\ accept[p] = "gone")

ConnectErr(p) ==
  /\ phase = "dialing" /\ dialing = p
  /\ Refused(p)
  /\ phase' = "closing"
  /\ UNCHANGED <<fileVars, dialing, connected, testVars>>

(* close_and_wait, for the connections made so far.                        *)
Closed ==
  /\ phase = "closing"
  /\ phase' = "failed"
  /\ connected' = {}
  /\ UNCHANGED <<fileVars, dialing, testVars>>

AllConnected ==
  /\ phase = "dialing"
  /\ dialing = NoName
  /\ connected = plugs
  /\ phase' = "running"
  /\ UNCHANGED <<fileVars, dialing, connected, testVars>>

Kble ==
  \/ Unreadable \/ Validate \/ Loaded \/ Closed \/ AllConnected
  \/ \E p \in Name : Dial(p) \/ ConnectExec(p) \/ ConnectWs(p) \/ ConnectErr(p)
-----------------------------------------------------------------------------
(* The test that spawned kble and owns its ws: plugs                       *)

OwnPlugs == {p \in plugs : endpoint[p] = "test"}

StartOne ==                                              \* mutant of StartAccepts
  /\ \A p \in OwnPlugs : accept[p] # "accepting"
  /\ \E p \in OwnPlugs :
       /\ accept[p] = "bound"
       /\ accept' = [accept EXCEPT ![p] = "accepting"]
  /\ UNCHANGED <<fileVars, dialVars, joined>>

(* All accepts are joined, or the next one is awaited.                     *)
StartAccepts ==
  /\ \A p \in OwnPlugs : accept[p] # "accepting"
  /\ \E p \in OwnPlugs :
       /\ accept[p] = "bound"
       /\ accept' = [q \in Name |-> IF q = p \/ (joined /\ q \in OwnPlugs)
                                      THEN "accepting" ELSE accept[q]]
  /\ UNCHANGED <<fileVars, dialVars, joined>>

(* WsPlug::accept: a connection, and the handshake on it.                  *)
WsAccept(p) ==
  /\ accept[p] = "accepting"
  /\ dialing = p
  /\ accept' = [accept EXCEPT ![p] = "accepted"]
  /\ UNCHANGED <<fileVars, dialVars, joined>>

NoTimeout(p) == FALSE                                    \* mutant of AcceptTimesOut

(* ... or the deadline: the listener is dropped, and the failing test      *)
(* drops those whose turn has not come.                                    *)
AcceptTimesOut(p) ==
  /\ accept[p] = "accepting"
  /\ accept' = [q \in Name |-> IF q = p \/ accept[q] = "bound" THEN "gone" ELSE accept[q]]
  /\ UNCHANGED <<fileVars, dialVars, joined>>

LaunchNext ==
  \/ Kble
  \/ StartAccepts
  \/ \E p \in Name : WsAccept(p) \/ AcceptTimesOut(p)

LaunchSpec == LaunchInit /\ [][LaunchNext]_launchVars

(* kble and the test do what they can do next; a deadline may or may not   *)
(* be reached before that.                                                 *)
FairLaunchSpec ==
  /\ LaunchSpec
  /\ WF_launchVars(Kble)
  /\ WF_launchVars(StartAccepts)
  /\ \A p \in Name : WF_launchVars(WsAccept(p))
-----------------------------------------------------------------------------
(* No plug is spawned or dialled, let alone linked, for a configuration    *)
(* that connect_links would panic on: main hands run only what validate    *)
(* accepted (main.rs:53-54).                                               *)
DialsOnlyWellFormed ==
  dialing # NoName \/ connected # {} \/ phase = "running"
    => readable /\ WellFormed(plugs, links)

(* kble turns no usable configuration away: a start that fails is about a  *)
(* file that cannot be read, a link to a plug that does not exist, a sink  *)
(* fed twice, or a plug that cannot be reached (main.rs:27-37,             *)
(* app.rs:157-164).                                                        *)
FailsForAReason ==
  phase \in {"closing", "failed"} =>
    ~ readable \/ ~ WellFormed(plugs, links) \/ (dialing # NoName /\ Refused(dialing))

(* "accept them concurrently" (kble-test-support/src/lib.rs:150-153): then *)
(* kble gets through to every plug in whatever order it dials them, short  *)
(* of a deadline that passes first.                                        *)
JoinedAcceptsMeet ==
  (phase = "dialing" /\ joined /\ \A p \in plugs : endpoint[p] \in {"exec", "test"})
    ~> \/ phase = "running" /\ \A p \in OwnPlugs : accept[p] = "accepted"
       \/ \E p \in OwnPlugs : accept[p] = "gone"

(* Dialling comes to an end, also when kble and a test that accepts in     *)
(* turn wait for each other: the deadline of accept resolves that.  A peer *)
(* that does not answer the handshake is waited for forever (app.rs:151).  *)
DialEnds ==
  (\A p \in Name : WF_launchVars(AcceptTimesOut(p))) =>
    \/ phase = "dialing" ~> phase # "dialing"
    \/ \E p \in Name : <>[](dialing = p /\ endpoint[p] = "silent")
=============================================================================
