---------------------------- MODULE LaunchProofs ----------------------------
(***************************************************************************)
(* What Config::validate guarantees, for any set of names and in whatever  *)
(* order the HashMap yields the links; and what that and the dialling of   *)
(* the plugs make of the start of kble, whatever stands behind their URLs. *)
(***************************************************************************)
EXTENDS Launch, TLAPS

USE DEF Known, SinkTaken, MarkSink

Checked == DOMAIN links \ todo

(* Until it fails, the loop has found the links it took out of the map to  *)
(* be good, and seenSinks holds exactly their sinks.                       *)
ChecksSoFar ==
  verdict \in {"checking", "validated"} =>
    /\ seenSinks = {links[s] : s \in Checked}
    /\ Checked \cup seenSinks \subseteq plugs
    /\ \A s, t \in Checked : links[s] = links[t] => s = t

IInv ==
  /\ TypeOK
  /\ ChecksSoFar
  /\ verdict = "validated" => todo = {}
  /\ RejectedHasTheDefect

LEMMA LinksAreNames ==
  ASSUME TypeOK, NEW s \in DOMAIN links
  PROVE  s \in Name /\ links[s] \in Name
  BY DEF TypeOK, LinkMaps

LEMMA InitIInv == Init => IInv
<1> SUFFICES ASSUME Init PROVE IInv
  OBVIOUS
<1>1. TypeOK
  BY DEF Init, TypeOK, LinkMaps
<1>2. ChecksSoFar
  BY DEF Init, ChecksSoFar, Checked
<1> QED BY <1>1, <1>2 DEF Init, IInv, RejectedHasTheDefect

LEMMA CheckLinkIInv ==
  ASSUME IInv, NEW s \in Name, CheckLink(s)
  PROVE  IInv'
<1> USE DEF IInv
<1>1. s \in DOMAIN links /\ s \in todo /\ s \notin Checked
  BY DEF CheckLink, TypeOK, Checked
<1>2. Checked' = Checked \cup {s}
  BY <1>1 DEF CheckLink, Checked
<1>3. TypeOK'
  BY <1>1, LinksAreNames DEF CheckLink, TypeOK
<1>4. CASE {s, links[s]} \subseteq plugs /\ links[s] \notin seenSinks
  <2>1. seenSinks' = seenSinks \cup {links[s]} /\ verdict' = "checking"
    BY <1>4 DEF CheckLink
  <2>2. \A t \in Checked : links[t] # links[s]
    BY <1>4 DEF ChecksSoFar, CheckLink
  <2>3. ChecksSoFar'
    BY <1>2, <1>4, <2>1, <2>2 DEF ChecksSoFar, CheckLink
  <2> QED BY <1>3, <2>1, <2>3 DEF RejectedHasTheDefect
<1>5. CASE {s, links[s]} \subseteq plugs /\ links[s] \in seenSinks
  <2>1. verdict' = "shared_sink" /\ UNCHANGED <<plugs, links>>
    BY <1>5 DEF CheckLink
  <2>2. PICK t \in Checked : links[t] = links[s]
    BY <1>5 DEF ChecksSoFar, CheckLink
  <2>3. ~ NoSinkShared(links)
    BY <1>1, <2>2 DEF NoSinkShared, Checked
  <2> QED BY <1>3, <2>1, <2>3 DEF RejectedHasTheDefect, ChecksSoFar, NoSinkShared
<1>6. CASE ~ ({s, links[s]} \subseteq plugs)
  <2>1. verdict' = "unknown_plug" /\ UNCHANGED <<plugs, links>>
    BY <1>6 DEF CheckLink
  <2>2. ~ (DOMAIN links \cup Dests(links) \subseteq plugs)
    BY <1>1, <1>6 DEF Dests
  <2> QED BY <1>3, <2>1, <2>2 DEF RejectedHasTheDefect, ChecksSoFar, Dests
<1> QED BY <1>4, <1>5, <1>6

LEMMA NextIInv == IInv /\ [Next]_vars => IInv'
<1> SUFFICES ASSUME IInv, [Next]_vars PROVE IInv'
  OBVIOUS
<1>1. CASE Accept
  BY <1>1 DEF Accept, IInv, TypeOK, ChecksSoFar, Checked, RejectedHasTheDefect,
     Dests, NoSinkShared
<1>2. ASSUME NEW s \in Name, CheckLink(s) PROVE IInv'
  BY <1>2, CheckLinkIInv
<1>3. CASE UNCHANGED vars
  BY <1>3 DEF vars, IInv, TypeOK, ChecksSoFar, Checked, RejectedHasTheDefect,
     Dests, NoSinkShared
<1> QED BY <1>1, <1>2, <1>3 DEF Next

THEOREM IInvHolds == Spec => []IInv
<1> QED BY InitIInv, NextIInv, PTL DEF Spec

(* The local state of validate is what its declarations say.               *)
THEOREM TypeCorrect == Spec => []TypeOK
<1>1. IInv => TypeOK
  BY DEF IInv
<1> QED BY <1>1, IInvHolds, PTL

LEMMA AcceptedIsGood == IInv => AcceptedIsWellFormed
  BY DEF IInv, ChecksSoFar, Checked, AcceptedIsWellFormed, WellFormed, Dests,
     NoSinkShared

(* A configuration that passes validate joins known plugs and feeds no     *)
(* sink twice: the panics of app::connect_links cannot be reached with it. *)
THEOREM AcceptedHolds == Spec => []AcceptedIsWellFormed
  BY AcceptedIsGood, IInvHolds, PTL

(* A configuration that validate rejects has the defect its error names.   *)
THEOREM RejectedHolds == Spec => []RejectedHasTheDefect
<1>1. IInv => RejectedHasTheDefect
  BY DEF IInv
<1> QED BY <1>1, IInvHolds, PTL
-----------------------------------------------------------------------------
(* Nothing happens to a plug before the configuration has been validated.  *)
Ready ==
  phase \in {"dialing", "running", "closing"} \/ dialing # NoName \/ connected # {}
    => readable /\ verdict = "validated"

ReadFirst == verdict # "checking" => readable

(* Joined accepts begin together.                                          *)
BeginTogether ==
  joined /\ (\E p \in OwnPlugs : accept[p] = "bound")
    => \A p \in OwnPlugs : accept[p] = "bound"

DialsPlugs == dialing \in plugs \cup {NoName}

LaunchInv ==
  /\ LaunchTypeOK
  /\ IInv
  /\ Ready
  /\ ReadFirst
  /\ BeginTogether
  /\ DialsPlugs
  /\ FailsForAReason

USE EndpointsAssumption, NoNameAssumption

LEMMA EndpointKinds ==
  ASSUME LaunchTypeOK
  PROVE  endpoint \in [Name -> {"exec", "test", "silent", "broken"}]
  BY DEF LaunchTypeOK

LEMMA InitLaunchInv == LaunchInit => LaunchInv
<1> SUFFICES ASSUME LaunchInit PROVE LaunchInv
  OBVIOUS
<1>1. IInv
  BY InitIInv DEF LaunchInit
<1>2. LaunchTypeOK
  BY <1>1 DEF IInv, LaunchInit, LaunchTypeOK
<1>3. Ready /\ ReadFirst /\ DialsPlugs /\ FailsForAReason
  BY DEF LaunchInit, Init, Ready, ReadFirst, DialsPlugs, FailsForAReason
<1>4. BeginTogether
  BY <1>2 DEF LaunchInit, BeginTogether, OwnPlugs, LaunchTypeOK, TypeOK
<1> QED BY <1>1, <1>2, <1>3, <1>4 DEF LaunchInv

(* IInv is about variables that only Validate changes.                     *)
LEMMA FileKeeps ==
  ASSUME LaunchInv, UNCHANGED vars
  PROVE  IInv'
  BY NextIInv DEF LaunchInv

LEMMA ValidateInv ==
  ASSUME LaunchInv, Validate
  PROVE  LaunchInv'
<1> USE DEF LaunchInv, Validate
<1>1. IInv'
  BY NextIInv
<1>2. plugs' = plugs /\ links' = links /\ verdict = "checking"
  BY DEF Next, Accept, CheckLink
<1>3. LaunchTypeOK'
  BY <1>1, <1>2 DEF IInv, LaunchTypeOK, dialVars, testVars
<1>4. Ready' /\ ReadFirst' /\ DialsPlugs'
  BY <1>2 DEF Ready, ReadFirst, DialsPlugs, dialVars
<1>5. BeginTogether'
  BY <1>2 DEF BeginTogether, OwnPlugs, testVars
<1>6. FailsForAReason'
  BY <1>2 DEF FailsForAReason, dialVars
<1> QED BY <1>1, <1>3, <1>4, <1>5, <1>6

(* The steps of kble that leave the file, and the plugs of the test, alone. *)
LEMMA KbleInv ==
  ASSUME LaunchInv, UNCHANGED <<fileVars, testVars>>,
         \/ Unreadable \/ Loaded \/ Closed \/ AllConnected
         \/ \E p \in Name : Dial(p) \/ ConnectExec(p) \/ ConnectWs(p) \/ ConnectErr(p)
  PROVE  LaunchInv'
<1>1. /\ IInv' /\ LaunchTypeOK
      /\ UNCHANGED <<plugs, links, todo, seenSinks, verdict, readable, endpoint,
                     joined, accept>>
  BY FileKeeps DEF LaunchInv, fileVars, testVars, vars
<1>2. BeginTogether'
  BY <1>1 DEF LaunchInv, BeginTogether, OwnPlugs
<1>3. ASSUME Unreadable PROVE LaunchInv'
  BY <1>1, <1>2, <1>3 DEF Unreadable, LaunchInv, LaunchTypeOK, IInv, Ready, ReadFirst, DialsPlugs,
     FailsForAReason
<1>4. ASSUME Loaded PROVE LaunchInv'
  <2>1. readable /\ verdict \in {"validated", "unknown_plug", "shared_sink"}
    BY <1>1, <1>4 DEF Loaded, LaunchInv, ReadFirst, LaunchTypeOK, TypeOK
  <2>2. verdict # "validated" => ~ WellFormed(plugs, links)
    BY <2>1 DEF LaunchInv, IInv, RejectedHasTheDefect, WellFormed
  <2>3. FailsForAReason'
    BY <1>1, <1>4, <2>2 DEF Loaded, FailsForAReason
  <2>4. Ready' /\ DialsPlugs'
    BY <1>1, <1>4, <2>1 DEF Loaded, LaunchInv, Ready, DialsPlugs
  <2> QED BY <1>1, <1>2, <1>4, <2>3, <2>4 DEF Loaded, LaunchInv, LaunchTypeOK, ReadFirst, IInv
<1>5. ASSUME Closed PROVE LaunchInv'
  BY <1>1, <1>2, <1>5 DEF Closed, LaunchInv, LaunchTypeOK, IInv, Ready, ReadFirst, DialsPlugs,
     FailsForAReason, Refused
<1>6. ASSUME AllConnected PROVE LaunchInv'
  BY <1>1, <1>2, <1>6 DEF AllConnected, LaunchInv, LaunchTypeOK, IInv, Ready, ReadFirst, DialsPlugs,
     FailsForAReason
<1>7. ASSUME NEW p \in Name, Dial(p) PROVE LaunchInv'
  BY <1>1, <1>2, <1>7 DEF Dial, LaunchInv, LaunchTypeOK, IInv, Ready, ReadFirst, DialsPlugs,
     FailsForAReason
<1>8. ASSUME NEW p \in Name, ConnectExec(p) \/ ConnectWs(p) PROVE LaunchInv'
  BY <1>1, <1>2, <1>8 DEF ConnectExec, ConnectWs, Insert, LaunchInv, LaunchTypeOK, IInv,
     Ready, ReadFirst, DialsPlugs, FailsForAReason
<1>9. ASSUME NEW p \in Name, ConnectErr(p) PROVE LaunchInv'
  BY <1>1, <1>2, <1>9 DEF ConnectErr, LaunchInv, LaunchTypeOK, IInv, Ready, ReadFirst, DialsPlugs,
     FailsForAReason, Refused
<1> QED BY <1>3, <1>4, <1>5, <1>6, <1>7, <1>8, <1>9

(* The steps of the test.  A listener that is gone stays gone.             *)
LEMMA TestInv ==
  ASSUME LaunchInv,
         StartAccepts \/ \E p \in Name : WsAccept(p) \/ AcceptTimesOut(p)
  PROVE  LaunchInv'
<1>1. /\ IInv' /\ LaunchTypeOK
      /\ UNCHANGED <<plugs, links, todo, seenSinks, verdict, readable, endpoint,
                     phase, dialing, connected, joined>>
  <2>1. UNCHANGED <<fileVars, dialVars, joined>>
    BY DEF StartAccepts, WsAccept, AcceptTimesOut
  <2> QED BY <2>1, FileKeeps DEF LaunchInv, fileVars, dialVars, vars
<1>2. /\ accept' \in [Name -> {"bound", "accepting", "accepted", "gone"}]
      /\ BeginTogether'
      /\ \A q \in OwnPlugs : accept[q] = "gone" => accept'[q] = "gone"
  <2>1. accept \in [Name -> {"bound", "accepting", "accepted", "gone"}]
        /\ OwnPlugs \subseteq Name /\ OwnPlugs' = OwnPlugs
    BY <1>1 DEF LaunchTypeOK, TypeOK, OwnPlugs
  <2>2. CASE StartAccepts
    BY <1>1, <2>1, <2>2 DEF StartAccepts, BeginTogether, LaunchInv
  <2>3. ASSUME NEW p \in Name, WsAccept(p) \/ AcceptTimesOut(p)
        PROVE  /\ accept' \in [Name -> {"bound", "accepting", "accepted", "gone"}]
               /\ BeginTogether'
               /\ \A q \in OwnPlugs : accept[q] = "gone" => accept'[q] = "gone"
    BY <1>1, <2>1, <2>3 DEF WsAccept, AcceptTimesOut, BeginTogether, LaunchInv
  <2> QED BY <2>2, <2>3
<1>3. LaunchTypeOK' /\ Ready' /\ ReadFirst' /\ DialsPlugs'
  BY <1>1, <1>2 DEF LaunchInv, LaunchTypeOK, IInv, Ready, ReadFirst, DialsPlugs
<1>4. FailsForAReason'
  <2>1. dialing # NoName /\ Refused(dialing) => Refused(dialing)'
    BY <1>1, <1>2 DEF LaunchInv, DialsPlugs, OwnPlugs, Refused
  <2> QED BY <1>1, <2>1 DEF LaunchInv, FailsForAReason
<1> QED BY <1>1, <1>2, <1>3, <1>4 DEF LaunchInv

LEMMA LaunchStep == LaunchInv /\ [LaunchNext]_launchVars => LaunchInv'
<1> SUFFICES ASSUME LaunchInv, [LaunchNext]_launchVars PROVE LaunchInv'
  OBVIOUS
<1>1. CASE Validate
  BY <1>1, ValidateInv
<1>2. CASE \/ Unreadable \/ Loaded \/ Closed \/ AllConnected
           \/ \E p \in Name : Dial(p) \/ ConnectExec(p) \/ ConnectWs(p) \/ ConnectErr(p)
  <2>1. UNCHANGED <<fileVars, testVars>>
    BY <1>2 DEF Unreadable, Loaded, Closed, AllConnected, Dial, ConnectExec, ConnectWs,
       ConnectErr
  <2> QED BY <1>2, <2>1, KbleInv
<1>3. CASE StartAccepts \/ \E p \in Name : WsAccept(p) \/ AcceptTimesOut(p)
  BY <1>3, TestInv
<1>4. CASE UNCHANGED launchVars
  <2>1. /\ IInv'
        /\ UNCHANGED <<plugs, links, todo, seenSinks, verdict, readable, endpoint, phase,
                       dialing, connected, joined, accept>>
    BY <1>4, FileKeeps DEF launchVars, fileVars, dialVars, testVars, vars
  <2> QED BY <2>1 DEF LaunchInv, LaunchTypeOK, IInv, Ready, ReadFirst, BeginTogether,
     OwnPlugs, DialsPlugs, FailsForAReason, Refused
<1> QED BY <1>1, <1>2, <1>3, <1>4 DEF LaunchNext, Kble

THEOREM LaunchInvHolds == LaunchSpec => []LaunchInv
  BY InitLaunchInv, LaunchStep, PTL DEF LaunchSpec

(* What main and connect_to_plugs keep is what their declarations say.     *)
THEOREM LaunchTypeCorrect == LaunchSpec => []LaunchTypeOK
<1>1. LaunchInv => LaunchTypeOK
  BY DEF LaunchInv
<1> QED BY <1>1, LaunchInvHolds, PTL

(* For any names and any plugs behind them, run gets only configurations   *)
(* that connect_links takes without a panic (main.rs:53-54).               *)
THEOREM DialsOnlyWellFormedHolds == LaunchSpec => []DialsOnlyWellFormed
<1>1. LaunchInv => DialsOnlyWellFormed
  BY AcceptedIsGood DEF LaunchInv, Ready, DialsOnlyWellFormed, AcceptedIsWellFormed
<1> QED BY <1>1, LaunchInvHolds, PTL

(* A start that fails does so for a reason that lies outside kble.         *)
THEOREM FailsForAReasonHolds == LaunchSpec => []FailsForAReason
<1>1. LaunchInv => FailsForAReason
  BY DEF LaunchInv
<1> QED BY <1>1, LaunchInvHolds, PTL
=============================================================================
