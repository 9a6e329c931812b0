------------------------------- MODULE Cable --------------------------------
(***************************************************************************)
(* What kble promises the plugs it links: a cable per stream, which        *)
(* carries the frames of its plug one by one and in order until it is      *)
(* unplugged, and nothing afterwards.  Orchestrator implements it.         *)
(***************************************************************************)
EXTENDS Naturals, Sequences

CONSTANTS Plug, Frame

VARIABLES emitted,           \* by plug: the frames it has written
          delivered,         \* by plug: those that came out of its cable
          open               \* the plugs whose cable is still in place

cableVars == <<emitted, delivered, open>>

Init ==
  /\ emitted = [p \in Plug |-> <<>>]
  /\ delivered = [p \in Plug |-> <<>>]
  /\ open = Plug

Emit(p) ==
  /\ \E frame \in Frame : emitted' = [emitted EXCEPT ![p] = Append(@, frame)]
  /\ UNCHANGED <<delivered, open>>

(* The oldest frame still in the cable comes out.                          *)
Deliver(p) ==
  /\ p \in open
  /\ Len(delivered[p]) < Len(emitted[p])
  /\ LET next == emitted[p][Len(delivered[p]) + 1]
     IN  delivered' = [delivered EXCEPT ![p] = Append(@, next)]
  /\ UNCHANGED <<emitted, open>>

Unplug(p) ==
  /\ open' = open \ {p}
  /\ UNCHANGED <<emitted, delivered>>

Next == \E p \in Plug : Emit(p) \/ Deliver(p) \/ Unplug(p)

Spec == Init /\ [][Next]_cableVars
=============================================================================
