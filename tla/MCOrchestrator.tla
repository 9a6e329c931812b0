--------------------------- MODULE MCOrchestrator ---------------------------
(* Instances of Orchestrator for TLC.                                      *)
EXTENDS Orchestrator, TLC, Functions

CONSTANTS a, b

(* Every configuration that validate accepts for the given plugs: self     *)
(* loops, one-way and two-way pairs, and the one without links.            *)
AllConfigs == {f \in LinkMaps(Plug) : WellFormed(Plug, f)}

LinkedConfigs == AllConfigs \ {<<>>}

(* Two links that have no plug in common.                                  *)
SeparateConfigs == {a :> a @@ b :> b}

(* Two plugs that feed each other.                                         *)
TwoWayConfigs == {a :> b @@ b :> a}
=============================================================================
