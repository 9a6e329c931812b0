------------------------------- MODULE Config -------------------------------
(***************************************************************************)
(* What a spaghetti configuration means once it has been validated.        *)
(*                                                                         *)
(* A configuration names a set of plugs and a map of links: links[s] = d   *)
(* forwards the stream of plug s into the sink of plug d.  The map is a    *)
(* HashMap, so a stream feeds at most one link by construction; that a     *)
(* sink is fed by at most one link is something Config::validate checks    *)
(* (module Spaghetti) and app::run relies on (module Orchestrator).        *)
(***************************************************************************)

(* Every way of linking plugs out of the set N, well-formed or not.        *)
LinkMaps(N) == UNION {[S -> N] : S \in SUBSET N}

Dests(links) == {links[s] : s \in DOMAIN links}

NoSinkShared(links) ==
  \A s, t \in DOMAIN links : links[s] = links[t] => s = t

WellFormed(plugs, links) ==
  /\ DOMAIN links \subseteq plugs
  /\ Dests(links) \subseteq plugs
  /\ NoSinkShared(links)
=============================================================================
