------------------------------ MODULE MCLaunch ------------------------------
(* Instances of Launch for TLC.                                            *)
EXTENDS Launch, TLC

CONSTANTS a, b, c

(* Two plugs of the test, and what else there may be beside them.          *)
Worlds ==
  {a :> "test" @@ b :> "test" @@ c :> other : other \in {"exec", "silent", "broken"}}
=============================================================================
