---------------------------- MODULE FrameFilter -----------------------------
(***************************************************************************)
(* What a plug that converts frames promises whoever feeds it: each frame  *)
(* that was fed whole, and that it converts, comes out once and in order,  *)
(* and it does not rest while one is still to come.  PlugHarness           *)
(* implements it.                                                          *)
(***************************************************************************)
EXTENDS Naturals, Sequences

VARIABLES due,               \* the numbers of the frames that are to come out
          delivered,         \* those that came out
          resting            \* the filter waits for its input, and can wait for ever

filterVars == <<due, delivered, resting>>

Outstanding == {n \in due : \A i \in 1 .. Len(delivered) : delivered[i] # n}

Init ==
  /\ due = {}
  /\ delivered = <<>>
  /\ resting \in BOOLEAN

(* Input, of which some frames may be the end, and which wakes the filter. *)
Feed ==
  /\ due \subseteq due'
  /\ \A m \in due, n \in due' \ due : m < n
  /\ resting' = FALSE
  /\ UNCHANGED delivered

(* The oldest frame outstanding comes out.                                 *)
Deliver ==
  \E n \in Outstanding :
    /\ \A m \in Outstanding : n <= m
    /\ delivered' = Append(delivered, n)
    /\ resting' \in {FALSE, Outstanding = {n}}
    /\ UNCHANGED due

Rest ==
  /\ Outstanding = {}
  /\ resting' = TRUE
  /\ UNCHANGED <<due, delivered>>

Stir ==
  /\ resting' = FALSE
  /\ UNCHANGED <<due, delivered>>

Next == Feed \/ Deliver \/ Rest \/ Stir

Spec == Init /\ [][Next]_filterVars
=============================================================================
