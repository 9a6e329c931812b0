----------------------------- MODULE Spaghetti ------------------------------
(***************************************************************************)
(* Config<Raw>::validate (kble/src/spaghetti.rs): the loop over the links  *)
(* of a parsed configuration, which turns it into a Config<Validated> or   *)
(* returns the first error it meets.  The links come out of a HashMap, so  *)
(* the loop may take them in any order.                                    *)
(***************************************************************************)
EXTENDS Config

CONSTANT Name                \* the plug names a configuration file may use

VARIABLES plugs,             \* names with an entry in the `plugs` map
          links,             \* the `links` map: a function from name to name
          todo,              \* stream names the iterator has not yielded yet
          seenSinks,         \* the local HashSet of sink names met so far
          verdict            \* "checking", or what validate returned

vars == <<plugs, links, todo, seenSinks, verdict>>

TypeOK ==
  /\ plugs \subseteq Name
  /\ links \in LinkMaps(Name)
  /\ todo \subseteq DOMAIN links
  /\ seenSinks \subseteq Name
  /\ verdict \in {"checking", "validated", "unknown_plug", "shared_sink"}

(* serde accepts any two maps of names, so validate may be handed any.     *)
Init ==
  /\ plugs \in SUBSET Name
  /\ links \in LinkMaps(Name)
  /\ todo = DOMAIN links
  /\ seenSinks = {}
  /\ verdict = "checking"

KnownStream(s) == s \in plugs                           \* mutant of Known

Known(s) == {s, links[s]} \subseteq plugs

UsedByAny(s) == {s, links[s]} \cap seenSinks # {}       \* mutant of SinkTaken

SinkTaken(s) == links[s] \in seenSinks

MarkSink(s) == seenSinks \cup {links[s]}

(* One iteration of the loop, for the link the iterator yields next.       *)
CheckLink(s) ==
  /\ verdict = "checking"
  /\ s \in todo
  /\ todo' = todo \ {s}
  /\ IF Known(s)
       THEN IF SinkTaken(s)
              THEN /\ verdict' = "shared_sink"
                   /\ UNCHANGED seenSinks
              ELSE /\ seenSinks' = MarkSink(s)
                   /\ UNCHANGED verdict
       ELSE /\ verdict' = "unknown_plug"
            /\ UNCHANGED seenSinks
  /\ UNCHANGED <<plugs, links>>

(* The iterator is exhausted: Ok(Config::new(self.inner)).                 *)
Accept ==
  /\ verdict = "checking"
  /\ todo = {}
  /\ verdict' = "validated"
  /\ UNCHANGED <<plugs, links, todo, seenSinks>>

Next == Accept \/ \E s \in Name : CheckLink(s)

Spec == Init /\ [][Next]_vars
-----------------------------------------------------------------------------
(* Whatever order the HashMap yields the links in, validate accepts only   *)
(* what app::run may rely on: every link joins known plugs and no sink is  *)
(* fed twice (connect_links would panic on the second take otherwise).     *)
AcceptedIsWellFormed == verdict = "validated" => WellFormed(plugs, links)

(* ... and it turns no usable configuration away, with an error that is    *)
(* about a defect the configuration has.                                   *)
RejectedHasTheDefect ==
  /\ verdict = "unknown_plug" => ~ (DOMAIN links \cup Dests(links) \subseteq plugs)
  /\ verdict = "shared_sink" => ~ NoSinkShared(links)
=============================================================================
