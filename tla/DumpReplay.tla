----------------------------- MODULE DumpReplay -----------------------------
(***************************************************************************)
(* kble-dump replay: run_replay (kble-dump/src/main.rs) sends the frames   *)
(* of a dump at the pace at which they were recorded.                      *)
(*                                                                         *)
(* Time is counted in ticks of the clock that SystemTime and the timer of  *)
(* the runtime share.  A record is its time stamp; the stamps need not     *)
(* grow, for the clock may have been set back while recording.             *)
(*                                                                         *)
(* dump is what from_read comes upon in the file, one read after another:  *)
(* a sound record; a garbled one, whose bytes do not decompress or are too *)
(* short to hold a stamp; or an unreadable one, for which from_read fails, *)
(* because it was cut short (module DumpRecord) or damaged, or the disk    *)
(* gives an error.  Any of them may have others behind it.                 *)
(***************************************************************************)
EXTENDS Integers, Sequences

CONSTANTS Dumps,             \* the dump files to consider
          Starts,            \* when replay may be started
          MaxTime            \* bound: later, time passes for a sleeper only

Record == [stamp : Nat, quality : {"sound", "garbled", "unreadable"}]

ASSUME DumpsAssumption == Dumps \subseteq Seq(Record)
ASSUME TimesAssumption == Starts \subseteq Nat /\ MaxTime \in Nat

VARIABLES dump,              \* the records of input_file
          now,               \* the clock
          next,              \* the record being replayed
          origin,            \* <<>>, or when the first record was read
          wake,              \* when the sleep is over
          sent,              \* when each frame was sent
          waited,            \* history: by record, ticks it was due for and
                             \* spent waiting for the peer or the scheduler
          phase, outcome

replayVars == <<dump, now, next, origin, wake, sent, waited, phase, outcome>>

ReplayTypeOK ==
  /\ dump \in Dumps
  /\ now \in Nat
  /\ next \in Nat \ {0}
  /\ origin \in Seq(Nat)
  /\ wake \in Nat
  /\ sent \in Seq(Nat) /\ Len(sent) = next - 1
  /\ waited \in Seq(Nat) /\ Len(waited) = next
  /\ phase \in {"reading", "sleeping", "sending", "ended"}
  /\ outcome \in {"none", "ok", "err"}

ReplayInit ==
  /\ dump \in Dumps
  /\ now \in Starts
  /\ next = 1
  /\ origin = <<>>
  /\ wake = 0
  /\ sent = <<>>
  /\ waited = <<0>>
  /\ phase = "reading"
  /\ outcome = "none"

LeaveReplay(r) == phase' = "ended" /\ outcome' = r
-----------------------------------------------------------------------------
Later(s, t) == IF s < t THEN t ELSE s

(* replay_time_offset, as of when record n is read.                        *)
OffsetForgotten(n) == now - dump[n].stamp                \* mutant of Offset

Offset(n) == IF origin = <<>> THEN now - dump[n].stamp ELSE origin[1] - dump[1].stamp

ReadEndOrGarbled ==                                      \* mutant of ReadEnd
  /\ phase = "reading"
  /\ next <= Len(dump) => dump[next].quality # "sound"
  /\ LeaveReplay("ok")
  /\ UNCHANGED <<dump, now, next, origin, wake, sent, waited>>

(* from_read fails: past the last record, or at one that is unreadable.    *)
(* The loop is over, and nothing behind that place is looked at.           *)
ReadEnd ==
  /\ phase = "reading"
  /\ next <= Len(dump) => dump[next].quality = "unreadable"
  /\ LeaveReplay("ok")
  /\ UNCHANGED <<dump, now, next, origin, wake, sent, waited>>

(* A record that does not decompress, or is too short to hold its stamp.   *)
ReadGarbled ==
  /\ phase = "reading"
  /\ next <= Len(dump)
  /\ dump[next].quality = "garbled"
  /\ LeaveReplay("err")
  /\ UNCHANGED <<dump, now, next, origin, wake, sent, waited>>

(* The first record is from the future: duration_since is an error.        *)
ReadFuture ==
  /\ phase = "reading"
  /\ next <= Len(dump)
  /\ dump[next].quality = "sound"
  /\ origin = <<>>
  /\ now < dump[next].stamp
  /\ LeaveReplay("err")
  /\ UNCHANGED <<dump, now, next, origin, wake, sent, waited>>

(* A record, to be sent at its stamp plus the offset, or at once if that   *)
(* is past: the sleep begins.                                              *)
Read ==
  /\ phase = "reading"
  /\ next <= Len(dump)
  /\ dump[next].quality = "sound"
  /\ origin = <<>> => now >= dump[next].stamp
  /\ origin' = IF origin = <<>> THEN <<now>> ELSE origin
  /\ wake' = Later(now, dump[next].stamp + Offset(next))
  /\ phase' = "sleeping"
  /\ UNCHANGED <<dump, now, next, sent, waited, outcome>>

Awake ==
  /\ phase = "sleeping"
  /\ now >= wake
  /\ phase' = "sending"
  /\ UNCHANGED <<dump, now, next, origin, wake, sent, waited, outcome>>

(* tx.send: done when the peer takes the frame, if it ever does, or an     *)
(* error.                                                                  *)
Send ==
  /\ phase = "sending"
  /\ \/ /\ sent' = Append(sent, now)
        /\ waited' = Append(waited, 0)
        /\ next' = next + 1
        /\ phase' = "reading"
        /\ UNCHANGED outcome
     \/ LeaveReplay("err") /\ UNCHANGED <<next, sent, waited>>
  /\ UNCHANGED <<dump, now, origin, wake>>

Asleep == phase = "sleeping" /\ now < wake

(* Time passes (external).                                                 *)
Tick ==
  /\ phase # "ended"
  /\ now < MaxTime \/ Asleep
  /\ now' = now + 1
  /\ waited' = [waited EXCEPT ![next] = IF Asleep THEN @ ELSE @ + 1]
  /\ UNCHANGED <<dump, next, origin, wake, sent, phase, outcome>>

(* What the program does without waiting for its peer.                     *)
OwnStep == ReadEnd \/ ReadGarbled \/ ReadFuture \/ Read \/ Awake

ReplayNext == OwnStep \/ Send \/ Tick

ReplaySpec == ReplayInit /\ [][ReplayNext]_replayVars

(* Time goes on and the runtime polls; nobody promises to take a frame.    *)
FairReplaySpec == ReplaySpec /\ WF_replayVars(OwnStep) /\ WF_replayVars(Tick)
-----------------------------------------------------------------------------
(* When frame n is due: as long after the first as it was recorded.        *)
Due(n) == dump[n].stamp + (origin[1] - dump[1].stamp)

Earliest(n) == IF n = 1 THEN origin[1] ELSE Later(Due(n), sent[n - 1])

(* The pace of the recording is kept: no frame goes out before it is due   *)
(* or before the one ahead of it, and none later than that but for the     *)
(* time its own peer took.  A delay is made up for and never adds to the   *)
(* next one, and a clock that was set back while recording delays nothing  *)
(* (main.rs:121-135).                                                      *)
PaceIsKept ==
  \A n \in 1 .. Len(sent) : sent[n] \in Earliest(n) .. Earliest(n) + waited[n]

(* A clean exit passes over no record that could be read: all of those in  *)
(* front of the first unreadable one have been sent.  What lies behind it  *)
(* is dropped, and the exit is clean all the same (main.rs:117).           *)
CleanExitSentReadable ==
  outcome = "ok" =>
    \A n \in 1 .. Len(dump) :
      n <= Len(sent) \/ \E i \in 1 .. n : dump[i].quality = "unreadable"

(* "replay finishes when its input file is exhausted" (main.rs:34), well   *)
(* only if that was where the readable records end, for every file, except *)
(* that it may wait for ever for its peer to take a frame.                 *)
ReplayEnds ==
  <>(phase = "ended" /\ CleanExitSentReadable) \/ <>[](phase = "sending")
=============================================================================
