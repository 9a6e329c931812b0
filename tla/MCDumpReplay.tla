---------------------------- MODULE MCDumpReplay ----------------------------
(* Instances of DumpReplay for TLC.                                        *)
EXTENDS DumpReplay

CONSTANTS MaxStamp, MaxRecords

(* Every dump of up to MaxRecords records with stamps up to MaxStamp, in   *)
(* any order; at most one of them, anywhere, is garbled or unreadable.     *)
SmallDumps ==
  LET Dump(n) == [1 .. n -> [stamp : 0 .. MaxStamp,
                             quality : {"sound", "garbled", "unreadable"}]] IN
  {d \in UNION {Dump(n) : n \in 0 .. MaxRecords} :
     \A m, n \in 1 .. Len(d) :
       d[m].quality # "sound" /\ d[n].quality # "sound" => m = n}
=============================================================================
