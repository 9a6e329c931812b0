---------------------------- MODULE SerialBridge ----------------------------
(***************************************************************************)
(* kble-serialport (kble-serialport/src/main.rs): handle_get opens the     *)
(* port before it answers a client's upgrade, handle_ws copies both ways   *)
(* until one loop ends and try_select drops the other where it stands.     *)
(*                                                                         *)
(* One port, opened exclusively (the serialport library sets TIOCEXCL), so *)
(* one session at a time; each client asks once.  Bytes of a client are    *)
(* numbered as it sent them, those of the device as they reached the open  *)
(* port; how bytes are cut into messages is decided when one is read.      *)
(***************************************************************************)
EXTENDS Naturals, Sequences

CONSTANTS Client,            \* those who ask for /open
          NoClient,          \* no one has the port open
          ReadSize,          \* the capacity of `buf`
          PortCap,           \* bytes the port takes before a write blocks
          SocketCap,         \* messages the WebSocket holds before it blocks
          MaxFed, MaxSaid    \* bounds: bytes a client, and the device, send

ASSUME NoClientAssumption == NoClient \notin Client
ASSUME SizesAssumption ==
  {ReadSize, PortCap, SocketCap} \subseteq Nat \ {0} /\ {MaxFed, MaxSaid} \subseteq Nat

VARIABLES
  owner,                     \* whose request or session holds the port
  phase, how,                \* by client: its request, and how it ended
  fed, inEnd,                \* by client: bytes sent, and what follows them
  got,                       \* by client: bytes of the device sent to it
  ws, tx, inq, body,         \* the session: WebSocket, loop, bytes not read
                             \* yet, and those to be written
  buf, outq,                 \* ... what sink.send has to flush, and not taken
  rxq, txq,                  \* bytes in the port, from and to the device
  said, wire,                \* bytes of the device, and those that reached it
  port                       \* the device is there

clientVars  == <<fed, inEnd>>
sessionVars == <<ws, tx, inq, body, buf, outq>>
portVars    == <<rxq, txq, said, wire, port>>
vars == <<owner, phase, how, got, clientVars, sessionVars, portVars>>

Byte   == Nat \ {0}
OnWire == [by : Client, n : Byte]

TypeOK ==
  /\ owner \in Client \cup {NoClient}
  /\ phase \in [Client -> {"idle", "upgrading", "bridging", "over"}]
  /\ how \in [Client -> {"none", "refused", "closed", "dropped"}]
  /\ fed \in [Client -> Nat]
  /\ inEnd \in [Client -> {"open", "close", "gone"}]
  /\ got \in [Client -> Seq(Byte)]
  /\ ws \in {"active", "replying", "closed"}
  /\ tx \in {"copying", "flushing"}
  /\ inq \in Seq(Byte) /\ body \in Seq(Byte)
  /\ buf \in Seq(Byte) /\ Len(buf) <= ReadSize
  /\ outq \in 0 .. SocketCap
  /\ rxq \in Seq(Byte)
  /\ txq \in Seq(OnWire) /\ Len(txq) <= PortCap
  /\ said \in Nat
  /\ wire \in Seq(OnWire)
  /\ port \in BOOLEAN

Init ==
  /\ owner = NoClient
  /\ phase = [c \in Client |-> "idle"]
  /\ how = [c \in Client |-> "none"]
  /\ fed = [c \in Client |-> 0]
  /\ inEnd = [c \in Client |-> "open"]
  /\ got = [c \in Client |-> <<>>]
  /\ ws = "active" /\ tx = "copying" /\ inq = <<>> /\ body = <<>> /\ buf = <<>> /\ outq = 0
  /\ rxq = <<>> /\ txq = <<>> /\ said = 0 /\ wire = <<>> /\ port = TRUE

Prefix(s, k) == SubSeq(s, 1, k)

Rest(s, k) == SubSeq(s, k + 1, Len(s))
-----------------------------------------------------------------------------
(* handle_get                                                              *)

(* The port is opened, or the client is answered 500: it is in use, gone,  *)
(* or rejects the options.                                                 *)
Open(c) ==
  /\ phase[c] = "idle" /\ inEnd[c] # "gone"
  /\ port /\ owner = NoClient
  /\ owner' = c
  /\ phase' = [phase EXCEPT ![c] = "upgrading"]
  /\ UNCHANGED <<how, got, clientVars, sessionVars, portVars>>

Refuse(c) ==
  /\ phase[c] = "idle" /\ inEnd[c] # "gone"
  /\ phase' = [phase EXCEPT ![c] = "over"]
  /\ how' = [how EXCEPT ![c] = "refused"]
  /\ UNCHANGED <<owner, got, clientVars, sessionVars, portVars>>

Upgraded(c) ==
  /\ phase[c] = "upgrading"
  /\ phase' = [phase EXCEPT ![c] = "bridging"]
  /\ UNCHANGED <<owner, how, got, clientVars, sessionVars, portVars>>

(* Whoever drops the port closes it: bytes from the device are discarded,  *)
(* those to it get out as far as they do.                                  *)
ClosePort ==
  /\ owner' = NoClient
  /\ rxq' = <<>> /\ txq' = <<>>
  /\ \E k \in 0 .. Len(txq) : wire' = wire \o Prefix(txq, k)
  /\ UNCHANGED <<said, port>>

PortKept(c) ==                                           \* mutant of UpgradeFails
  /\ phase[c] = "upgrading" /\ inEnd[c] = "gone"
  /\ phase' = [phase EXCEPT ![c] = "over"]
  /\ UNCHANGED <<owner, how, got, clientVars, sessionVars, portVars>>

(* The upgrade does not come about: on_upgrade drops its closure.          *)
UpgradeFails(c) ==
  /\ phase[c] = "upgrading" /\ inEnd[c] = "gone"
  /\ phase' = [phase EXCEPT ![c] = "over"]
  /\ how' = [how EXCEPT ![c] = "dropped"]
  /\ ClosePort
  /\ UNCHANGED <<got, clientVars, sessionVars>>
-----------------------------------------------------------------------------
(* handle_ws                                                               *)

Bridging == owner # NoClient /\ phase[owner] = "bridging"

(* One of the loops is over: the other one, the WebSocket and the port are *)
(* dropped.                                                                *)
EndSession(h) ==
  /\ phase' = [phase EXCEPT ![owner] = "over"]
  /\ how' = [how EXCEPT ![owner] = h]
  /\ ws' = "active" /\ tx' = "copying"
  /\ inq' = <<>> /\ body' = <<>> /\ buf' = <<>> /\ outq' = 0
  /\ ClosePort
  /\ UNCHANGED <<got, clientVars>>

Lives == UNCHANGED <<owner, phase, how>>

Receiving == Bridging /\ tx = "copying" /\ body = <<>>

(* stream.next() yields a message, the next k bytes of the client.         *)
TxRecv(k) ==
  /\ Receiving /\ ws = "active"
  /\ k \in 1 .. Len(inq)
  /\ body' = Prefix(inq, k)
  /\ inq' = Rest(inq, k)
  /\ Lives
  /\ UNCHANGED <<clientVars, got, ws, tx, buf, outq, portVars>>

WriteNotAll(k) == <<>>                                   \* mutant of Unwritten

Unwritten(k) == Rest(body, k)

(* write_all: the port takes k bytes ...                                   *)
TxWrite(k) ==
  /\ Bridging /\ port
  /\ k \in 1 .. Len(body) /\ Len(txq) + k <= PortCap
  /\ txq' = txq \o [i \in 1 .. k |-> [by |-> owner, n |-> body[i]]]
  /\ body' = Unwritten(k)
  /\ Lives
  /\ UNCHANGED <<clientVars, got, ws, tx, inq, buf, outq, rxq, said, wire, port>>

(* ... or fails: the device is gone.                                       *)
TxWriteFails ==
  /\ Bridging /\ body # <<>>
  /\ ~ port
  /\ EndSession("dropped")

CloseSeen == inq = <<>> /\ inEnd[owner] = "close"

SocketRoom == outq < SocketCap

(* The client's Close: its reply is queued behind what sink.send has in    *)
(* hand ...                                                                *)
TxSeesClose ==
  /\ Receiving /\ ws = "active"
  /\ CloseSeen
  /\ ws' = "replying"
  /\ Lives
  /\ UNCHANGED <<clientVars, got, tx, inq, body, buf, outq, portVars>>

(* ... flushed with it, by the loop that waits for the next message ...    *)
TxReplies ==
  /\ Receiving /\ ws = "replying"
  /\ SocketRoom
  /\ outq' = outq + 1
  /\ got' = [got EXCEPT ![owner] = @ \o buf]
  /\ buf' = <<>>
  /\ ws' = "closed"
  /\ Lives
  /\ UNCHANGED <<clientVars, tx, inq, body, portVars>>

(* ... which then gets None, and flushes the port.                         *)
TxBreaks ==
  /\ Receiving /\ ws = "closed"
  /\ tx' = "flushing"
  /\ Lives
  /\ UNCHANGED <<clientVars, got, ws, inq, body, buf, outq, portVars>>

NoFlush == TRUE                                          \* mutant of Flushed

Flushed == txq = <<>>

TxFlushed ==
  /\ Bridging /\ tx = "flushing" /\ port
  /\ Flushed
  /\ EndSession("closed")

TxFlushFails ==
  /\ Bridging /\ tx = "flushing"
  /\ ~ port
  /\ EndSession("dropped")

(* A connection that broke: an error.                                      *)
TxError ==
  /\ Receiving
  /\ inq = <<>> /\ inEnd[owner] = "gone" /\ ws # "closed"
  /\ EndSession("dropped")

Fits(k) == k \in 1 .. Len(rxq) /\ k <= ReadSize

(* read_buf yields k bytes, and sink.send takes them ...                   *)
RxRead(k) ==
  /\ Bridging /\ buf = <<>> /\ ws = "active"
  /\ Fits(k)
  /\ buf' = Prefix(rxq, k)
  /\ rxq' = Rest(rxq, k)
  /\ Lives
  /\ UNCHANGED <<clientVars, got, ws, tx, inq, body, outq, txq, said, wire, port>>

(* ... or refuses them: a Close was read.                                  *)
RxRefused ==
  /\ Bridging /\ buf = <<>> /\ ws # "active"
  /\ rxq # <<>>
  /\ EndSession("dropped")

BufferKept == buf                                        \* mutant of NewBuffer

NewBuffer == <<>>

RxSent ==
  /\ Bridging /\ buf # <<>>
  /\ SocketRoom
  /\ outq' = outq + 1
  /\ got' = [got EXCEPT ![owner] = @ \o buf]
  /\ buf' = NewBuffer
  /\ ws' = IF ws = "replying" THEN "closed" ELSE ws
  /\ Lives
  /\ UNCHANGED <<clientVars, tx, inq, body, portVars>>

RxSendFails ==
  /\ Bridging /\ buf # <<>>
  /\ inEnd[owner] = "gone"
  /\ EndSession("dropped")

(* End of file or an error of the port: the device is gone.                *)
RxEnds ==
  /\ Bridging /\ buf = <<>>
  /\ ~ port
  /\ EndSession("dropped")
-----------------------------------------------------------------------------
(* The clients, their connections and the device (external)                *)

ClientSends ==
  /\ Bridging /\ inEnd[owner] = "open" /\ fed[owner] < MaxFed
  /\ fed' = [fed EXCEPT ![owner] = @ + 1]
  /\ inq' = Append(inq, fed[owner] + 1)
  /\ UNCHANGED <<owner, phase, how, got, inEnd, ws, tx, body, buf, outq, portVars>>

(* A Close, or the connection breaks; what was sent may not arrive then.   *)
ClientCloses ==
  /\ Bridging /\ inEnd[owner] = "open"
  /\ inEnd' = [inEnd EXCEPT ![owner] = "close"]
  /\ UNCHANGED <<owner, phase, how, got, fed, sessionVars, portVars>>

ClientVanishes(c) ==
  /\ phase[c] # "over" /\ inEnd[c] # "gone"
  /\ inEnd' = [inEnd EXCEPT ![c] = "gone"]
  /\ \E k \in {0, Len(inq)} : inq' = IF c = owner THEN Prefix(inq, k) ELSE inq
  /\ UNCHANGED <<owner, phase, how, got, fed, ws, tx, body, buf, outq, portVars>>

ClientReads ==
  /\ Bridging /\ outq > 0
  /\ inEnd[owner] # "gone"
  /\ outq' = outq - 1
  /\ UNCHANGED <<owner, phase, how, got, clientVars, ws, tx, inq, body, buf, portVars>>

DeviceSays ==
  /\ port /\ owner # NoClient /\ said < MaxSaid
  /\ said' = said + 1
  /\ rxq' = Append(rxq, said + 1)
  /\ UNCHANGED <<owner, phase, how, got, clientVars, sessionVars, txq, wire, port>>

DeviceTakes ==
  /\ port /\ txq # <<>>
  /\ wire' = Append(wire, Head(txq))
  /\ txq' = Tail(txq)
  /\ UNCHANGED <<owner, phase, how, got, clientVars, sessionVars, rxq, said, port>>

Unplug ==
  /\ port
  /\ port' = FALSE
  /\ rxq' = <<>> /\ txq' = <<>>
  /\ UNCHANGED <<owner, phase, how, got, clientVars, sessionVars, said, wire>>
-----------------------------------------------------------------------------
GetStep == \E c \in Client : Open(c) \/ Refuse(c) \/ Upgraded(c) \/ UpgradeFails(c)

TxStep ==
  \/ TxWriteFails \/ TxSeesClose \/ TxReplies \/ TxBreaks
  \/ TxFlushed \/ TxFlushFails \/ TxError
  \/ \E k \in 1 .. MaxFed : TxRecv(k) \/ TxWrite(k)

RxStep ==
  \/ RxRefused \/ RxSent \/ RxSendFails \/ RxEnds
  \/ \E k \in 1 .. MaxSaid : RxRead(k)

Outside ==
  \/ \E c \in Client : ClientVanishes(c)
  \/ ClientSends \/ ClientCloses \/ ClientReads \/ DeviceSays \/ DeviceTakes \/ Unplug

Next == GetStep \/ TxStep \/ RxStep \/ Outside

Spec == Init /\ [][Next]_vars

(* Requests are served, and try_select polls both loops.                   *)
FairSpec ==
  Spec /\ WF_vars(TxStep) /\ WF_vars(RxStep)
       /\ \A c \in Client : WF_vars(Upgraded(c) \/ UpgradeFails(c))
-----------------------------------------------------------------------------
(* The device sees one client after the other, and of each the beginning   *)
(* of what it sent, in order and without a gap: a chunk that a dropped     *)
(* loop had half written is never continued or interleaved (main.rs:154).  *)
WireIsApart ==
  \A i \in 1 .. Len(wire) :
    wire[i].n = IF i > 1 /\ wire[i - 1].by = wire[i].by THEN wire[i - 1].n + 1 ELSE 1

(* A client hears the device from where it opened the port on, without a   *)
(* gap, and no byte is heard by two clients (main.rs:143).                 *)
HeardOnce ==
  \A c, d \in Client : \A i \in 1 .. Len(got[c]) :
    /\ i > 1 => got[c][i] = got[c][i - 1] + 1
    /\ c # d => \A j \in 1 .. Len(got[d]) : got[c][i] # got[d][j]

(* When the session of a client ends with its Close, all it sent is out of *)
(* the port before the next one can open it: break, then flush, then drop  *)
(* (main.rs:156-162).  A device that speaks up meanwhile ends the session  *)
(* otherwise, by an error of the other loop.                               *)
CleanEndReachesDevice ==
  \A c \in Client : how[c] = "closed" =>
    \A n \in 1 .. fed[c] : \E i \in 1 .. Len(wire) : wire[i] = [by |-> c, n |-> n]

(* Neither a client that leaves, at any point of the upgrade or the        *)
(* session, nor a device that goes keeps the port from the next one: only  *)
(* a device that stops taking bytes does, or a client that closes without  *)
(* reading on (main.rs:137-166).                                           *)
DeviceParked == txq # <<>>

ClientParked(c) == owner = c /\ outq = SocketCap /\ inEnd[c] # "gone"

PortComesFree ==
  \A c \in Client :
    \/ (inEnd[c] # "open" \/ ~ port) /\ owner = c ~> owner # c
    \/ <>[](owner = c /\ DeviceParked)
    \/ <>[]ClientParked(c)
=============================================================================
