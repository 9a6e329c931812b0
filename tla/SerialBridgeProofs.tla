------------------------- MODULE SerialBridgeProofs -------------------------
(***************************************************************************)
(* Proofs about SerialBridge, for any number of clients and any size of    *)
(* reads and buffers.                                                      *)
(***************************************************************************)
EXTENDS SerialBridge, SequenceTheorems, TLAPS

NewSession ==
  /\ ws = "active" /\ tx = "copying"
  /\ inq = <<>> /\ body = <<>> /\ buf = <<>> /\ outq = 0

(* Who has the port, and what there can be without a session.              *)
PhaseInv ==
  /\ \A c \in Client : phase[c] \in {"upgrading", "bridging"} <=> owner = c
  /\ ~ Bridging => NewSession /\ txq = <<>>
  /\ owner = NoClient => rxq = <<>>
  /\ \A c \in Client : phase[c] \in {"idle", "upgrading"} => fed[c] = 0 /\ got[c] = <<>>
  /\ \A c \in Client : how[c] # "none" => phase[c] = "over"
  /\ \A i \in 1 .. Len(wire) : phase[wire[i].by] \in {"bridging", "over"}

(* Once a Close was read nothing of the client is left to be written.      *)
CloseInv ==
  /\ ws # "active" => inq = <<>> /\ body = <<>> /\ inEnd[owner] # "open"
  /\ tx = "flushing" => ws = "closed"

GoneInv == ~ port => txq = <<>> /\ rxq = <<>>

Run(s, b) == \A i \in 1 .. Len(s) : s[i] = b + i

RunOf(s, c, b) == \A i \in 1 .. Len(s) : s[i] = [by |-> c, n |-> b + i]

(* How many bytes of c are at the end of w.                                *)
Seen(w, c) == IF w # <<>> /\ w[Len(w)].by = c THEN w[Len(w)].n ELSE 0

(* From the wire back through port and session: all bytes of the client,   *)
(* unless its connection broke and some never came.                        *)
SentInv ==
  port =>
    LET seen == Seen(wire, owner) IN
    /\ RunOf(txq, owner, seen)
    /\ Run(body, seen + Len(txq))
    /\ Run(inq, seen + Len(txq) + Len(body))
    /\ owner # NoClient /\ (inEnd[owner] # "gone" \/ ws # "active") =>
         fed[owner] = seen + Len(txq) + Len(body) + Len(inq)

Apart(w) ==
  \A i \in 1 .. Len(w) :
    w[i].n = IF i > 1 /\ w[i - 1].by = w[i].by THEN w[i - 1].n + 1 ELSE 1

Covered(w) ==
  \A i \in 1 .. Len(w) : \A m \in 1 .. w[i].n :
    \E j \in 1 .. Len(w) : w[j] = [by |-> w[i].by, n |-> m]

WireInv == Apart(wire) /\ Covered(wire) /\ CleanEndReachesDevice

(* From the device through the session to the client that has the port;    *)
(* what others were sent came before.                                      *)
HearInv ==
  /\ Run(rxq, said - Len(rxq))
  /\ Run(buf, buf[1] - 1)
  /\ buf # <<>> => buf[Len(buf)] <= said
  /\ buf # <<>> /\ port => buf[Len(buf)] = said - Len(rxq)
  /\ \A c \in Client : \A i \in 1 .. Len(got[c]) :
       /\ got[c][i] <= said
       /\ c # owner => /\ buf # <<>> => got[c][i] < buf[1]
                       /\ port => got[c][i] <= said - Len(rxq)
  /\ owner # NoClient /\ got[owner] # <<>> =>
       LET last == got[owner][Len(got[owner])] IN
       /\ buf # <<>> => buf[1] = last + 1
       /\ buf = <<>> /\ port => last = said - Len(rxq)

IInv ==
  /\ TypeOK /\ PhaseInv /\ CloseInv /\ GoneInv
  /\ SentInv /\ WireInv /\ HearInv /\ HeardOnce
-----------------------------------------------------------------------------
LEMMA Nothing == ASSUME NEW S PROVE <<>> \in Seq(S) /\ Len(<<>>) = 0
BY EmptySeq

LEMMA Parts ==
  ASSUME NEW S, NEW s \in Seq(S), NEW k \in 0 .. Len(s)
  PROVE  /\ Prefix(s, k) \in Seq(S) /\ Len(Prefix(s, k)) = k
         /\ \A i \in 1 .. k : Prefix(s, k)[i] = s[i]
         /\ Rest(s, k) \in Seq(S) /\ Len(Rest(s, k)) = Len(s) - k
         /\ \A i \in 1 .. Len(s) - k : Rest(s, k)[i] = s[k + i]
<1>1. Len(s) \in Nat /\ \A i \in 1 .. Len(s) : s[i] \in S
  BY LenProperties
<1>2. \A i \in 1 .. k : s[i] \in S
  BY <1>1
<1>3. \A i \in k + 1 .. Len(s) : s[i] \in S
  BY <1>1
<1>4. 1 \in Int /\ k \in Int /\ k + 1 \in Int /\ Len(s) \in Int
  BY <1>1
<1>5. /\ SubSeq(s, 1, k) \in Seq(S)
      /\ Len(SubSeq(s, 1, k)) = IF 1 <= k THEN k - 1 + 1 ELSE 0
      /\ \A i \in 1 .. k - 1 + 1 : SubSeq(s, 1, k)[i] = s[1 + i - 1]
  BY <1>2, <1>4, SubSeqProperties
<1>6. /\ SubSeq(s, k + 1, Len(s)) \in Seq(S)
      /\ Len(SubSeq(s, k + 1, Len(s))) = IF k + 1 <= Len(s) THEN Len(s) - (k + 1) + 1 ELSE 0
      /\ \A i \in 1 .. Len(s) - (k + 1) + 1 : SubSeq(s, k + 1, Len(s))[i] = s[k + 1 + i - 1]
  BY <1>3, <1>4, SubSeqProperties
<1>7. /\ Prefix(s, k) \in Seq(S) /\ Len(Prefix(s, k)) = k
      /\ \A i \in 1 .. k : Prefix(s, k)[i] = s[i]
  BY <1>1, <1>5 DEF Prefix
<1>8. /\ Rest(s, k) \in Seq(S) /\ Len(Rest(s, k)) = Len(s) - k
      /\ \A i \in 1 .. Len(s) - k : Rest(s, k)[i] = s[k + i]
  BY <1>1, <1>6 DEF Rest
<1> QED BY <1>7, <1>8

LEMMA HeadAndTail ==
  ASSUME NEW S, NEW s \in Seq(S), s # <<>>
  PROVE  /\ Len(s) \in Nat \ {0} /\ Head(s) = s[1] /\ Head(s) \in S
         /\ Tail(s) \in Seq(S) /\ Len(Tail(s)) = Len(s) - 1
         /\ \A i \in 1 .. Len(s) - 1 : Tail(s)[i] = s[i + 1]
<1>1. Len(s) \in Nat /\ Len(s) # 0 /\ \A i \in 1 .. Len(s) : s[i] \in S
  BY EmptySeq, LenProperties
<1>2. Head(s) = s[1] /\ 1 \in 1 .. Len(s)
  BY <1>1
<1>3. /\ Tail(s) \in Seq(S) /\ Len(Tail(s)) = Len(s) - 1
      /\ \A i \in 1 .. Len(s) - 1 : Tail(s)[i] = s[i + 1]
  BY <1>1
<1> QED BY <1>1, <1>2, <1>3

LEMMA TwoParts ==
  ASSUME NEW S, NEW s \in Seq(S), NEW t \in Seq(S)
  PROVE  /\ Len(s \o t) = Len(s) + Len(t)
         /\ \A i \in 1 .. Len(s) : (s \o t)[i] = s[i]
         /\ \A i \in 1 .. Len(t) : (s \o t)[Len(s) + i] = t[i]
OBVIOUS

LEMMA RunParts ==
  ASSUME NEW s \in Seq(Byte), NEW b \in Int, Run(s, b), NEW k \in 1 .. Len(s)
  PROVE  Run(Prefix(s, k), b) /\ Run(Rest(s, k), b + k)
<1>1. Len(s) \in Nat /\ k \in 0 .. Len(s)
  BY LenProperties
<1>2. /\ Len(Prefix(s, k)) = k /\ \A i \in 1 .. k : Prefix(s, k)[i] = s[i]
      /\ Len(Rest(s, k)) = Len(s) - k
      /\ \A i \in 1 .. Len(s) - k : Rest(s, k)[i] = s[k + i]
  BY <1>1, Parts
<1>3. \A i \in 1 .. k : Prefix(s, k)[i] = b + i
  BY <1>1, <1>2 DEF Run
<1>4. \A i \in 1 .. Len(s) - k : Rest(s, k)[i] = b + k + i
  <2> SUFFICES ASSUME NEW i \in 1 .. Len(s) - k PROVE Rest(s, k)[i] = b + k + i
    OBVIOUS
  <2>1. k + i \in 1 .. Len(s)
    BY <1>1
  <2>2. s[k + i] = b + (k + i)
    BY <2>1 DEF Run
  <2> QED BY <1>1, <1>2, <2>2
<1> QED BY <1>2, <1>3, <1>4 DEF Run

LEMMA RunGoesOn ==
  ASSUME NEW s \in Seq(Byte), NEW b \in Int, Run(s, b)
  PROVE  Run(Append(s, b + Len(s) + 1), b)
BY DEF Run

LEMMA RunOfNothing ==
  ASSUME NEW b, NEW c PROVE Run(<<>>, b) /\ RunOf(<<>>, c, b)
BY DEF Run, RunOf

(* More bytes of one client, in order, on the wire.                        *)
LEMMA WireGrows ==
  ASSUME NEW w \in Seq(OnWire), NEW s \in Seq(OnWire), NEW c \in Client,
         RunOf(s, c, Seen(w, c)), Apart(w), Covered(w)
  PROVE  Apart(w \o s) /\ Covered(w \o s)
<1> DEFINE v == w \o s
           b == Seen(w, c)
<1>1. /\ v \in Seq(OnWire) /\ Len(v) = Len(w) + Len(s) /\ Len(w) \in Nat /\ Len(s) \in Nat
      /\ \A i \in 1 .. Len(w) : v[i] = w[i] /\ w[i].n \in Byte
      /\ \A i \in 1 .. Len(s) : v[Len(w) + i] = [by |-> c, n |-> b + i]
  <2>1. \A i \in 1 .. Len(w) : w[i] \in OnWire
    OBVIOUS
  <2> QED BY <2>1 DEF RunOf, OnWire
<1>2. b \in Nat /\ (b # 0 => w # <<>> /\ w[Len(w)] = [by |-> c, n |-> b])
  <2>1. CASE w # <<>> /\ w[Len(w)].by = c
    <3>1. Len(w) \in 1 .. Len(w) /\ w[Len(w)] \in OnWire
      BY <2>1
    <3> QED BY <2>1, <3>1 DEF Seen, OnWire, Byte
  <2>2. CASE ~ (w # <<>> /\ w[Len(w)].by = c)
    BY <2>2 DEF Seen
  <2> QED BY <2>1, <2>2
<1>3. w # <<>> /\ w[Len(w)].by = c => b = w[Len(w)].n
  BY DEF Seen
<1>4. ~ (w # <<>> /\ w[Len(w)].by = c) => b = 0
  BY DEF Seen
<1> HIDE DEF v, b
<1>5. Apart(v)
  <2> SUFFICES ASSUME NEW i \in 1 .. Len(v)
               PROVE v[i].n = IF i > 1 /\ v[i - 1].by = v[i].by THEN v[i - 1].n + 1 ELSE 1
    BY DEF Apart
  <2>1. CASE i <= Len(w)
    BY <2>1, <1>1 DEF Apart
  <2>2. CASE i = Len(w) + 1
    <3>1. v[i] = [by |-> c, n |-> b + 1]
      BY <1>1, <2>2
    <3>2. CASE Len(w) = 0
      BY <1>2, <1>4, <2>2, <3>1, <3>2
    <3>3. CASE Len(w) > 0
      <4>1. v[i - 1] = w[Len(w)] /\ w # <<>>
        BY <1>1, <2>2, <3>3
      <4> QED BY <1>1, <1>2, <1>3, <1>4, <2>2, <3>1, <3>3, <4>1
    <3> QED BY <1>1, <3>2, <3>3
  <2>3. CASE i > Len(w) + 1
    <3>1. /\ i - Len(w) \in 1 .. Len(s) /\ i - 1 - Len(w) \in 1 .. Len(s)
          /\ i = Len(w) + (i - Len(w)) /\ i - 1 = Len(w) + (i - 1 - Len(w))
      <4>1. i \in Nat /\ i <= Len(w) + Len(s) /\ Len(w) \in Nat /\ Len(s) \in Nat
        BY <1>1
      <4> QED BY <2>3, <4>1
    <3>2. v[i] = [by |-> c, n |-> b + (i - Len(w))]
          /\ v[i - 1] = [by |-> c, n |-> b + (i - 1 - Len(w))]
      BY <1>1, <3>1
    <3> QED BY <1>1, <1>2, <2>3, <3>2
  <2> QED BY <1>1, <2>1, <2>2, <2>3
<1>6. Covered(v)
  <2> SUFFICES ASSUME NEW i \in 1 .. Len(v), NEW m \in 1 .. v[i].n
               PROVE \E j \in 1 .. Len(v) : v[j] = [by |-> v[i].by, n |-> m]
    BY DEF Covered
  <2>1. CASE i <= Len(w)
    <3>1. PICK j \in 1 .. Len(w) : w[j] = [by |-> w[i].by, n |-> m]
      BY <1>1, <2>1 DEF Covered
    <3> QED BY <1>1, <2>1, <3>1
  <2>2. CASE i > Len(w)
    <3>1. i - Len(w) \in 1 .. Len(s) /\ i = Len(w) + (i - Len(w))
      BY <1>1, <2>2
    <3>2. v[i] = [by |-> c, n |-> b + (i - Len(w))]
      BY <1>1, <3>1
    <3>3. CASE m <= b
      <4>1. w # <<>> /\ w[Len(w)] = [by |-> c, n |-> b] /\ Len(w) \in 1 .. Len(w)
        BY <1>1, <1>2, <3>2, <3>3
      <4>2. m \in 1 .. w[Len(w)].n
        BY <1>2, <3>2, <3>3, <4>1
      <4>3. PICK j \in 1 .. Len(w) : w[j] = [by |-> w[Len(w)].by, n |-> m]
        BY <4>1, <4>2 DEF Covered
      <4> QED BY <1>1, <3>2, <4>1, <4>3
    <3>4. CASE m > b
      <4>1. m - b \in 1 .. Len(s)
        BY <1>1, <1>2, <3>1, <3>2, <3>4
      <4>2. v[Len(w) + (m - b)] = [by |-> c, n |-> b + (m - b)]
        BY <1>1, <4>1
      <4> QED BY <1>1, <1>2, <3>2, <4>1, <4>2
    <3> QED BY <1>2, <3>2, <3>3, <3>4
  <2> QED BY <1>1, <2>1, <2>2
<1> QED BY <1>5, <1>6 DEF v
-----------------------------------------------------------------------------
(* All steps that end a session: well, only when the port is flushed.      *)
Ends ==
  /\ Bridging
  /\ \E h \in {"closed", "dropped"} :
       EndSession(h) /\ (h = "closed" => tx = "flushing" /\ port /\ txq = <<>>)

LEMMA EndsIn ==
  ASSUME \/ TxWriteFails \/ TxFlushed \/ TxFlushFails \/ TxError
         \/ RxRefused \/ RxSendFails \/ RxEnds
  PROVE  Ends
BY DEF TxWriteFails, TxFlushed, TxFlushFails, TxError, RxRefused, RxSendFails, RxEnds,
       Receiving, Flushed, Ends

LEMMA TypeHolds == TypeOK /\ [Next]_vars => TypeOK'
<1> SUFFICES ASSUME TypeOK, [Next]_vars PROVE TypeOK'
  OBVIOUS
<1> USE DEF TypeOK
<1>0. /\ <<>> \in Seq(Byte) /\ <<>> \in Seq(OnWire)
      /\ Len(<<>>) <= ReadSize /\ Len(<<>>) <= PortCap /\ 0 \in 0 .. SocketCap
      /\ SocketCap \in Nat
  <2>1. Len(<<>>) = 0 /\ ReadSize \in Nat /\ PortCap \in Nat /\ SocketCap \in Nat
    BY SizesAssumption
  <2> QED BY <2>1, EmptySeq
<1>1. ASSUME ClosePort
      PROVE  /\ owner' \in Client \cup {NoClient} /\ rxq' \in Seq(Byte)
             /\ txq' \in Seq(OnWire) /\ Len(txq') <= PortCap
             /\ wire' \in Seq(OnWire) /\ said' \in Nat /\ port' \in BOOLEAN
  <2>1. PICK k \in 0 .. Len(txq) : wire' = wire \o Prefix(txq, k)
    BY <1>1 DEF ClosePort
  <2>2. Prefix(txq, k) \in Seq(OnWire)
    BY Parts
  <2>3. wire' \in Seq(OnWire)
    BY <2>1, <2>2, ConcatProperties
  <2> QED BY <1>0, <1>1, <2>3 DEF ClosePort
<1>2. ASSUME NEW c \in Client, Open(c) \/ Refuse(c) \/ Upgraded(c) PROVE TypeOK'
  BY <1>2 DEF Open, Refuse, Upgraded, clientVars, sessionVars, portVars
<1>3. ASSUME NEW c \in Client, UpgradeFails(c) PROVE TypeOK'
  BY <1>1, <1>3 DEF UpgradeFails, clientVars, sessionVars
<1>4. CASE Ends
  BY <1>0, <1>1, <1>4 DEF Ends, EndSession, clientVars
<1>5. ASSUME NEW k \in Nat, TxRecv(k) PROVE TypeOK'
  <2>1. Prefix(inq, k) \in Seq(Byte) /\ Rest(inq, k) \in Seq(Byte)
    BY <1>5, Parts DEF TxRecv
  <2> QED BY <1>5, <2>1 DEF TxRecv, Lives, clientVars, portVars
<1>6. ASSUME NEW k \in Nat, TxWrite(k) PROVE TypeOK'
  <2> DEFINE more == [i \in 1 .. k |-> [by |-> owner, n |-> body[i]]]
  <2>1. k \in 1 .. Len(body) /\ Len(body) \in Nat /\ owner \in Client
    BY <1>6 DEF TxWrite, Bridging
  <2>2. Rest(body, k) \in Seq(Byte)
    BY <2>1, Parts
  <2>3. more \in Seq(OnWire) /\ Len(more) = k
    BY <2>1 DEF OnWire
  <2> HIDE DEF more
  <2>4. txq \o more \in Seq(OnWire) /\ Len(txq \o more) = Len(txq) + k
    BY <2>3, ConcatProperties
  <2>5. txq' = txq \o more /\ Len(txq) + k <= PortCap
    BY <1>6 DEF TxWrite, more
  <2> QED BY <1>6, <2>2, <2>4, <2>5 DEF TxWrite, Unwritten, Lives, clientVars
<1>7. CASE TxSeesClose \/ TxBreaks \/ ClientCloses
  BY <1>7 DEF TxSeesClose, TxBreaks, ClientCloses, Lives, Bridging, clientVars, sessionVars,
              portVars
<1>8. CASE TxReplies \/ RxSent
  <2>1. got' = [got EXCEPT ![owner] = @ \o buf] /\ owner \in Client
    BY <1>8 DEF TxReplies, RxSent, Receiving, Bridging
  <2>2. got' \in [Client -> Seq(Byte)]
    BY <2>1, ConcatProperties
  <2>3. outq' \in 0 .. SocketCap
    BY <1>0, <1>8 DEF TxReplies, RxSent, SocketRoom
  <2>4. buf' = <<>>
    BY <1>8 DEF TxReplies, RxSent, NewBuffer
  <2>5. ws' \in {"active", "replying", "closed"}
    BY <1>8 DEF TxReplies, RxSent
  <2>6. UNCHANGED <<owner, phase, how, fed, inEnd, tx, inq, body, rxq, txq, said, wire, port>>
    BY <1>8 DEF TxReplies, RxSent, Lives, clientVars, portVars
  <2> QED BY <1>0, <2>2, <2>3, <2>4, <2>5, <2>6
<1>9. ASSUME NEW k \in Nat, RxRead(k) PROVE TypeOK'
  <2>1. k \in 1 .. Len(rxq) /\ k <= ReadSize
    BY <1>9 DEF RxRead, Fits
  <2>2. /\ Prefix(rxq, k) \in Seq(Byte) /\ Len(Prefix(rxq, k)) = k
        /\ Rest(rxq, k) \in Seq(Byte)
    BY <2>1, Parts
  <2> QED BY <1>9, <2>1, <2>2 DEF RxRead, Lives, clientVars
<1>10. CASE ClientSends
  <2>1. owner \in Client /\ fed[owner] + 1 \in Byte
    BY <1>10 DEF ClientSends, Bridging, Byte
  <2>2. Append(inq, fed[owner] + 1) \in Seq(Byte)
    BY <2>1, AppendProperties
  <2> QED BY <1>10, <2>1, <2>2 DEF ClientSends, portVars
<1>11. ASSUME NEW c \in Client, ClientVanishes(c) PROVE TypeOK'
  <2>1. PICK k \in {0, Len(inq)} : inq' = IF c = owner THEN Prefix(inq, k) ELSE inq
    BY <1>11 DEF ClientVanishes
  <2>2. Prefix(inq, k) \in Seq(Byte)
    BY Parts
  <2> QED BY <1>11, <2>1, <2>2 DEF ClientVanishes, portVars
<1>12. CASE ClientReads
  BY <1>0, <1>12 DEF ClientReads, clientVars, portVars
<1>13. CASE DeviceSays
  <2>1. said + 1 \in Byte
    BY DEF Byte
  <2>2. Append(rxq, said + 1) \in Seq(Byte)
    BY <2>1, AppendProperties
  <2> QED BY <1>13, <2>2 DEF DeviceSays, clientVars, sessionVars
<1>14. CASE DeviceTakes
  <2>1. Head(txq) \in OnWire /\ Tail(txq) \in Seq(OnWire) /\ Len(Tail(txq)) <= PortCap
    <3>1. txq \in Seq(OnWire) /\ txq # <<>> /\ Len(txq) <= PortCap /\ PortCap \in Nat
      BY <1>14, SizesAssumption DEF DeviceTakes
    <3>2. /\ Head(txq) \in OnWire /\ Tail(txq) \in Seq(OnWire)
          /\ Len(Tail(txq)) = Len(txq) - 1 /\ Len(txq) \in Nat
      BY <3>1, HeadAndTail
    <3> QED BY <3>1, <3>2
  <2>2. Append(wire, Head(txq)) \in Seq(OnWire)
    BY <2>1, AppendProperties
  <2> QED BY <1>14, <2>1, <2>2 DEF DeviceTakes, clientVars, sessionVars
<1>15. CASE Unplug
  BY <1>0, <1>15 DEF Unplug, clientVars, sessionVars
<1>16. CASE UNCHANGED vars
  BY <1>16 DEF vars, clientVars, sessionVars, portVars
<1> HIDE DEF TypeOK
<1>17. 1 .. MaxFed \subseteq Nat /\ 1 .. MaxSaid \subseteq Nat
  BY SizesAssumption
<1> QED BY <1>2, <1>3, <1>4, <1>5, <1>6, <1>7, <1>8, <1>9, <1>10, <1>11, <1>12, <1>13, <1>14,
           <1>15, <1>16, <1>17, EndsIn DEF Next, GetStep, TxStep, RxStep, Outside
-----------------------------------------------------------------------------
(* Closing the port adds to the wire the first bytes in the port, which    *)
(* are of the client that has it.                                          *)
LEMMA PortCloses ==
  ASSUME TypeOK, ClosePort
  PROVE  /\ owner' = NoClient /\ rxq' = <<>> /\ txq' = <<>> /\ said' = said /\ port' = port
         /\ \E s \in Seq(OnWire) : /\ wire' = wire \o s
                                  /\ Len(s) <= Len(txq)
                                  /\ \A i \in 1 .. Len(s) : s[i] = txq[i]
<1>1. PICK k \in 0 .. Len(txq) : wire' = wire \o Prefix(txq, k)
  BY DEF ClosePort
<1>2. txq \in Seq(OnWire) /\ Len(txq) \in Nat
  BY DEF TypeOK
<1>3. /\ Prefix(txq, k) \in Seq(OnWire) /\ Len(Prefix(txq, k)) = k
      /\ \A i \in 1 .. k : Prefix(txq, k)[i] = txq[i]
  BY <1>2, Parts
<1>4. \E s \in Seq(OnWire) : /\ wire' = wire \o s
                            /\ Len(s) <= Len(txq)
                            /\ \A i \in 1 .. Len(s) : s[i] = txq[i]
  <2> DEFINE s == Prefix(txq, k)
  <2>1. s \in Seq(OnWire) /\ Len(s) = k /\ wire' = wire \o s
    BY <1>1, <1>3
  <2>2. Len(s) <= Len(txq) /\ \A i \in 1 .. Len(s) : s[i] = txq[i]
    BY <1>2, <1>3
  <2> HIDE DEF s
  <2> QED BY <2>1, <2>2
<1> QED BY <1>4 DEF ClosePort

(* Bytes in the port come from the client that has it.                     *)
LEMMA ByOwner ==
  ASSUME TypeOK, PhaseInv, GoneInv, SentInv
  PROVE  /\ txq # <<>> => Bridging /\ port
         /\ \A i \in 1 .. Len(txq) : txq[i].by = owner
<1>1. txq # <<>> => Bridging /\ port
  BY DEF PhaseInv, GoneInv
<1>2. CASE txq = <<>>
  BY <1>1, <1>2
<1>3. CASE txq # <<>>
  <2>1. RunOf(txq, owner, Seen(wire, owner))
    BY <1>1, <1>3 DEF SentInv
  <2>2. \A i \in 1 .. Len(txq) : txq[i] = [by |-> owner, n |-> Seen(wire, owner) + i]
    BY <2>1 DEF RunOf
  <2>3. \A i \in 1 .. Len(txq) : txq[i].by = owner
    <3> TAKE i \in 1 .. Len(txq)
    <3> DEFINE e == txq[i]
               b == Seen(wire, owner) + i
    <3>1. e = [by |-> owner, n |-> b]
      BY <2>2
    <3> HIDE DEF e, b
    <3>2. e.by = owner
      BY <3>1
    <3> QED BY <3>2 DEF e
  <2> QED BY <1>1, <2>3
<1> QED BY <1>1, <1>2, <1>3

LEMMA WireType ==
  ASSUME NEW w \in Seq(OnWire)
  PROVE  \A i \in 1 .. Len(w) : w[i].by \in Client /\ w[i].n \in Byte
<1> SUFFICES ASSUME NEW i \in 1 .. Len(w) PROVE w[i].by \in Client /\ w[i].n \in Byte
  OBVIOUS
<1>1. w[i] \in OnWire
  BY LenProperties
<1> QED BY <1>1 DEF OnWire

LEMMA WireOf ==
  ASSUME NEW w \in Seq(OnWire), NEW s \in Seq(OnWire), NEW P,
         \A i \in 1 .. Len(w) : w[i].by \in P,
         \A i \in 1 .. Len(s) : s[i].by \in P
  PROVE  \A i \in 1 .. Len(w \o s) : (w \o s)[i].by \in P
OBVIOUS

LEMMA EndsPhase ==
  ASSUME TypeOK, PhaseInv, GoneInv, SentInv, Ends
  PROVE  PhaseInv' /\ CloseInv' /\ GoneInv'
<1>1. PICK h : EndSession(h)
  BY DEF Ends
<1>2. owner \in Client /\ phase[owner] = "bridging"
  BY DEF Ends, Bridging, TypeOK
<1>3. /\ phase' = [phase EXCEPT ![owner] = "over"] /\ how' = [how EXCEPT ![owner] = h]
      /\ NewSession' /\ UNCHANGED <<got, fed, inEnd>>
  BY <1>1 DEF EndSession, NewSession, clientVars
<1>4. /\ owner' = NoClient /\ rxq' = <<>> /\ txq' = <<>> /\ port' = port
      /\ \E s \in Seq(OnWire) : /\ wire' = wire \o s
                               /\ Len(s) <= Len(txq)
                               /\ \A i \in 1 .. Len(s) : s[i] = txq[i]
  BY <1>1, PortCloses DEF EndSession
<1>5. \A i \in 1 .. Len(wire') : phase'[wire'[i].by] \in {"bridging", "over"}
  <2> DEFINE P == {c \in Client : phase'[c] \in {"bridging", "over"}}
  <2>1. \A i \in 1 .. Len(wire) : wire[i].by \in P
    <3>1. \A i \in 1 .. Len(wire) : wire[i].by \in Client
      BY WireType DEF TypeOK
    <3>2. \A c \in Client : phase[c] \in {"bridging", "over"} => c \in P
      BY <1>2, <1>3 DEF TypeOK
    <3>3. \A i \in 1 .. Len(wire) : phase[wire[i].by] \in {"bridging", "over"}
      BY DEF PhaseInv
    <3> HIDE DEF P
    <3> QED BY <3>1, <3>2, <3>3
  <2>2. PICK s \in Seq(OnWire) : /\ wire' = wire \o s
                                /\ Len(s) <= Len(txq)
                                /\ \A i \in 1 .. Len(s) : s[i] = txq[i]
    BY <1>4
  <2>3. \A i \in 1 .. Len(s) : s[i].by = owner
    <3>1. Len(s) \in Nat /\ Len(txq) \in Nat
      BY DEF TypeOK
    <3> QED BY <2>2, <3>1, ByOwner
  <2>4. owner \in P
    BY <1>2, <1>3 DEF TypeOK
  <2>5. wire \in Seq(OnWire)
    BY DEF TypeOK
  <2> HIDE DEF P
  <2>6. \A i \in 1 .. Len(wire') : wire'[i].by \in P
    BY <2>1, <2>2, <2>3, <2>4, <2>5, WireOf
  <2> QED BY <2>6 DEF P
<1>6. \A c \in Client : phase'[c] \in {"upgrading", "bridging"} <=> owner' = c
  BY <1>2, <1>3, <1>4, NoClientAssumption DEF TypeOK, PhaseInv
<1>7. \A c \in Client : /\ phase'[c] \in {"idle", "upgrading"} => fed'[c] = 0 /\ got'[c] = <<>>
                       /\ how'[c] # "none" => phase'[c] = "over"
  BY <1>2, <1>3 DEF TypeOK, PhaseInv
<1>8. PhaseInv'
  BY <1>3, <1>4, <1>5, <1>6, <1>7 DEF PhaseInv
<1>9. CloseInv' /\ GoneInv'
  BY <1>3, <1>4 DEF CloseInv, GoneInv, NewSession
<1> QED BY <1>8, <1>9

LEMMA UpgradePhase ==
  ASSUME TypeOK, PhaseInv, CloseInv, GoneInv, NEW c \in Client, UpgradeFails(c)
  PROVE  PhaseInv' /\ CloseInv' /\ GoneInv' /\ wire' = wire
<1>1. owner = c /\ ~ Bridging /\ NewSession /\ txq = <<>>
  BY DEF UpgradeFails, Bridging, PhaseInv
<1>2. /\ owner' = NoClient /\ rxq' = <<>> /\ txq' = <<>> /\ port' = port
      /\ \E s \in Seq(OnWire) : wire' = wire \o s /\ Len(s) <= Len(txq)
  BY PortCloses DEF UpgradeFails
<1>3. wire' = wire
  <2>1. PICK s \in Seq(OnWire) : wire' = wire \o s /\ Len(s) <= Len(txq)
    BY <1>2
  <2>2. Len(s) \in Nat /\ Len(s) <= 0
    BY <1>1, <2>1
  <2>3. s = <<>>
    BY <2>2, EmptySeq
  <2> QED BY <2>1, <2>3, ConcatEmptySeq DEF TypeOK
<1>4. /\ phase' = [phase EXCEPT ![c] = "over"] /\ how' = [how EXCEPT ![c] = "dropped"]
      /\ NewSession' /\ UNCHANGED <<got, fed, inEnd>>
  BY <1>1 DEF UpgradeFails, NewSession, clientVars, sessionVars
<1>5. PhaseInv'
  <2>1. \A i \in 1 .. Len(wire) : wire[i].by \in Client
    BY WireType DEF TypeOK
  <2>2. \A i \in 1 .. Len(wire) : phase'[wire[i].by] \in {"bridging", "over"}
    <3>1. \A d \in Client :
            phase[d] \in {"bridging", "over"} => phase'[d] \in {"bridging", "over"}
      BY <1>4 DEF TypeOK
    <3>2. \A i \in 1 .. Len(wire) : phase[wire[i].by] \in {"bridging", "over"}
      BY DEF PhaseInv
    <3> QED BY <2>1, <3>1, <3>2
  <2>3. \A d \in Client : phase'[d] \in {"upgrading", "bridging"} <=> owner' = d
    BY <1>1, <1>2, <1>4, NoClientAssumption DEF TypeOK, PhaseInv
  <2>4. \A d \in Client : /\ phase'[d] \in {"idle", "upgrading"} => fed'[d] = 0 /\ got'[d] = <<>>
                         /\ how'[d] # "none" => phase'[d] = "over"
    BY <1>4 DEF TypeOK, PhaseInv
  <2> QED BY <1>2, <1>3, <1>4, <2>2, <2>3, <2>4 DEF PhaseInv
<1>6. CloseInv' /\ GoneInv'
  BY <1>2, <1>4 DEF CloseInv, GoneInv, NewSession
<1> QED BY <1>3, <1>5, <1>6

LEMMA BridgingPhase ==
  ASSUME TypeOK, PhaseInv, Bridging, Lives, wire' = wire,
         \A c \in Client : c # owner => fed'[c] = fed[c] /\ got'[c] = got[c]
  PROVE  PhaseInv' /\ Bridging' /\ owner # NoClient
<1>1. owner \in Client /\ phase[owner] = "bridging" /\ owner # NoClient
  BY NoClientAssumption DEF Bridging, TypeOK
<1>2. owner' = owner /\ phase' = phase /\ how' = how
  BY DEF Lives
<1>3. Bridging'
  BY <1>1, <1>2 DEF Bridging
<1>4. \A c \in Client : phase[c] \in {"idle", "upgrading"} => fed'[c] = 0 /\ got'[c] = <<>>
  BY <1>1 DEF PhaseInv
<1> QED BY <1>1, <1>2, <1>3, <1>4 DEF PhaseInv

LEMMA OpenPhase ==
  ASSUME TypeOK, PhaseInv, CloseInv, GoneInv, NEW c \in Client, Open(c)
  PROVE  PhaseInv' /\ CloseInv' /\ GoneInv'
<1>1. /\ phase[c] = "idle" /\ owner = NoClient /\ owner' = c
      /\ phase' = [phase EXCEPT ![c] = "upgrading"]
      /\ UNCHANGED <<how, got, fed, inEnd, ws, tx, inq, body, buf, outq>>
      /\ UNCHANGED <<rxq, txq, wire, port>>
  BY DEF Open, clientVars, sessionVars, portVars
<1>2. NewSession /\ txq = <<>> /\ c # NoClient
  BY <1>1, NoClientAssumption DEF PhaseInv, Bridging
<1>3. \A d \in Client : phase'[d] \in {"upgrading", "bridging"} <=> owner' = d
  BY <1>1, NoClientAssumption DEF TypeOK, PhaseInv
<1>4. \A d \in Client : /\ phase'[d] \in {"idle", "upgrading"} => fed'[d] = 0 /\ got'[d] = <<>>
                       /\ how'[d] # "none" => phase'[d] = "over"
  BY <1>1 DEF TypeOK, PhaseInv
<1>5. \A i \in 1 .. Len(wire) : phase'[wire[i].by] \in {"bridging", "over"}
  <2>1. \A d \in Client :
          phase[d] \in {"bridging", "over"} => phase'[d] \in {"bridging", "over"}
    BY <1>1 DEF TypeOK
  <2>2. \A i \in 1 .. Len(wire) : phase[wire[i].by] \in {"bridging", "over"}
    BY DEF PhaseInv
  <2>3. \A i \in 1 .. Len(wire) : wire[i].by \in Client
    BY WireType DEF TypeOK
  <2> QED BY <2>1, <2>2, <2>3
<1>6. NewSession'
  BY <1>1, <1>2 DEF NewSession
<1> QED BY <1>1, <1>2, <1>3, <1>4, <1>5, <1>6 DEF PhaseInv, CloseInv, GoneInv, NewSession

LEMMA AnswerPhase ==
  ASSUME TypeOK, PhaseInv, CloseInv, GoneInv, NEW c \in Client, Refuse(c) \/ Upgraded(c)
  PROVE  PhaseInv' /\ CloseInv' /\ GoneInv'
<1>1. /\ owner' = owner
      /\ UNCHANGED <<got, fed, inEnd, ws, tx, inq, body, buf, outq>>
      /\ UNCHANGED <<rxq, txq, wire, port>>
  BY DEF Refuse, Upgraded, clientVars, sessionVars, portVars
<1>2. \/ phase[c] = "idle" /\ phase' = [phase EXCEPT ![c] = "over"]
      \/ phase[c] = "upgrading" /\ phase' = [phase EXCEPT ![c] = "bridging"]
  BY DEF Refuse, Upgraded
<1>3. \A d \in Client : how'[d] # "none" => phase'[d] = "over"
  BY DEF Refuse, Upgraded, TypeOK, PhaseInv
<1>4. \A d \in Client : phase'[d] \in {"upgrading", "bridging"} <=> owner' = d
  BY <1>1, <1>2 DEF TypeOK, PhaseInv
<1>5. \A d \in Client : phase'[d] \in {"idle", "upgrading"} => fed'[d] = 0 /\ got'[d] = <<>>
  BY <1>1, <1>2 DEF TypeOK, PhaseInv
<1>6. \A i \in 1 .. Len(wire) : phase'[wire[i].by] \in {"bridging", "over"}
  <2>1. \A d \in Client :
          phase[d] \in {"bridging", "over"} => phase'[d] \in {"bridging", "over"}
    BY <1>2 DEF TypeOK
  <2>2. \A i \in 1 .. Len(wire) : phase[wire[i].by] \in {"bridging", "over"}
    BY DEF PhaseInv
  <2>3. \A i \in 1 .. Len(wire) : wire[i].by \in Client
    BY WireType DEF TypeOK
  <2> QED BY <2>1, <2>2, <2>3
<1>7. Bridging => Bridging'
  BY <1>1, <1>2 DEF Bridging, TypeOK
<1>8. ~ Bridging' => NewSession' /\ txq' = <<>>
  BY <1>1, <1>7 DEF PhaseInv, NewSession
<1>9. owner' = NoClient => rxq' = <<>>
  BY <1>1 DEF PhaseInv
<1>10. PhaseInv'
  BY <1>1, <1>3, <1>4, <1>5, <1>6, <1>8, <1>9 DEF PhaseInv
<1> QED BY <1>1, <1>10 DEF CloseInv, GoneInv

LEMMA TxPhase ==
  ASSUME TypeOK, PhaseInv, CloseInv, GoneInv,
         \/ \E k \in Nat : TxRecv(k) \/ TxWrite(k)
         \/ TxSeesClose \/ TxReplies \/ TxBreaks
  PROVE  PhaseInv' /\ CloseInv' /\ GoneInv'
<1>1. Bridging /\ Lives /\ wire' = wire /\ fed' = fed /\ inEnd' = inEnd /\ rxq' = rxq
      /\ port' = port
  BY DEF TxRecv, TxWrite, TxSeesClose, TxReplies, TxBreaks, Receiving, clientVars, portVars
<1>2. \A c \in Client : c # owner => got'[c] = got[c]
  BY DEF TxRecv, TxWrite, TxSeesClose, TxReplies, TxBreaks, TypeOK
<1>3. PhaseInv' /\ owner' = owner /\ owner \in Client
  BY <1>1, <1>2, BridgingPhase DEF Lives, Bridging, TypeOK
<1>4. CloseInv'
  <2>1. CASE \E k \in Nat : TxRecv(k)
    BY <2>1, <1>1, <1>3 DEF TxRecv, Receiving, CloseInv
  <2>2. CASE \E k \in Nat : TxWrite(k)
    <3>1. PICK k \in Nat : TxWrite(k)
      BY <2>2
    <3>2. body # <<>> /\ ws' = ws /\ tx' = tx
      BY <3>1 DEF TxWrite
    <3> QED BY <3>2 DEF CloseInv
  <2>3. CASE TxSeesClose
    BY <2>3, <1>1, <1>3 DEF TxSeesClose, CloseSeen, Receiving, CloseInv
  <2>4. CASE TxReplies
    BY <2>4, <1>1, <1>3 DEF TxReplies, Receiving, CloseInv
  <2>5. CASE TxBreaks
    BY <2>5, <1>1, <1>3 DEF TxBreaks, Receiving, CloseInv
  <2> QED BY <2>1, <2>2, <2>3, <2>4, <2>5
<1>5. GoneInv'
  <2>1. txq' = txq \/ port
    BY DEF TxRecv, TxWrite, TxSeesClose, TxReplies, TxBreaks, portVars
  <2> QED BY <1>1, <2>1 DEF GoneInv
<1> QED BY <1>3, <1>4, <1>5

LEMMA RxPhase ==
  ASSUME TypeOK, PhaseInv, CloseInv, GoneInv,
         \/ \E k \in Nat : RxRead(k)
         \/ RxSent
  PROVE  PhaseInv' /\ CloseInv' /\ GoneInv'
<1>1. Bridging /\ Lives /\ wire' = wire /\ fed' = fed /\ inEnd' = inEnd /\ txq' = txq
      /\ port' = port /\ tx' = tx /\ inq' = inq /\ body' = body
  BY DEF RxRead, RxSent, clientVars, portVars
<1>2. \A c \in Client : c # owner => got'[c] = got[c]
  BY DEF RxRead, RxSent, TypeOK
<1>3. PhaseInv' /\ owner' = owner /\ owner \in Client
  BY <1>1, <1>2, BridgingPhase DEF Lives, Bridging, TypeOK
<1>4. CloseInv'
  BY <1>1, <1>3 DEF RxRead, RxSent, CloseInv
<1>5. GoneInv'
  <2>1. CASE RxSent
    BY <1>1, <2>1 DEF RxSent, portVars, GoneInv
  <2>2. CASE \E k \in Nat : RxRead(k)
    <3>1. PICK k \in Nat : RxRead(k)
      BY <2>2
    <3>2. k \in 1 .. Len(rxq)
      BY <3>1 DEF RxRead, Fits
    <3>3. rxq # <<>>
      BY <3>2
    <3> QED BY <1>1, <3>3 DEF GoneInv
  <2> QED BY <2>1, <2>2
<1> QED BY <1>3, <1>4, <1>5

LEMMA ClientPhase ==
  ASSUME TypeOK, PhaseInv, CloseInv, GoneInv,
         ClientSends \/ ClientCloses \/ ClientReads
  PROVE  PhaseInv' /\ CloseInv' /\ GoneInv'
<1>1. Bridging /\ Lives /\ wire' = wire /\ got' = got /\ txq' = txq /\ rxq' = rxq
      /\ port' = port /\ tx' = tx /\ ws' = ws /\ body' = body
  BY DEF ClientSends, ClientCloses, ClientReads, Lives, clientVars, sessionVars, portVars
<1>2. \A c \in Client : c # owner => fed'[c] = fed[c]
  BY DEF ClientSends, ClientCloses, ClientReads, clientVars, TypeOK
<1>3. PhaseInv' /\ owner' = owner /\ owner \in Client
  BY <1>1, <1>2, BridgingPhase DEF Lives, Bridging, TypeOK
<1>4. CloseInv'
  <2>1. CASE ClientSends
    BY <2>1, <1>1, <1>3 DEF ClientSends, CloseInv
  <2>2. CASE ClientCloses
    BY <2>2, <1>1, <1>3 DEF ClientCloses, CloseInv, sessionVars, TypeOK
  <2>3. CASE ClientReads
    BY <2>3, <1>1, <1>3 DEF ClientReads, CloseInv, clientVars
  <2> QED BY <2>1, <2>2, <2>3
<1>5. GoneInv'
  BY <1>1 DEF GoneInv
<1> QED BY <1>3, <1>4, <1>5

LEMMA VanishPhase ==
  ASSUME TypeOK, PhaseInv, CloseInv, GoneInv, NEW c \in Client, ClientVanishes(c)
  PROVE  PhaseInv' /\ CloseInv' /\ GoneInv'
<1>1. /\ UNCHANGED <<owner, phase, how, got, fed, ws, tx, body, buf, outq>>
      /\ UNCHANGED <<rxq, txq, wire, port>>
      /\ inEnd' = [inEnd EXCEPT ![c] = "gone"]
  BY DEF ClientVanishes, portVars
<1>2. inq = <<>> => inq' = <<>>
  <2>1. PICK k \in {0, Len(inq)} : inq' = IF c = owner THEN Prefix(inq, k) ELSE inq
    BY DEF ClientVanishes
  <2>2. inq = <<>> => k = 0
    BY <2>1
  <2>3. inq \in Seq(Byte) /\ k \in 0 .. Len(inq)
    BY <2>1, LenProperties DEF TypeOK
  <2>4. Prefix(inq, k) \in Seq(Byte) /\ Len(Prefix(inq, k)) = k
    BY <2>3, Parts
  <2>5. inq = <<>> => Prefix(inq, k) = <<>>
    BY <2>2, <2>4, EmptySeq
  <2> QED BY <2>1, <2>5
<1>3. inEnd[owner] # "open" => inEnd'[owner] # "open"
  BY <1>1 DEF TypeOK
<1> QED BY <1>1, <1>2, <1>3 DEF PhaseInv, CloseInv, GoneInv, NewSession, Bridging

LEMMA DevicePhase ==
  ASSUME TypeOK, PhaseInv, CloseInv, GoneInv, SentInv, DeviceSays \/ DeviceTakes \/ Unplug
  PROVE  PhaseInv' /\ CloseInv' /\ GoneInv'
<1>1. /\ UNCHANGED <<owner, phase, how, got, fed, inEnd, ws, tx, inq, body, buf, outq>>
      /\ port
  BY DEF DeviceSays, DeviceTakes, Unplug, clientVars, sessionVars
<1>2. CloseInv'
  BY <1>1 DEF CloseInv
<1>3. CASE DeviceSays
  <2>1. txq' = txq /\ wire' = wire /\ port' = port /\ owner # NoClient
    BY <1>3 DEF DeviceSays
  <2> QED BY <1>1, <1>2, <2>1 DEF PhaseInv, GoneInv, NewSession, Bridging
<1>4. CASE DeviceTakes
  <2>1. txq # <<>> /\ rxq' = rxq /\ port' = port /\ wire' = Append(wire, Head(txq))
    BY <1>4 DEF DeviceTakes
  <2>2. Bridging /\ \A i \in 1 .. Len(txq) : txq[i].by = owner
    BY <2>1, ByOwner
  <2>3. txq \in Seq(OnWire) /\ wire \in Seq(OnWire)
    BY DEF TypeOK
  <2>4. Head(txq) \in OnWire /\ Head(txq) = txq[1] /\ 1 \in 1 .. Len(txq)
    BY <2>1, <2>3, HeadAndTail
  <2>5. Head(txq).by = owner /\ phase[owner] = "bridging"
    BY <2>2, <2>4 DEF Bridging
  <2>6. /\ Len(wire') = Len(wire) + 1 /\ Len(wire) \in Nat
        /\ \A i \in 1 .. Len(wire) : wire'[i] = wire[i]
        /\ wire'[Len(wire) + 1] = Head(txq)
    BY <2>1, <2>3, <2>4, AppendProperties
  <2>7. \A i \in 1 .. Len(wire') : phase[wire'[i].by] \in {"bridging", "over"}
    <3> SUFFICES ASSUME NEW i \in 1 .. Len(wire')
                 PROVE phase[wire'[i].by] \in {"bridging", "over"}
      OBVIOUS
    <3>1. CASE i \in 1 .. Len(wire)
      BY <2>6, <3>1 DEF PhaseInv
    <3>2. CASE i = Len(wire) + 1
      BY <2>5, <2>6, <3>2
    <3> QED BY <2>6, <3>1, <3>2
  <2>8. Bridging'
    BY <1>1, <2>2 DEF Bridging
  <2>9. GoneInv'
    BY <1>1, <2>1 DEF GoneInv
  <2> QED BY <1>1, <1>2, <2>1, <2>7, <2>8, <2>9 DEF PhaseInv
<1>5. CASE Unplug
  BY <1>1, <1>2, <1>5 DEF Unplug, PhaseInv, GoneInv, NewSession, Bridging
<1> QED BY <1>3, <1>4, <1>5
-----------------------------------------------------------------------------
LEMMA SeenIsCount == ASSUME NEW w \in Seq(OnWire), NEW c PROVE Seen(w, c) \in Nat
<1>1. CASE w # <<>> /\ w[Len(w)].by = c
  <2>1. Len(w) \in 1 .. Len(w)
    BY <1>1
  <2>2. w[Len(w)].n \in Nat
    BY <2>1, WireType DEF Byte
  <2> QED BY <1>1, <2>2 DEF Seen
<1>2. CASE ~ (w # <<>> /\ w[Len(w)].by = c)
  BY <1>2 DEF Seen
<1> QED BY <1>1, <1>2

LEMMA SentTypes ==
  ASSUME TypeOK
  PROVE  /\ Seen(wire, owner) \in Nat
         /\ txq \in Seq(OnWire) /\ Len(txq) \in Nat
         /\ body \in Seq(Byte) /\ Len(body) \in Nat
         /\ inq \in Seq(Byte) /\ Len(inq) \in Nat
         /\ wire \in Seq(OnWire) /\ Len(wire) \in Nat
BY SeenIsCount, LenProperties DEF TypeOK

(* Bytes are only added to the wire, and nobody ends well who had not.     *)
LEMMA CleanKept ==
  ASSUME CleanEndReachesDevice,
         Len(wire) \in Nat, Len(wire') \in Nat, Len(wire) <= Len(wire'),
         \A i \in 1 .. Len(wire) : wire'[i] = wire[i],
         \A c \in Client : how'[c] = "closed" => how[c] = "closed" /\ fed'[c] = fed[c]
  PROVE  CleanEndReachesDevice'
<1> SUFFICES ASSUME NEW c \in Client, how'[c] = "closed", NEW n \in 1 .. fed'[c]
             PROVE \E i \in 1 .. Len(wire') : wire'[i] = [by |-> c, n |-> n]
  BY DEF CleanEndReachesDevice
<1>1. how[c] = "closed" /\ n \in 1 .. fed[c]
  OBVIOUS
<1>2. PICK i \in 1 .. Len(wire) : wire[i] = [by |-> c, n |-> n]
  BY <1>1 DEF CleanEndReachesDevice
<1>3. i \in 1 .. Len(wire') /\ wire'[i] = [by |-> c, n |-> n]
  BY <1>2
<1> QED BY <1>3

LEMMA WireKept ==
  ASSUME TypeOK, WireInv, wire' = wire,
         \A c \in Client : how'[c] = "closed" => how[c] = "closed" /\ fed'[c] = fed[c]
  PROVE  WireInv'
<1>1. CleanEndReachesDevice'
  BY CleanKept, SentTypes DEF WireInv
<1> QED BY <1>1 DEF WireInv

LEMMA BridgingWire ==
  ASSUME TypeOK, PhaseInv, WireInv, Bridging, wire' = wire, how' = how,
         \A c \in Client : c # owner => fed'[c] = fed[c]
  PROVE  WireInv'
<1>1. how[owner] # "closed"
  BY DEF PhaseInv, Bridging, TypeOK
<1> QED BY <1>1, WireKept

LEMMA SentKept ==
  ASSUME SentInv,
         UNCHANGED <<owner, txq, body, inq, wire, port>>,
         owner # NoClient => fed'[owner] = fed[owner],
         owner # NoClient /\ (inEnd'[owner] # "gone" \/ ws' # "active") =>
           inEnd[owner] # "gone" \/ ws # "active"
  PROVE  SentInv'
BY DEF SentInv

LEMMA NobodySent ==
  ASSUME owner' = NoClient, txq' = <<>>, body' = <<>>, inq' = <<>>
  PROVE  SentInv'
<1>1. RunOf(txq', owner', Seen(wire', owner'))
  BY RunOfNothing
<1>2. \A b : Run(body', b) /\ Run(inq', b)
  BY RunOfNothing
<1> QED BY <1>1, <1>2 DEF SentInv

LEMMA GetSent ==
  ASSUME TypeOK, PhaseInv, CloseInv, GoneInv, SentInv, WireInv,
         NEW c \in Client, Open(c) \/ Refuse(c) \/ Upgraded(c) \/ UpgradeFails(c)
  PROVE  SentInv' /\ WireInv'
<1>1. wire' = wire
  BY UpgradePhase DEF Open, Refuse, Upgraded, portVars
<1>2. WireInv'
  <2>1. \A d \in Client : how'[d] = "closed" => how[d] = "closed" /\ fed'[d] = fed[d]
    BY DEF Open, Refuse, Upgraded, UpgradeFails, clientVars, TypeOK
  <2> QED BY <1>1, <2>1, WireKept
<1>3. CASE Open(c)
  <2>1. /\ owner = NoClient /\ owner' = c /\ phase[c] = "idle"
        /\ UNCHANGED <<fed, inEnd, ws, inq, body, txq, wire, port>>
    BY <1>3 DEF Open, clientVars, sessionVars, portVars
  <2>2. txq = <<>> /\ body = <<>> /\ inq = <<>> /\ fed[c] = 0
    BY <2>1 DEF PhaseInv, Bridging, NewSession
  <2>3. Seen(wire, c) = 0
    <3>1. wire # <<>> => Len(wire) \in 1 .. Len(wire)
      BY SentTypes
    <3>2. wire # <<>> => phase[wire[Len(wire)].by] # "idle"
      BY <3>1 DEF PhaseInv
    <3> QED BY <2>1, <3>2 DEF Seen
  <2>4. RunOf(txq', owner', 0) /\ Run(body', 0) /\ Run(inq', 0) /\ Len(<<>>) = 0
    BY <2>1, <2>2, RunOfNothing, Nothing
  <2>5. SentInv'
    BY <2>1, <2>2, <2>3, <2>4 DEF SentInv
  <2> QED BY <1>2, <2>5
<1>4. CASE Refuse(c) \/ Upgraded(c)
  BY <1>2, <1>4, SentKept DEF Refuse, Upgraded, clientVars, sessionVars, portVars
<1>5. CASE UpgradeFails(c)
  <2>1. NewSession' /\ owner' = NoClient /\ txq' = <<>>
    BY <1>5, UpgradePhase DEF UpgradeFails, ClosePort, PhaseInv, Bridging, NewSession, sessionVars
  <2> QED BY <1>2, <2>1, NobodySent DEF NewSession
<1> QED BY <1>3, <1>4, <1>5

LEMMA EndsSent ==
  ASSUME TypeOK, PhaseInv, CloseInv, GoneInv, SentInv, WireInv, Ends
  PROVE  SentInv' /\ WireInv'
<1>1. PICK h \in {"closed", "dropped"} :
        EndSession(h) /\ (h = "closed" => tx = "flushing" /\ port /\ txq = <<>>)
  BY DEF Ends
<1>2. owner \in Client /\ owner # NoClient
  BY NoClientAssumption DEF Ends, Bridging, TypeOK
<1>3. /\ how' = [how EXCEPT ![owner] = h] /\ fed' = fed
      /\ body' = <<>> /\ inq' = <<>> /\ ClosePort
  BY <1>1 DEF EndSession, clientVars
<1>4. owner' = NoClient /\ txq' = <<>>
  BY <1>3 DEF ClosePort
<1>5. SentInv'
  BY <1>3, <1>4, NobodySent
<1>6. PICK s \in Seq(OnWire) : /\ wire' = wire \o s
                              /\ Len(s) <= Len(txq)
                              /\ \A i \in 1 .. Len(s) : s[i] = txq[i]
  BY <1>3, PortCloses
<1>7. /\ Len(wire') = Len(wire) + Len(s) /\ Len(s) \in Nat /\ Len(wire') \in Nat
      /\ \A i \in 1 .. Len(wire) : wire'[i] = wire[i]
  BY <1>6, SentTypes, ConcatProperties
<1>8. Apart(wire') /\ Covered(wire')
  <2>1. CASE txq = <<>>
    <3>1. Len(s) = 0
      BY <1>6, <1>7, <2>1
    <3>2. wire' = wire
      BY <1>6, <3>1, SentTypes, EmptySeq, ConcatEmptySeq
    <3> QED BY <3>2 DEF WireInv
  <2>2. CASE txq # <<>>
    <3>1. RunOf(txq, owner, Seen(wire, owner))
      BY <2>2, ByOwner DEF SentInv
    <3>2. RunOf(s, owner, Seen(wire, owner))
      BY <1>6, <1>7, <3>1, SentTypes DEF RunOf
    <3> QED BY <1>2, <1>6, <3>2, SentTypes, WireGrows DEF WireInv
  <2> QED BY <2>1, <2>2
<1>9. CASE h = "dropped"
  <2>1. \A c \in Client : how'[c] = "closed" => how[c] = "closed" /\ fed'[c] = fed[c]
    BY <1>2, <1>3, <1>9 DEF TypeOK
  <2>2. CleanEndReachesDevice'
    BY <1>7, <2>1, SentTypes, CleanKept DEF WireInv
  <2> QED BY <1>5, <1>8, <2>2 DEF WireInv
<1>10. CASE h = "closed"
  <2>1. tx = "flushing" /\ port /\ txq = <<>>
    BY <1>1, <1>10
  <2>2. ws # "active" /\ inq = <<>> /\ body = <<>>
    BY <2>1 DEF CloseInv
  <2>3. fed[owner] = Seen(wire, owner) + 0 + 0 + 0
    BY <1>2, <2>1, <2>2, Nothing DEF SentInv
  <2>4. fed[owner] = Seen(wire, owner)
    BY <2>3, SentTypes
  <2>5. \A n \in 1 .. fed[owner] :
          \E i \in 1 .. Len(wire) : wire[i] = [by |-> owner, n |-> n]
    <3> SUFFICES ASSUME NEW n \in 1 .. fed[owner]
                 PROVE \E i \in 1 .. Len(wire) : wire[i] = [by |-> owner, n |-> n]
      OBVIOUS
    <3>1. wire # <<>> /\ wire[Len(wire)].by = owner /\ n \in 1 .. wire[Len(wire)].n
      BY <2>4 DEF Seen
    <3>2. Len(wire) \in 1 .. Len(wire)
      BY <3>1, SentTypes
    <3>3. \E j \in 1 .. Len(wire) : wire[j] = [by |-> wire[Len(wire)].by, n |-> n]
      BY <3>1, <3>2 DEF WireInv, Covered
    <3> QED BY <3>1, <3>3
  <2>6. CleanEndReachesDevice'
    <3> SUFFICES ASSUME NEW c \in Client, how'[c] = "closed", NEW n \in 1 .. fed'[c]
                 PROVE \E i \in 1 .. Len(wire') : wire'[i] = [by |-> c, n |-> n]
      BY DEF CleanEndReachesDevice
    <3>1. \E i \in 1 .. Len(wire) : wire[i] = [by |-> c, n |-> n]
      <4>1. CASE c = owner
        BY <1>3, <2>5, <4>1
      <4>2. CASE c # owner
        <5>1. how[c] = "closed" /\ n \in 1 .. fed[c]
          BY <1>3, <4>2 DEF TypeOK
        <5> QED BY <5>1 DEF WireInv, CleanEndReachesDevice
      <4> QED BY <4>1, <4>2
    <3>2. PICK i \in 1 .. Len(wire) : wire[i] = [by |-> c, n |-> n]
      BY <3>1
    <3>3. i \in 1 .. Len(wire') /\ wire'[i] = wire[i]
      BY <1>7, <3>2, SentTypes
    <3> QED BY <3>2, <3>3
  <2> QED BY <1>5, <1>8, <2>6 DEF WireInv
<1> QED BY <1>1, <1>9, <1>10

LEMMA RecvSent ==
  ASSUME TypeOK, PhaseInv, CloseInv, SentInv, WireInv, NEW k \in Nat, TxRecv(k)
  PROVE  SentInv' /\ WireInv'
<1>1. /\ Bridging /\ Lives /\ body = <<>> /\ ws = "active"
      /\ k \in 1 .. Len(inq) /\ body' = Prefix(inq, k) /\ inq' = Rest(inq, k)
      /\ UNCHANGED <<fed, inEnd, ws, txq, wire, port>>
  BY DEF TxRecv, Receiving, clientVars, portVars
<1>2. WireInv'
  BY <1>1, BridgingWire DEF Lives
<1>3. ASSUME port PROVE SentInv'
  <2> DEFINE b == Seen(wire, owner) + Len(txq)
  <2>1. b \in Nat /\ Len(inq) \in Nat /\ inq \in Seq(Byte) /\ Len(body) = 0
    BY <1>1, SentTypes, Nothing
  <2>2. Run(inq, b + 0)
    BY <1>3, <2>1 DEF SentInv
  <2>3. b + 0 = b
    BY <2>1
  <2>4. Run(body', b) /\ Run(inq', b + k)
    BY <1>1, <2>1, <2>2, <2>3, RunParts
  <2>5. k \in 0 .. Len(inq) /\ Len(body') = k /\ Len(inq') = Len(inq) - k
    <3>1. k \in 0 .. Len(inq)
      BY <1>1, <2>1
    <3>2. Len(Prefix(inq, k)) = k /\ Len(Rest(inq, k)) = Len(inq) - k
      BY <2>1, <3>1, Parts
    <3> QED BY <1>1, <3>1, <3>2
  <2>6. owner # NoClient /\ (inEnd[owner] # "gone" \/ ws # "active") =>
          fed[owner] = b + 0 + Len(inq)
    BY <1>3, <2>1 DEF SentInv
  <2> HIDE DEF b
  <2>7. b + 0 + Len(inq) = b + Len(body') + Len(inq')
    BY <2>1, <2>5
  <2>8. RunOf(txq, owner, Seen(wire, owner))
    BY <1>3 DEF SentInv
  <2> QED BY <1>1, <2>4, <2>5, <2>6, <2>7, <2>8 DEF SentInv, Lives, b
<1>4. ~ port => SentInv'
  BY <1>1 DEF SentInv
<1> QED BY <1>2, <1>3, <1>4

LEMMA WriteSent ==
  ASSUME TypeOK, PhaseInv, CloseInv, SentInv, WireInv, NEW k \in Nat, TxWrite(k)
  PROVE  SentInv' /\ WireInv'
<1> DEFINE more == [i \in 1 .. k |-> [by |-> owner, n |-> body[i]]]
           seen == Seen(wire, owner)
<1>1. /\ Bridging /\ Lives /\ port
      /\ k \in 1 .. Len(body) /\ body' = Rest(body, k) /\ txq' = txq \o more
      /\ UNCHANGED <<fed, inEnd, ws, inq, wire, port>>
  BY DEF TxWrite, Unwritten, clientVars
<1>2. WireInv'
  BY <1>1, BridgingWire DEF Lives
<1>3. /\ seen \in Nat /\ Len(txq) \in Nat /\ Len(body) \in Nat /\ Len(inq) \in Nat
      /\ body \in Seq(Byte) /\ txq \in Seq(OnWire)
  BY SentTypes
<1>4. /\ RunOf(txq, owner, seen) /\ Run(body, seen + Len(txq))
      /\ Run(inq, seen + Len(txq) + Len(body))
      /\ owner # NoClient /\ (inEnd[owner] # "gone" \/ ws # "active") =>
           fed[owner] = seen + Len(txq) + Len(body) + Len(inq)
  BY <1>1 DEF SentInv
<1>5. owner \in Client /\ \A i \in 1 .. k : body[i] = seen + Len(txq) + i /\ body[i] \in Byte
  BY <1>1, <1>3, <1>4 DEF Run, Bridging, TypeOK
<1>6. more \in Seq(OnWire) /\ Len(more) = k
      /\ \A i \in 1 .. k : more[i] = [by |-> owner, n |-> seen + Len(txq) + i]
  <2>1. \A i \in 1 .. k : [by |-> owner, n |-> body[i]] \in OnWire
    BY <1>5 DEF OnWire
  <2>2. more \in [1 .. k -> OnWire]
    BY <2>1
  <2>3. more \in Seq(OnWire) /\ Len(more) = k
    BY <2>2
  <2> QED BY <1>5, <2>3
<1> HIDE DEF more, seen
<1>7. /\ Len(txq') = Len(txq) + k
      /\ \A i \in 1 .. Len(txq) : txq'[i] = txq[i]
      /\ \A i \in 1 .. k : txq'[Len(txq) + i] = more[i]
  <2>1. txq \in Seq(OnWire) /\ more \in Seq(OnWire)
    BY <1>3, <1>6
  <2>2. /\ Len(txq \o more) = Len(txq) + Len(more)
        /\ \A i \in 1 .. Len(txq) : (txq \o more)[i] = txq[i]
        /\ \A i \in 1 .. Len(more) : (txq \o more)[Len(txq) + i] = more[i]
    BY <2>1, TwoParts
  <2> QED BY <1>1, <1>6, <2>2
<1>8. RunOf(txq', owner, seen)
  <2> SUFFICES ASSUME NEW i \in 1 .. Len(txq')
               PROVE txq'[i] = [by |-> owner, n |-> seen + i]
    BY DEF RunOf
  <2>1. CASE i \in 1 .. Len(txq)
    BY <1>4, <1>7, <2>1 DEF RunOf
  <2>2. CASE i \notin 1 .. Len(txq)
    <3>1. i - Len(txq) \in 1 .. k /\ i = Len(txq) + (i - Len(txq))
      BY <1>3, <1>7, <2>2
    <3>2. txq'[i] = [by |-> owner, n |-> seen + Len(txq) + (i - Len(txq))]
      BY <1>6, <1>7, <3>1
    <3>3. seen + Len(txq) + (i - Len(txq)) = seen + i
      BY <1>3, <1>7
    <3> QED BY <3>2, <3>3
  <2> QED BY <2>1, <2>2
<1>9. Run(body', seen + Len(txq) + k)
  BY <1>1, <1>3, <1>4, RunParts
<1>10. seen + Len(txq) + k = seen + Len(txq')
  BY <1>3, <1>7
<1>11. Len(body') = Len(body) - k
  <2>1. k \in 0 .. Len(body)
    BY <1>1, <1>3
  <2>2. Len(Rest(body, k)) = Len(body) - k
    BY <1>3, <2>1, Parts
  <2> QED BY <1>1, <2>2
<1>12. seen + Len(txq) + Len(body) = seen + Len(txq') + Len(body')
  BY <1>3, <1>7, <1>11
<1>13. SentInv'
  BY <1>1, <1>4, <1>8, <1>9, <1>10, <1>12 DEF SentInv, Lives, seen
<1> QED BY <1>2, <1>13

(* Nothing a client sent moves.                                            *)
LEMMA StillSent ==
  ASSUME TypeOK, PhaseInv, CloseInv, SentInv, WireInv,
         \/ TxSeesClose \/ TxReplies \/ TxBreaks \/ RxSent
         \/ \E k \in Nat : RxRead(k)
         \/ ClientCloses \/ ClientReads \/ DeviceSays
  PROVE  SentInv' /\ WireInv'
<1>1. UNCHANGED <<owner, how, txq, body, inq, wire, port, fed>>
  BY DEF TxSeesClose, TxReplies, TxBreaks, RxSent, RxRead, ClientCloses, ClientReads,
         DeviceSays, Lives, clientVars, sessionVars, portVars
<1>2. WireInv'
  BY <1>1, WireKept
<1>3. owner # NoClient /\ (inEnd'[owner] # "gone" \/ ws' # "active") =>
        inEnd[owner] # "gone" \/ ws # "active"
  <2>1. CASE TxSeesClose
    BY <2>1 DEF TxSeesClose, CloseSeen
  <2>2. CASE TxReplies \/ TxBreaks \/ RxSent \/ (\E k \in Nat : RxRead(k)) \/ ClientReads
             \/ DeviceSays
    BY <2>2 DEF TxReplies, TxBreaks, RxSent, RxRead, ClientReads, DeviceSays, clientVars,
                sessionVars
  <2>3. CASE ClientCloses
    BY <2>3 DEF ClientCloses
  <2> QED BY <2>1, <2>2, <2>3
<1> QED BY <1>1, <1>2, <1>3, SentKept

LEMMA FeedSent ==
  ASSUME TypeOK, PhaseInv, CloseInv, SentInv, WireInv, ClientSends
  PROVE  SentInv' /\ WireInv'
<1>1. /\ Bridging /\ inEnd[owner] = "open" /\ fed' = [fed EXCEPT ![owner] = @ + 1]
      /\ inq' = Append(inq, fed[owner] + 1)
      /\ UNCHANGED <<owner, how, inEnd, ws, body, txq, wire, port>>
  BY DEF ClientSends, portVars
<1>2. owner \in Client /\ owner # NoClient /\ fed'[owner] = fed[owner] + 1
      /\ \A c \in Client : c # owner => fed'[c] = fed[c]
  BY <1>1, NoClientAssumption DEF Bridging, TypeOK
<1>3. WireInv'
  BY <1>1, <1>2, BridgingWire
<1>4. ASSUME port PROVE SentInv'
  <2> DEFINE b == Seen(wire, owner) + Len(txq) + Len(body)
  <2>1. b \in Nat /\ Len(inq) \in Nat /\ inq \in Seq(Byte)
    BY SentTypes
  <2>2. Run(inq, b) /\ fed[owner] = b + Len(inq)
    BY <1>1, <1>2, <1>4 DEF SentInv
  <2>3. RunOf(txq, owner, Seen(wire, owner)) /\ Run(body, Seen(wire, owner) + Len(txq))
    BY <1>4 DEF SentInv
  <2> HIDE DEF b
  <2>4. inq' = Append(inq, b + Len(inq) + 1)
    BY <1>1, <2>2
  <2>5. Run(inq', b) /\ Len(inq') = Len(inq) + 1
    <3>1. Run(inq', b)
      BY <2>1, <2>2, <2>4, RunGoesOn
    <3> QED BY <2>1, <2>4, <3>1
  <2>6. fed'[owner] = b + Len(inq')
    BY <1>2, <2>1, <2>2, <2>5
  <2> QED BY <1>1, <2>3, <2>5, <2>6 DEF SentInv, b
<1>5. ~ port => SentInv'
  BY <1>1 DEF SentInv
<1> QED BY <1>3, <1>4, <1>5

LEMMA VanishSent ==
  ASSUME TypeOK, PhaseInv, CloseInv, SentInv, WireInv, NEW c \in Client, ClientVanishes(c)
  PROVE  SentInv' /\ WireInv'
<1>1. /\ UNCHANGED <<owner, how, fed, ws, body, txq, wire, port>>
      /\ inEnd' = [inEnd EXCEPT ![c] = "gone"]
  BY DEF ClientVanishes, portVars
<1>2. WireInv'
  BY <1>1, WireKept
<1>3. PICK k \in {0, Len(inq)} : inq' = IF c = owner THEN Prefix(inq, k) ELSE inq
  BY DEF ClientVanishes
<1>4. CASE c # owner
  <2>1. inq' = inq /\ (owner # NoClient => inEnd'[owner] = inEnd[owner])
    BY <1>1, <1>3, <1>4 DEF TypeOK
  <2> QED BY <1>1, <1>2, <2>1, SentKept
<1>5. CASE c = owner
  <2>1. inq \in Seq(Byte) /\ Len(inq) \in Nat /\ k \in 0 .. Len(inq)
    BY <1>3, SentTypes
  <2>2. Prefix(inq, k) \in Seq(Byte) /\ Len(Prefix(inq, k)) = k
    BY <2>1, Parts
  <2>3. CASE ws # "active" \/ inq = <<>>
    <3>1. inq = <<>> /\ inq' = <<>>
      <4>1. inq = <<>>
        BY <2>3 DEF CloseInv
      <4>2. k = 0
        BY <1>3, <4>1, Nothing
      <4> QED BY <1>3, <1>5, <2>2, <4>1, <4>2, EmptySeq
    <3>2. ws # "active" => inEnd[owner] # "gone" \/ ws # "active"
      OBVIOUS
    <3>3. inEnd'[owner] = "gone" \/ owner = NoClient
      BY <1>1, <1>5 DEF TypeOK
    <3> QED BY <1>1, <1>2, <3>1, <3>3, SentKept
  <2>4. CASE ws = "active" /\ inq # <<>>
    <3>1. inEnd'[owner] = "gone" /\ ws' = "active"
      BY <1>1, <1>5, <2>4 DEF TypeOK
    <3>2. ASSUME port PROVE SentInv'
      <4> DEFINE b == Seen(wire, owner) + Len(txq) + Len(body)
      <4>1. b \in Nat /\ Run(inq, b)
        BY <3>2, SentTypes DEF SentInv
      <4>2. /\ RunOf(txq, owner, Seen(wire, owner))
            /\ Run(body, Seen(wire, owner) + Len(txq))
        BY <3>2 DEF SentInv
      <4> HIDE DEF b
      <4>3. Run(inq', b)
        <5>1. CASE k = 0
          <6>1. inq' = <<>>
            BY <1>3, <1>5, <2>2, <5>1, EmptySeq
          <6> QED BY <6>1, RunOfNothing
        <5>2. CASE k # 0
          <6>1. k \in 1 .. Len(inq) /\ inq' = Prefix(inq, k)
            BY <1>3, <1>5, <2>1, <5>2
          <6> QED BY <2>1, <4>1, <6>1, RunParts
        <5> QED BY <5>1, <5>2
      <4> QED BY <1>1, <3>1, <4>2, <4>3 DEF SentInv, b
    <3>3. ~ port => SentInv'
      BY <1>1 DEF SentInv
    <3> QED BY <1>2, <3>2, <3>3
  <2> QED BY <2>3, <2>4
<1> QED BY <1>4, <1>5

LEMMA TakeSent ==
  ASSUME TypeOK, PhaseInv, CloseInv, GoneInv, SentInv, WireInv, DeviceTakes
  PROVE  SentInv' /\ WireInv'
<1> DEFINE seen == Seen(wire, owner)
           x == Head(txq)
<1>1. /\ port /\ txq # <<>> /\ wire' = Append(wire, x) /\ txq' = Tail(txq)
      /\ UNCHANGED <<owner, how, fed, inEnd, ws, inq, body, port>>
  BY DEF DeviceTakes, clientVars, sessionVars
<1>2. owner \in Client
  BY <1>1, ByOwner DEF Bridging, TypeOK
<1>3. /\ seen \in Nat /\ txq \in Seq(OnWire) /\ wire \in Seq(OnWire) /\ Len(wire) \in Nat
      /\ Len(body) \in Nat /\ Len(inq) \in Nat
  BY SentTypes
<1>4. /\ RunOf(txq, owner, seen) /\ Run(body, seen + Len(txq))
      /\ Run(inq, seen + Len(txq) + Len(body))
      /\ owner # NoClient /\ (inEnd[owner] # "gone" \/ ws # "active") =>
           fed[owner] = seen + Len(txq) + Len(body) + Len(inq)
  BY <1>1 DEF SentInv
<1>5. /\ Len(txq) \in Nat \ {0} /\ x = txq[1] /\ x \in OnWire
      /\ Tail(txq) \in Seq(OnWire) /\ Len(Tail(txq)) = Len(txq) - 1
      /\ \A i \in 1 .. Len(txq) - 1 : Tail(txq)[i] = txq[i + 1]
  BY <1>1, <1>3, HeadAndTail
<1>6. x = [by |-> owner, n |-> seen + 1]
  BY <1>4, <1>5 DEF RunOf
<1> HIDE DEF seen, x
<1>7. /\ Len(wire') = Len(wire) + 1 /\ wire' # <<>>
      /\ \A i \in 1 .. Len(wire) : wire'[i] = wire[i]
      /\ wire'[Len(wire) + 1] = x
  BY <1>1, <1>3, <1>5, AppendProperties
<1>8. Seen(wire', owner) = seen + 1
  BY <1>3, <1>6, <1>7 DEF Seen
<1>9. RunOf(txq', owner, seen + 1)
  <2> SUFFICES ASSUME NEW i \in 1 .. Len(txq')
               PROVE txq'[i] = [by |-> owner, n |-> seen + 1 + i]
    BY DEF RunOf
  <2>1. i + 1 \in 1 .. Len(txq) /\ txq'[i] = txq[i + 1] /\ seen + 1 + i = seen + (i + 1)
    BY <1>1, <1>3, <1>5
  <2>2. txq[i + 1] = [by |-> owner, n |-> seen + (i + 1)]
    BY <1>4, <2>1 DEF RunOf
  <2> QED BY <2>1, <2>2
<1>10. seen + Len(txq) = seen + 1 + Len(txq')
  BY <1>1, <1>3, <1>5
<1>11. SentInv'
  BY <1>1, <1>4, <1>8, <1>9, <1>10 DEF SentInv
<1>12. Apart(wire') /\ Covered(wire')
  <2>1. wire' = wire \o <<x>>
    BY <1>1, <1>3, <1>5, AppendIsConcat
  <2>2. <<x>> \in Seq(OnWire) /\ Len(<<x>>) = 1 /\ <<x>>[1] = x
    BY <1>5
  <2>3. RunOf(<<x>>, owner, Seen(wire, owner))
    BY <1>6, <2>2 DEF RunOf, seen
  <2> QED BY <1>2, <1>3, <2>1, <2>2, <2>3, WireGrows DEF WireInv
<1>13. CleanEndReachesDevice'
  <2>1. \A c \in Client : how'[c] = "closed" => how[c] = "closed" /\ fed'[c] = fed[c]
    BY <1>1
  <2>2. Len(wire') \in Nat /\ Len(wire) <= Len(wire')
    BY <1>3, <1>7
  <2> QED BY <1>3, <1>7, <2>1, <2>2, CleanKept DEF WireInv
<1> QED BY <1>11, <1>12, <1>13 DEF WireInv

LEMMA UnplugSent ==
  ASSUME TypeOK, WireInv, Unplug
  PROVE  SentInv' /\ WireInv'
BY WireKept DEF Unplug, SentInv, clientVars
-----------------------------------------------------------------------------
LEMMA HearTypes ==
  ASSUME TypeOK
  PROVE  /\ said \in Nat
         /\ rxq \in Seq(Byte) /\ Len(rxq) \in Nat
         /\ buf \in Seq(Byte) /\ Len(buf) \in Nat /\ \A i \in 1 .. Len(buf) : buf[i] \in Nat
         /\ \A c \in Client : /\ got[c] \in Seq(Byte) /\ Len(got[c]) \in Nat
                             /\ \A i \in 1 .. Len(got[c]) : got[c][i] \in Nat
<1>1. \A s \in Seq(Byte) : Len(s) \in Nat /\ \A i \in 1 .. Len(s) : s[i] \in Nat
  BY LenProperties DEF Byte
<1> QED BY <1>1 DEF TypeOK

LEMMA HearKept ==
  ASSUME HearInv, HeardOnce, UNCHANGED <<owner, said, rxq, buf, got, port>>
  PROVE  HearInv' /\ HeardOnce'
BY DEF HearInv, HeardOnce

(* With no byte of the device on the way.                                  *)
LEMMA HearNothing ==
  ASSUME TypeOK, HearInv, HeardOnce, rxq' = <<>>, buf' = <<>>,
         UNCHANGED <<said, got>>,
         owner' # NoClient => got[owner'] = <<>>
  PROVE  HearInv' /\ HeardOnce'
<1>1. HeardOnce'
  BY DEF HeardOnce
<1>2. \A b : Run(rxq', b) /\ Run(buf', b)
  BY RunOfNothing
<1>3. Len(rxq') = 0 /\ said' - Len(rxq') = said
  BY Nothing, HearTypes
<1>4. \A c \in Client : \A i \in 1 .. Len(got'[c]) : got'[c][i] <= said
  BY DEF HearInv
<1> QED BY <1>1, <1>2, <1>3, <1>4 DEF HearInv

LEMMA ReadHear ==
  ASSUME TypeOK, GoneInv, HearInv, HeardOnce, NEW k \in Nat, RxRead(k)
  PROVE  HearInv' /\ HeardOnce'
<1> DEFINE b == said - Len(rxq)
<1>1. /\ buf = <<>> /\ buf' = Prefix(rxq, k) /\ rxq' = Rest(rxq, k) /\ k \in 1 .. Len(rxq)
      /\ UNCHANGED <<owner, said, got, port>>
  BY DEF RxRead, Fits, Lives
<1>2. port /\ rxq # <<>>
  BY <1>1 DEF GoneInv
<1>3. rxq \in Seq(Byte) /\ Len(rxq) \in Nat /\ k \in 0 .. Len(rxq) /\ b \in Int /\ Run(rxq, b)
      /\ said \in Nat
  BY <1>1, HearTypes DEF HearInv
<1>4. Len(buf') = k /\ Len(rxq') = Len(rxq) - k /\ buf' # <<>>
  <2>1. Len(Prefix(rxq, k)) = k /\ Len(Rest(rxq, k)) = Len(rxq) - k
    BY <1>3, Parts
  <2> QED BY <1>1, <2>1, Nothing
<1>5. Run(buf', b) /\ Run(rxq', b + k)
  BY <1>1, <1>3, RunParts
<1>6. buf'[1] = b + 1 /\ buf'[Len(buf')] = b + k
  BY <1>1, <1>4, <1>5 DEF Run
<1>7. b + k = said' - Len(rxq') /\ b = buf'[1] - 1
  BY <1>1, <1>3, <1>4, <1>6
<1>8. b + k <= said'
  BY <1>1, <1>3
<1>9. \A c \in Client : \A i \in 1 .. Len(got[c]) :
        got[c][i] \in Nat /\ got[c][i] <= said /\ (c # owner => got[c][i] <= b)
  BY <1>2, HearTypes DEF HearInv
<1>10. owner # NoClient /\ got[owner] # <<>> => got[owner][Len(got[owner])] = b
  BY <1>1, <1>2 DEF HearInv
<1> HIDE DEF b
<1>11. \A c \in Client : \A i \in 1 .. Len(got'[c]) :
         /\ got'[c][i] <= said'
         /\ c # owner' => got'[c][i] < buf'[1] /\ got'[c][i] <= said' - Len(rxq')
  <2> SUFFICES ASSUME NEW c \in Client, NEW i \in 1 .. Len(got'[c])
               PROVE /\ got'[c][i] <= said'
                     /\ c # owner' => got'[c][i] < buf'[1] /\ got'[c][i] <= said' - Len(rxq')
    OBVIOUS
  <2>1. got'[c][i] = got[c][i] /\ got[c][i] \in Nat /\ got[c][i] <= said
        /\ (c # owner => got[c][i] <= b)
    BY <1>1, <1>9
  <2>2. b < buf'[1] /\ b <= said' - Len(rxq') /\ b \in Int
    BY <1>1, <1>3, <1>6, <1>7
  <2>3. buf'[1] \in Int /\ said' - Len(rxq') \in Int
    BY <1>3, <1>6, <1>7
  <2> QED BY <1>1, <2>1, <2>2, <2>3
<1>12. HearInv'
  BY <1>1, <1>4, <1>5, <1>6, <1>7, <1>8, <1>10, <1>11 DEF HearInv
<1>13. HeardOnce'
  BY <1>1 DEF HeardOnce
<1> QED BY <1>12, <1>13

(* What was read goes to the client, all of it.                            *)
LEMMA SendHear ==
  ASSUME TypeOK, HearInv, HeardOnce, owner \in Client, NoClient \notin Client,
         got' = [got EXCEPT ![owner] = @ \o buf], buf' = <<>>,
         UNCHANGED <<owner, said, rxq, port>>
  PROVE  HearInv' /\ HeardOnce'
<1>1. /\ got[owner] \in Seq(Byte) /\ buf \in Seq(Byte) /\ got'[owner] = got[owner] \o buf
      /\ \A c \in Client : c # owner => got'[c] = got[c]
  BY HearTypes DEF TypeOK
<1>2. CASE buf = <<>>
  <2>1. got[owner] \o buf = got[owner]
    BY <1>1, <1>2, ConcatEmptySeq
  <2>2. got' = got
    BY <2>1 DEF TypeOK
  <2> QED BY <1>2, <2>2, HearKept
<1>3. CASE buf # <<>>
  <2> DEFINE g == got[owner]
             h == got'[owner]
             n == Len(g)
             m == Len(buf)
  <2>1. /\ Len(h) = n + m /\ n \in Nat /\ m \in Nat /\ m # 0 /\ h # <<>>
        /\ \A i \in 1 .. n : h[i] = g[i]
        /\ \A i \in 1 .. m : h[n + i] = buf[i]
    <3>1. /\ Len(h) = n + m
          /\ \A i \in 1 .. n : h[i] = g[i]
          /\ \A i \in 1 .. m : h[n + i] = buf[i]
      BY <1>1, TwoParts
    <3>2. n \in Nat /\ m \in Nat /\ m # 0
      BY <1>1, <1>3, LenProperties, EmptySeq
    <3> QED BY <3>1, <3>2, Nothing
  <2>2. /\ \A i \in 1 .. m : buf[i] = buf[1] - 1 + i
        /\ buf[m] <= said /\ (port => buf[m] = said - Len(rxq))
        /\ g # <<>> => buf[1] = g[n] + 1
    BY <1>3, NoClientAssumption DEF HearInv, Run
  <2>3. /\ \A i \in 1 .. n : g[i] \in Nat /\ g[i] <= said
        /\ \A i \in 1 .. m : buf[i] \in Nat
        /\ said \in Nat /\ Len(rxq) \in Nat /\ buf[1] \in Nat
    BY <2>1, HearTypes DEF HearInv
  <2>4. \A i \in 1 .. m : buf[1] <= buf[i] /\ buf[i] <= said
    <3> SUFFICES ASSUME NEW i \in 1 .. m PROVE buf[1] <= buf[i] /\ buf[i] <= said
      OBVIOUS
    <3>1. buf[i] = buf[1] - 1 + i /\ buf[m] = buf[1] - 1 + m /\ i <= m /\ 1 <= i
      BY <2>1, <2>2
    <3>2. buf[1] \in Nat /\ buf[m] <= said /\ said \in Nat /\ m \in Nat /\ i \in Nat
      BY <2>1, <2>2, <2>3
    <3> HIDE DEF m
    <3>3. buf[1] <= buf[1] - 1 + i /\ buf[1] - 1 + i <= buf[1] - 1 + m
      BY <3>1, <3>2
    <3>4. buf[1] - 1 + m <= said /\ buf[1] - 1 + m \in Int /\ buf[1] - 1 + i \in Int
      BY <3>1, <3>2
    <3>5. buf[1] - 1 + i <= said
      BY <3>2, <3>3, <3>4
    <3> QED BY <3>1, <3>3, <3>5
  <2>5. \A i \in 1 .. n : i > 1 => g[i] = g[i - 1] + 1
    BY DEF HeardOnce
  <2>6. \A c \in Client : c # owner =>
          \A i \in 1 .. Len(got[c]) :
            /\ got[c][i] \in Nat /\ got[c][i] <= said /\ got[c][i] < buf[1]
            /\ port => got[c][i] <= said - Len(rxq)
    BY <1>3, HearTypes DEF HearInv
  <2>7. \A c, d \in Client : c # d => \A i \in 1 .. Len(got[c]) : \A j \in 1 .. Len(got[d]) :
                                       got[c][i] # got[d][j]
    BY DEF HeardOnce
  <2>8. n # 0 => g # <<>>
    BY Nothing
  <2> HIDE DEF g, h, n, m
  <2>9. \A i \in 1 .. Len(h) : \/ i \in 1 .. n /\ h[i] = g[i]
                               \/ i > n /\ i - n \in 1 .. m /\ h[i] = buf[i - n]
    <3> SUFFICES ASSUME NEW i \in 1 .. Len(h), i \notin 1 .. n
                 PROVE i > n /\ i - n \in 1 .. m /\ h[i] = buf[i - n]
      BY <2>1
    <3>1. i > n /\ i - n \in 1 .. m /\ i = n + (i - n)
      BY <2>1
    <3> QED BY <2>1, <3>1
  <2>10. \A i \in 1 .. Len(h) : h[i] \in Nat /\ h[i] <= said
    BY <2>3, <2>4, <2>9
  <2>11. \A i \in 1 .. Len(h) : i > 1 => h[i] = h[i - 1] + 1
    <3> SUFFICES ASSUME NEW i \in 1 .. Len(h), i > 1 PROVE h[i] = h[i - 1] + 1
      OBVIOUS
    <3>1. CASE i <= n
      BY <2>1, <2>5, <3>1
    <3>2. CASE i = n + 1
      <4>1. h[i] = buf[1] /\ h[i - 1] = g[n] /\ g # <<>>
        BY <2>1, <2>8, <3>2
      <4> QED BY <2>2, <4>1
    <3>3. CASE i > n + 1
      <4>1. /\ i - n \in 1 .. m /\ i = n + (i - n)
            /\ i - n - 1 \in 1 .. m /\ i - 1 = n + (i - n - 1)
        BY <2>1, <3>3
      <4>2. h[i] = buf[i - n] /\ h[i - 1] = buf[i - n - 1]
        BY <2>1, <4>1
      <4>3. buf[i - n] = buf[1] - 1 + (i - n) /\ buf[i - n - 1] = buf[1] - 1 + (i - n - 1)
        BY <2>2, <4>1
      <4> QED BY <2>1, <2>3, <4>2, <4>3
    <3> QED BY <2>1, <3>1, <3>2, <3>3
  <2>12. \A c \in Client : c # owner =>
           \A i \in 1 .. Len(h) : \A j \in 1 .. Len(got[c]) : h[i] # got[c][j]
    <3> SUFFICES ASSUME NEW c \in Client, c # owner,
                        NEW i \in 1 .. Len(h), NEW j \in 1 .. Len(got[c])
                 PROVE h[i] # got[c][j]
      OBVIOUS
    <3>1. CASE i \in 1 .. n /\ h[i] = g[i]
      BY <2>7, <3>1 DEF g, n
    <3>2. CASE i > n /\ i - n \in 1 .. m /\ h[i] = buf[i - n]
      <4>1. buf[1] <= h[i] /\ h[i] \in Nat /\ got[c][j] < buf[1] /\ got[c][j] \in Nat
        BY <2>3, <2>4, <2>6, <3>2
      <4> QED BY <2>3, <4>1
    <3> QED BY <2>9, <3>1, <3>2
  <2>13. h[Len(h)] = buf[m]
    BY <2>1
  <2>14. HeardOnce'
    <3> SUFFICES ASSUME NEW c \in Client, NEW d \in Client, NEW i \in 1 .. Len(got'[c])
                 PROVE  /\ i > 1 => got'[c][i] = got'[c][i - 1] + 1
                        /\ c # d => \A j \in 1 .. Len(got'[d]) : got'[c][i] # got'[d][j]
      BY DEF HeardOnce
    <3>1. i > 1 => got'[c][i] = got'[c][i - 1] + 1
      <4>1. CASE c = owner
        BY <2>11, <4>1 DEF h
      <4>2. CASE c # owner
        BY <1>1, <4>2 DEF HeardOnce
      <4> QED BY <4>1, <4>2
    <3>2. ASSUME c # d, NEW j \in 1 .. Len(got'[d]) PROVE got'[c][i] # got'[d][j]
      <4>1. CASE c = owner
        <5>1. got'[d] = got[d] /\ d # owner /\ got'[c] = h
          BY <1>1, <3>2, <4>1 DEF h
        <5>2. i \in 1 .. Len(h) /\ j \in 1 .. Len(got[d])
          BY <3>2, <5>1
        <5>3. h[i] # got[d][j]
          BY <2>12, <5>1, <5>2
        <5> QED BY <5>1, <5>3
      <4>2. CASE d = owner
        <5>1. got'[c] = got[c] /\ c # owner /\ got'[d] = h
          BY <1>1, <3>2, <4>2 DEF h
        <5>2. j \in 1 .. Len(h) /\ i \in 1 .. Len(got[c])
          BY <3>2, <5>1
        <5>3. h[j] # got[c][i]
          BY <2>12, <5>1, <5>2
        <5> QED BY <5>1, <5>3
      <4>3. CASE c # owner /\ d # owner
        BY <1>1, <2>7, <3>2, <4>3
      <4> QED BY <4>1, <4>2, <4>3
    <3> QED BY <3>1, <3>2
  <2>15. HearInv'
    <3>1. Run(buf', buf'[1] - 1) /\ Run(rxq', said' - Len(rxq'))
      BY RunOfNothing DEF HearInv
    <3>2. \A c \in Client : \A i \in 1 .. Len(got'[c]) :
            got'[c][i] <= said' /\ (c # owner' /\ port' => got'[c][i] <= said' - Len(rxq'))
      <4> SUFFICES ASSUME NEW c \in Client, NEW i \in 1 .. Len(got'[c])
                   PROVE /\ got'[c][i] <= said'
                         /\ c # owner' /\ port' => got'[c][i] <= said' - Len(rxq')
        OBVIOUS
      <4>1. CASE c = owner
        BY <2>10, <4>1 DEF h
      <4>2. CASE c # owner
        BY <1>1, <2>6, <4>2
      <4> QED BY <4>1, <4>2
    <3>3. port' => got'[owner'][Len(got'[owner'])] = said' - Len(rxq')
      BY <2>2, <2>13 DEF h
    <3> QED BY <3>1, <3>2, <3>3 DEF HearInv
  <2> QED BY <2>14, <2>15
<1> QED BY <1>2, <1>3

LEMMA SaysHear ==
  ASSUME TypeOK, HearInv, HeardOnce, DeviceSays
  PROVE  HearInv' /\ HeardOnce'
<1> DEFINE b == said - Len(rxq)
<1>1. /\ port /\ said' = said + 1 /\ rxq' = Append(rxq, said + 1)
      /\ UNCHANGED <<owner, got, buf, port>>
  BY DEF DeviceSays, sessionVars
<1>2. said \in Nat /\ rxq \in Seq(Byte) /\ Len(rxq) \in Nat /\ b \in Int /\ Run(rxq, b)
  BY HearTypes DEF HearInv
<1>3. said + 1 \in Byte /\ said + 1 = b + Len(rxq) + 1
  BY <1>2 DEF Byte
<1>4. Run(rxq', b) /\ Len(rxq') = Len(rxq) + 1
  <2>1. Run(rxq', b)
    <3> HIDE DEF b
    <3> QED BY <1>1, <1>2, <1>3, RunGoesOn
  <2> QED BY <1>1, <1>2, <1>3, <2>1
<1>5. said' - Len(rxq') = said - Len(rxq)
  BY <1>1, <1>2, <1>4
<1>6. HeardOnce'
  BY <1>1 DEF HeardOnce
<1>7. \A c \in Client : \A i \in 1 .. Len(got[c]) : got[c][i] <= said'
  <2>1. \A c \in Client : \A i \in 1 .. Len(got[c]) : got[c][i] \in Nat /\ got[c][i] <= said
    BY HearTypes DEF HearInv
  <2> QED BY <1>1, <1>2, <2>1
<1>8. buf # <<>> => buf[Len(buf)] <= said'
  <2>1. buf # <<>> => buf[Len(buf)] \in Nat /\ buf[Len(buf)] <= said
    <3>1. buf # <<>> => Len(buf) \in 1 .. Len(buf)
      BY HearTypes
    <3> QED BY <3>1, HearTypes DEF HearInv
  <2> QED BY <1>1, <1>2, <2>1
<1> QED BY <1>1, <1>4, <1>5, <1>6, <1>7, <1>8 DEF HearInv

LEMMA UnplugHear ==
  ASSUME TypeOK, HearInv, HeardOnce, Unplug
  PROVE  HearInv' /\ HeardOnce'
<1>1. rxq' = <<>> /\ ~ port' /\ UNCHANGED <<owner, said, got, buf>>
  BY DEF Unplug, sessionVars
<1>2. Run(rxq', said' - Len(rxq'))
  BY <1>1, RunOfNothing
<1> QED BY <1>1, <1>2 DEF HearInv, HeardOnce
-----------------------------------------------------------------------------
LEMMA InitIInv == Init => IInv
<1> SUFFICES ASSUME Init PROVE IInv
  OBVIOUS
<1> USE DEF Init
<1>0. /\ <<>> \in Seq(Byte) /\ <<>> \in Seq(OnWire) /\ Len(<<>>) = 0
      /\ \A b, c : Run(<<>>, b) /\ RunOf(<<>>, c, b)
  BY Nothing, RunOfNothing
<1>1. TypeOK
  BY <1>0, SizesAssumption DEF TypeOK
<1>2. owner \notin Client /\ ~ Bridging
  BY NoClientAssumption DEF Bridging
<1>3. PhaseInv /\ CloseInv /\ GoneInv
  BY <1>0, <1>2 DEF PhaseInv, CloseInv, GoneInv, NewSession
<1>4. SentInv
  BY <1>0 DEF SentInv
<1>5. WireInv
  BY <1>0 DEF WireInv, Apart, Covered, CleanEndReachesDevice
<1>6. HearInv /\ HeardOnce
  <2>1. \A b : Run(rxq, b) /\ Run(buf, b)
    <3>1. rxq = <<>> /\ buf = <<>>
      OBVIOUS
    <3> HIDE DEF Init
    <3>2. \A b : Run(<<>>, b)
      BY RunOfNothing
    <3> QED BY <3>1, <3>2
  <2>2. \A c \in Client : Len(got[c]) = 0 /\ got[c] = <<>>
    BY <1>0
  <2>3. \A c \in Client : \A i \in 1 .. Len(got[c]) : FALSE
    <3> SUFFICES ASSUME NEW c \in Client, NEW i \in 1 .. Len(got[c]) PROVE FALSE
      OBVIOUS
    <3>1. i \in 1 .. 0
      BY <2>2
    <3> QED BY <3>1
  <2>4. HeardOnce
    BY <2>3 DEF HeardOnce
  <2>5. owner = NoClient /\ buf = <<>>
    OBVIOUS
  <2> QED BY <2>1, <2>3, <2>4, <2>5 DEF HearInv
<1> QED BY <1>1, <1>3, <1>4, <1>5, <1>6 DEF IInv

LEMMA NextIInv == IInv /\ [Next]_vars => IInv'
<1> SUFFICES ASSUME IInv, [Next]_vars PROVE IInv'
  OBVIOUS
<1> USE DEF IInv
<1>0. TypeOK'
  BY TypeHolds
<1>1. ASSUME NEW c \in Client, Open(c) \/ Refuse(c) \/ Upgraded(c) \/ UpgradeFails(c)
      PROVE  IInv'
  <2>1. PhaseInv' /\ CloseInv' /\ GoneInv'
    BY <1>1, OpenPhase, AnswerPhase, UpgradePhase
  <2>2. SentInv' /\ WireInv'
    BY <1>1, GetSent
  <2>3. HearInv' /\ HeardOnce'
    <3>1. CASE Open(c)
      <4>1. /\ owner = NoClient /\ phase[c] = "idle" /\ owner' = c
            /\ UNCHANGED <<said, rxq, buf, got>>
        BY <3>1 DEF Open, sessionVars, portVars
      <4>2. rxq = <<>> /\ buf = <<>> /\ got[c] = <<>>
        BY <4>1 DEF PhaseInv, NewSession, Bridging
      <4> QED BY <4>1, <4>2, HearNothing
    <3>2. CASE Refuse(c) \/ Upgraded(c)
      BY <3>2, HearKept DEF Refuse, Upgraded, sessionVars, portVars
    <3>3. CASE UpgradeFails(c)
      <4>1. owner' = NoClient /\ rxq' = <<>> /\ UNCHANGED <<said, buf, got>>
        BY <3>3 DEF UpgradeFails, ClosePort, sessionVars
      <4>2. buf = <<>>
        BY <3>3 DEF UpgradeFails, PhaseInv, NewSession, Bridging
      <4> QED BY <4>1, <4>2, HearNothing
    <3> QED BY <1>1, <3>1, <3>2, <3>3
  <2> QED BY <1>0, <2>1, <2>2, <2>3
<1>2. CASE Ends
  <2>1. PhaseInv' /\ CloseInv' /\ GoneInv' /\ SentInv' /\ WireInv'
    BY <1>2, EndsPhase, EndsSent
  <2>2. owner' = NoClient /\ rxq' = <<>> /\ buf' = <<>> /\ UNCHANGED <<said, got>>
    BY <1>2 DEF Ends, EndSession, ClosePort
  <2> QED BY <1>0, <2>1, <2>2, HearNothing
<1>3. ASSUME NEW k \in Nat, TxRecv(k) PROVE IInv'
  <2>1. PhaseInv' /\ CloseInv' /\ GoneInv' /\ SentInv' /\ WireInv'
    BY <1>3, TxPhase, RecvSent
  <2>2. UNCHANGED <<owner, said, rxq, buf, got, port>>
    BY <1>3 DEF TxRecv, Lives, portVars
  <2> QED BY <1>0, <2>1, <2>2, HearKept
<1>4. ASSUME NEW k \in Nat, TxWrite(k) PROVE IInv'
  <2>1. PhaseInv' /\ CloseInv' /\ GoneInv' /\ SentInv' /\ WireInv'
    BY <1>4, TxPhase, WriteSent
  <2>2. UNCHANGED <<owner, said, rxq, buf, got, port>>
    BY <1>4 DEF TxWrite, Lives
  <2> QED BY <1>0, <2>1, <2>2, HearKept
<1>5. CASE TxSeesClose \/ TxBreaks
  <2>1. PhaseInv' /\ CloseInv' /\ GoneInv' /\ SentInv' /\ WireInv'
    BY <1>5, TxPhase, StillSent
  <2>2. UNCHANGED <<owner, said, rxq, buf, got, port>>
    BY <1>5 DEF TxSeesClose, TxBreaks, Lives, portVars
  <2> QED BY <1>0, <2>1, <2>2, HearKept
<1>6. CASE TxReplies \/ RxSent
  <2>1. PhaseInv' /\ CloseInv' /\ GoneInv' /\ SentInv' /\ WireInv'
    BY <1>6, TxPhase, RxPhase, StillSent
  <2>2. /\ owner \in Client /\ got' = [got EXCEPT ![owner] = @ \o buf] /\ buf' = <<>>
        /\ UNCHANGED <<owner, said, rxq, port>>
    BY <1>6 DEF TxReplies, RxSent, NewBuffer, Receiving, Bridging, TypeOK, Lives, portVars
  <2> QED BY <1>0, <2>1, <2>2, SendHear, NoClientAssumption
<1>7. ASSUME NEW k \in Nat, RxRead(k) PROVE IInv'
  <2>1. PhaseInv' /\ CloseInv' /\ GoneInv' /\ SentInv' /\ WireInv'
    BY <1>7, RxPhase, StillSent
  <2> QED BY <1>0, <1>7, <2>1, ReadHear
<1>8. CASE ClientSends \/ ClientCloses \/ ClientReads
  <2>1. PhaseInv' /\ CloseInv' /\ GoneInv' /\ SentInv' /\ WireInv'
    BY <1>8, ClientPhase, FeedSent, StillSent
  <2>2. UNCHANGED <<owner, said, rxq, buf, got, port>>
    BY <1>8 DEF ClientSends, ClientCloses, ClientReads, sessionVars, portVars
  <2> QED BY <1>0, <2>1, <2>2, HearKept
<1>9. ASSUME NEW c \in Client, ClientVanishes(c) PROVE IInv'
  <2>1. PhaseInv' /\ CloseInv' /\ GoneInv' /\ SentInv' /\ WireInv'
    BY <1>9, VanishPhase, VanishSent
  <2>2. UNCHANGED <<owner, said, rxq, buf, got, port>>
    BY <1>9 DEF ClientVanishes, portVars
  <2> QED BY <1>0, <2>1, <2>2, HearKept
<1>10. CASE DeviceSays
  BY <1>0, <1>10, DevicePhase, StillSent, SaysHear
<1>11. CASE DeviceTakes
  <2>1. UNCHANGED <<owner, said, rxq, buf, got, port>>
    BY <1>11 DEF DeviceTakes, sessionVars
  <2> QED BY <1>0, <1>11, <2>1, DevicePhase, TakeSent, HearKept
<1>12. CASE Unplug
  BY <1>0, <1>12, DevicePhase, UnplugSent, UnplugHear
<1>13. CASE UNCHANGED vars
  <2>1. /\ UNCHANGED <<owner, phase, how, got, fed, inEnd, ws, tx, inq, body, buf, outq>>
        /\ UNCHANGED <<rxq, txq, said, wire, port>>
    BY <1>13 DEF vars, clientVars, sessionVars, portVars
  <2>2. PhaseInv' /\ CloseInv' /\ GoneInv'
    BY <2>1 DEF PhaseInv, CloseInv, GoneInv, NewSession, Bridging
  <2>3. SentInv' /\ WireInv'
    BY <2>1, SentKept, WireKept
  <2> QED BY <1>0, <2>1, <2>2, <2>3, HearKept
<1>14. 1 .. MaxFed \subseteq Nat /\ 1 .. MaxSaid \subseteq Nat
  BY SizesAssumption
<1> HIDE DEF IInv
<1> QED BY <1>1, <1>2, <1>3, <1>4, <1>5, <1>6, <1>7, <1>8, <1>9, <1>10, <1>11, <1>12, <1>13,
           <1>14, EndsIn DEF Next, GetStep, TxStep, RxStep, Outside

THEOREM InductiveInvariant == Spec => []IInv
  BY InitIInv, NextIInv, PTL DEF Spec

(* Requests, session and port are what main.rs declares: no buffer beyond  *)
(* its capacity, no state of handle_ws without a handler that has it.      *)
THEOREM TypeCorrect == Spec => []TypeOK
<1>1. IInv => TypeOK
  BY DEF IInv
<1> QED BY <1>1, InductiveInvariant, PTL

(* For any number of clients, and any cut of their bytes, the device sees  *)
(* the beginning of what each sent, one after the other (main.rs:154).     *)
THEOREM WireIsApartHolds == Spec => []WireIsApart
<1>1. IInv => WireIsApart
  BY DEF IInv, WireInv, Apart, WireIsApart
<1> QED BY <1>1, InductiveInvariant, PTL

(* A client hears the device without a gap and alone (main.rs:143).        *)
THEOREM HeardOnceHolds == Spec => []HeardOnce
<1>1. IInv => HeardOnce
  BY DEF IInv
<1> QED BY <1>1, InductiveInvariant, PTL

(* What a client sent before a Close that ends its session is out of the   *)
(* port when the session is over (main.rs:156-162).                        *)
THEOREM CleanEndHolds == Spec => []CleanEndReachesDevice
<1>1. IInv => CleanEndReachesDevice
  BY DEF IInv, WireInv
<1> QED BY <1>1, InductiveInvariant, PTL
=============================================================================
