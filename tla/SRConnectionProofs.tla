-------------------------- MODULE SRConnectionProofs --------------------------
(***************************************************************************)
(* Proofs about SRConnection.                                              *)
(***************************************************************************)
EXTENDS SRConnection, SequenceTheorems, SetInduction

\* A uint32_t.
Numbers == 0 .. SnMod - 1

NumberedPdus ==
  [type : Types, sn : Numbers, cs : Numbers, ts : Nat, cts : Nat, msgs : Seq(Nat)]

Packets == [seq : Nat, pdu : NumberedPdus]
Held    == [sn : Numbers, msgs : Seq(Nat)]

\* The records of an endpoint in the middle of a step.
Records ==
  [state : States, role : {"client", "server"},
   sn_t : Numbers, sn_r : Numbers, cs_t : Numbers, cs_r : Numbers, ts_r : Nat,
   cts_r : Nat, fifo_send : Seq(Nat), fifo_retr : Seq(Held),
   armed : BOOLEAN, hb_call : Nat, ti_call : Nat, channel : BOOLEAN,
   tx : Nat, rx : Nat, out : Seq(Packets), quit : BOOLEAN, asked : Nat,
   got : Seq(Nat)]

Fits(c) == Len(c.fifo_send) <= 2 * MaxPacket /\ Len(c.fifo_retr) <= RetrCap

Whole == {c \in Records : Fits(c)}

\* Most of what a handler does leaves the numbers and fifo_retr alone, and
\* nothing it does takes the connection off the list.
Kept(c, d) ==
  /\ d \in Whole
  /\ d.sn_t = c.sn_t
  /\ d.fifo_retr = c.fifo_retr
  /\ d.state = "NONE" => c.state = "NONE"

LEMMA ConstantFacts ==
  /\ SnMod \in Nat \ {0} /\ TMax \in Nat \ {0} /\ MaxPacket \in Nat \ {0}
  /\ RetrCap \in Nat \ {0} /\ RecvCap \in Nat \ {0}
  /\ SnRange \in Nat /\ MaxTime \in Nat /\ MaxMsg \in Nat /\ MaxPdus \in Nat
  /\ MaxDrops \in Nat /\ MaxStops \in Nat
  /\ \A e \in Ends : InitSn[e] \in Numbers /\ Boot[e] \in Nat
  /\ "a" \in Ends /\ "b" \in Ends /\ \A e \in Ends : Peer(e) \in Ends /\ Peer(e) # e
  /\ 0 \in Numbers
BY NumbersAssumption DEF Ends, Peer, Numbers

(***************************************************************************)
(* The arithmetic of the numbers.                                          *)
(***************************************************************************)
LEMMA ModFacts ==
  ASSUME NEW x \in Int
  PROVE  /\ x % SnMod \in Numbers
         /\ x \in Numbers => x % SnMod = x
         /\ x \in SnMod .. 2 * SnMod - 1 => x % SnMod = x - SnMod
         /\ x \in -SnMod .. -1 => x % SnMod = x + SnMod
BY ConstantFacts DEF Numbers

LEMMA NumbersAreClosed ==
  ASSUME NEW m \in Numbers, NEW n \in Numbers
  PROVE  Plus1(n) \in Numbers /\ Minus(m, n) \in Numbers /\ Minus(m, 1) \in Numbers
<1>1. n + 1 \in Int /\ m - n \in Int /\ m - 1 \in Int
  BY DEF Numbers
<1> QED
  BY <1>1, ModFacts DEF Plus1, Minus

(***************************************************************************)
(* The fields of a record.                                                 *)
(***************************************************************************)
LEMMA Fields ==
  ASSUME NEW c \in Whole
  PROVE  /\ c.state \in States /\ c.role \in {"client", "server"}
         /\ c.sn_t \in Numbers /\ c.sn_r \in Numbers
         /\ c.cs_t \in Numbers /\ c.cs_r \in Numbers
         /\ c.ts_r \in Nat /\ c.cts_r \in Nat
         /\ c.fifo_send \in Seq(Nat) /\ c.fifo_retr \in Seq(Held)
         /\ c.channel \in BOOLEAN /\ c.tx \in Nat /\ c.rx \in Nat
         /\ c.out \in Seq(Packets) /\ c.asked \in Nat /\ c.got \in Seq(Nat)
         /\ Len(c.fifo_send) \in 0 .. 2 * MaxPacket
         /\ Len(c.fifo_retr) \in 0 .. RetrCap
<1>1. c \in Records /\ Fits(c)
  BY DEF Whole
<1>2. c.fifo_send \in Seq(Nat) /\ c.fifo_retr \in Seq(Held)
  BY <1>1 DEF Records
<1>3. Len(c.fifo_send) \in Nat /\ Len(c.fifo_retr) \in Nat
  BY <1>2, LenProperties
<1> QED
  BY <1>1, <1>2, <1>3, ConstantFacts DEF Records, Fits

LEMMA MuxSendKeeps ==
  ASSUME NEW c \in Whole, NEW p \in NumberedPdus
  PROVE  /\ Kept(c, MuxSend(c, p))
         /\ MuxSend(c, p).state = c.state
<1>1. CASE c.channel
  <2>1. PICK pkt \in Packets : pkt = [seq |-> c.tx, pdu |-> p]
    <3>1. c.tx \in Nat
      BY Fields
    <3> QED
      BY <3>1 DEF Packets
  <2>2. PICK out \in Seq(Packets) : out = Append(c.out, pkt)
    <3>1. c.out \in Seq(Packets)
      BY Fields
    <3>2. Append(c.out, pkt) \in Seq(Packets)
      BY <3>1, AppendProperties
    <3> QED
      BY <3>2
  <2>3. PICK tx \in Nat : tx = c.tx + 1
    BY Fields
  <2>4. MuxSend(c, p) = [c EXCEPT !.out = out, !.tx = tx]
    BY <1>1, <2>1, <2>2, <2>3 DEF MuxSend
  <2> QED
    BY <2>4 DEF Whole, Records, Fits, Kept
<1>2. CASE ~c.channel
  BY <1>2 DEF MuxSend, Kept
<1> QED
  BY <1>1, <1>2

LEMMA RemoveChannelKeeps ==
  ASSUME NEW c \in Whole
  PROVE  Kept(c, RemoveChannel(c))
BY DEF RemoveChannel, Records, Fits, Whole, Kept

(***************************************************************************)
(* The PDUs an endpoint builds, and the operators that send them.          *)
(***************************************************************************)
\* The clock of an endpoint, and the type of the numbers of a PDU.
Times == now \in Nat

LEMMA PduType ==
  ASSUME Times, NEW e \in Ends, NEW c \in Whole, NEW type \in Types,
         NEW cts \in Nat, NEW msgs \in Seq(Nat)
  PROVE  Pdu(e, c, type, cts, msgs) \in NumberedPdus
<1>1. Clock(e) \in Nat
  BY ConstantFacts DEF Clock, Times
<1>2. c.sn_t \in Numbers /\ c.cs_t \in Numbers
  BY Fields
<1> QED
  BY <1>1, <1>2 DEF Pdu, NumberedPdus

\* d is what SendPdu makes of c: the next number, and all else kept.
SentOne(c, d) ==
  /\ d \in Whole
  /\ d.sn_t = Plus1(c.sn_t)
  /\ d.fifo_retr = c.fifo_retr
  /\ d.state = c.state

LEMMA SendPduKeeps ==
  ASSUME Times, NEW e \in Ends, NEW c \in Whole, NEW type \in Types,
         NEW cts \in Nat, NEW msgs \in Seq(Nat)
  PROVE  SentOne(c, SendPdu(e, c, type, cts, msgs))
<1>1. PICK d \in Whole : /\ d = MuxSend(c, Pdu(e, c, type, cts, msgs))
                         /\ Kept(c, d) /\ d.state = c.state
  BY PduType, MuxSendKeeps DEF Kept
<1>2. PICK n \in Numbers : n = Plus1(c.sn_t)
  BY Fields, NumbersAreClosed
<1>3. SendPdu(e, c, type, cts, msgs) = [d EXCEPT !.sn_t = n]
  BY <1>1, <1>2 DEF SendPdu, Kept
<1> QED
  BY <1>1, <1>2, <1>3 DEF Whole, Records, Fits, Kept, SentOne

LEMMA TypesExist ==
  /\ "ConReq" \in Types /\ "ConResp" \in Types /\ "HB" \in Types /\ "Data" \in Types
  /\ "RetrReq" \in Types /\ "RetrResp" \in Types /\ "RetrData" \in Types
  /\ "DiscReq" \in Types /\ << >> \in Seq(Nat)
BY DEF Types

LEMMA SendHeartbeatKeeps ==
  ASSUME Times, NEW e \in Ends, NEW c \in Whole
  PROVE  SentOne(c, SendHeartbeat(e, c))
<1>1. PICK d \in Whole : d = SendPdu(e, c, "HB", c.ts_r, << >>) /\ SentOne(c, d)
  <2>1. c.ts_r \in Nat
    BY Fields
  <2>2. SentOne(c, SendPdu(e, c, "HB", c.ts_r, << >>))
    BY <2>1, TypesExist, SendPduKeeps
  <2> QED
    BY <2>2 DEF SentOne
<1>2. SendHeartbeat(e, c) = [d EXCEPT !.hb_call = now]
  BY <1>1 DEF SendHeartbeat
<1> QED
  BY <1>1, <1>2 DEF Whole, Records, Fits, SentOne, Times

LEMMA SendRetrKeeps ==
  ASSUME Times, NEW e \in Ends, NEW c \in Whole
  PROVE  SentOne(c, SendRetrReq(e, c)) /\ SentOne(c, SendRetrResp(e, c))
BY Fields, TypesExist, SendPduKeeps DEF SendRetrReq, SendRetrResp

LEMMA SendDiscReqKeeps ==
  ASSUME Times, NEW e \in Ends, NEW c \in Whole
  PROVE  Kept(c, SendDiscReq(e, c))
BY Fields, TypesExist, PduType, MuxSendKeeps DEF SendDiscReq

LEMMA CloseConnectionKeeps ==
  ASSUME Times, NEW e \in Ends, NEW c \in Whole
  PROVE  /\ Kept(c, CloseConnection(e, c))
         /\ CloseConnection(e, c).state = "CLOSED"
<1>1. PICK d \in Whole : /\ d = IF c.state \in Open THEN SendDiscReq(e, c) ELSE c
                         /\ d.sn_t = c.sn_t /\ d.fifo_retr = c.fifo_retr
  BY SendDiscReqKeeps DEF Kept
<1>2. PICK f \in Whole : /\ f = [d EXCEPT !.state = "CLOSED", !.armed = FALSE]
                         /\ f.sn_t = c.sn_t /\ f.fifo_retr = c.fifo_retr
                         /\ f.state = "CLOSED"
  <2>1. PICK f : f = [d EXCEPT !.state = "CLOSED", !.armed = FALSE]
    OBVIOUS
  <2>2. /\ f \in Whole
        /\ f.sn_t = c.sn_t /\ f.fifo_retr = c.fifo_retr /\ f.state = "CLOSED"
    BY <1>1, <2>1, ZenonT(30) DEF Whole, Records, Fits, States
  <2> QED
    BY <2>1, <2>2
<1>3. CloseConnection(e, c) = RemoveChannel(f)
  BY <1>1, <1>2 DEF CloseConnection
<1>4. Kept(f, RemoveChannel(f)) /\ RemoveChannel(f).state = "CLOSED"
  BY <1>2, RemoveChannelKeeps DEF RemoveChannel, Whole, Records
<1> QED
  BY <1>2, <1>3, <1>4 DEF Kept

(***************************************************************************)
(* What the application may do in a callback.                              *)
(***************************************************************************)
LEMMA SentKeeps ==
  ASSUME Times, NEW e \in Ends, NEW c \in Whole, NEW n \in Nat
  PROVE  Kept(c, Sent(e, c, n))
<1>1. CASE c.state = "UP"
  <2>1. PICK room \in Nat : room = 2 * MaxPacket - Len(c.fifo_send)
    <3>1. Len(c.fifo_send) \in 0 .. 2 * MaxPacket /\ MaxPacket \in Nat
      BY Fields, ConstantFacts
    <3>2. 2 * MaxPacket - Len(c.fifo_send) \in Nat
      BY <3>1
    <3> QED
      BY <3>2
  <2>2. PICK fit \in Nat : fit = (IF n < room THEN n ELSE room) /\ fit <= room
    BY <2>1
  <2>3. PICK more \in Seq(Nat) : /\ more = [i \in 1 .. fit |-> c.asked + i]
                                 /\ Len(more) = fit
    <3>1. \A i \in 1 .. fit : c.asked + i \in Nat
      BY Fields
    <3>2. PICK more : more = [i \in 1 .. fit |-> c.asked + i]
      OBVIOUS
    <3>3. more \in [1 .. fit -> Nat]
      BY <3>1, <3>2
    <3>4. more \in Seq(Nat) /\ Len(more) = fit
      BY <3>2, <3>3
    <3> QED
      BY <3>2, <3>4
  <2>4. PICK fifo \in Seq(Nat) : /\ fifo = c.fifo_send \o more
                                 /\ Len(fifo) = Len(c.fifo_send) + fit
    <3>1. c.fifo_send \in Seq(Nat)
      BY Fields
    <3>2. /\ c.fifo_send \o more \in Seq(Nat)
          /\ Len(c.fifo_send \o more) = Len(c.fifo_send) + Len(more)
      BY <2>3, <3>1, ConcatProperties
    <3> QED
      BY <2>3, <3>2
  <2>5. Len(fifo) <= 2 * MaxPacket
    <3>1. Len(c.fifo_send) \in 0 .. 2 * MaxPacket /\ MaxPacket \in Nat
      BY Fields, ConstantFacts
    <3>2. PICK len \in Nat : len = Len(c.fifo_send)
      BY <3>1
    <3>3. fit <= 2 * MaxPacket - len
      BY <2>1, <2>2, <3>2
    <3>4. Len(fifo) = len + fit
      BY <2>4, <3>2
    <3> QED
      BY <3>1, <3>3, <3>4
  <2>6. PICK asked \in Nat : asked = c.asked + n
    BY Fields
  <2>7. Sent(e, c, n) = [c EXCEPT !.asked = asked, !.fifo_send = fifo]
    <3>1. fifo = c.fifo_send
              \o [i \in 1 .. (IF n < 2 * MaxPacket - Len(c.fifo_send)
                             THEN n ELSE 2 * MaxPacket - Len(c.fifo_send)) |->
                    c.asked + i]
      BY <2>1, <2>2, <2>3, <2>4
    <3> QED
      BY <1>1, <2>6, <3>1, Zenon DEF Sent
  <2> QED
    BY <2>5, <2>7 DEF Whole, Records, Fits, Kept
<1>2. CASE c.state \in {"START", "RETRREQ", "RETRRUN"}
  <2>1. PICK d \in Whole : d = SendDiscReq(e, c) /\ Kept(c, d)
    BY SendDiscReqKeeps DEF Kept
  <2>2. Sent(e, c, n) = [d EXCEPT !.state = "CLOSED"]
    BY <1>2, <2>1 DEF Sent
  <2> QED
    BY <2>1, <2>2, ZenonT(30) DEF Whole, Records, Fits, Kept, States
<1>3. CASE c.state \notin {"UP", "START", "RETRREQ", "RETRRUN"}
  BY <1>3 DEF Sent, Kept
<1> QED
  BY <1>1, <1>2, <1>3

LEMMA DisconnectedKeeps ==
  ASSUME Times, NEW e \in Ends, NEW c \in Whole
  PROVE  Kept(c, Disconnected(e, c))
<1>1. PICK d \in Whole : d = CloseConnection(e, c) /\ Kept(c, d)
  BY CloseConnectionKeeps DEF Kept
<1>2. Disconnected(e, c) = [d EXCEPT !.quit = TRUE]
  BY <1>1 DEF Disconnected
<1> QED
  BY <1>1, <1>2 DEF Whole, Records, Fits, Kept

LEMMA NotifiedKeeps ==
  ASSUME Times, NEW e \in Ends, NEW c \in Whole, NEW d \in Notified(e, c)
  PROVE  Kept(c, d)
<1>1. d \in {c, Sent(e, c, 1), Disconnected(e, c)}
  BY DEF Notified
<1>2. Kept(c, c)
  BY DEF Kept
<1> QED
  BY <1>1, <1>2, SentKeeps, DisconnectedKeeps

(***************************************************************************)
(* What a handler does to the record of its endpoint.                      *)
(***************************************************************************)
LEMMA TakeKeeps ==
  ASSUME NEW c \in Whole, NEW p \in NumberedPdus
  PROVE  Kept(c, Take(c, p)) /\ Take(c, p).state = c.state
<1>1. p.sn \in Numbers /\ p.ts \in Nat
  BY DEF NumberedPdus
<1>2. PICK sn \in Numbers : sn = p.sn
  BY <1>1
<1>3. PICK n \in Numbers : n = Plus1(sn)
  BY NumbersAreClosed
<1>4. PICK ts \in Nat : ts = p.ts
  BY <1>1
<1>5. Take(c, p) = [c EXCEPT !.sn_r = n, !.cs_t = sn, !.ts_r = ts]
  BY <1>2, <1>3, <1>4 DEF Take
<1> QED
  BY <1>5, ZenonT(30) DEF Whole, Records, Fits, Kept

LEMMA ReadKeeps ==
  ASSUME NEW c \in Whole, NEW m \in Nat
  PROVE  Kept(c, Read(c, m))
<1>1. Append(c.got, m) \in Seq(Nat)
  BY Fields, AppendProperties
<1>2. PICK got \in Seq(Nat) : got = Append(c.got, m)
  BY <1>1
<1>3. Read(c, m) = [c EXCEPT !.got = got]
  BY <1>2 DEF Read
<1> QED
  BY <1>3 DEF Whole, Records, Fits, Kept

LEMMA UpdateTIKeeps ==
  ASSUME Times, NEW c \in Whole
  PROVE  Kept(c, UpdateTI(c)) /\ UpdateTI(c).state = c.state
BY DEF UpdateTI, Whole, Records, Fits, Kept, Times

LEMMA StartEventsKeeps ==
  ASSUME Times, NEW c \in Whole
  PROVE  Kept(c, StartEvents(c))
BY DEF StartEvents, Whole, Records, Fits, Kept, Times

LEMMA HandedKeeps ==
  ASSUME Times, NEW e \in Ends, NEW c \in Whole, NEW m \in Nat,
         NEW d \in {UpdateTI(g) : g \in Notified(e, Read(c, m))}
  PROVE  Kept(c, d)
<1>1. PICK r \in Whole : r = Read(c, m) /\ Kept(c, r)
  BY ReadKeeps DEF Kept
<1>2. PICK g \in Notified(e, r) : d = UpdateTI(g)
  BY <1>1
<1>3. Kept(r, g)
  BY <1>1, NotifiedKeeps
<1>4. Kept(g, d)
  BY <1>2, <1>3, UpdateTIKeeps DEF Kept
<1> QED
  BY <1>1, <1>3, <1>4 DEF Kept

(***************************************************************************)
(* The messages of a PDU are given to the application one by one: the      *)
(* records there may be after all of them.                                 *)
(***************************************************************************)
Hands(e, c, p, T, found) ==
  /\ AddAppMessages(e, c, p) = found[Len(p.msgs)]
  /\ found[0] = {c}
  /\ \A i \in 0 .. Len(p.msgs) : found[i] \subseteq T
  /\ \A i \in 1 .. Len(p.msgs) : \A y \in found[i] :
       \E x \in found[i - 1] : \E g \in Notified(e, Read(x, p.msgs[i])) : y = UpdateTI(g)

LEMMA AddAppMessagesRun ==
  ASSUME NEW e \in Ends, NEW p \in NumberedPdus, NEW T, NEW c \in T,
         \A x \in T, m \in Nat : {UpdateTI(g) : g \in Notified(e, Read(x, m))} \subseteq T
  PROVE  \E found : Hands(e, c, p, T, found)
<1> DEFINE Handed(f, m) == {UpdateTI(g) : g \in Notified(e, Read(f, m))}
           IsRun(f) == f = [i \in 0 .. Len(p.msgs) |->
                              IF i = 0 THEN {c}
                              ELSE UNION {Handed(x, p.msgs[i]) : x \in f[i - 1]}]
           found == CHOOSE f : IsRun(f)
           Sets == SUBSET T
<1>1. PICK n \in Nat : n = Len(p.msgs) /\ \A i \in 1 .. n : p.msgs[i] \in Nat
  <2>1. p.msgs \in Seq(Nat)
    BY DEF NumberedPdus
  <2> QED
    BY <2>1
<1>2. AddAppMessages(e, c, p) = found[Len(p.msgs)]
  BY DEF AddAppMessages
<1>3. \A i \in 1 .. n, X \in Sets : UNION {Handed(x, p.msgs[i]) : x \in X} \in Sets
  <2>1. ASSUME NEW i \in 1 .. n, NEW x \in T PROVE Handed(x, p.msgs[i]) \subseteq T
    BY <1>1
  <2> HIDE DEF Handed
  <2> QED
    BY <2>1
<1>4. {c} \in Sets
  OBVIOUS
<1> HIDE DEF Handed
<1>5. PICK step : step = [x \in (1 .. n) \X Sets |->
                            UNION {Handed(y, p.msgs[x[1]]) : y \in x[2]}]
  OBVIOUS
<1>6. \A i \in 1 .. n, X \in Sets :
        step[<<i, X>>] = UNION {Handed(y, p.msgs[i]) : y \in X}
  BY <1>5
<1> HIDE DEF Sets
<1>7. step \in [(1 .. n) \X Sets -> Sets]
  BY <1>3, <1>5
<1>8. PICK run : IsLoop(run, Sets, n, {c}, step)
  BY <1>4, <1>7, LoopHasRun
<1>9. run \in [0 .. n -> Sets] /\ run[0] = {c}
  BY <1>8 DEF IsLoop
<1>10. ASSUME NEW i \in 1 .. n
       PROVE  run[i] = UNION {Handed(x, p.msgs[i]) : x \in run[i - 1]}
  <2>1. i - 1 \in 0 .. n /\ run[i] = step[<<i, run[i - 1]>>]
    BY <1>8 DEF IsLoop
  <2>2. run[i - 1] \in Sets
    BY <1>9, <2>1
  <2> QED
    BY <1>6, <2>1, <2>2
<1>11. IsRun(run)
  <2>1. \A i \in 0 .. n :
          run[i] = IF i = 0 THEN {c}
                   ELSE UNION {Handed(x, p.msgs[i]) : x \in run[i - 1]}
    BY <1>9, <1>10
  <2> QED
    BY <1>1, <1>9, <2>1
<1>12. IsRun(found)
  <2> HIDE DEF IsRun
  <2> QED
    BY <1>11
<1>13. found = [i \in 0 .. n |-> IF i = 0 THEN {c}
                  ELSE UNION {Handed(x, p.msgs[i]) : x \in found[i - 1]}]
  BY <1>1, <1>12
<1> HIDE DEF found
<1> DEFINE Round(i, X) == UNION {Handed(x, p.msgs[i]) : x \in X}
<1>14. /\ found[0] = {c}
       /\ \A i \in 1 .. n : found[i] = Round(i, found[i - 1])
  <2>1. found = [i \in 0 .. n |-> IF i = 0 THEN {c} ELSE Round(i, found[i - 1])]
    BY <1>13
  <2> HIDE DEF Round
  <2>2. 0 \in 0 .. n
    BY <1>1
  <2>3. \A i \in 0 .. n : found[i] = IF i = 0 THEN {c} ELSE Round(i, found[i - 1])
    BY <2>1, Zenon
  <2>4. found[0] = {c}
    BY <2>2, <2>3
  <2>5. ASSUME NEW i \in 1 .. n PROVE found[i] = Round(i, found[i - 1])
    <3>1. i \in 0 .. n /\ i # 0
      BY <1>1
    <3> QED
      BY <2>3, <3>1, Zenon
  <2> QED
    BY <2>4, <2>5
<1>15. 0 .. n \subseteq {i \in 0 .. n : found[i] \in Sets}
  <2> DEFINE S == {i \in 0 .. n : found[i] \in Sets}
  <2>1. 0 \in S
    <3>1. found[0] = {c} /\ 0 \in 0 .. n
      BY <1>14
    <3>2. found[0] \in Sets
      BY <1>4, <3>1
    <3> QED
      BY <3>1, <3>2
  <2>2. ASSUME NEW i \in 0 .. n - 1, i \in S PROVE i + 1 \in S
    <3>1. i + 1 \in 1 .. n /\ (i + 1) - 1 = i /\ found[i] \in Sets
      BY <2>2
    <3>2. found[i + 1] = UNION {Handed(x, p.msgs[i + 1]) : x \in found[i]}
      <4>1. found[i + 1] = Round(i + 1, found[(i + 1) - 1])
        BY <1>14, <3>1
      <4> QED
        BY <3>1, <4>1
    <3>3. found[i + 1] \in Sets
      BY <1>3, <3>1, <3>2
    <3> QED
      BY <3>1, <3>3
  <2> HIDE DEF S
  <2>3. 0 .. n \subseteq S
    BY <2>1, <2>2, InductionUpTo
  <2> QED
    BY <2>3 DEF S
<1>16. \A i \in 0 .. n : found[i] \subseteq T
  BY <1>15 DEF Sets
<1>17. ASSUME NEW i \in 1 .. n, NEW y \in found[i]
       PROVE  \E x \in found[i - 1] : \E g \in Notified(e, Read(x, p.msgs[i])) :
                y = UpdateTI(g)
  <2>1. found[i] = UNION {Handed(x, p.msgs[i]) : x \in found[i - 1]}
    BY <1>14
  <2>2. PICK x \in found[i - 1] : y \in Handed(x, p.msgs[i])
    BY <2>1
  <2> QED
    BY <2>2 DEF Handed
<1>18. Hands(e, c, p, T, found)
  BY <1>1, <1>2, <1>14, <1>16, <1>17 DEF Hands
<1> QED
  BY <1>18

LEMMA AddAppMessagesStay ==
  ASSUME NEW e \in Ends, NEW p \in NumberedPdus, NEW T, NEW c \in T,
         \A x \in T, m \in Nat : {UpdateTI(g) : g \in Notified(e, Read(x, m))} \subseteq T,
         NEW d \in AddAppMessages(e, c, p)
  PROVE  d \in T
<1>1. PICK found : Hands(e, c, p, T, found)
  BY AddAppMessagesRun
<1>2. Len(p.msgs) \in 0 .. Len(p.msgs)
  <2>1. p.msgs \in Seq(Nat)
    BY DEF NumberedPdus
  <2> QED
    BY <2>1
<1> QED
  BY <1>1, <1>2 DEF Hands

LEMMA AddAppMessagesKeeps ==
  ASSUME Times, NEW e \in Ends, NEW c \in Whole, NEW p \in NumberedPdus,
         NEW d \in AddAppMessages(e, c, p)
  PROVE  Kept(c, d)
<1> DEFINE T == {x \in Whole : Kept(c, x)}
<1>1. ASSUME NEW x \in T, NEW m \in Nat
      PROVE  {UpdateTI(g) : g \in Notified(e, Read(x, m))} \subseteq T
  <2>1. ASSUME NEW y \in {UpdateTI(g) : g \in Notified(e, Read(x, m))} PROVE y \in T
    <3>1. Kept(x, y)
      BY <2>1, HandedKeeps
    <3> QED
      BY <3>1 DEF Kept
  <2> QED
    BY <2>1
<1>2. c \in T
  BY DEF Kept
<1> HIDE DEF T
<1>3. d \in T
  BY <1>1, <1>2, AddAppMessagesStay
<1> QED
  BY <1>3 DEF T

-----------------------------------------------------------------------------
(***************************************************************************)
(* fifo_retr.                                                              *)
(***************************************************************************)
Ordered(c) ==
  /\ \A i, j \in 1 .. Len(c.fifo_retr) :
       i < j => c.fifo_retr[i].sn < c.fifo_retr[j].sn
  /\ \A i \in 1 .. Len(c.fifo_retr) : c.fifo_retr[i].sn < c.sn_t

\* What a handler does to the fifo that keeps its order when, as long as it
\* holds a PDU, the next number is not less than before.
Result(c, d) ==
  /\ d \in Whole
  /\ d.state = "NONE" => /\ c.state = "NONE"
                         /\ c.fifo_retr = << >> => d.fifo_retr = << >>
  /\ Ordered(c) /\ (d.fifo_retr # << >> => d.sn_t >= c.sn_t) => Ordered(d)

LEMMA EmptyIsOrdered ==
  ASSUME NEW c, c.fifo_retr = << >>
  PROVE  Ordered(c)
<1>1. Len(c.fifo_retr) = 0
  OBVIOUS
<1> QED
  BY <1>1 DEF Ordered

LEMMA KeptIsResult ==
  ASSUME NEW c \in Whole, NEW d, Kept(c, d)
  PROVE  Result(c, d)
BY DEF Kept, Result, Ordered

LEMMA ResultThenKept ==
  ASSUME NEW c, NEW d, NEW f, Result(c, d), Kept(d, f)
  PROVE  Result(c, f)
BY DEF Kept, Result, Ordered

LEMMA KeptThenResult ==
  ASSUME NEW c, NEW d, NEW f, Kept(c, d), Result(d, f)
  PROVE  Result(c, f)
BY DEF Kept, Result, Ordered

LEMMA HeldFacts ==
  ASSUME NEW c \in Whole, NEW i \in 1 .. Len(c.fifo_retr)
  PROVE  /\ c.fifo_retr[i] \in Held
         /\ c.fifo_retr[i].sn \in Numbers
         /\ c.fifo_retr[i].msgs \in Seq(Nat)
<1>1. PICK fifo \in Seq(Held) : fifo = c.fifo_retr
  BY Fields
<1>2. fifo[i] \in Held
  BY <1>1
<1> QED
  BY <1>1, <1>2 DEF Held

\* A number taken for a PDU that is not held.
LEMMA SentOneIsResult ==
  ASSUME NEW c \in Whole, NEW d, SentOne(c, d)
  PROVE  Result(c, d)
<1>1. d \in Whole /\ d.state = c.state /\ d.fifo_retr = c.fifo_retr
  BY DEF SentOne
<1>2. ASSUME Ordered(c), d.fifo_retr # << >> => d.sn_t >= c.sn_t
      PROVE  Ordered(d)
  <2>1. CASE d.fifo_retr = << >>
    BY <2>1, EmptyIsOrdered
  <2>2. CASE d.sn_t >= c.sn_t
    <3>1. c.sn_t \in Int /\ d.sn_t \in Int
      BY <1>1, Fields DEF Numbers
    <3>2. \A i \in 1 .. Len(c.fifo_retr) : c.fifo_retr[i].sn \in Int
      BY HeldFacts DEF Numbers
    <3> QED
      BY <1>1, <1>2, <2>2, <3>1, <3>2 DEF Ordered
  <2> QED
    BY <1>2, <2>1, <2>2
<1> QED
  BY <1>1, <1>2 DEF Result

(***************************************************************************)
(* RemoveConfirmed leaves the end of the fifo.                             *)
(***************************************************************************)
LEMMA RemoveConfirmedFacts ==
  ASSUME NEW fifo \in Seq(Held), NEW cs
  PROVE  \E k \in 0 .. Len(fifo) :
           /\ RemoveConfirmed(fifo, cs) \in Seq(Held)
           /\ Len(RemoveConfirmed(fifo, cs)) = Len(fifo) - k
           /\ \A i \in 1 .. Len(fifo) - k : RemoveConfirmed(fifo, cs)[i] = fifo[k + i]
           /\ k < Len(fifo) => k \in 1 .. Len(fifo) /\ fifo[k].sn = cs
<1>1. PICK n \in Nat : n = Len(fifo) /\ DOMAIN fifo = 1 .. n
  OBVIOUS
<1>2. CASE \E i \in DOMAIN fifo : fifo[i].sn = cs
  <2> DEFINE T == {i \in DOMAIN fifo : fifo[i].sn = cs}
             First(i) == fifo[i].sn = cs /\ \A j \in 1 .. i - 1 : fifo[j].sn # cs
  <2>1. PICK x \in T : \A y \in T : x <= y
    <3>1. T \in SUBSET Nat /\ T # {}
      BY <1>1, <1>2
    <3> QED
      BY <3>1, LeastElement
  <2>2. x \in DOMAIN fifo /\ First(x)
    BY <1>1, <2>1
  <2>3. PICK k \in DOMAIN fifo : k = CHOOSE i \in DOMAIN fifo : First(i)
    BY <2>2
  <2>4. RemoveConfirmed(fifo, cs) = SubSeq(fifo, 1 + k, n)
    BY <1>1, <1>2, <2>3 DEF RemoveConfirmed
  <2>5. /\ SubSeq(fifo, 1 + k, n) \in Seq(Held)
        /\ Len(SubSeq(fifo, 1 + k, n)) = n - k
        /\ \A i \in 1 .. n - k : SubSeq(fifo, 1 + k, n)[i] = fifo[k + i]
    <3>1. k \in 1 .. n /\ n \in Nat
      BY <1>1, <2>3
    <3> QED
      BY SMTT(60), <1>1, <3>1
  <2>6. First(k)
    BY <2>2, <2>3
  <2>7. k \in 0 .. Len(fifo) /\ k \in 1 .. Len(fifo) /\ fifo[k].sn = cs
    BY <1>1, <2>3, <2>6
  <2> HIDE DEF First
  <2> QED
    BY <1>1, <2>4, <2>5, <2>7
<1>3. CASE ~ \E i \in DOMAIN fifo : fifo[i].sn = cs
  <2>1. RemoveConfirmed(fifo, cs) = << >>
    BY <1>3 DEF RemoveConfirmed
  <2>2. << >> \in Seq(Held) /\ Len(<< >>) = 0 /\ n - n = 0 /\ n \in 0 .. n /\ ~(n < n)
    BY <1>1
  <2> QED
    BY <1>1, <2>1, <2>2
<1> QED
  BY <1>2, <1>3

\* The same number, and the order of the fifo kept.
Later(c, d) ==
  /\ d \in Whole
  /\ d.sn_t = c.sn_t
  /\ d.state = c.state
  /\ Ordered(c) => Ordered(d)

LEMMA ConfirmIsLater ==
  ASSUME NEW c \in Whole, NEW p \in NumberedPdus
  PROVE  Later(c, Confirm(c, p))
<1>1. c.fifo_retr \in Seq(Held) /\ Len(c.fifo_retr) \in 0 .. RetrCap
  BY Fields
<1>2. PICK fifo : fifo = RemoveConfirmed(c.fifo_retr, p.cs)
  OBVIOUS
<1>3. PICK k \in 0 .. Len(c.fifo_retr) :
        /\ fifo \in Seq(Held)
        /\ Len(fifo) = Len(c.fifo_retr) - k
        /\ \A i \in 1 .. Len(c.fifo_retr) - k : fifo[i] = c.fifo_retr[k + i]
  <2>1. PICK old \in Seq(Held) : old = c.fifo_retr
    BY <1>1
  <2>2. PICK k \in 0 .. Len(old) :
          /\ RemoveConfirmed(old, p.cs) \in Seq(Held)
          /\ Len(RemoveConfirmed(old, p.cs)) = Len(old) - k
          /\ \A i \in 1 .. Len(old) - k : RemoveConfirmed(old, p.cs)[i] = old[k + i]
    BY RemoveConfirmedFacts
  <2>3. /\ fifo \in Seq(Held)
        /\ Len(fifo) = Len(old) - k
        /\ \A i \in 1 .. Len(old) - k : fifo[i] = old[k + i]
    BY <1>2, <2>1, <2>2
  <2> QED
    BY <2>1, <2>3
<1>4. PICK d : d = [c EXCEPT !.cs_r = p.cs, !.fifo_retr = fifo]
  OBVIOUS
<1>5. Confirm(c, p) = d
  BY <1>2, <1>4 DEF Confirm
<1>6. Len(fifo) <= RetrCap
  BY <1>1, <1>3, ConstantFacts
<1>7. d \in Whole /\ d.sn_t = c.sn_t /\ d.state = c.state /\ d.fifo_retr = fifo
  BY <1>3, <1>4, <1>6 DEF Whole, Records, Fits, NumberedPdus
<1>8. ASSUME Ordered(c) PROVE Ordered(d)
  <2>1. ASSUME NEW i \in 1 .. Len(fifo), NEW j \in 1 .. Len(fifo), i < j
        PROVE  fifo[i].sn < fifo[j].sn
    <3>1. /\ k + i \in 1 .. Len(c.fifo_retr) /\ k + j \in 1 .. Len(c.fifo_retr)
          /\ k + i < k + j
          /\ i \in 1 .. Len(c.fifo_retr) - k /\ j \in 1 .. Len(c.fifo_retr) - k
      BY <1>1, <1>3, <2>1
    <3> QED
      BY <1>3, <1>8, <3>1 DEF Ordered
  <2>2. ASSUME NEW i \in 1 .. Len(fifo) PROVE fifo[i].sn < c.sn_t
    <3>1. k + i \in 1 .. Len(c.fifo_retr) /\ i \in 1 .. Len(c.fifo_retr) - k
      BY <1>1, <1>3
    <3> QED
      BY <1>3, <1>8, <3>1 DEF Ordered
  <2> QED
    BY <1>7, <2>1, <2>2 DEF Ordered
<1> QED
  BY <1>5, <1>7, <1>8 DEF Later

(***************************************************************************)
(* sr_retransmit_data: what it sends, the fifo it fills again, and the     *)
(* number it leaves.                                                       *)
(***************************************************************************)
LEMMA RetrDataType ==
  ASSUME Times, NEW e \in Ends, NEW c \in Whole, NEW sn \in Numbers,
         NEW msgs \in Seq(Nat)
  PROVE  RetrData(e, c, sn, msgs) \in NumberedPdus
<1>1. c.cts_r \in Nat
  BY Fields
<1>2. PICK p \in NumberedPdus : p = Pdu(e, c, "RetrData", c.cts_r, msgs)
  BY <1>1, PduType, TypesExist
<1>3. RetrData(e, c, sn, msgs) = [p EXCEPT !.sn = sn]
  BY <1>2 DEF RetrData
<1> QED
  BY <1>3 DEF NumberedPdus

LEMMA RetransmitFacts ==
  ASSUME Times, NEW e \in Ends, NEW c \in Whole
  PROVE  \E d \in Whole, kept \in 0 .. Len(c.fifo_retr) + 1 :
           /\ Retransmit(e, c) = d
           /\ d.state = c.state
           /\ d.sn_t = Plus1((c.sn_t + Len(c.fifo_retr) + 1) % SnMod)
           /\ Len(d.fifo_retr) = kept
           /\ \A i \in 1 .. kept :
                d.fifo_retr[i].sn = (c.sn_t + (i - 1)) % SnMod
<1> DEFINE n == Len(c.fifo_retr)
           msgs(i) == IF i <= n THEN c.fifo_retr[i].msgs ELSE << >>
           sn(i) == (c.sn_t + (i - 1)) % SnMod
           data(i) == RetrData(e, c, sn(i), msgs(i))
           kept == IF n < RetrCap THEN n + 1 ELSE RetrCap
           sent == [i \in 1 .. n + 1 |-> [seq |-> c.tx + (i - 1), pdu |-> data(i)]]
           fifo == [i \in 1 .. kept |-> [sn |-> sn(i), msgs |-> msgs(i)]]
           d == [c EXCEPT !.sn_t = sn(n + 2), !.fifo_retr = fifo]
           f == IF c.channel
                THEN [d EXCEPT !.out = @ \o sent, !.tx = @ + n + 1] ELSE d
<1>1. Retransmit(e, c) = SendHeartbeat(e, f)
  BY DEF Retransmit
<1>2. n \in 0 .. RetrCap /\ RetrCap \in Nat
  BY Fields, ConstantFacts
<1>3. kept \in 0 .. n + 1 /\ kept \in Nat /\ kept <= RetrCap
  BY <1>2
<1>4. \A i \in 1 .. n + 1 : msgs(i) \in Seq(Nat)
  <2>1. ASSUME NEW i \in 1 .. n + 1 PROVE msgs(i) \in Seq(Nat)
    <3>1. CASE i <= n
      <4>1. i \in 1 .. Len(c.fifo_retr)
        BY <1>2, <3>1
      <4> QED
        BY <3>1, <4>1, HeldFacts
    <3>2. CASE ~(i <= n)
      BY <3>2
    <3> QED
      BY <3>1, <3>2
  <2> QED
    BY <2>1
<1>5. \A i \in 1 .. n + 2 : sn(i) \in Numbers
  <2>1. \A i \in 1 .. n + 2 : c.sn_t + (i - 1) \in Int
    BY <1>2, Fields DEF Numbers
  <2> QED
    BY <2>1, ModFacts
<1> HIDE DEF msgs, sn
<1>6. \A i \in 1 .. n + 1 : data(i) \in NumberedPdus
  <2>1. \A i \in 1 .. n + 1 : sn(i) \in Numbers
    BY <1>2, <1>5
  <2> QED
    BY <1>4, <2>1, RetrDataType
<1> HIDE DEF data, n
<1>7. sent \in Seq(Packets)
  <2>1. c.tx \in Nat
    BY Fields
  <2>2. \A i \in 1 .. n + 1 : [seq |-> c.tx + (i - 1), pdu |-> data(i)] \in Packets
    BY <1>2, <1>6, <2>1 DEF Packets
  <2> QED
    BY <1>2, <2>2
<1>8. fifo \in Seq(Held) /\ Len(fifo) = kept /\ \A i \in 1 .. kept : fifo[i].sn = sn(i)
  <2>1. \A i \in 1 .. kept : [sn |-> sn(i), msgs |-> msgs(i)] \in Held
    <3>1. \A i \in 1 .. kept : i \in 1 .. n + 1 /\ i \in 1 .. n + 2
      BY <1>2, <1>3
    <3> QED
      BY <1>4, <1>5, <3>1 DEF Held
  <2> QED
    BY <1>3, <2>1
<1>9. sn(n + 2) \in Numbers
  <2>1. n + 2 \in 1 .. n + 2
    BY <1>2
  <2> QED
    BY <1>5, <2>1
<1> HIDE DEF fifo, sent, kept
<1>10. /\ d \in Whole /\ d.sn_t = sn(n + 2) /\ d.fifo_retr = fifo
       /\ d.state = c.state /\ d.out = c.out /\ d.tx = c.tx
  BY <1>3, <1>8, <1>9 DEF Whole, Records, Fits
<1> HIDE DEF d
<1>11. f \in Whole /\ f.sn_t = sn(n + 2) /\ f.fifo_retr = fifo /\ f.state = c.state
  <2>1. CASE c.channel
    <3>1. PICK out \in Seq(Packets) : out = d.out \o sent
      <4>1. c.out \in Seq(Packets)
        BY Fields
      <4>2. d.out \o sent \in Seq(Packets)
        BY <1>7, <1>10, <4>1, ConcatProperties
      <4> QED
        BY <4>2
    <3>2. PICK tx \in Nat : tx = d.tx + n + 1
      <4>1. c.tx \in Nat
        BY Fields
      <4>2. d.tx + n + 1 \in Nat
        BY <1>2, <1>10, <4>1
      <4> QED
        BY <4>2
    <3>3. f = [d EXCEPT !.out = out, !.tx = tx]
      BY <2>1, <3>1, <3>2
    <3> HIDE DEF f
    <3> QED
      BY <1>10, <3>3 DEF Whole, Records, Fits
  <2>2. CASE ~c.channel
    BY <1>10, <2>2
  <2> QED
    BY <2>1, <2>2
<1> HIDE DEF f
<1>12. PICK r \in Whole : r = Retransmit(e, c) /\ SentOne(f, r)
  BY <1>1, <1>11, SendHeartbeatKeeps DEF SentOne
<1>13. sn(n + 2) = (c.sn_t + n + 1) % SnMod
  <2>1. (n + 2) - 1 = n + 1
    BY <1>2
  <2>2. c.sn_t + (n + 1) = c.sn_t + n + 1
    <3>1. c.sn_t \in Numbers
      BY Fields
    <3>2. c.sn_t \in Int /\ n \in Int
      BY <1>2, <3>1 DEF Numbers
    <3> QED
      BY <3>2
  <2> QED
    BY <2>1, <2>2 DEF sn
<1>14. /\ r.state = c.state /\ r.sn_t = Plus1((c.sn_t + n + 1) % SnMod)
       /\ r.fifo_retr = fifo
  BY <1>11, <1>12, <1>13 DEF SentOne
<1>15. Len(r.fifo_retr) = kept /\ \A i \in 1 .. kept : r.fifo_retr[i].sn = sn(i)
  BY <1>8, <1>14
<1> QED
  BY <1>3, <1>12, <1>14, <1>15 DEF n, sn

\* Once around is the number smaller than before: unless it is, what
\* Retransmit has filled the fifo with is in order.
LEMMA RetransmitOrdered ==
  ASSUME Times, NEW e \in Ends, NEW c \in Whole, NEW old \in Numbers,
         c.sn_t = old \/ c.sn_t = Plus1(old),
         Retransmit(e, c).sn_t >= old
  PROVE  Ordered(Retransmit(e, c))
<1>1. PICK d \in Whole, kept \in 0 .. Len(c.fifo_retr) + 1 :
        /\ Retransmit(e, c) = d
        /\ d.sn_t = Plus1((c.sn_t + Len(c.fifo_retr) + 1) % SnMod)
        /\ Len(d.fifo_retr) = kept
        /\ \A i \in 1 .. kept : d.fifo_retr[i].sn = (c.sn_t + (i - 1)) % SnMod
  BY RetransmitFacts
<1>2. PICK n \in 0 .. RetrCap : n = Len(c.fifo_retr)
  BY Fields
<1>3. PICK s \in Numbers : s = c.sn_t
  BY Fields
<1>4. RetrCap \in Nat /\ SnMod \in Nat /\ RetrCap + 3 < SnMod
  BY ConstantFacts, RetrCapAssumption
<1>5. s \in Nat /\ s < SnMod /\ old \in Nat /\ old < SnMod /\ n \in Nat
  BY <1>2, <1>4 DEF Numbers
<1>6. s = old + 1 \/ s = old \/ (s = 0 /\ old = SnMod - 1)
  <2>1. Plus1(old) = old + 1 \/ (Plus1(old) = 0 /\ old = SnMod - 1)
    <3>1. CASE old + 1 \in Numbers
      BY <1>5, <3>1, ModFacts DEF Plus1
    <3>2. CASE old + 1 \notin Numbers
      <4>1. old + 1 = SnMod /\ SnMod \in SnMod .. 2 * SnMod - 1 /\ SnMod - SnMod = 0
        BY <1>4, <1>5, <3>2 DEF Numbers
      <4> QED
        BY <1>4, <1>5, <4>1, ModFacts DEF Plus1
    <3> QED
      BY <3>1, <3>2
  <2> QED
    BY <1>3, <2>1
<1>7. PICK t \in Numbers : t = (s + n + 1) % SnMod
  <2>1. s + n + 1 \in Int
    BY <1>5
  <2> QED
    BY <2>1, ModFacts
<1>8. d.sn_t = Plus1(t) /\ Plus1(t) >= old
  BY <1>1, <1>2, <1>3, <1>7
<1>9. s + n + 2 < SnMod
  <2>1. SUFFICES ASSUME s + n + 2 >= SnMod PROVE FALSE
    BY <1>4, <1>5
  <2>2. Plus1(t) = s + n + 2 - SnMod
    <3>1. CASE s + n + 1 >= SnMod
      <4>1. s + n + 1 \in SnMod .. 2 * SnMod - 1
        BY <1>2, <1>4, <1>5, <3>1
      <4>2. t = s + n + 1 - SnMod
        <5>1. PICK x \in Int : x = s + n + 1
          BY <1>5
        <5>2. x % SnMod = x - SnMod
          BY <4>1, <5>1, ModFacts
        <5> QED
          BY <1>4, <1>5, <1>7, <5>1, <5>2
      <4>3. t + 1 \in Numbers /\ t + 1 = s + n + 2 - SnMod
        BY <1>2, <1>4, <1>5, <4>1, <4>2 DEF Numbers
      <4> QED
        BY <4>3, ModFacts DEF Plus1, Numbers
    <3>2. CASE s + n + 1 < SnMod
      <4>1. s + n + 1 \in Numbers /\ s + n + 1 \in Int
        BY <1>4, <1>5, <3>2 DEF Numbers
      <4>2. t = s + n + 1
        BY <1>7, <4>1, ModFacts
      <4>3. t + 1 = SnMod /\ t + 1 \in SnMod .. 2 * SnMod - 1
        BY <1>4, <1>5, <2>1, <3>2, <4>2
      <4>4. Plus1(t) = t + 1 - SnMod
        <5>1. PICK x \in Int : x = t + 1
          BY <1>4, <4>3
        <5>2. x % SnMod = x - SnMod
          BY <4>3, <5>1, ModFacts
        <5> QED
          BY <1>4, <5>1, <5>2 DEF Plus1, Numbers
      <4>5. t + 1 - SnMod = s + n + 2 - SnMod
        BY <1>4, <1>5, <4>2
      <4> QED
        BY <4>4, <4>5
    <3> QED
      BY <1>4, <1>5, <3>1, <3>2
  <2>3. s + n + 2 - SnMod < old
    BY <1>2, <1>4, <1>5, <1>6, <2>1
  <2> QED
    BY <1>4, <1>5, <1>8, <2>2, <2>3
<1>10. d.sn_t = s + n + 2
  <2>1. s + n + 1 \in Numbers /\ s + n + 1 \in Int /\ s + n + 2 \in Numbers
    BY <1>4, <1>5, <1>9 DEF Numbers
  <2>2. t = s + n + 1
    BY <1>7, <2>1, ModFacts
  <2>3. t + 1 = s + n + 2 /\ t + 1 \in Int
    BY <1>5, <2>2
  <2> QED
    BY <1>8, <2>1, <2>3, ModFacts DEF Plus1
<1>11. \A i \in 1 .. kept : d.fifo_retr[i].sn = s + (i - 1)
  <2>1. ASSUME NEW i \in 1 .. kept PROVE (s + (i - 1)) % SnMod = s + (i - 1)
    <3>1. s + (i - 1) \in Numbers /\ s + (i - 1) \in Int
      BY <1>1, <1>2, <1>4, <1>5, <1>9 DEF Numbers
    <3> QED
      BY <3>1, ModFacts
  <2> QED
    BY <1>1, <1>3, <2>1
<1>12. kept \in Nat /\ kept <= n + 1
  BY <1>1, <1>2
<1>13. \A i \in 1 .. kept : d.fifo_retr[i].sn < d.sn_t
  BY <1>5, <1>10, <1>11, <1>12
<1>14. \A i, j \in 1 .. kept : i < j => d.fifo_retr[i].sn < d.fifo_retr[j].sn
  BY <1>5, <1>11, <1>12
<1> QED
  BY <1>1, <1>13, <1>14 DEF Ordered

\* Retransmit after a RetrResp with the number c.sn_t.
LEMMA RetransmitIsResult ==
  ASSUME Times, NEW e \in Ends, NEW c \in Whole, NEW r \in Whole,
         r.sn_t = Plus1(c.sn_t), r.state # "NONE"
  PROVE  Result(c, Retransmit(e, r)) /\ Retransmit(e, r).state = r.state
<1>1. PICK d \in Whole : d = Retransmit(e, r) /\ d.state = r.state
  BY RetransmitFacts
<1>2. ASSUME d.fifo_retr # << >> => d.sn_t >= c.sn_t PROVE Ordered(d)
  <2>1. CASE d.fifo_retr = << >>
    BY <2>1, EmptyIsOrdered
  <2>2. CASE d.sn_t >= c.sn_t
    <3>1. c.sn_t \in Numbers
      BY Fields
    <3> QED
      BY <1>1, <2>2, <3>1, RetransmitOrdered
  <2> QED
    BY <1>2, <2>1, <2>2
<1> QED
  BY <1>1, <1>2 DEF Result

-----------------------------------------------------------------------------
(***************************************************************************)
(* The handlers: each ends the reception with a record that is a Result.   *)
(***************************************************************************)
Completed(e, c) == \E d : Result(c, d) /\ Answer(e, d)

LEMMA CloseEnds ==
  ASSUME Times, NEW e \in Ends, NEW c \in Whole
  PROVE  Result(c, CloseConnection(e, c)) /\ Result(c, c)
<1>1. Kept(c, c)
  BY DEF Kept
<1> QED
  BY <1>1, CloseConnectionKeeps, KeptIsResult

LEMMA ConReqEnds ==
  ASSUME Times, NEW e \in Ends, NEW c \in Whole, NEW p \in NumberedPdus,
         HandleConReq(e, c, p)
  PROVE  Completed(e, c)
<1>1. CASE c.state \in Open /\ Answer(e, CloseConnection(e, c))
  BY <1>1, CloseEnds DEF Completed
<1>2. ASSUME c.state \in {"NONE", "CLOSED"}, ~(c.state \in Open /\ Answer(e, CloseConnection(e, c)))
      PROVE  Completed(e, c)
  <2> DEFINE new == [Take(c, p) EXCEPT
                       !.state = "START", !.role = "server",
                       !.sn_t = InitSn[e], !.cs_r = Minus(InitSn[e], 1),
                       !.cts_r = p.cts, !.armed = FALSE,
                       !.fifo_send = << >>, !.fifo_retr = << >>, !.quit = FALSE]
             next == [new EXCEPT !.sn_t = Plus1(@)]
  <2>1. PICK d \in Notified(e, next) :
          Answer(e, MuxSend(d, Pdu(e, new, "ConResp", p.cts, << >>)))
    BY <1>2 DEF HandleConReq
  <2>2. PICK t \in Whole : t = Take(c, p)
    BY TakeKeeps DEF Kept
  <2>3. PICK sn \in Numbers : sn = InitSn[e]
    BY ConstantFacts
  <2>4. PICK cs \in Numbers : cs = Minus(sn, 1)
    BY <2>3, NumbersAreClosed
  <2>5. PICK cts \in Nat : cts = p.cts
    BY DEF NumberedPdus
  <2>6. new = [t EXCEPT !.state = "START", !.role = "server", !.sn_t = sn, !.cs_r = cs,
                        !.cts_r = cts, !.armed = FALSE,
                        !.fifo_send = << >>, !.fifo_retr = << >>, !.quit = FALSE]
    BY <2>2, <2>3, <2>4, <2>5
  <2> HIDE DEF new
  <2>7. new \in Whole /\ new.fifo_retr = << >> /\ new.state = "START"
    <3>1. new \in Records /\ new.fifo_retr = << >> /\ new.state = "START"
      <4>1. PICK u : u = [t EXCEPT !.state = "START", !.role = "server", !.sn_t = sn,
                                   !.cs_r = cs, !.cts_r = cts, !.armed = FALSE]
        OBVIOUS
      <4>2. u \in Records /\ u.state = "START"
        BY <4>1 DEF Whole, Records, States
      <4>3. << >> \in Seq(Nat) /\ << >> \in Seq(Held)
        OBVIOUS
      <4>4. PICK nil : nil = << >> /\ nil \in Seq(Nat) /\ nil \in Seq(Held)
        BY <4>3
      <4>5. new = [u EXCEPT !.fifo_send = nil, !.fifo_retr = nil, !.quit = FALSE]
        BY <2>6, <4>1, <4>4 DEF Whole, Records
      <4> QED
        BY <4>2, <4>4, <4>5 DEF Records
    <3>2. new.fifo_send = << >>
      BY <2>6 DEF Whole, Records
    <3>3. Fits(new)
      BY <3>1, <3>2, ConstantFacts DEF Fits
    <3> QED
      BY <3>1, <3>3 DEF Whole
  <2>8. PICK n \in Numbers : n = Plus1(new.sn_t)
    BY <2>7, Fields, NumbersAreClosed
  <2>9. next = [new EXCEPT !.sn_t = n]
    BY <2>8
  <2> HIDE DEF next
  <2>10. next \in Whole /\ next.fifo_retr = << >> /\ next.state = "START"
    BY <2>7, <2>9 DEF Whole, Records, Fits
  <2>11. Kept(next, d)
    BY <2>1, <2>10, NotifiedKeeps
  <2>12. PICK pdu \in NumberedPdus : pdu = Pdu(e, new, "ConResp", p.cts, << >>)
    <3>1. p.cts \in Nat
      BY DEF NumberedPdus
    <3> QED
      BY <2>7, <3>1, TypesExist, PduType
  <2>13. PICK f : f = MuxSend(d, pdu)
    OBVIOUS
  <2>14. Kept(d, f)
    BY <2>11, <2>13, MuxSendKeeps DEF Kept
  <2>15. f \in Whole /\ f.fifo_retr = << >> /\ f.state # "NONE"
    BY <2>10, <2>11, <2>14 DEF Kept
  <2>16. Result(c, f)
    BY <2>15, EmptyIsOrdered DEF Result
  <2> QED
    BY <2>1, <2>12, <2>13, <2>16 DEF Completed
<1> QED
  BY <1>1, <1>2 DEF HandleConReq

\* The end of a handshake: the application is told, and the timers start.
LEMMA UpKeeps ==
  ASSUME Times, NEW e \in Ends, NEW c \in Whole, NEW d \in Notified(e, c)
  PROVE  Kept(c, StartEvents(d))
<1>1. Kept(c, d)
  BY NotifiedKeeps
<1>2. Kept(d, StartEvents(d))
  BY <1>1, StartEventsKeeps DEF Kept
<1> QED
  BY <1>1, <1>2 DEF Kept

LEMMA ConRespEnds ==
  ASSUME Times, NEW e \in Ends, NEW c \in Whole, NEW p \in NumberedPdus,
         c.state # "NONE", HandleConResp(e, c, p)
  PROVE  Completed(e, c)
<1>1. CASE Answer(e, CloseConnection(e, c)) \/ Answer(e, c)
  BY <1>1, CloseEnds DEF Completed
<1>2. ASSUME ~(Answer(e, CloseConnection(e, c)) \/ Answer(e, c))
      PROVE  Completed(e, c)
  <2> DEFINE confirmed == [Take(c, p) EXCEPT !.cs_r = p.cs]
             up == SendHeartbeat(e, confirmed)
             told == [up EXCEPT !.state = "UP"]
  <2>1. PICK d \in Notified(e, told) : Answer(e, StartEvents(d))
    BY <1>2 DEF HandleConResp
  <2>2. PICK t \in Whole : t = Take(c, p) /\ Kept(c, t)
    BY TakeKeeps DEF Kept
  <2>3. confirmed \in Whole /\ Kept(c, confirmed)
    BY <2>2 DEF Whole, Records, Fits, NumberedPdus, Kept
  <2> HIDE DEF confirmed
  <2>4. SentOne(confirmed, up)
    BY <2>3, SendHeartbeatKeeps
  <2>5. Result(confirmed, up) /\ up \in Whole
    BY <2>3, <2>4, SentOneIsResult DEF SentOne
  <2> HIDE DEF up
  <2>6. told \in Whole /\ Kept(up, told)
    BY <2>5 DEF Whole, Records, Fits, Kept, States
  <2> HIDE DEF told
  <2>7. Kept(told, StartEvents(d))
    BY <2>1, <2>6, UpKeeps
  <2>8. Result(confirmed, told)
    BY <2>5, <2>6, ResultThenKept
  <2>9. Result(confirmed, StartEvents(d))
    BY <2>7, <2>8, ResultThenKept
  <2>10. Result(c, StartEvents(d))
    BY <2>3, <2>9, KeptThenResult
  <2> QED
    BY <2>1, <2>10 DEF Completed
<1> QED
  BY <1>1, <1>2

LEMMA DiscReqEnds ==
  ASSUME Times, NEW e \in Ends, NEW c \in Whole, NEW p \in NumberedPdus,
         HandleDiscReq(e, c, p)
  PROVE  Completed(e, c)
<1>1. PICK d \in Whole : d = [c EXCEPT !.state = "CLOSED", !.armed = FALSE] /\ Kept(c, d)
  <2>1. PICK d : d = [c EXCEPT !.state = "CLOSED", !.armed = FALSE]
    OBVIOUS
  <2>2. d \in Whole /\ Kept(c, d)
    BY <2>1 DEF Whole, Records, Fits, Kept, States
  <2> QED
    BY <2>1, <2>2
<1>2. Result(c, RemoveChannel(d))
  BY <1>1, RemoveChannelKeeps, KeptIsResult, KeptThenResult DEF Kept
<1>3. Answer(e, RemoveChannel(d))
  BY <1>1 DEF HandleDiscReq
<1> QED
  BY <1>2, <1>3 DEF Completed

LEMMA HbInStartEnds ==
  ASSUME Times, NEW e \in Ends, NEW c \in Whole, NEW p \in NumberedPdus,
         HandleHbInStart(e, c, p)
  PROVE  Completed(e, c)
<1>1. PICK d \in Whole :
        /\ d = IF c.role = "client" \/ ~SnInSeq(c, p) THEN CloseConnection(e, c) ELSE c
        /\ Kept(c, d)
  <2>1. Kept(c, c)
    BY DEF Kept
  <2> QED
    BY <2>1, CloseConnectionKeeps DEF Kept
<1>2. CASE Answer(e, CloseConnection(e, d))
  <2>1. Result(c, CloseConnection(e, d))
    BY <1>1, CloseEnds, KeptThenResult
  <2> QED
    BY <1>2, <2>1 DEF Completed
<1>3. ASSUME ~Answer(e, CloseConnection(e, d)) PROVE Completed(e, c)
  <2> DEFINE told == [Take(d, p) EXCEPT !.cs_r = p.cs, !.state = "UP"]
  <2>1. PICK up \in Notified(e, told) : Answer(e, StartEvents(up))
    BY <1>1, <1>3 DEF HandleHbInStart
  <2>2. PICK t \in Whole : t = Take(d, p) /\ Kept(d, t)
    BY TakeKeeps DEF Kept
  <2>3. told \in Whole /\ Kept(d, told)
    BY <2>2 DEF Whole, Records, Fits, NumberedPdus, Kept, States
  <2> HIDE DEF told
  <2>4. Kept(told, StartEvents(up))
    BY <2>1, <2>3, UpKeeps
  <2>5. Kept(c, StartEvents(up))
    BY <1>1, <2>3, <2>4 DEF Kept
  <2> QED
    BY <2>1, <2>5, KeptIsResult DEF Completed
<1> QED
  BY <1>2, <1>3

LEMMA HbEnds ==
  ASSUME Times, NEW e \in Ends, NEW c \in Whole, NEW p \in NumberedPdus,
         HandleHb(e, c, p)
  PROVE  Completed(e, c)
<1>1. CASE Answer(e, CloseConnection(e, c)) \/ Answer(e, c)
  BY <1>1, CloseEnds DEF Completed
<1>2. CASE HandleHbInStart(e, c, p)
  BY <1>2, HbInStartEnds
<1>3. CASE Answer(e, [c EXCEPT !.state = "RETRREQ"])
  <2>1. PICK d : d = [c EXCEPT !.state = "RETRREQ"]
    OBVIOUS
  <2>2. Kept(c, d)
    BY <2>1 DEF Whole, Records, Fits, Kept, States
  <2> QED
    BY <1>3, <2>1, <2>2, KeptIsResult DEF Completed
<1>4. CASE Answer(e, [UpdateTI(Take(c, p)) EXCEPT
                        !.cs_r = Minus(c.sn_t, 1), !.cts_r = p.cts, !.state = "UP"])
  <2>1. PICK t \in Whole : t = Take(c, p) /\ Kept(c, t)
    BY TakeKeeps DEF Kept
  <2>2. PICK u \in Whole : u = UpdateTI(t) /\ Kept(t, u)
    BY UpdateTIKeeps DEF Kept
  <2>3. PICK cs \in Numbers : cs = Minus(c.sn_t, 1)
    BY Fields, NumbersAreClosed
  <2>4. PICK d : d = [u EXCEPT !.cs_r = cs, !.cts_r = p.cts, !.state = "UP"]
    OBVIOUS
  <2>5. Kept(u, d)
    BY <2>3, <2>4 DEF Whole, Records, Fits, NumberedPdus, Kept, States
  <2>6. Kept(c, d)
    BY <2>1, <2>2, <2>5 DEF Kept
  <2>7. Answer(e, d)
    BY <1>4, <2>1, <2>2, <2>3, <2>4
  <2> QED
    BY <2>6, <2>7, KeptIsResult DEF Completed
<1> QED
  BY <1>1, <1>2, <1>3, <1>4 DEF HandleHb

\* A request for retransmission, after which the connection waits for its answer.
LEMMA RetrReqSent ==
  ASSUME Times, NEW e \in Ends, NEW c \in Whole,
         Answer(e, [SendRetrReq(e, c) EXCEPT !.state = "RETRREQ"])
  PROVE  Completed(e, c)
<1>1. PICK r \in Whole : r = SendRetrReq(e, c) /\ SentOne(c, r)
  BY SendRetrKeeps DEF SentOne
<1>2. PICK d : d = [r EXCEPT !.state = "RETRREQ"]
  OBVIOUS
<1>3. Kept(r, d)
  BY <1>2 DEF Whole, Records, Fits, Kept, States
<1>4. Result(c, d)
  BY <1>1, <1>3, SentOneIsResult, ResultThenKept
<1>5. Answer(e, d)
  BY <1>1, <1>2
<1> QED
  BY <1>4, <1>5 DEF Completed

LEMMA LaterIsResult ==
  ASSUME NEW c \in Whole, NEW d, NEW f, NEW g,
         Kept(c, d), Later(d, f), Kept(f, g), c.state # "NONE"
  PROVE  Result(c, g)
<1>1. Result(c, f)
  <2>1. d \in Whole /\ d.sn_t = c.sn_t /\ d.fifo_retr = c.fifo_retr /\ d.state # "NONE"
    BY DEF Kept
  <2>2. Ordered(c) => Ordered(d)
    BY <2>1 DEF Ordered
  <2> QED
    BY <2>1, <2>2 DEF Later, Result
<1> QED
  BY <1>1, ResultThenKept

LEMMA DataEnds ==
  ASSUME Times, NEW e \in Ends, NEW c \in Whole, NEW p \in NumberedPdus,
         c.state # "NONE", HandleData(e, c, p)
  PROVE  Completed(e, c)
<1>1. CASE Answer(e, CloseConnection(e, c)) \/ Answer(e, c)
  BY <1>1, CloseEnds DEF Completed
<1>2. CASE Answer(e, [SendRetrReq(e, c) EXCEPT !.state = "RETRREQ"])
  BY <1>2, RetrReqSent
<1>3. CASE Answer(e, Take(c, p))
  BY <1>3, TakeKeeps, KeptIsResult DEF Completed
<1>4. CASE \E d \in AddAppMessages(e, c, p) :
             Answer(e, [Confirm(Take(d, p), p) EXCEPT !.cts_r = p.cts])
  <2>1. PICK d \in AddAppMessages(e, c, p) :
          Answer(e, [Confirm(Take(d, p), p) EXCEPT !.cts_r = p.cts])
    BY <1>4
  <2>2. Kept(c, d)
    BY <2>1, AddAppMessagesKeeps
  <2>3. PICK t \in Whole : t = Take(d, p) /\ Kept(d, t)
    BY <2>2, TakeKeeps DEF Kept
  <2>4. PICK f \in Whole : f = Confirm(t, p) /\ Later(t, f)
    BY ConfirmIsLater DEF Later
  <2>5. PICK g : g = [f EXCEPT !.cts_r = p.cts]
    OBVIOUS
  <2>6. Kept(f, g)
    BY <2>5 DEF Whole, Records, Fits, NumberedPdus, Kept
  <2>7. Kept(c, t)
    BY <2>2, <2>3 DEF Kept
  <2>8. Result(c, g)
    BY <2>4, <2>6, <2>7, LaterIsResult
  <2>9. Answer(e, g)
    BY <2>1, <2>3, <2>4, <2>5
  <2> QED
    BY <2>8, <2>9 DEF Completed
<1> QED
  BY <1>1, <1>2, <1>3, <1>4 DEF HandleData

LEMMA RetrReqEnds ==
  ASSUME Times, NEW e \in Ends, NEW c \in Whole, NEW p \in NumberedPdus,
         c.state # "NONE", HandleRetrReq(e, c, p)
  PROVE  Completed(e, c)
<1>1. ASSUME NEW d \in Whole, d.sn_t = c.sn_t, d.state # "NONE"
      PROVE  LET q == Retransmit(e, SendRetrResp(e, Confirm(d, p)))
             IN  q \in Whole /\ Result(c, q) /\ q.state # "NONE"
  <2>1. PICK f \in Whole : f = Confirm(d, p) /\ f.sn_t = c.sn_t /\ f.state # "NONE"
    BY <1>1, ConfirmIsLater DEF Later
  <2>2. PICK r \in Whole : r = SendRetrResp(e, f) /\ SentOne(f, r)
    BY SendRetrKeeps DEF SentOne
  <2>3. r.sn_t = Plus1(c.sn_t) /\ r.state # "NONE"
    BY <2>1, <2>2 DEF SentOne
  <2>4. Result(c, Retransmit(e, r)) /\ Retransmit(e, r).state # "NONE"
    BY <2>3, RetransmitIsResult
  <2> QED
    BY <2>1, <2>2, <2>4 DEF Result
<1>2. CASE SnInSeq(c, p)
  <2>1. PICK d \in Whole :
          /\ d = IF c.state = "RETRRUN" THEN CloseConnection(e, c) ELSE c
          /\ Kept(c, d)
    <3>1. Kept(c, c)
      BY DEF Kept
    <3> QED
      BY <3>1, CloseConnectionKeeps DEF Kept
  <2>2. PICK t \in Whole : t = Take(d, p) /\ Kept(d, t)
    BY TakeKeeps DEF Kept
  <2>3. t.sn_t = c.sn_t /\ t.state # "NONE"
    BY <2>1, <2>2 DEF Kept
  <2>4. PICK q : q = Retransmit(e, SendRetrResp(e, Confirm(t, p)))
    OBVIOUS
  <2>5. Result(c, q)
    BY <1>1, <2>3, <2>4
  <2>6. Answer(e, q)
    BY <1>2, <2>1, <2>2, <2>4 DEF HandleRetrReq
  <2> QED
    BY <2>5, <2>6 DEF Completed
<1>3. CASE ~SnInSeq(c, p)
  <2>1. PICK q \in Whole : /\ q = Retransmit(e, SendRetrResp(e, Confirm(c, p)))
                           /\ Result(c, q)
    BY <1>1
  <2>2. PICK f : f = [q EXCEPT !.state = "RETRREQ"]
    OBVIOUS
  <2>3. Kept(q, f)
    BY <2>2 DEF Whole, Records, Fits, Kept, States
  <2>4. Result(c, f)
    BY <2>1, <2>3, ResultThenKept
  <2>5. Answer(e, f)
    BY <1>3, <2>1, <2>2 DEF HandleRetrReq
  <2> QED
    BY <2>4, <2>5 DEF Completed
<1> QED
  BY <1>2, <1>3

LEMMA RetrRespEnds ==
  ASSUME Times, NEW e \in Ends, NEW c \in Whole, NEW p \in NumberedPdus,
         HandleRetrResp(e, c, p)
  PROVE  Completed(e, c)
<1>1. CASE Answer(e, CloseConnection(e, c))
  BY <1>1, CloseEnds DEF Completed
<1>2. CASE Answer(e, [Take(c, p) EXCEPT
                        !.state = "RETRRUN",
                        !.cs_r = Minus(c.sn_t, 1), !.cts_r = p.cts])
  <2>1. PICK t \in Whole : t = Take(c, p) /\ Kept(c, t)
    BY TakeKeeps DEF Kept
  <2>2. PICK cs \in Numbers : cs = Minus(c.sn_t, 1)
    BY Fields, NumbersAreClosed
  <2>3. PICK d : d = [t EXCEPT !.state = "RETRRUN", !.cs_r = cs, !.cts_r = p.cts]
    OBVIOUS
  <2>4. Kept(t, d)
    BY <2>2, <2>3 DEF Whole, Records, Fits, NumberedPdus, Kept, States
  <2>5. Kept(c, d)
    BY <2>1, <2>4 DEF Kept
  <2>6. Answer(e, d)
    BY <1>2, <2>1, <2>2, <2>3
  <2> QED
    BY <2>5, <2>6, KeptIsResult DEF Completed
<1> QED
  BY <1>1, <1>2 DEF HandleRetrResp

LEMMA RetrDataEnds ==
  ASSUME Times, NEW e \in Ends, NEW c \in Whole, NEW p \in NumberedPdus,
         HandleRetrData(e, c, p)
  PROVE  Completed(e, c)
<1>1. CASE Answer(e, CloseConnection(e, c)) \/ Answer(e, c)
  BY <1>1, CloseEnds DEF Completed
<1>2. CASE Answer(e, [SendRetrReq(e, c) EXCEPT !.state = "RETRREQ"])
  BY <1>2, RetrReqSent
<1>3. CASE \E d \in AddAppMessages(e, c, p) : Answer(e, [Take(d, p) EXCEPT !.cs_r = p.cs])
  <2>1. PICK d \in AddAppMessages(e, c, p) : Answer(e, [Take(d, p) EXCEPT !.cs_r = p.cs])
    BY <1>3
  <2>2. Kept(c, d)
    BY <2>1, AddAppMessagesKeeps
  <2>3. PICK t \in Whole : t = Take(d, p) /\ Kept(d, t)
    BY <2>2, TakeKeeps DEF Kept
  <2>4. PICK f : f = [t EXCEPT !.cs_r = p.cs]
    OBVIOUS
  <2>5. Kept(t, f)
    BY <2>4 DEF Whole, Records, Fits, NumberedPdus, Kept
  <2>6. Kept(c, f)
    BY <2>2, <2>3, <2>5 DEF Kept
  <2>7. Answer(e, f)
    BY <2>1, <2>3, <2>4
  <2> QED
    BY <2>6, <2>7, KeptIsResult DEF Completed
<1> QED
  BY <1>1, <1>2, <1>3 DEF HandleRetrData

LEMMA ProcessEnds ==
  ASSUME Times, NEW e \in Ends, NEW c \in Whole, NEW p \in NumberedPdus,
         Process(e, c, p)
  PROVE  Completed(e, c)
<1>1. CASE HandleConReq(e, c, p)
  BY <1>1, ConReqEnds
<1>2. CASE Answer(e, c)
  BY <1>2, CloseEnds DEF Completed
<1>3. CASE c.state # "NONE" /\ HandleConResp(e, c, p)
  BY <1>3, ConRespEnds
<1>4. CASE /\ c.state # "NONE"
           /\ \/ HandleRetrData(e, c, p) \/ HandleData(e, c, p)
              \/ HandleRetrReq(e, c, p)  \/ HandleRetrResp(e, c, p)
              \/ HandleDiscReq(e, c, p)  \/ HandleHb(e, c, p)
  BY <1>4, RetrDataEnds, DataEnds, RetrReqEnds, RetrRespEnds, DiscReqEnds, HbEnds
<1> QED
  BY <1>1, <1>2, <1>3, <1>4 DEF Process

-----------------------------------------------------------------------------
(***************************************************************************)
(* The inductive invariant, in two parts: the types, with every number in  *)
(* the range of a uint32_t and nothing held for a peer that is not in the  *)
(* list; and the order of fifo_retr, which only a step after which the     *)
(* next number is not less than before is known to keep.                   *)
(***************************************************************************)
TypeInv ==
  /\ con \in [Ends -> Whole]
  /\ \A e \in Ends : /\ con[e].out = << >>
                     /\ con[e].state = "NONE" => con[e].fifo_retr = << >>
  /\ net \in [Ends -> Seq(Packets)]
  /\ now \in 0 .. MaxTime
  /\ drops \in 0 .. MaxDrops
  /\ stops \in 0 .. MaxStops

OrderInv == \A e \in Ends : Ordered(con[e])

NumbersGrow ==
  \A e \in Ends : con'[e].fifo_retr # << >> => con'[e].sn_t >= con[e].sn_t

\* What every step of an endpoint does to the two parts.
Keeps == TypeInv' /\ (OrderInv /\ NumbersGrow => OrderInv')

LEMMA InvTimes ==
  ASSUME TypeInv
  PROVE  Times
BY ConstantFacts DEF TypeInv, Times

LEMMA FifoMonotonic ==
  ASSUME NEW S, NEW T, S \subseteq T
  PROVE  Seq(S) \subseteq Seq(T)
<1>1. ASSUME NEW s \in Seq(S) PROVE s \in Seq(T)
  <2>1. \A i \in 1 .. Len(s) : s[i] \in T
    OBVIOUS
  <2> QED
    BY <2>1
<1> QED
  BY <1>1

LEMMA TypeInvImpliesTypeOK == TypeInv => TypeOK
<1> SUFFICES ASSUME TypeInv PROVE TypeOK
  OBVIOUS
<1>1. Numbers \subseteq Nat
  BY DEF Numbers
<1>2. Held \subseteq [sn : Nat, msgs : Seq(Nat)] /\ NumberedPdus \subseteq Pdus
  BY <1>1 DEF Held, NumberedPdus, Pdus
<1>3. Packets \subseteq [seq : Nat, pdu : Pdus]
  BY <1>2 DEF Packets
<1>4. ASSUME NEW e \in Ends
      PROVE  con[e] \in
       [state : States, role : {"client", "server"},
        sn_t : Nat, sn_r : Nat, cs_t : Nat, cs_r : Nat, ts_r : Nat,
        cts_r : Nat, fifo_send : Seq(Nat),
        fifo_retr : Seq([sn : Nat, msgs : Seq(Nat)]),
        armed : BOOLEAN, hb_call : Nat, ti_call : Nat, channel : BOOLEAN,
        tx : Nat, rx : Nat, out : {<< >>}, quit : BOOLEAN, asked : Nat,
        got : Seq(Nat)]
  <2>1. PICK c \in Records : c = con[e] /\ c.out = << >>
    BY DEF TypeInv, Whole
  <2>2. c.fifo_retr \in Seq([sn : Nat, msgs : Seq(Nat)])
    <3>1. c.fifo_retr \in Seq(Held)
      BY DEF Records
    <3>2. Seq(Held) \subseteq Seq([sn : Nat, msgs : Seq(Nat)])
      BY <1>2, FifoMonotonic
    <3> QED
      BY <3>1, <3>2
  <2> QED
    BY <1>1, <2>1, <2>2 DEF Records
<1>5. net \in [Ends -> Seq([seq : Nat, pdu : Pdus])]
  <2>1. ASSUME NEW e \in Ends PROVE net[e] \in Seq([seq : Nat, pdu : Pdus])
    <3>1. net[e] \in Seq(Packets)
      BY DEF TypeInv
    <3> QED
      BY <1>3, <3>1, FifoMonotonic
  <2> QED
    BY <2>1 DEF TypeInv
<1>6. con \in [Ends -> 
       [state : States, role : {"client", "server"},
        sn_t : Nat, sn_r : Nat, cs_t : Nat, cs_r : Nat, ts_r : Nat,
        cts_r : Nat, fifo_send : Seq(Nat),
        fifo_retr : Seq([sn : Nat, msgs : Seq(Nat)]),
        armed : BOOLEAN, hb_call : Nat, ti_call : Nat, channel : BOOLEAN,
        tx : Nat, rx : Nat, out : {<< >>}, quit : BOOLEAN, asked : Nat,
        got : Seq(Nat)]]
  BY <1>4 DEF TypeInv
<1>7. \A e \in Ends : Len(con[e].fifo_send) <= 2 * MaxPacket /\ Len(con[e].fifo_retr) <= RetrCap
  BY DEF TypeInv, Whole, Fits
<1> QED
  BY <1>5, <1>6, <1>7 DEF TypeOK, TypeInv

LEMMA OrderInvImpliesRetrInOrder == TypeInv /\ OrderInv => RetrInOrder
<1> SUFFICES ASSUME TypeInv, OrderInv, NEW e \in Ends
             PROVE  LET fifo == con[e].fifo_retr IN
                      /\ \A i, j \in 1 .. Len(fifo) : i < j => fifo[i].sn < fifo[j].sn
                      /\ \A i \in 1 .. Len(fifo) : fifo[i].sn < con[e].sn_t
  BY DEF RetrInOrder
<1> QED
  BY DEF OrderInv, Ordered

LEMMA InitInv == Init => TypeInv /\ OrderInv
<1> SUFFICES ASSUME Init PROVE TypeInv /\ OrderInv
  OBVIOUS
<1>1. /\ NoConnection \in Whole /\ NoConnection.out = << >>
      /\ NoConnection.fifo_retr = << >>
  <2>1. /\ << >> \in Seq(Nat) /\ << >> \in Seq(Held) /\ << >> \in Seq(Packets)
        /\ Len(<< >>) = 0
    OBVIOUS
  <2>2. NoConnection \in Records
    BY <2>1, ConstantFacts DEF NoConnection, Records, States
  <2>3. Fits(NoConnection)
    BY <2>1, ConstantFacts DEF NoConnection, Fits
  <2> QED
    BY <2>2, <2>3 DEF Whole, NoConnection
<1>2. \A e \in Ends : con[e] = NoConnection
  BY DEF Init
<1>3. TypeInv
  BY <1>1, <1>2, ConstantFacts DEF Init, TypeInv
<1>4. OrderInv
  BY <1>1, <1>2, EmptyIsOrdered DEF OrderInv
<1> QED
  BY <1>3, <1>4

(***************************************************************************)
(* The end of a step.                                                      *)
(***************************************************************************)
LEMMA RecordKept ==
  ASSUME TypeInv, NEW e \in Ends, NEW d, Result(con[e], d),
         con' = [con EXCEPT ![e] = [d EXCEPT !.out = << >>]]
  PROVE  /\ con' \in [Ends -> Whole]
         /\ \A x \in Ends : /\ con'[x].out = << >>
                            /\ con'[x].state = "NONE" => con'[x].fifo_retr = << >>
         /\ OrderInv /\ NumbersGrow => OrderInv'
<1>1. PICK f : f = [d EXCEPT !.out = << >>]
  OBVIOUS
<1>2. d \in Whole
  BY DEF Result
<1>3. /\ f \in Whole /\ f.out = << >> /\ f.state = d.state
      /\ f.fifo_retr = d.fifo_retr /\ f.sn_t = d.sn_t
  <2>1. << >> \in Seq(Packets)
    OBVIOUS
  <2> QED
    BY <1>1, <1>2, <2>1 DEF Whole, Records, Fits
<1>4. con' = [con EXCEPT ![e] = f]
  BY <1>1
<1>5. con'[e] = f /\ \A x \in Ends : x # e => con'[x] = con[x]
  BY <1>4 DEF TypeInv
<1>6. con' \in [Ends -> Whole]
  BY <1>3, <1>4 DEF TypeInv
<1>7. f.state = "NONE" => f.fifo_retr = << >>
  BY <1>3 DEF Result, TypeInv
<1>8. ASSUME NEW x \in Ends
      PROVE  /\ con'[x].out = << >>
             /\ con'[x].state = "NONE" => con'[x].fifo_retr = << >>
  BY <1>3, <1>5, <1>7 DEF TypeInv
<1>9. ASSUME OrderInv, NumbersGrow PROVE OrderInv'
  <2>1. Ordered(d)
    BY <1>3, <1>5, <1>9 DEF OrderInv, NumbersGrow, Result
  <2>2. Ordered(f)
    BY <1>3, <2>1 DEF Ordered
  <2>3. \A x \in Ends : Ordered(con'[x])
    BY <1>5, <1>9, <2>2 DEF OrderInv
  <2> QED
    BY <2>3 DEF OrderInv, Ordered
<1> QED
  BY <1>6, <1>8, <1>9

LEMMA EmitKeeps ==
  ASSUME TypeInv, NEW e \in Ends, NEW d, Result(con[e], d), Emit(e, d)
  PROVE  Keeps
<1>1. /\ con' \in [Ends -> Whole]
      /\ \A x \in Ends : /\ con'[x].out = << >>
                         /\ con'[x].state = "NONE" => con'[x].fifo_retr = << >>
      /\ OrderInv /\ NumbersGrow => OrderInv'
  BY RecordKept DEF Emit
<1>2. net' \in [Ends -> Seq(Packets)]
  <2>1. d.out \in Seq(Packets)
    BY Fields DEF Result
  <2>2. PICK more \in Seq(Packets) : more = net[Peer(e)] \o d.out
    <3>1. net[Peer(e)] \in Seq(Packets)
      BY ConstantFacts DEF TypeInv
    <3>2. net[Peer(e)] \o d.out \in Seq(Packets)
      BY <2>1, <3>1, ConcatProperties
    <3> QED
      BY <3>2
  <2>3. net' = [net EXCEPT ![Peer(e)] = more]
    BY <2>2 DEF Emit
  <2> QED
    BY <2>3 DEF TypeInv
<1> QED
  BY <1>1, <1>2 DEF Emit, Keeps, TypeInv

LEMMA AnswerKeeps ==
  ASSUME TypeInv, NEW e \in Ends, net[e] # << >>, NEW d, Result(con[e], d), Answer(e, d)
  PROVE  Keeps
<1>1. /\ con' \in [Ends -> Whole]
      /\ \A x \in Ends : /\ con'[x].out = << >>
                         /\ con'[x].state = "NONE" => con'[x].fifo_retr = << >>
      /\ OrderInv /\ NumbersGrow => OrderInv'
  BY RecordKept DEF Answer
<1>2. net' \in [Ends -> Seq(Packets)]
  <2>1. d.out \in Seq(Packets)
    BY Fields DEF Result
  <2>2. PICK more \in Seq(Packets) : more = net[Peer(e)] \o d.out
    <3>1. net[Peer(e)] \in Seq(Packets)
      BY ConstantFacts DEF TypeInv
    <3>2. net[Peer(e)] \o d.out \in Seq(Packets)
      BY <2>1, <3>1, ConcatProperties
    <3> QED
      BY <3>2
  <2>3. PICK rest \in Seq(Packets) : rest = Tail(net[e])
    <3>1. net[e] \in Seq(Packets)
      BY DEF TypeInv
    <3>2. Tail(net[e]) \in Seq(Packets)
      BY <3>1, HeadTailProperties
    <3> QED
      BY <3>2
  <2>4. net' = [net EXCEPT ![e] = rest, ![Peer(e)] = more]
    BY <2>2, <2>3, ConstantFacts DEF Answer, TypeInv
  <2> QED
    BY <2>4 DEF TypeInv
<1> QED
  BY <1>1, <1>2 DEF Answer, Keeps, TypeInv

(***************************************************************************)
(* The actions.                                                            *)
(***************************************************************************)
\* A handler works on a record whose fields apart from out are those of con[e].
LEMMA ArriveKeeps ==
  ASSUME TypeInv, NEW e \in Ends, net[e] # << >>
  PROVE  Kept(con[e], Arrive(e))
<1>1. PICK c \in Whole : c = con[e]
  BY DEF TypeInv
<1>2. PICK d : d = [c EXCEPT !.channel = TRUE]
  OBVIOUS
<1>3. Kept(c, d)
  BY <1>2 DEF Whole, Records, Fits, Kept
<1>4. CASE Accepts(d, Head(net[e]).seq)
  <2>1. Head(net[e]) \in Packets
    <3>1. net[e] \in Seq(Packets)
      BY DEF TypeInv
    <3> QED
      BY <3>1, HeadTailProperties
  <2>2. PICK rx \in Nat : rx = Head(net[e]).seq + 1
    BY <2>1 DEF Packets
  <2>3. Arrive(e) = [d EXCEPT !.rx = rx]
    BY <1>1, <1>2, <1>4, <2>2 DEF Arrive
  <2> QED
    BY <1>1, <1>3, <2>3 DEF Whole, Records, Fits, Kept
<1>5. CASE ~Accepts(d, Head(net[e]).seq)
  <2>1. Arrive(e) = d
    BY <1>1, <1>2, <1>5 DEF Arrive
  <2> QED
    BY <1>1, <1>3, <2>1
<1> QED
  BY <1>4, <1>5

LEMMA ReceiveKeeps ==
  ASSUME TypeInv, NEW e \in Ends, Receive(e)
  PROVE  Keeps
<1>1. net[e] # << >>
  BY DEF Receive
<1>2. PICK c \in Whole : c = Arrive(e) /\ Kept(con[e], c)
  BY <1>1, ArriveKeeps DEF Kept
<1>3. PICK p \in NumberedPdus : p = Head(net[e]).pdu
  <2>1. Head(net[e]) \in Packets
    <3>1. net[e] \in Seq(Packets)
      BY DEF TypeInv
    <3> QED
      BY <1>1, <3>1, HeadTailProperties
  <2> QED
    BY <2>1 DEF Packets
<1>4. Completed(e, c)
  <2>1. CASE Process(e, c, p)
    BY <2>1, InvTimes, ProcessEnds
  <2>2. CASE Answer(e, c)
    BY <2>2, InvTimes, CloseEnds DEF Completed
  <2> QED
    BY <1>2, <1>3, <2>1, <2>2 DEF Receive
<1>5. PICK d : Result(c, d) /\ Answer(e, d)
  BY <1>4 DEF Completed
<1>6. Result(con[e], d)
  BY <1>2, <1>5, KeptThenResult
<1> QED
  BY <1>1, <1>5, <1>6, AnswerKeeps

LEMMA OverflowKeeps ==
  ASSUME TypeInv, NEW e \in Ends, Overflow(e)
  PROVE  Keeps
<1>1. PICK q \in Seq(Packets) : q = net[e] /\ Len(q) > RecvCap /\ Len(q) \in Nat
  BY DEF TypeInv, Overflow
<1>2. PICK k \in Nat : k = RecvCap + 1 /\ k \in 1 .. Len(q)
  BY <1>1, ConstantFacts
<1>3. PICK rest \in Seq(Packets) : rest = RemoveAt(q, k)
  <2>1. SubSeq(q, 1, k - 1) \in Seq(Packets) /\ SubSeq(q, k + 1, Len(q)) \in Seq(Packets)
    BY <1>1, <1>2
  <2>2. RemoveAt(q, k) = SubSeq(q, 1, k - 1) \o SubSeq(q, k + 1, Len(q))
    BY DEF RemoveAt
  <2>3. RemoveAt(q, k) \in Seq(Packets)
    BY <2>1, <2>2, ConcatProperties
  <2> QED
    BY <2>3
<1>4. net' = [net EXCEPT ![e] = rest]
  BY <1>1, <1>2, <1>3 DEF Overflow
<1>5. drops' \in 0 .. MaxDrops
  BY ConstantFacts DEF Overflow, TypeInv
<1>6. TypeInv'
  BY <1>4, <1>5 DEF Overflow, TypeInv
<1>7. OrderInv => OrderInv'
  BY DEF Overflow, OrderInv, Ordered
<1> QED
  BY <1>6, <1>7 DEF Keeps

LEMMA ConnectKeeps ==
  ASSUME TypeInv, NEW e \in Ends, Connect(e)
  PROVE  Keeps
<1> DEFINE c == [con[e] EXCEPT !.channel = TRUE, !.role = "client",
                               !.sn_t = InitSn[e], !.cs_t = 0]
           d == SendPdu(e, c, "ConReq", 0, << >>)
           f == [d EXCEPT !.state = "START", !.cts_r = Clock(e)]
<1>1. con[e].state = "NONE" /\ Emit(e, f)
  BY DEF Connect
<1>2. con[e] \in Whole /\ con[e].fifo_retr = << >>
  BY <1>1 DEF TypeInv
<1>3. c \in Whole /\ c.fifo_retr = << >>
  BY <1>2, ConstantFacts DEF Whole, Records, Fits
<1> HIDE DEF c
<1>4. SentOne(c, d)
  <2>1. 0 \in Nat
    OBVIOUS
  <2> QED
    BY <1>3, <2>1, InvTimes, TypesExist, SendPduKeeps
<1>5. d \in Whole /\ d.fifo_retr = << >>
  BY <1>3, <1>4 DEF SentOne
<1> HIDE DEF d
<1>6. PICK t \in Nat : t = Clock(e)
  BY InvTimes, ConstantFacts DEF Times, Clock
<1>7. f \in Whole /\ f.fifo_retr = << >> /\ f.state = "START"
  BY <1>5, <1>6 DEF Whole, Records, Fits, States
<1>8. Result(con[e], f)
  BY <1>7, EmptyIsOrdered DEF Result
<1> QED
  BY <1>1, <1>8, EmitKeeps

LEMMA SrSendKeeps ==
  ASSUME TypeInv, NEW e \in Ends, NEW n \in 1 .. MaxPacket, SrSend(e, n)
  PROVE  Keeps
<1>1. con[e] \in Whole /\ n \in Nat
  BY ConstantFacts DEF TypeInv
<1>2. Result(con[e], Sent(e, con[e], n))
  BY <1>1, InvTimes, SentKeeps, KeptIsResult
<1> QED
  BY <1>2, EmitKeeps DEF SrSend

LEMMA DisconnectKeeps ==
  ASSUME TypeInv, NEW e \in Ends, Disconnect(e)
  PROVE  Keeps
<1>1. con[e] \in Whole
  BY DEF TypeInv
<1>2. Result(con[e], Disconnected(e, con[e]))
  BY <1>1, InvTimes, DisconnectedKeeps, KeptIsResult
<1> QED
  BY <1>2, EmitKeeps DEF Disconnect

LEMMA ExpireKeeps ==
  ASSUME TypeInv, NEW e \in Ends, Expire(e)
  PROVE  Keeps
<1>1. PICK c \in Whole : c = con[e]
  BY DEF TypeInv
<1>2. CASE Emit(e, CloseConnection(e, c))
  <2>1. Result(c, CloseConnection(e, c))
    BY InvTimes, CloseEnds
  <2> QED
    BY <1>1, <1>2, <2>1, EmitKeeps
<1>3. CASE Emit(e, [c EXCEPT !.armed = FALSE])
  <2>1. PICK d : d = [c EXCEPT !.armed = FALSE]
    OBVIOUS
  <2>2. Kept(c, d)
    BY <2>1 DEF Whole, Records, Fits, Kept
  <2> QED
    BY <1>1, <1>3, <2>1, <2>2, KeptIsResult, EmitKeeps
<1> QED
  BY <1>1, <1>2, <1>3 DEF Expire

LEMMA RestartKeeps ==
  ASSUME TypeInv, NEW e \in Ends, Restart(e)
  PROVE  Keeps
<1>1. PICK c \in Whole : c = con[e]
  BY DEF TypeInv
<1>2. PICK d : d = Cleaned(c)
  OBVIOUS
<1>3. /\ d \in Whole /\ d.out = << >> /\ d.state = "NONE" /\ d.fifo_retr = << >>
  <2>1. /\ << >> \in Seq(Nat) /\ << >> \in Seq(Held) /\ << >> \in Seq(Packets)
        /\ Len(<< >>) = 0
    OBVIOUS
  <2>2. c.asked \in Nat /\ c.got \in Seq(Nat)
    BY Fields
  <2>3. d \in Records
    BY <1>2, <2>1, <2>2, ConstantFacts DEF Cleaned, NoConnection, Records, States
  <2>4. Fits(d) /\ d.out = << >> /\ d.state = "NONE" /\ d.fifo_retr = << >>
    BY <1>2, <2>1, ConstantFacts DEF Cleaned, NoConnection, Fits
  <2> QED
    BY <2>3, <2>4 DEF Whole
<1>4. con' = [con EXCEPT ![e] = d]
  BY <1>1, <1>2 DEF Restart
<1>5. con'[e] = d /\ \A x \in Ends : x # e => con'[x] = con[x]
  BY <1>4 DEF TypeInv
<1>6. PICK k \in 0 .. RecvCap :
        k <= Len(net[e]) /\ net' = [net EXCEPT ![e] = SubSeq(@, k + 1, Len(@))]
  BY DEF Restart
<1>7. PICK rest \in Seq(Packets) : rest = SubSeq(net[e], k + 1, Len(net[e]))
  <2>1. PICK q \in Seq(Packets) : q = net[e] /\ Len(q) \in Nat
    BY DEF TypeInv
  <2>2. k \in Nat
    BY <1>6, ConstantFacts
  <2>3. SubSeq(q, k + 1, Len(q)) \in Seq(Packets)
    BY <2>1, <2>2
  <2> QED
    BY <2>1, <2>3
<1>8. net' = [net EXCEPT ![e] = rest]
  BY <1>6, <1>7
<1>9. stops' \in 0 .. MaxStops
  BY ConstantFacts DEF Restart, TypeInv
<1>10. TypeInv'
  <2>1. \A x \in Ends : /\ con'[x].out = << >>
                        /\ con'[x].state = "NONE" => con'[x].fifo_retr = << >>
    BY <1>3, <1>5 DEF TypeInv
  <2>2. con' \in [Ends -> Whole]
    BY <1>3, <1>4 DEF TypeInv
  <2> QED
    BY <1>8, <1>9, <2>1, <2>2 DEF Restart, TypeInv
<1>11. OrderInv => OrderInv'
  <2> SUFFICES ASSUME OrderInv PROVE \A x \in Ends : Ordered(con'[x])
    BY DEF OrderInv, Ordered
  <2> QED
    BY <1>3, <1>5, EmptyIsOrdered DEF OrderInv
<1> QED
  BY <1>10, <1>11 DEF Keeps

\* Of fifo_send a part is left; in fifo_retr there is one more, under the number
\* it will be sent with, or none when it is full.
HoldsOneMore(c, d) ==
  \E later \in Seq(Nat), fifo \in Seq(Held), held \in Held :
    /\ d = [c EXCEPT !.fifo_send = later, !.fifo_retr = fifo]
    /\ held.sn = c.sn_t
    /\ \/ fifo = c.fifo_retr
       \/ /\ Len(fifo) = Len(c.fifo_retr) + 1
          /\ fifo[Len(c.fifo_retr) + 1] = held
          /\ \A i \in 1 .. Len(c.fifo_retr) : fifo[i] = c.fifo_retr[i]

DataOf(e, d, f) ==
  \E msgs \in Seq(Nat), ts \in Nat, r \in Whole :
    /\ r = SendPdu(e, d, "Data", ts, msgs)
    /\ f = [r EXCEPT !.hb_call = now]

LEMMA DataSendMakes ==
  ASSUME TypeInv, NEW e \in Ends, DataSend(e)
  PROVE  /\ con[e].state \in Open /\ con[e].fifo_send # << >>
         /\ \E d, f : d \in Whole /\ HoldsOneMore(con[e], d) /\ DataOf(e, d, f) /\ Emit(e, f)
<1> DEFINE c == con[e]
           k == IF Len(c.fifo_send) < MaxPacket THEN Len(c.fifo_send) ELSE MaxPacket
           msgs == SubSeq(c.fifo_send, 1, k)
           d == [c EXCEPT !.fifo_send = SubSeq(@, k + 1, Len(@)),
                          !.fifo_retr = Push(@, [sn |-> c.sn_t, msgs |-> msgs], RetrCap)]
           f == [SendPdu(e, d, "Data", c.ts_r, msgs) EXCEPT !.hb_call = now]
<1>1. c.state \in Open /\ Emit(e, f) /\ k > 0
  BY DEF DataSend
<1>2. c \in Whole
  BY DEF TypeInv
<1> HIDE DEF c
<1>3. PICK waiting \in Seq(Nat) : /\ waiting = c.fifo_send /\ Len(waiting) \in Nat
                                  /\ Len(waiting) <= 2 * MaxPacket
  <2>1. c.fifo_send \in Seq(Nat) /\ Len(c.fifo_send) \in 0 .. 2 * MaxPacket
    BY <1>2, Fields
  <2>2. Len(c.fifo_send) \in Nat /\ Len(c.fifo_send) <= 2 * MaxPacket
    BY <2>1, ConstantFacts
  <2> QED
    BY <2>1, <2>2
<1>4. k \in Nat /\ k <= Len(waiting) /\ k = IF Len(waiting) < MaxPacket THEN Len(waiting) ELSE MaxPacket
  BY <1>3, ConstantFacts
<1> HIDE DEF k
<1>5. PICK later \in Seq(Nat) : /\ later = SubSeq(waiting, k + 1, Len(waiting))
                                /\ Len(later) <= 2 * MaxPacket
  <2>1. SubSeq(waiting, k + 1, Len(waiting)) \in Seq(Nat)
    BY <1>3, <1>4
  <2>2. Len(SubSeq(waiting, k + 1, Len(waiting))) = Len(waiting) - k
    BY <1>3, <1>4
  <2>3. Len(waiting) - k <= 2 * MaxPacket
    <3>1. PICK n \in Nat : n = Len(waiting)
      BY <1>3
    <3>2. PICK limit \in Nat : limit = 2 * MaxPacket
      BY ConstantFacts
    <3>3. n <= limit /\ k \in Nat
      BY <1>3, <1>4, <3>1, <3>2
    <3>4. n - k <= limit
      BY <3>1, <3>2, <3>3
    <3> QED
      BY <3>1, <3>2, <3>4
  <2> QED
    BY <2>1, <2>2, <2>3
<1>6. msgs \in Seq(Nat)
  <2>1. SubSeq(waiting, 1, k) \in Seq(Nat)
    BY <1>3, <1>4
  <2> QED
    BY <1>3, <2>1
<1> HIDE DEF msgs
<1>7. PICK s \in Numbers : s = c.sn_t
  BY <1>2, Fields
<1>8. PICK held \in Held : held = [sn |-> s, msgs |-> msgs]
  BY <1>6, <1>7 DEF Held
<1>9. PICK old \in Seq(Held) : /\ old = c.fifo_retr /\ Len(old) \in Nat
                               /\ Len(old) <= RetrCap
  <2>1. c.fifo_retr \in Seq(Held) /\ Len(c.fifo_retr) \in 0 .. RetrCap
    BY <1>2, Fields
  <2>2. Len(c.fifo_retr) \in Nat /\ Len(c.fifo_retr) <= RetrCap
    BY <2>1, ConstantFacts
  <2> QED
    BY <2>1, <2>2
<1>10. PICK fifo : fifo = Push(old, held, RetrCap)
  OBVIOUS
<1>11. /\ fifo \in Seq(Held) /\ Len(fifo) <= RetrCap
       /\ \/ fifo = old
          \/ /\ Len(fifo) = Len(old) + 1
             /\ fifo[Len(old) + 1] = held
             /\ \A i \in 1 .. Len(old) : fifo[i] = old[i]
  <2>1. CASE Len(old) < RetrCap
    <3>1. fifo = Append(old, held)
      BY <1>10, <2>1 DEF Push
    <3>2. /\ fifo \in Seq(Held) /\ Len(fifo) = Len(old) + 1
          /\ fifo[Len(old) + 1] = held
          /\ \A i \in 1 .. Len(old) : fifo[i] = old[i]
      BY <1>9, <3>1, AppendProperties
    <3>3. Len(old) + 1 <= RetrCap
      BY <1>9, <2>1, ConstantFacts
    <3> QED
      BY <3>2, <3>3
  <2>2. CASE ~(Len(old) < RetrCap)
    BY <1>9, <1>10, <2>2 DEF Push
  <2> QED
    BY <2>1, <2>2
<1>12. d = [c EXCEPT !.fifo_send = later, !.fifo_retr = fifo]
  BY <1>3, <1>5, <1>7, <1>8, <1>9, <1>10
<1>13. d \in Whole /\ d.sn_t = s /\ d.fifo_retr = fifo /\ d.state = c.state
  <2> HIDE DEF d
  <2> QED
    BY <1>2, <1>5, <1>7, <1>11, <1>12 DEF Whole, Records, Fits
<1> HIDE DEF d
<1>14. PICK ts \in Nat : ts = c.ts_r
  BY <1>2, Fields
<1>15. PICK r \in Whole : r = SendPdu(e, d, "Data", ts, msgs)
  <2>1. SentOne(d, SendPdu(e, d, "Data", ts, msgs))
    BY <1>6, <1>13, InvTimes, TypesExist, SendPduKeeps
  <2> QED
    BY <2>1 DEF SentOne
<1>16. DataOf(e, d, f)
  BY <1>6, <1>14, <1>15 DEF DataOf
<1> HIDE DEF f
<1>17. HoldsOneMore(c, d)
  <2>1. /\ held.sn = c.sn_t
        /\ \/ fifo = c.fifo_retr
           \/ /\ Len(fifo) = Len(c.fifo_retr) + 1
              /\ fifo[Len(c.fifo_retr) + 1] = held
              /\ \A i \in 1 .. Len(c.fifo_retr) : fifo[i] = c.fifo_retr[i]
    BY <1>7, <1>8, <1>9, <1>11
  <2> QED
    BY <1>11, <1>12, <2>1 DEF HoldsOneMore
<1>18. c.fifo_send # << >>
  <2>1. Len(<< >>) = 0
    OBVIOUS
  <2> QED
    BY <1>1, <1>3, <1>4, <2>1
<1> QED
  BY <1>1, <1>13, <1>16, <1>17, <1>18 DEF c

LEMMA DataSendKeeps ==
  ASSUME TypeInv, NEW e \in Ends, DataSend(e)
  PROVE  Keeps
<1>1. PICK c \in Whole : c = con[e] /\ c.state \in Open
  BY DataSendMakes DEF TypeInv
<1>2. PICK d, f : d \in Whole /\ HoldsOneMore(c, d) /\ DataOf(e, d, f) /\ Emit(e, f)
  BY <1>1, DataSendMakes
<1>3. PICK later \in Seq(Nat), fifo \in Seq(Held), held \in Held :
        /\ d = [c EXCEPT !.fifo_send = later, !.fifo_retr = fifo]
        /\ held.sn = c.sn_t
        /\ \/ fifo = c.fifo_retr
           \/ /\ Len(fifo) = Len(c.fifo_retr) + 1
              /\ fifo[Len(c.fifo_retr) + 1] = held
              /\ \A i \in 1 .. Len(c.fifo_retr) : fifo[i] = c.fifo_retr[i]
  BY <1>2 DEF HoldsOneMore
<1>4. PICK msgs \in Seq(Nat), ts \in Nat, r \in Whole :
        r = SendPdu(e, d, "Data", ts, msgs) /\ f = [r EXCEPT !.hb_call = now]
  BY <1>2 DEF DataOf
<1>5. PICK s \in Numbers : s = c.sn_t
  BY Fields
<1>6. PICK old \in Seq(Held) : old = c.fifo_retr /\ Len(old) \in Nat
  BY Fields, LenProperties
<1>7. d.sn_t = s /\ d.fifo_retr = fifo /\ d.state = c.state
  BY <1>3, <1>5 DEF Whole, Records
<1>8. SentOne(d, r)
  BY <1>2, <1>4, InvTimes, TypesExist, SendPduKeeps
<1>9. /\ f \in Whole /\ f.sn_t = Plus1(s) /\ f.fifo_retr = fifo /\ f.state = c.state
  <2>1. f \in Whole /\ f.sn_t = r.sn_t /\ f.fifo_retr = r.fifo_retr /\ f.state = r.state
    BY <1>4, InvTimes DEF Whole, Records, Fits, Times
  <2> QED
    BY <1>7, <1>8, <2>1 DEF SentOne
<1>10. ASSUME Ordered(c), f.fifo_retr # << >> => f.sn_t >= c.sn_t
       PROVE  Ordered(f)
  <2>1. CASE fifo = << >>
    BY <1>9, <2>1, EmptyIsOrdered
  <2>2. CASE fifo # << >>
    <3>1. Plus1(s) >= s
      BY <1>5, <1>9, <1>10, <2>2
    <3>2. s \in Nat /\ s + 1 \in Int /\ s < SnMod /\ SnMod \in Nat /\ SnMod > 1
      BY ConstantFacts, RetrCapAssumption DEF Numbers
    <3>3. Plus1(s) = s + 1
      <4>1. CASE s + 1 < SnMod
        <5>1. s + 1 \in Numbers
          BY <3>2, <4>1 DEF Numbers
        <5> QED
          BY <3>2, <5>1, ModFacts DEF Plus1
      <4>2. CASE s + 1 = SnMod
        <5>1. SnMod \in Int /\ SnMod \in SnMod .. 2 * SnMod - 1
          BY <3>2
        <5>2. SnMod % SnMod = SnMod - SnMod
          BY <5>1, ModFacts
        <5>3. Plus1(s) = SnMod % SnMod
          BY <4>2, Zenon DEF Plus1
        <5>4. Plus1(s) = 0
          BY <5>1, <5>2, <5>3
        <5> QED
          BY <3>1, <3>2, <4>2, <5>4
      <4> QED
        BY <3>2, <4>1, <4>2
    <3>4. ASSUME NEW i \in 1 .. Len(old)
          PROVE  old[i].sn < s /\ old[i].sn \in Nat
      <4>1. i \in 1 .. Len(c.fifo_retr)
        BY <1>6
      <4> QED
        BY <1>1, <1>5, <1>6, <1>10, <4>1, HeldFacts DEF Ordered, Numbers
    <3>5. ASSUME NEW i \in 1 .. Len(old), NEW j \in 1 .. Len(old), i < j
          PROVE  old[i].sn < old[j].sn
      BY <1>6, <1>10, <3>5 DEF Ordered
    <3>6. CASE fifo = old
      <4>1. ASSUME NEW i \in 1 .. Len(fifo) PROVE fifo[i].sn < s + 1
        <5>1. old[i].sn < s /\ old[i].sn \in Nat
          BY <3>4, <3>6
        <5> QED
          BY <3>2, <3>6, <5>1
      <4>2. ASSUME NEW i \in 1 .. Len(fifo), NEW j \in 1 .. Len(fifo), i < j
            PROVE  fifo[i].sn < fifo[j].sn
        BY <3>5, <3>6, <4>2
      <4> QED
        BY <1>9, <3>3, <4>1, <4>2 DEF Ordered
    <3>7. CASE /\ Len(fifo) = Len(old) + 1
               /\ fifo[Len(old) + 1] = held
               /\ \A i \in 1 .. Len(old) : fifo[i] = old[i]
      <4>1. ASSUME NEW i \in 1 .. Len(fifo)
            PROVE  \/ i = Len(old) + 1 /\ fifo[i].sn = s
                   \/ i \in 1 .. Len(old) /\ fifo[i] = old[i]
        BY <1>3, <1>5, <1>6, <3>7
      <4>2. ASSUME NEW i \in 1 .. Len(fifo) PROVE fifo[i].sn < s + 1
        <5>1. CASE i = Len(old) + 1 /\ fifo[i].sn = s
          BY <3>2, <5>1
        <5>2. CASE i \in 1 .. Len(old) /\ fifo[i] = old[i]
          <6>1. old[i].sn < s /\ old[i].sn \in Nat
            BY <3>4, <5>2
          <6> QED
            BY <3>2, <5>2, <6>1
        <5> QED
          BY <4>1, <5>1, <5>2
      <4>3. ASSUME NEW i \in 1 .. Len(fifo), NEW j \in 1 .. Len(fifo), i < j
            PROVE  fifo[i].sn < fifo[j].sn
        <5>1. i \in 1 .. Len(old) /\ fifo[i] = old[i]
          BY <1>6, <3>7, <4>1, <4>3
        <5> QED
          BY <3>4, <3>5, <4>1, <4>3, <5>1
      <4> QED
        BY <1>9, <3>3, <4>2, <4>3 DEF Ordered
    <3> QED
      BY <1>3, <1>6, <3>6, <3>7
  <2> QED
    BY <2>1, <2>2
<1>11. Result(c, f)
  BY <1>1, <1>9, <1>10 DEF Result, Open
<1> QED
  BY <1>1, <1>2, <1>11, EmitKeeps

LEMMA TickKeeps ==
  ASSUME TypeInv, Tick
  PROVE  Keeps
<1>1. TypeInv'
  BY ConstantFacts DEF Tick, TypeInv
<1>2. OrderInv => OrderInv'
  BY DEF Tick, OrderInv, Ordered
<1> QED
  BY <1>1, <1>2 DEF Keeps

LEMMA NextKeeps == TypeInv /\ [Next]_vars => Keeps
<1> SUFFICES ASSUME TypeInv, [Next]_vars PROVE Keeps
  OBVIOUS
<1>1. CASE UNCHANGED vars
  BY <1>1 DEF vars, Keeps, TypeInv, OrderInv, Ordered
<1>2. CASE Tick
  BY <1>2, TickKeeps
<1>3. ASSUME NEW e \in Ends,
             \/ Connect(e) \/ Disconnect(e) \/ \E n \in 1 .. MaxPacket : SrSend(e, n)
             \/ Receive(e) \/ Overflow(e) \/ DataSend(e) \/ Expire(e)
             \/ Restart(e)
      PROVE  Keeps
  BY <1>3, ConnectKeeps, DisconnectKeeps, SrSendKeeps, ReceiveKeeps, OverflowKeeps,
     DataSendKeeps, ExpireKeeps, RestartKeeps
<1> QED
  BY <1>1, <1>2, <1>3 DEF Next

-----------------------------------------------------------------------------
LEMMA TypeInvariance == Spec => []TypeInv
<1>1. TypeInv /\ [Next]_vars => TypeInv'
  BY NextKeeps DEF Keeps
<1> QED
  BY <1>1, InitInv, PTL DEF Spec

(***************************************************************************)
(* Whatever is received, in whatever order, and wherever the application   *)
(* sends or disconnects in the middle of a handler: the records of both    *)
(* endpoints and all PDUs on their way have their types, fifo_send holds   *)
(* at most 2 * max_packet messages and fifo_retr at most MAX_QUEUE_SIZE    *)
(* PDUs, also after a retransmission that pushes one too many.             *)
(***************************************************************************)
THEOREM TypeCorrect == Spec => []TypeOK
BY TypeInvariance, TypeInvImpliesTypeOK, PTL

(***************************************************************************)
(* fifo_retr is in the order of the numbers, all of them used, as long as  *)
(* an endpoint that holds a PDU does not go once around: no step leaves it *)
(* a next number below the one before.  The code needs this, at 2^32 the   *)
(* order does break.                                                       *)
(***************************************************************************)
THEOREM RetransmissionOrder == Spec /\ [][NumbersGrow]_vars => []RetrInOrder
<1>1. TypeInv /\ [Next]_vars => TypeInv'
  BY NextKeeps DEF Keeps
<1>2. TypeInv /\ OrderInv /\ [Next]_vars /\ [NumbersGrow]_vars => OrderInv'
  <2> SUFFICES ASSUME TypeInv, OrderInv, [Next]_vars, [NumbersGrow]_vars
               PROVE  OrderInv'
    OBVIOUS
  <2>1. CASE NumbersGrow
    BY <2>1, NextKeeps DEF Keeps
  <2>2. CASE UNCHANGED vars
    BY <2>2 DEF vars, OrderInv, Ordered
  <2> QED
    BY <2>1, <2>2
<1>3. TypeInv /\ OrderInv => RetrInOrder
  BY OrderInvImpliesRetrInOrder
<1> QED
  BY <1>1, <1>2, <1>3, InitInv, PTL DEF Spec

-----------------------------------------------------------------------------
(***************************************************************************)
(* What a session rests on.  An open connection has a channel on which it  *)
(* has sent; one its application has disconnected is closed, and has sent  *)
(* nothing since.  A PDU with the number 0 is one that a channel sends     *)
(* first.                                                                  *)
(***************************************************************************)
Opening == {"ConReq", "ConResp", "DiscReq"}
Repair  == {"RetrReq", "RetrResp", "RetrData"}
Running == {"UP", "RETRREQ", "RETRRUN"}

Wired(c) ==
  /\ c.state \in Open => c.channel /\ c.tx > 0
  /\ c.quit => c.state = "CLOSED" /\ c.tx = 0

\* What is said in a handler that begins with c: nothing, if the channel has
\* received and not sent.
Mute(c, d) == d.rx > 0 /\ d.tx = 0 => d.out = << >> /\ c.tx = 0 /\ c.rx = d.rx

Ok(c, d, S) == d \in Whole /\ Wired(d) /\ Mute(c, d) /\ d.out \in Seq(S)

(***************************************************************************)
(* What the operators do to the fields a session depends on: nothing; one  *)
(* PDU sent; the connection closed; or what an application may do.         *)
(***************************************************************************)
Same(c, d) ==
  /\ d.state = c.state /\ d.role = c.role /\ d.fifo_send = c.fifo_send
  /\ d.channel = c.channel /\ d.tx = c.tx /\ d.rx = c.rx /\ d.out = c.out
  /\ d.quit = c.quit /\ d.armed = c.armed

Aloud(c, type) == {k \in Packets : k.pdu.type = type /\ k.seq = c.tx /\ k.pdu.sn = c.sn_t}

Spoke(c, d, type) ==
  /\ d.state = c.state /\ d.role = c.role /\ d.fifo_send = c.fifo_send
  /\ d.channel = c.channel /\ d.rx = c.rx /\ d.quit = c.quit /\ d.armed = c.armed
  /\ c.channel => d.tx = c.tx + 1 /\ \E k \in Aloud(c, type) : d.out = Append(c.out, k)
  /\ ~c.channel => d.tx = c.tx /\ d.out = c.out

Shut(c, d) ==
  /\ d.state = "CLOSED" /\ d.fifo_send = c.fifo_send
  /\ ~d.channel /\ d.tx = 0 /\ d.rx = 0 /\ ~d.armed
  /\ \/ d.out = c.out
     \/ c.state \in Open /\ c.channel /\ \E k \in Aloud(c, "DiscReq") : d.out = Append(c.out, k)

Left(c, d) ==
  /\ c.state \in {"START", "RETRREQ", "RETRRUN"} /\ d.state = "CLOSED"
  /\ d.fifo_send = c.fifo_send
  /\ d.channel = c.channel /\ d.rx = c.rx /\ d.quit = c.quit
  /\ c.channel => d.tx = c.tx + 1 /\ \E k \in Aloud(c, "DiscReq") : d.out = Append(c.out, k)
  /\ ~c.channel => d.tx = c.tx /\ d.out = c.out

Asked(c, d) ==
  /\ d.state = c.state /\ d.role = c.role /\ d.sn_r = c.sn_r
  /\ d.channel = c.channel /\ d.tx = c.tx /\ d.rx = c.rx /\ d.out = c.out
  /\ d.quit = c.quit /\ d.armed = c.armed
  /\ d.fifo_send = c.fifo_send \/ c.state = "UP"

Called(c, d) == Asked(c, d) \/ Left(c, d) \/ Shut(c, d)

LEMMA SameFields ==
  ASSUME NEW c \in Whole, NEW p \in NumberedPdus
  PROVE  /\ Same(c, c)
         /\ Same(c, Take(c, p)) /\ Same(c, UpdateTI(c))
         /\ Same(c, Confirm(c, p)) /\ \A m \in Nat : Same(c, Read(c, m))
<1>1. Same(c, c) /\ Same(c, UpdateTI(c)) /\ \A m \in Nat : Same(c, Read(c, m))
  BY DEF Same, UpdateTI, Read, Whole, Records
<1>2. Same(c, Take(c, p))
  <2>1. PICK sn : sn = p.sn
    OBVIOUS
  <2>2. PICK n : n = Plus1(sn)
    OBVIOUS
  <2>3. Take(c, p) = [c EXCEPT !.sn_r = n, !.cs_t = sn, !.ts_r = p.ts]
    BY <2>1, <2>2 DEF Take
  <2> QED
    BY <2>3 DEF Same, Whole, Records
<1>3. Same(c, Confirm(c, p))
  <2>1. PICK fifo : fifo = RemoveConfirmed(c.fifo_retr, p.cs)
    OBVIOUS
  <2>2. Confirm(c, p) = [c EXCEPT !.cs_r = p.cs, !.fifo_retr = fifo]
    BY <2>1 DEF Confirm
  <2> QED
    BY <2>2 DEF Same, Whole, Records
<1> QED
  BY <1>1, <1>2, <1>3

LEMMA MuxSendFields ==
  ASSUME NEW c \in Whole, NEW p \in NumberedPdus
  PROVE  \E k \in Packets, d \in Whole :
           /\ k = [seq |-> c.tx, pdu |-> p] /\ d = MuxSend(c, p)
           /\ d.state = c.state /\ d.role = c.role /\ d.fifo_send = c.fifo_send
           /\ d.channel = c.channel /\ d.rx = c.rx /\ d.quit = c.quit /\ d.armed = c.armed
           /\ d.sn_r = c.sn_r
           /\ c.channel => d.tx = c.tx + 1 /\ d.out = Append(c.out, k)
           /\ ~c.channel => d = c
<1>1. c.tx \in Nat
  BY Fields
<1>2. PICK k \in Packets : k = [seq |-> c.tx, pdu |-> p]
  BY <1>1 DEF Packets
<1>3. PICK d \in Whole : d = MuxSend(c, p)
  BY MuxSendKeeps DEF Kept
<1>4. CASE c.channel
  <2>1. PICK out : out = Append(c.out, k)
    OBVIOUS
  <2>2. d = [c EXCEPT !.out = out, !.tx = c.tx + 1]
    BY <1>2, <1>3, <1>4, <2>1 DEF MuxSend, Whole, Records
  <2>3. /\ d.state = c.state /\ d.role = c.role /\ d.fifo_send = c.fifo_send
        /\ d.channel = c.channel /\ d.rx = c.rx /\ d.quit = c.quit /\ d.armed = c.armed
        /\ d.sn_r = c.sn_r /\ d.tx = c.tx + 1 /\ d.out = out
    BY <2>2 DEF Whole, Records
  <2> QED
    BY <1>2, <1>3, <1>4, <2>1, <2>3
<1>5. CASE ~c.channel
  <2>1. d = c
    BY <1>3, <1>5 DEF MuxSend
  <2> QED
    BY <1>2, <1>3, <1>5, <2>1
<1> QED
  BY <1>4, <1>5

LEMMA MuxSendSays ==
  ASSUME NEW c \in Whole, NEW p \in NumberedPdus, p.sn = c.sn_t
  PROVE  Spoke(c, MuxSend(c, p), p.type)
<1>1. PICK k \in Packets, d \in Whole :
        /\ k = [seq |-> c.tx, pdu |-> p] /\ d = MuxSend(c, p)
        /\ d.state = c.state /\ d.role = c.role /\ d.fifo_send = c.fifo_send
        /\ d.channel = c.channel /\ d.rx = c.rx /\ d.quit = c.quit /\ d.armed = c.armed
        /\ c.channel => d.tx = c.tx + 1 /\ d.out = Append(c.out, k)
        /\ ~c.channel => d = c
  BY MuxSendFields
<1>2. k \in Aloud(c, p.type)
  BY <1>1 DEF Aloud
<1>3. Spoke(c, d, p.type)
  BY <1>1, <1>2 DEF Spoke
<1> QED
  BY <1>1, <1>3

LEMMA SendPduSays ==
  ASSUME Times, NEW e \in Ends, NEW c \in Whole, NEW type \in Types,
         NEW cts \in Nat, NEW msgs \in Seq(Nat)
  PROVE  Spoke(c, SendPdu(e, c, type, cts, msgs), type)
<1>1. PICK p \in NumberedPdus : p = Pdu(e, c, type, cts, msgs)
  BY PduType
<1>2. p.sn = c.sn_t /\ p.type = type
  BY <1>1 DEF Pdu
<1>3. PICK d \in Whole : d = MuxSend(c, p) /\ Spoke(c, d, type)
  BY <1>2, MuxSendSays, MuxSendKeeps DEF Kept
<1>4. PICK n : n = Plus1(d.sn_t)
  OBVIOUS
<1>5. SendPdu(e, c, type, cts, msgs) = [d EXCEPT !.sn_t = n]
  BY <1>1, <1>3, <1>4 DEF SendPdu, Whole, Records
<1> QED
  BY <1>3, <1>5 DEF Spoke, Whole, Records

LEMMA SendersSay ==
  ASSUME Times, NEW e \in Ends, NEW c \in Whole
  PROVE  /\ Spoke(c, SendHeartbeat(e, c), "HB")
         /\ Spoke(c, SendRetrReq(e, c), "RetrReq")
         /\ Spoke(c, SendRetrResp(e, c), "RetrResp")
         /\ Spoke(c, SendDiscReq(e, c), "DiscReq")
<1>1. c.ts_r \in Nat
  BY Fields
<1>2. PICK d \in Whole : d = SendPdu(e, c, "HB", c.ts_r, << >>) /\ Spoke(c, d, "HB")
  BY <1>1, TypesExist, SendPduSays, SendPduKeeps DEF SentOne
<1>3. SendHeartbeat(e, c) = [d EXCEPT !.hb_call = now]
  BY <1>2 DEF SendHeartbeat
<1>4. Spoke(c, SendHeartbeat(e, c), "HB")
  BY <1>2, <1>3 DEF Spoke, Whole, Records
<1>5. Spoke(c, SendRetrReq(e, c), "RetrReq") /\ Spoke(c, SendRetrResp(e, c), "RetrResp")
  BY <1>1, TypesExist, SendPduSays DEF SendRetrReq, SendRetrResp
<1>6. PICK p \in NumberedPdus : p = Pdu(e, c, "DiscReq", c.ts_r, << >>)
  BY <1>1, TypesExist, PduType
<1>7. p.sn = c.sn_t /\ p.type = "DiscReq"
  BY <1>6 DEF Pdu
<1>8. Spoke(c, SendDiscReq(e, c), "DiscReq")
  BY <1>6, <1>7, MuxSendSays DEF SendDiscReq
<1> QED
  BY <1>4, <1>5, <1>8

LEMMA CloseShuts ==
  ASSUME Times, NEW e \in Ends, NEW c \in Whole
  PROVE  Shut(c, CloseConnection(e, c)) /\ CloseConnection(e, c).quit = c.quit
<1>1. PICK d \in Whole : /\ d = IF c.state \in Open THEN SendDiscReq(e, c) ELSE c
                         /\ d.fifo_send = c.fifo_send /\ d.quit = c.quit
                         /\ \/ d.out = c.out
                            \/ /\ c.state \in Open /\ c.channel
                               /\ \E k \in Aloud(c, "DiscReq") : d.out = Append(c.out, k)
  <2>1. CASE c.state \in Open
    <3>1. PICK d \in Whole : d = SendDiscReq(e, c) /\ Spoke(c, d, "DiscReq")
      BY SendersSay, SendDiscReqKeeps DEF Kept
    <3>2. /\ d.fifo_send = c.fifo_send /\ d.quit = c.quit
          /\ \/ d.out = c.out
             \/ c.channel /\ \E k \in Aloud(c, "DiscReq") : d.out = Append(c.out, k)
      BY <3>1 DEF Spoke
    <3> QED
      BY <2>1, <3>1, <3>2
  <2>2. CASE c.state \notin Open
    BY <2>2
  <2> QED
    BY <2>1, <2>2
<1>2. PICK f : f = [d EXCEPT !.state = "CLOSED", !.armed = FALSE]
  OBVIOUS
<1>3. /\ f \in Records /\ f.state = "CLOSED" /\ ~f.armed /\ f.fifo_send = d.fifo_send
      /\ f.out = d.out /\ f.quit = d.quit
  BY <1>2 DEF Whole, Records, States
<1>4. PICK g : g = RemoveChannel(f)
  OBVIOUS
<1>5. /\ g.state = "CLOSED" /\ ~g.armed /\ g.fifo_send = f.fifo_send /\ ~g.channel
      /\ g.tx = 0 /\ g.rx = 0 /\ g.out = f.out /\ g.quit = f.quit
  BY <1>3, <1>4 DEF RemoveChannel, Records
<1>6. CloseConnection(e, c) = g
  BY <1>1, <1>2, <1>4 DEF CloseConnection
<1>7. Shut(c, g) /\ g.quit = c.quit
  BY <1>1, <1>3, <1>5 DEF Shut
<1> QED
  BY <1>6, <1>7

LEMMA SentCalls ==
  ASSUME Times, NEW e \in Ends, NEW c \in Whole, NEW n \in Nat
  PROVE  /\ Asked(c, Sent(e, c, n)) \/ Left(c, Sent(e, c, n))
         /\ Asked(c, Sent(e, c, n)) => c.state \notin {"START", "RETRREQ", "RETRRUN"}
<1>1. CASE c.state = "UP"
  <2>1. PICK fifo : fifo = c.fifo_send
              \o [i \in 1 .. (IF n < 2 * MaxPacket - Len(c.fifo_send)
                             THEN n ELSE 2 * MaxPacket - Len(c.fifo_send)) |->
                    c.asked + i]
    OBVIOUS
  <2>2. PICK asked : asked = c.asked + n
    OBVIOUS
  <2>3. Sent(e, c, n) = [c EXCEPT !.asked = asked, !.fifo_send = fifo]
    BY <1>1, <2>1, <2>2, Zenon DEF Sent
  <2>4. Asked(c, Sent(e, c, n))
    BY <1>1, <2>3 DEF Asked, Whole, Records
  <2> QED
    BY <1>1, <2>4
<1>2. CASE c.state \in {"START", "RETRREQ", "RETRRUN"}
  <2>1. PICK d \in Whole : d = SendDiscReq(e, c) /\ Spoke(c, d, "DiscReq")
    BY SendersSay, SendDiscReqKeeps DEF Kept
  <2>2. PICK f : f = [d EXCEPT !.state = "CLOSED"]
    OBVIOUS
  <2>3. /\ f.state = "CLOSED" /\ f.fifo_send = d.fifo_send /\ f.channel = d.channel
        /\ f.rx = d.rx /\ f.tx = d.tx /\ f.out = d.out /\ f.quit = d.quit
    BY <2>2 DEF Whole, Records
  <2>4. Left(c, f) /\ ~Asked(c, f)
    BY <1>2, <2>1, <2>3 DEF Spoke, Left, Asked
  <2>5. Sent(e, c, n) = f
    BY <1>2, <2>1, <2>2 DEF Sent
  <2> QED
    BY <2>4, <2>5
<1>3. CASE c.state \notin {"UP", "START", "RETRREQ", "RETRRUN"}
  BY <1>3 DEF Sent, Asked
<1> QED
  BY <1>1, <1>2, <1>3

LEMMA DisconnectedCalls ==
  ASSUME Times, NEW e \in Ends, NEW c \in Whole
  PROVE  Shut(c, Disconnected(e, c)) /\ Disconnected(e, c).quit
<1>1. PICK d \in Whole : d = CloseConnection(e, c) /\ Shut(c, d)
  BY CloseShuts, CloseConnectionKeeps DEF Kept
<1>2. Disconnected(e, c) = [d EXCEPT !.quit = TRUE]
  BY <1>1 DEF Disconnected
<1> QED
  BY <1>1, <1>2 DEF Shut, Whole, Records

LEMMA NotifiedCalls ==
  ASSUME Times, NEW e \in Ends, NEW c \in Whole, NEW d \in Notified(e, c)
  PROVE  d \in Whole /\ Called(c, d)
<1>1. d \in {c, Sent(e, c, 1), Disconnected(e, c)}
  BY DEF Notified
<1>2. Asked(c, c)
  BY DEF Asked
<1>3. d \in Whole
  BY NotifiedKeeps DEF Kept
<1> QED
  BY <1>1, <1>2, <1>3, SentCalls, DisconnectedCalls DEF Called

(***************************************************************************)
(* What may be said is a set S of PDUs; a goodbye always belongs to it.    *)
(***************************************************************************)
Farewells == {k \in Packets : k.pdu.type = "DiscReq" /\ k.seq # 0}

LEMMA OkSame ==
  ASSUME NEW S, NEW c \in Whole, NEW d, NEW f \in Whole, Ok(c, d, S), Same(d, f)
  PROVE  Ok(c, f, S)
BY DEF Ok, Same, Wired, Mute

LEMMA OkSpoke ==
  ASSUME NEW S, NEW c \in Whole, NEW d, NEW f \in Whole, NEW type,
         Ok(c, d, S), Spoke(d, f, type), Aloud(d, type) \subseteq S,
         ~(d.quit /\ d.channel)
  PROVE  Ok(c, f, S)
<1>1. d \in Whole /\ Wired(d) /\ Mute(c, d) /\ d.out \in Seq(S) /\ d.tx \in Nat
  BY Fields DEF Ok
<1>2. f.out \in Seq(S)
  <2>1. CASE d.channel
    <3>1. PICK k \in Aloud(d, type) : f.out = Append(d.out, k)
      BY <2>1 DEF Spoke
    <3> QED
      BY <1>1, <3>1, AppendProperties
  <2>2. CASE ~d.channel
    BY <1>1, <2>2 DEF Spoke
  <2> QED
    BY <2>1, <2>2
<1>3. Wired(f)
  BY <1>1 DEF Wired, Spoke
<1>4. Mute(c, f)
  BY <1>1 DEF Mute, Spoke
<1> QED
  BY <1>2, <1>3, <1>4 DEF Ok

LEMMA GoodbyeIsFarewell ==
  ASSUME NEW S, NEW d \in Whole, Wired(d), d.state \in Open, Farewells \subseteq S,
         d.out \in Seq(S), NEW k \in Aloud(d, "DiscReq")
  PROVE  Append(d.out, k) \in Seq(S)
<1>1. d.tx \in Nat
  BY Fields
<1>2. k \in S
  BY <1>1 DEF Wired, Aloud, Farewells
<1> QED
  BY <1>2, AppendProperties

LEMMA OkShut ==
  ASSUME NEW S, NEW c \in Whole, NEW d, NEW f \in Whole,
         Ok(c, d, S), Shut(d, f), Farewells \subseteq S
  PROVE  Ok(c, f, S)
<1>1. d \in Whole /\ Wired(d) /\ d.out \in Seq(S)
  BY DEF Ok
<1>2. f.out \in Seq(S)
  BY <1>1, GoodbyeIsFarewell DEF Shut
<1>3. Wired(f) /\ Mute(c, f)
  BY DEF Shut, Wired, Mute, Open
<1> QED
  BY <1>2, <1>3 DEF Ok

LEMMA OkCalled ==
  ASSUME NEW S, NEW c \in Whole, NEW d, NEW f \in Whole,
         Ok(c, d, S), Called(d, f), Farewells \subseteq S
  PROVE  Ok(c, f, S)
<1>1. CASE Shut(d, f)
  BY <1>1, OkShut
<1>2. CASE Asked(d, f)
  BY <1>2 DEF Ok, Asked, Wired, Mute
<1>3. CASE Left(d, f)
  <2>1. d \in Whole /\ Wired(d) /\ d.out \in Seq(S) /\ d.state \in Open /\ d.tx \in Nat
    BY <1>3, Fields DEF Ok, Left, Open
  <2>2. d.channel /\ ~d.quit /\ f.tx > 0
    BY <1>3, <2>1 DEF Wired, Open, Left
  <2>3. PICK k \in Aloud(d, "DiscReq") : f.out = Append(d.out, k)
    BY <1>3, <2>2 DEF Left
  <2>4. f.out \in Seq(S)
    BY <2>1, <2>3, GoodbyeIsFarewell
  <2>5. Wired(f)
    BY <1>3, <2>2 DEF Wired, Left, Open
  <2>6. Mute(c, f)
    BY <2>2 DEF Mute
  <2> QED
    BY <2>4, <2>5, <2>6 DEF Ok
<1> QED
  BY <1>1, <1>2, <1>3 DEF Called

-----------------------------------------------------------------------------
(***************************************************************************)
(* What a step does to a session: trigger is the type of the PDU that was  *)
(* received, or "none", and sn its number.                                 *)
(***************************************************************************)
\* A first step of its own, with the peer not in the list.
Begins(t, c) == t = "none" /\ c.state = "NONE"

\* A PDU of the handshake is received in START.
Completes(t, c) == t \in {"ConResp", "HB"} /\ c.state = "START"

Utterances(e, t, c) ==
  {k \in Packets :
     /\ k.seq = 0 => t = "ConReq" \/ Begins(t, c)
     /\ Begins(t, c) => k.pdu.type = "ConReq"
     /\ k.pdu.type = "ConReq" => Begins(t, c) /\ k.pdu.sn = InitSn[e]
     /\ k.pdu.type = "ConResp" => t = "ConReq"
     /\ k.pdu.type = "HB" =>
          \/ t = "RetrReq"
          \/ t = "ConResp" /\ c.state = "START" /\ c.role = "client" /\ k.pdu.sn = c.sn_t
     /\ k.pdu.type = "Data" => t = "none" /\ c.fifo_send # << >>
     /\ k.pdu.type = "RetrReq" => t \in {"Data", "RetrData"} /\ c.state \in {"UP", "RETRRUN"}
     /\ k.pdu.type \in {"RetrResp", "RetrData"} => t = "RetrReq"}

\* The PDUs that open a connection come last, after goodbyes only.
OpenedLast(t, c, out) ==
  t = "ConReq" \/ Begins(t, c) =>
    \A i, j \in 1 .. Len(out) : i < j => out[i].pdu.type = "DiscReq"

Turns(e, t, sn, c, d) ==
  /\ d.state = "NONE" =>
       c.state = "NONE" /\ d.tx = c.tx /\ d.fifo_send = c.fifo_send /\ d.out = << >>
  /\ d.state = "START" =>
       \/ /\ c.state = "START" /\ d.role = c.role /\ d.sn_r = c.sn_r /\ d.sn_t = c.sn_t
          /\ d.fifo_send = c.fifo_send /\ d.out = << >>
       \/ /\ c.state \in {"NONE", "CLOSED"} /\ t = "ConReq"
          /\ d.role = "server" /\ d.sn_r = Plus1(sn)
       \/ Begins(t, c) /\ d.role = "client" /\ d.sn_t = Plus1(InitSn[e])
  /\ d.state = "UP" => c.state \in {"UP", "RETRRUN"} \/ Completes(t, c)
  /\ d.state = "RETRREQ" => c.state \in Running \/ (c.state = "CLOSED" /\ t = "RetrReq")
  /\ d.state = "RETRRUN" => c.state \in {"RETRREQ", "RETRRUN"}
  /\ d.fifo_send # << >> => c.fifo_send # << >> \/ c.state \in Running \/ Completes(t, c)

Watched(c, d) ==
  d.state \in Running /\ (c.state = "START" \/ (c.state \in Running /\ c.armed)) => d.armed

Does(e, t, sn, c, d) ==
  /\ Ok(c, d, Utterances(e, t, c))
  /\ OpenedLast(t, c, d.out)
  /\ Turns(e, t, sn, c, d)
  /\ Watched(c, d)

\* What a handler may count on: the record is at rest, and the PDU is one that
\* a session allows in this state.
Ready(c) == c \in Whole /\ Wired(c) /\ c.out = << >> /\ c.channel

Fitting(t, c, p) ==
  /\ t = p.type
  /\ t = "HB" /\ c.state = "START" => c.role = "server" /\ p.sn = c.sn_r
  /\ t = "RetrReq" => c.state # "START" /\ (c.state # "NONE" => c.tx > 0)

LEMMA FarewellsAreUtterances ==
  ASSUME NEW e, NEW t, NEW c, ~Begins(t, c)
  PROVE  Farewells \subseteq Utterances(e, t, c)
BY DEF Farewells, Utterances

LEMMA OkAtRest ==
  ASSUME NEW c, NEW S, c \in Whole, Wired(c), c.out = << >>
  PROVE  Ok(c, c, S)
<1>1. << >> \in Seq(S)
  OBVIOUS
<1> QED
  BY <1>1 DEF Ok, Mute

\* A step that closes, and says goodbye at most.
LEMMA ClosesDoes ==
  ASSUME NEW e, NEW t, NEW sn, NEW c \in Whole, NEW d,
         Ok(c, d, Farewells), d.state = "CLOSED", ~Begins(t, c),
         d.fifo_send = c.fifo_send \/ c.state \in Running \/ Completes(t, c)
  PROVE  Does(e, t, sn, c, d)
<1>1. d.out \in Seq(Farewells) /\ Farewells \subseteq Utterances(e, t, c)
  BY FarewellsAreUtterances DEF Ok
<1>2. d.out \in Seq(Utterances(e, t, c))
  BY <1>1, FifoMonotonic
<1>3. OpenedLast(t, c, d.out)
  BY <1>1 DEF OpenedLast, Farewells
<1>4. Turns(e, t, sn, c, d) /\ Watched(c, d)
  BY DEF Turns, Watched, Running
<1> QED
  BY <1>2, <1>3, <1>4 DEF Does, Ok

\* A step that changes nothing of it.
LEMMA RestsDoes ==
  ASSUME NEW e, NEW t, NEW sn, NEW c, c \in Whole, Wired(c), c.out = << >>
  PROVE  Does(e, t, sn, c, c)
<1>1. Ok(c, c, Utterances(e, t, c))
  BY OkAtRest
<1>2. OpenedLast(t, c, c.out)
  BY DEF OpenedLast
<1>3. Turns(e, t, sn, c, c) /\ Watched(c, c)
  BY DEF Turns, Watched, Running, Same
<1> QED
  BY <1>1, <1>2, <1>3 DEF Does

\* A step of an established connection, that neither opens it nor begins.
LEMMA RunsDoes ==
  ASSUME NEW e, NEW t, NEW sn, NEW c \in Whole, NEW d,
         Ok(c, d, Utterances(e, t, c)),
         c.state \in Running, d.state \in Running,
         d.state = "UP" => c.state \in {"UP", "RETRRUN"},
         d.state = "RETRRUN" => c.state \in {"RETRREQ", "RETRRUN"},
         d.armed = c.armed, t # "ConReq"
  PROVE  Does(e, t, sn, c, d)
<1>1. OpenedLast(t, c, d.out)
  BY DEF OpenedLast, Begins, Running
<1>2. Turns(e, t, sn, c, d) /\ Watched(c, d)
  BY DEF Turns, Watched, Running
<1> QED
  BY <1>1, <1>2 DEF Does

-----------------------------------------------------------------------------
(***************************************************************************)
(* Each handler ends the reception with a record it may make of c.         *)
(***************************************************************************)
Done(e, t, sn, c) == \E d : Does(e, t, sn, c, d) /\ Answer(e, d)

LEMMA RestsDone ==
  ASSUME NEW e, NEW t, NEW sn, NEW c, Ready(c), Answer(e, c)
  PROVE  Done(e, t, sn, c)
BY RestsDoes DEF Done, Ready

LEMMA CloseDone ==
  ASSUME Times, NEW e \in Ends, NEW t, NEW sn, NEW c, Ready(c), t # "none",
         Answer(e, CloseConnection(e, c))
  PROVE  Done(e, t, sn, c)
<1>1. c \in Whole /\ Ok(c, c, Farewells)
  BY OkAtRest DEF Ready
<1>2. PICK d \in Whole : d = CloseConnection(e, c) /\ Shut(c, d)
  BY <1>1, CloseShuts, CloseConnectionKeeps DEF Kept
<1>3. Ok(c, d, Farewells)
  BY <1>1, <1>2, OkShut
<1>4. d.state = "CLOSED" /\ d.fifo_send = c.fifo_send /\ ~Begins(t, c)
  BY <1>2 DEF Shut, Begins
<1>5. Does(e, t, sn, c, d)
  BY <1>1, <1>3, <1>4, ClosesDoes
<1> QED
  BY <1>2, <1>5 DEF Done

LEMMA DiscReqDone ==
  ASSUME Times, NEW e \in Ends, NEW c, NEW p \in NumberedPdus,
         Ready(c), Fitting("DiscReq", c, p), HandleDiscReq(e, c, p)
  PROVE  Done(e, "DiscReq", p.sn, c)
<1>1. c \in Whole /\ Ok(c, c, Farewells)
  BY OkAtRest DEF Ready
<1>2. PICK d : d = [c EXCEPT !.state = "CLOSED", !.armed = FALSE]
  OBVIOUS
<1>3. d \in Whole /\ d.state = "CLOSED" /\ d.fifo_send = c.fifo_send /\ d.out = c.out
  BY <1>1, <1>2 DEF Whole, Records, Fits, States
<1>4. PICK f \in Whole : f = RemoveChannel(d)
  BY <1>3, RemoveChannelKeeps DEF Kept
<1>5. /\ f.state = "CLOSED" /\ f.fifo_send = c.fifo_send /\ f.out = c.out
      /\ f.tx = 0 /\ f.rx = 0
  BY <1>3, <1>4 DEF RemoveChannel, Whole, Records
<1>6. Ok(c, f, Farewells)
  BY <1>1, <1>5 DEF Ok, Wired, Mute, Open
<1>7. Does(e, "DiscReq", p.sn, c, f)
  BY <1>1, <1>5, <1>6, ClosesDoes DEF Begins
<1>8. Answer(e, f)
  BY <1>2, <1>4 DEF HandleDiscReq
<1> QED
  BY <1>7, <1>8 DEF Done

(***************************************************************************)
(* The end of a handshake: the application is told, and the timers start.  *)
(***************************************************************************)
LEMMA UpDoes ==
  ASSUME Times, NEW e \in Ends, NEW t, NEW sn, NEW c, Ready(c), NEW told \in Whole,
         Ok(c, told, Utterances(e, t, c)), told.state = "UP", Completes(t, c),
         NEW up \in Notified(e, told)
  PROVE  Does(e, t, sn, c, StartEvents(up))
<1>1. up \in Whole /\ Called(told, up)
  BY NotifiedCalls
<1>2. ~Begins(t, c) /\ t # "ConReq" /\ c.state = "START"
  BY DEF Begins, Completes
<1>3. Ok(c, up, Utterances(e, t, c)) /\ up.state \in {"UP", "CLOSED"}
  BY <1>1, <1>2, OkCalled, FarewellsAreUtterances DEF Called, Asked, Left, Shut, Ready
<1>4. PICK d \in Whole : d = StartEvents(up)
  BY <1>1, StartEventsKeeps DEF Kept
<1>5. /\ d.state = up.state /\ d.channel = up.channel /\ d.tx = up.tx /\ d.rx = up.rx
      /\ d.out = up.out /\ d.quit = up.quit /\ d.armed
  BY <1>1, <1>4 DEF StartEvents, Whole, Records
<1>6. Ok(c, d, Utterances(e, t, c))
  BY <1>3, <1>5 DEF Ok, Wired, Mute
<1>7. OpenedLast(t, c, d.out)
  BY <1>2 DEF OpenedLast
<1>8. Turns(e, t, sn, c, d) /\ Watched(c, d)
  BY <1>3, <1>5 DEF Turns, Watched
<1> QED
  BY <1>4, <1>6, <1>7, <1>8 DEF Does

LEMMA ConRespDone ==
  ASSUME Times, NEW e \in Ends, NEW c, NEW p \in NumberedPdus,
         Ready(c), Fitting("ConResp", c, p), HandleConResp(e, c, p)
  PROVE  Done(e, "ConResp", p.sn, c)
<1>1. CASE Answer(e, CloseConnection(e, c))
  BY <1>1, CloseDone
<1>2. CASE Answer(e, c)
  BY <1>2, RestsDone
<1>3. ASSUME ~Answer(e, CloseConnection(e, c)), ~Answer(e, c)
      PROVE  Done(e, "ConResp", p.sn, c)
  <2> DEFINE S == Utterances(e, "ConResp", c)
             confirmed == [Take(c, p) EXCEPT !.cs_r = p.cs]
             up == SendHeartbeat(e, confirmed)
             told == [up EXCEPT !.state = "UP"]
  <2>1. /\ c.state = "START" /\ c.role = "client"
        /\ \E d \in Notified(e, told) : Answer(e, StartEvents(d))
    BY <1>3 DEF HandleConResp
  <2>2. PICK d \in Notified(e, told) : Answer(e, StartEvents(d))
    BY <2>1
  <2>3. c \in Whole /\ Ok(c, c, S) /\ c.channel /\ c.tx > 0 /\ ~c.quit
    BY <2>1, OkAtRest DEF Ready, Wired, Open
  <2>4. PICK f \in Whole : f = Take(c, p) /\ f.sn_t = c.sn_t /\ Same(c, f)
    BY <2>3, TakeKeeps, SameFields DEF Kept
  <2>5. confirmed \in Whole /\ confirmed.sn_t = c.sn_t /\ Same(c, confirmed)
    <3>1. PICK cs \in Numbers : cs = p.cs
      BY DEF NumberedPdus
    <3>2. confirmed = [f EXCEPT !.cs_r = cs]
      BY <2>4, <3>1
    <3> HIDE DEF confirmed
    <3> QED
      BY <2>4, <3>2 DEF Whole, Records, Fits, Same
  <2> HIDE DEF confirmed
  <2>6. up \in Whole /\ Spoke(confirmed, up, "HB")
    BY <2>5, SendersSay, SendHeartbeatKeeps DEF SentOne
  <2> HIDE DEF up
  <2>7. Aloud(confirmed, "HB") \subseteq S
    <3>1. confirmed.tx = c.tx /\ confirmed.sn_t = c.sn_t
      BY <2>5 DEF Same
    <3> QED
      BY <2>1, <2>3, <3>1 DEF Aloud, Utterances, Begins
  <2> HIDE DEF S
  <2>8. Ok(c, confirmed, S) /\ ~confirmed.quit /\ confirmed.channel /\ confirmed.state = "START"
    BY <2>1, <2>3, <2>5, OkSame DEF Same
  <2>9. Ok(c, up, S)
    BY <2>3, <2>6, <2>7, <2>8, OkSpoke
  <2>10. up.channel /\ up.tx > 0 /\ ~up.quit
    BY <2>3, <2>6, <2>8, <2>9, Fields DEF Spoke, Ok, Wired, Open
  <2>11. told \in Whole /\ told.state = "UP" /\ Ok(c, told, S)
    <3>1. /\ told \in Whole /\ told.state = "UP" /\ told.channel = up.channel
          /\ told.tx = up.tx /\ told.rx = up.rx /\ told.out = up.out /\ told.quit = up.quit
      BY <2>6 DEF Whole, Records, Fits, States
    <3> QED
      BY <2>9, <2>10, <3>1 DEF Ok, Wired, Mute
  <2> HIDE DEF told
  <2>12. Completes("ConResp", c)
    BY <2>1 DEF Completes
  <2>13. Does(e, "ConResp", p.sn, c, StartEvents(d))
    BY <2>2, <2>11, <2>12, UpDoes DEF S
  <2> QED
    BY <2>2, <2>13 DEF Done
<1> QED
  BY <1>1, <1>2, <1>3

LEMMA HbInStartDone ==
  ASSUME Times, NEW e \in Ends, NEW c, NEW p \in NumberedPdus,
         Ready(c), Fitting("HB", c, p), c.state = "START", HandleHbInStart(e, c, p)
  PROVE  Done(e, "HB", p.sn, c)
<1>1. c \in Whole /\ c.role = "server" /\ SnInSeq(c, p) /\ c.channel /\ c.tx > 0 /\ ~c.quit
  BY DEF Ready, Fitting, SnInSeq, Wired, Open
<1>2. CASE Answer(e, CloseConnection(e, c))
  BY <1>2, CloseDone
<1>3. CASE ~Answer(e, CloseConnection(e, c))
  <2> DEFINE S == Utterances(e, "HB", c)
             told == [Take(c, p) EXCEPT !.cs_r = p.cs, !.state = "UP"]
  <2>1. PICK up \in Notified(e, told) : Answer(e, StartEvents(up))
    BY <1>1, <1>3 DEF HandleHbInStart
  <2>2. PICK f \in Whole : f = Take(c, p) /\ Same(c, f)
    BY <1>1, TakeKeeps, SameFields DEF Kept
  <2>3. PICK cs \in Numbers : cs = p.cs
    BY DEF NumberedPdus
  <2>4. told = [f EXCEPT !.cs_r = cs, !.state = "UP"]
    BY <2>2, <2>3
  <2> HIDE DEF told
  <2>5. /\ told \in Whole /\ told.state = "UP" /\ told.channel = c.channel /\ told.tx = c.tx
        /\ told.rx = c.rx /\ told.out = c.out /\ told.quit = c.quit
    BY <2>2, <2>4 DEF Whole, Records, Fits, States, Same
  <2>6. Ok(c, c, S)
    BY <1>1, OkAtRest DEF Ready
  <2>7. Ok(c, told, S)
    BY <1>1, <2>5, <2>6 DEF Ok, Wired, Mute
  <2>8. Completes("HB", c)
    BY DEF Completes
  <2>9. Does(e, "HB", p.sn, c, StartEvents(up))
    BY <2>1, <2>5, <2>7, <2>8, UpDoes
  <2> QED
    BY <2>1, <2>9 DEF Done
<1> QED
  BY <1>2, <1>3

(***************************************************************************)
(* An established connection changes its state and says nothing.           *)
(***************************************************************************)
LEMMA TurnsDoes ==
  ASSUME NEW e, NEW t, NEW sn, NEW c, Ready(c), NEW d \in Whole, t # "ConReq",
         c.state \in Running, d.state \in Running,
         d.state = "UP" => c.state \in {"UP", "RETRRUN"},
         d.state = "RETRRUN" => c.state \in {"RETRREQ", "RETRRUN"},
         d.channel = c.channel, d.tx = c.tx, d.rx = c.rx, d.out = c.out,
         d.quit = c.quit, d.armed = c.armed
  PROVE  Does(e, t, sn, c, d)
<1>1. c \in Whole /\ Ok(c, c, Utterances(e, t, c))
  BY OkAtRest DEF Ready
<1>2. c.channel /\ c.tx > 0 /\ ~c.quit
  BY DEF Ready, Wired, Open, Running
<1>3. Ok(c, d, Utterances(e, t, c))
  BY <1>1, <1>2 DEF Ok, Wired, Mute
<1> QED
  BY <1>1, <1>3, RunsDoes

LEMMA HbDone ==
  ASSUME Times, NEW e \in Ends, NEW c, NEW p \in NumberedPdus,
         Ready(c), Fitting("HB", c, p), HandleHb(e, c, p)
  PROVE  Done(e, "HB", p.sn, c)
<1>1. c \in Whole
  BY DEF Ready
<1>2. CASE Answer(e, CloseConnection(e, c))
  BY <1>2, CloseDone
<1>3. CASE Answer(e, c)
  BY <1>3, RestsDone
<1>4. CASE c.state = "START" /\ HandleHbInStart(e, c, p)
  BY <1>4, HbInStartDone
<1>5. CASE c.state \in {"UP", "RETRRUN"} /\ Answer(e, [c EXCEPT !.state = "RETRREQ"])
  <2>1. PICK d : d = [c EXCEPT !.state = "RETRREQ"]
    OBVIOUS
  <2>2. /\ d \in Whole /\ d.state = "RETRREQ" /\ d.channel = c.channel /\ d.tx = c.tx
        /\ d.rx = c.rx /\ d.out = c.out /\ d.quit = c.quit /\ d.armed = c.armed
    BY <1>1, <2>1 DEF Whole, Records, Fits, States
  <2>3. Does(e, "HB", p.sn, c, d)
    BY <1>5, <2>2, TurnsDoes DEF Running
  <2> QED
    BY <1>5, <2>1, <2>3 DEF Done
<1>6. CASE /\ c.state \in {"UP", "RETRRUN"}
           /\ Answer(e, [UpdateTI(Take(c, p)) EXCEPT
                           !.cs_r = Minus(c.sn_t, 1), !.cts_r = p.cts, !.state = "UP"])
  <2>1. PICK f \in Whole : f = Take(c, p) /\ Same(c, f)
    BY <1>1, TakeKeeps, SameFields DEF Kept
  <2>2. PICK u \in Whole : u = UpdateTI(f) /\ Same(f, u)
    BY UpdateTIKeeps, SameFields DEF Kept
  <2>3. PICK cs \in Numbers : cs = Minus(c.sn_t, 1)
    BY <1>1, Fields, NumbersAreClosed
  <2>4. PICK cts \in Nat : cts = p.cts
    BY DEF NumberedPdus
  <2>5. PICK d : d = [u EXCEPT !.cs_r = cs, !.cts_r = cts, !.state = "UP"]
    OBVIOUS
  <2>6. /\ d \in Whole /\ d.state = "UP" /\ d.channel = u.channel /\ d.tx = u.tx
        /\ d.rx = u.rx /\ d.out = u.out /\ d.quit = u.quit /\ d.armed = u.armed
    BY <2>5 DEF Whole, Records, Fits, States
  <2>7. /\ d.channel = c.channel /\ d.tx = c.tx
        /\ d.rx = c.rx /\ d.out = c.out /\ d.quit = c.quit /\ d.armed = c.armed
    BY <2>1, <2>2, <2>6 DEF Same
  <2>8. Does(e, "HB", p.sn, c, d)
    BY <1>6, <2>6, <2>7, TurnsDoes DEF Running
  <2>9. Answer(e, d)
    BY <1>6, <2>1, <2>2, <2>3, <2>4, <2>5
  <2> QED
    BY <2>8, <2>9 DEF Done
<1> QED
  BY <1>2, <1>3, <1>4, <1>5, <1>6 DEF HandleHb

\* A request for retransmission, after which the connection waits for its answer.
LEMMA RetrReqSaid ==
  ASSUME Times, NEW e \in Ends, NEW t, NEW sn, NEW c, Ready(c), t \in {"Data", "RetrData"},
         c.state \in {"UP", "RETRRUN"},
         Answer(e, [SendRetrReq(e, c) EXCEPT !.state = "RETRREQ"])
  PROVE  Done(e, t, sn, c)
<1> DEFINE S == Utterances(e, t, c)
<1>1. c \in Whole /\ Ok(c, c, S) /\ c.channel /\ c.tx > 0 /\ ~c.quit
  BY OkAtRest DEF Ready, Wired, Open
<1>2. PICK r \in Whole : r = SendRetrReq(e, c) /\ Spoke(c, r, "RetrReq")
  BY <1>1, SendRetrKeeps, SendersSay DEF SentOne
<1>3. Aloud(c, "RetrReq") \subseteq S
  BY <1>1 DEF Aloud, Utterances, Begins
<1> HIDE DEF S
<1>4. Ok(c, r, S)
  BY <1>1, <1>2, <1>3, OkSpoke
<1>5. PICK d : d = [r EXCEPT !.state = "RETRREQ"]
  OBVIOUS
<1>6. /\ d \in Whole /\ d.state = "RETRREQ" /\ d.channel = r.channel /\ d.tx = r.tx
      /\ d.rx = r.rx /\ d.out = r.out /\ d.quit = r.quit /\ d.armed = r.armed
  BY <1>5 DEF Whole, Records, Fits, States
<1>7. r.state = c.state /\ r.armed = c.armed /\ r.channel /\ ~r.quit /\ r.tx > 0
  BY <1>1, <1>2, <1>4 DEF Spoke, Ok, Wired, Open
<1>8. Ok(c, d, S)
  BY <1>4, <1>6, <1>7 DEF Ok, Wired, Mute
<1>9. Does(e, t, sn, c, d)
  BY <1>1, <1>6, <1>7, <1>8, RunsDoes DEF S, Running
<1>10. Answer(e, d)
  BY <1>2, <1>5
<1> QED
  BY <1>9, <1>10 DEF Done

(***************************************************************************)
(* The records there may be while the messages of a PDU are handed to the  *)
(* application: the connection goes on, or the application has ended it.   *)
(***************************************************************************)
Lasts(c, d) ==
  /\ d \in Whole /\ Ok(c, d, Farewells)
  /\ d.state = "CLOSED" \/ (d.state = c.state /\ d.armed = c.armed)

LEMMA AddAppMessagesLast ==
  ASSUME Times, NEW e \in Ends, NEW c, NEW p \in NumberedPdus, Ready(c),
         NEW d \in AddAppMessages(e, c, p)
  PROVE  Lasts(c, d)
<1> DEFINE T == {x \in Whole : Lasts(c, x)}
<1>1. c \in Whole /\ Ok(c, c, Farewells)
  BY OkAtRest DEF Ready
<1>2. ASSUME NEW x \in T, NEW m \in Nat, NEW y \in {UpdateTI(g) : g \in Notified(e, Read(x, m))}
      PROVE  y \in T
  <2>1. x \in Whole /\ Lasts(c, x)
    BY <1>2
  <2>2. PICK r \in Whole : r = Read(x, m) /\ Same(x, r)
    BY <2>1, ReadKeeps, SameFields DEF Kept
  <2>3. PICK g \in Notified(e, r) : y = UpdateTI(g)
    BY <1>2, <2>2
  <2>4. g \in Whole /\ Called(r, g)
    BY <2>2, <2>3, NotifiedCalls
  <2>5. y \in Whole /\ Same(g, y)
    BY <2>3, <2>4, UpdateTIKeeps, SameFields DEF Kept
  <2>6. Ok(c, r, Farewells)
    BY <1>1, <2>1, <2>2, OkSame DEF Lasts
  <2>7. Ok(c, g, Farewells)
    BY <1>1, <2>4, <2>6, OkCalled
  <2>8. Ok(c, y, Farewells)
    BY <1>1, <2>5, <2>7, OkSame
  <2>9. g.state = "CLOSED" \/ (g.state = r.state /\ g.armed = r.armed)
    BY <2>4 DEF Called, Asked, Left, Shut
  <2>10. y.state = "CLOSED" \/ (y.state = c.state /\ y.armed = c.armed)
    BY <2>1, <2>2, <2>5, <2>9 DEF Same, Lasts
  <2> QED
    BY <2>5, <2>8, <2>10 DEF Lasts
<1>3. c \in T
  BY <1>1 DEF Lasts
<1> HIDE DEF T
<1>4. \A x \in T, m \in Nat : {UpdateTI(g) : g \in Notified(e, Read(x, m))} \subseteq T
  BY <1>2
<1>5. d \in T
  BY <1>3, <1>4, AddAppMessagesStay
<1> QED
  BY <1>5 DEF T

LEMMA LastsDoes ==
  ASSUME NEW e, NEW t, NEW sn, NEW c, Ready(c), c.state \in {"UP", "RETRRUN"},
         t # "ConReq", NEW d, Lasts(c, d), NEW f \in Whole, Same(d, f)
  PROVE  Does(e, t, sn, c, f)
<1>1. c \in Whole /\ ~Begins(t, c)
  BY DEF Ready, Begins
<1>2. Ok(c, f, Farewells)
  BY <1>1, OkSame DEF Lasts
<1>3. CASE f.state = "CLOSED"
  BY <1>1, <1>2, <1>3, ClosesDoes DEF Running
<1>4. CASE f.state # "CLOSED"
  <2>1. f.state = c.state /\ f.armed = c.armed
    BY <1>4 DEF Lasts, Same
  <2>2. f.out \in Seq(Utterances(e, t, c))
    BY <1>1, <1>2, FarewellsAreUtterances, FifoMonotonic DEF Ok
  <2>3. Ok(c, f, Utterances(e, t, c))
    BY <1>2, <2>2 DEF Ok
  <2> QED
    BY <1>1, <2>1, <2>3, RunsDoes DEF Running
<1> QED
  BY <1>3, <1>4

LEMMA DataDone ==
  ASSUME Times, NEW e \in Ends, NEW c, NEW p \in NumberedPdus,
         Ready(c), Fitting("Data", c, p), HandleData(e, c, p)
  PROVE  Done(e, "Data", p.sn, c)
<1>1. c \in Whole
  BY DEF Ready
<1>2. CASE Answer(e, CloseConnection(e, c))
  BY <1>2, CloseDone
<1>3. CASE Answer(e, c)
  BY <1>3, RestsDone
<1>4. CASE /\ c.state \in {"UP", "RETRRUN"}
           /\ Answer(e, [SendRetrReq(e, c) EXCEPT !.state = "RETRREQ"])
  BY <1>4, RetrReqSaid
<1>5. CASE c.state = "RETRRUN" /\ Answer(e, Take(c, p))
  <2>1. PICK f \in Whole : f = Take(c, p) /\ Same(c, f)
    BY <1>1, TakeKeeps, SameFields DEF Kept
  <2>2. Does(e, "Data", p.sn, c, f)
    BY <1>5, <2>1, TurnsDoes DEF Same, Running
  <2> QED
    BY <1>5, <2>1, <2>2 DEF Done
<1>6. CASE /\ c.state = "UP"
           /\ \E d \in AddAppMessages(e, c, p) :
                Answer(e, [Confirm(Take(d, p), p) EXCEPT !.cts_r = p.cts])
  <2>1. PICK d \in AddAppMessages(e, c, p) :
          Answer(e, [Confirm(Take(d, p), p) EXCEPT !.cts_r = p.cts])
    BY <1>6
  <2>2. Lasts(c, d) /\ d \in Whole
    BY <2>1, AddAppMessagesLast DEF Lasts
  <2>3. PICK f \in Whole : f = Take(d, p) /\ Same(d, f)
    BY <2>2, TakeKeeps, SameFields DEF Kept
  <2>4. PICK g \in Whole : g = Confirm(f, p) /\ Same(f, g)
    BY ConfirmIsLater, SameFields DEF Later
  <2>5. PICK h : h = [g EXCEPT !.cts_r = p.cts]
    OBVIOUS
  <2>6. p.cts \in Nat
    BY DEF NumberedPdus
  <2>7. h \in Whole /\ Same(g, h)
    BY <2>5, <2>6 DEF Whole, Records, Fits, Same
  <2>8. Same(d, h)
    BY <2>3, <2>4, <2>7 DEF Same
  <2>9. Does(e, "Data", p.sn, c, h)
    BY <1>6, <2>2, <2>7, <2>8, LastsDoes
  <2>10. Answer(e, h)
    BY <2>1, <2>3, <2>4, <2>5
  <2> QED
    BY <2>9, <2>10 DEF Done
<1> QED
  BY <1>2, <1>3, <1>4, <1>5, <1>6 DEF HandleData

LEMMA RetrDataDone ==
  ASSUME Times, NEW e \in Ends, NEW c, NEW p \in NumberedPdus,
         Ready(c), Fitting("RetrData", c, p), HandleRetrData(e, c, p)
  PROVE  Done(e, "RetrData", p.sn, c)
<1>1. CASE Answer(e, CloseConnection(e, c))
  BY <1>1, CloseDone
<1>2. CASE Answer(e, c)
  BY <1>2, RestsDone
<1>3. CASE /\ c.state = "RETRRUN"
           /\ Answer(e, [SendRetrReq(e, c) EXCEPT !.state = "RETRREQ"])
  BY <1>3, RetrReqSaid
<1>4. CASE /\ c.state = "RETRRUN"
           /\ \E d \in AddAppMessages(e, c, p) : Answer(e, [Take(d, p) EXCEPT !.cs_r = p.cs])
  <2>1. PICK d \in AddAppMessages(e, c, p) : Answer(e, [Take(d, p) EXCEPT !.cs_r = p.cs])
    BY <1>4
  <2>2. Lasts(c, d) /\ d \in Whole
    BY <2>1, AddAppMessagesLast DEF Lasts
  <2>3. PICK f \in Whole : f = Take(d, p) /\ Same(d, f)
    BY <2>2, TakeKeeps, SameFields DEF Kept
  <2>4. PICK cs \in Numbers : cs = p.cs
    BY DEF NumberedPdus
  <2>5. PICK h : h = [f EXCEPT !.cs_r = cs]
    OBVIOUS
  <2>6. h \in Whole /\ Same(f, h)
    BY <2>5 DEF Whole, Records, Fits, Same
  <2>7. Same(d, h)
    BY <2>3, <2>6 DEF Same
  <2>8. Does(e, "RetrData", p.sn, c, h)
    BY <1>4, <2>2, <2>6, <2>7, LastsDoes
  <2>9. Answer(e, h)
    BY <2>1, <2>3, <2>4, <2>5
  <2> QED
    BY <2>8, <2>9 DEF Done
<1> QED
  BY <1>1, <1>2, <1>3, <1>4 DEF HandleRetrData

LEMMA RetrRespDone ==
  ASSUME Times, NEW e \in Ends, NEW c, NEW p \in NumberedPdus,
         Ready(c), Fitting("RetrResp", c, p), HandleRetrResp(e, c, p)
  PROVE  Done(e, "RetrResp", p.sn, c)
<1>1. CASE Answer(e, CloseConnection(e, c))
  BY <1>1, CloseDone
<1>2. CASE /\ c.state = "RETRREQ"
           /\ Answer(e, [Take(c, p) EXCEPT
                           !.state = "RETRRUN",
                           !.cs_r = Minus(c.sn_t, 1), !.cts_r = p.cts])
  <2>1. PICK f \in Whole : f = Take(c, p) /\ Same(c, f)
    BY TakeKeeps, SameFields DEF Kept, Ready
  <2>2. PICK cs \in Numbers : cs = Minus(c.sn_t, 1)
    BY Fields, NumbersAreClosed DEF Ready
  <2>3. PICK cts \in Nat : cts = p.cts
    BY DEF NumberedPdus
  <2>4. PICK d : d = [f EXCEPT !.state = "RETRRUN", !.cs_r = cs, !.cts_r = cts]
    OBVIOUS
  <2>5. /\ d \in Whole /\ d.state = "RETRRUN" /\ d.channel = f.channel /\ d.tx = f.tx
        /\ d.rx = f.rx /\ d.out = f.out /\ d.quit = f.quit /\ d.armed = f.armed
    BY <2>4 DEF Whole, Records, Fits, States
  <2>6. Does(e, "RetrResp", p.sn, c, d)
    BY <1>2, <2>1, <2>5, TurnsDoes DEF Same, Running
  <2>7. Answer(e, d)
    BY <1>2, <2>1, <2>2, <2>3, <2>4
  <2> QED
    BY <2>6, <2>7 DEF Done
<1> QED
  BY <1>1, <1>2 DEF HandleRetrResp

(***************************************************************************)
(* A retransmission says what was kept and a heartbeat.                    *)
(***************************************************************************)
Again(c) == {k \in Packets : k.pdu.type \in {"RetrData", "HB"} /\ k.seq >= c.tx}

Repeated(c, d) ==
  /\ d.state = c.state /\ d.role = c.role /\ d.fifo_send = c.fifo_send
  /\ d.channel = c.channel /\ d.rx = c.rx /\ d.quit = c.quit /\ d.armed = c.armed
  /\ c.channel => d.tx > 0
  /\ ~c.channel => d.tx = c.tx /\ d.out = c.out

LEMMA RetransmitSays ==
  ASSUME Times, NEW e \in Ends, NEW c \in Whole, NEW S, c.out \in Seq(S),
         c.channel => Again(c) \subseteq S
  PROVE  \E d \in Whole : d = Retransmit(e, c) /\ Repeated(c, d) /\ d.out \in Seq(S)
<1> DEFINE n == Len(c.fifo_retr)
           msgs(i) == IF i <= n THEN c.fifo_retr[i].msgs ELSE << >>
           sn(i) == (c.sn_t + (i - 1)) % SnMod
           data(i) == RetrData(e, c, sn(i), msgs(i))
           kept == IF n < RetrCap THEN n + 1 ELSE RetrCap
           sent == [i \in 1 .. n + 1 |-> [seq |-> c.tx + (i - 1), pdu |-> data(i)]]
           fifo == [i \in 1 .. kept |-> [sn |-> sn(i), msgs |-> msgs(i)]]
           d == [c EXCEPT !.sn_t = sn(n + 2), !.fifo_retr = fifo]
           f == IF c.channel
                THEN [d EXCEPT !.out = @ \o sent, !.tx = @ + n + 1] ELSE d
<1>1. Retransmit(e, c) = SendHeartbeat(e, f)
  BY DEF Retransmit
<1>2. n \in 0 .. RetrCap /\ RetrCap \in Nat
  BY Fields, ConstantFacts
<1>3. kept \in 0 .. n + 1 /\ kept \in Nat /\ kept <= RetrCap
  BY <1>2
<1>4. \A i \in 1 .. n + 1 : msgs(i) \in Seq(Nat)
  <2>1. ASSUME NEW i \in 1 .. n + 1 PROVE msgs(i) \in Seq(Nat)
    <3>1. CASE i <= n
      <4>1. i \in 1 .. Len(c.fifo_retr)
        BY <1>2, <3>1
      <4> QED
        BY <3>1, <4>1, HeldFacts
    <3>2. CASE ~(i <= n)
      BY <3>2
    <3> QED
      BY <3>1, <3>2
  <2> QED
    BY <2>1
<1>5. \A i \in 1 .. n + 2 : sn(i) \in Numbers
  <2>1. \A i \in 1 .. n + 2 : c.sn_t + (i - 1) \in Int
    BY <1>2, Fields DEF Numbers
  <2> QED
    BY <2>1, ModFacts
<1> HIDE DEF msgs, sn
<1>6. \A i \in 1 .. n + 1 : data(i) \in NumberedPdus /\ data(i).type = "RetrData"
  <2>1. \A i \in 1 .. n + 1 : sn(i) \in Numbers
    BY <1>2, <1>5
  <2>2. \A i \in 1 .. n + 1 : data(i) \in NumberedPdus
    BY <1>4, <2>1, RetrDataType
  <2>3. \A i \in 1 .. n + 1 : data(i).type = "RetrData"
    BY DEF RetrData, Pdu
  <2> QED
    BY <2>2, <2>3
<1> HIDE DEF data, n
<1>7. sent \in Seq(Again(c)) /\ Len(sent) = n + 1
  <2>1. c.tx \in Nat
    BY Fields
  <2>2. ASSUME NEW i \in 1 .. n + 1 PROVE [seq |-> c.tx + (i - 1), pdu |-> data(i)] \in Again(c)
    <3>1. PICK seq \in Nat : seq = c.tx + (i - 1) /\ seq >= c.tx
      BY <1>2, <2>1
    <3>2. [seq |-> seq, pdu |-> data(i)] \in Packets
      BY <1>6 DEF Packets
    <3> QED
      BY <1>6, <3>1, <3>2 DEF Again
  <2> QED
    BY <1>2, <2>2
<1>8. fifo \in Seq(Held) /\ Len(fifo) = kept
  <2>1. \A i \in 1 .. kept : [sn |-> sn(i), msgs |-> msgs(i)] \in Held
    <3>1. \A i \in 1 .. kept : i \in 1 .. n + 1 /\ i \in 1 .. n + 2
      BY <1>2, <1>3
    <3> QED
      BY <1>4, <1>5, <3>1 DEF Held
  <2> QED
    BY <1>3, <2>1
<1>9. sn(n + 2) \in Numbers
  <2>1. n + 2 \in 1 .. n + 2
    BY <1>2
  <2> QED
    BY <1>5, <2>1
<1> HIDE DEF fifo, sent, kept
<1>10. d \in Whole /\ Same(c, d)
  BY <1>3, <1>8, <1>9 DEF Whole, Records, Fits, Same
<1> HIDE DEF d
<1>11. /\ f \in Whole /\ f.state = c.state /\ f.role = c.role /\ f.fifo_send = c.fifo_send
       /\ f.channel = c.channel /\ f.rx = c.rx /\ f.quit = c.quit /\ f.armed = c.armed
       /\ c.channel => f.tx > c.tx /\ f.tx \in Nat
       /\ ~c.channel => f.tx = c.tx /\ f.out = c.out
       /\ f.out \in Seq(S)
  <2>1. CASE c.channel
    <3>1. c.out \in Seq(Packets) /\ Again(c) \subseteq Packets /\ c.tx \in Nat
      BY Fields DEF Again
    <3>2. sent \in Seq(Packets) /\ sent \in Seq(S)
      BY <1>7, <2>1, <3>1, FifoMonotonic
    <3>3. PICK out : out = c.out \o sent
      OBVIOUS
    <3>4. out \in Seq(Packets) /\ out \in Seq(S)
      BY <3>1, <3>2, <3>3, ConcatProperties
    <3>5. PICK tx \in Nat : tx = c.tx + n + 1 /\ tx > c.tx
      BY <1>2, <3>1
    <3>6. f = [d EXCEPT !.out = out, !.tx = tx]
      BY <1>10, <2>1, <3>3, <3>5 DEF Same
    <3> HIDE DEF f
    <3>7. /\ f \in Whole /\ f.state = d.state /\ f.role = d.role /\ f.fifo_send = d.fifo_send
          /\ f.channel = d.channel /\ f.rx = d.rx /\ f.quit = d.quit /\ f.armed = d.armed
          /\ f.tx = tx /\ f.out = out
      BY <1>10, <3>4, <3>6 DEF Whole, Records, Fits
    <3> QED
      BY <1>10, <2>1, <3>4, <3>5, <3>7 DEF Same
  <2>2. CASE ~c.channel
    BY <1>10, <2>2 DEF Same
  <2> QED
    BY <2>1, <2>2
<1> HIDE DEF f
<1>12. PICK g \in Whole : g = SendHeartbeat(e, f) /\ Spoke(f, g, "HB")
  BY <1>11, SendersSay, SendHeartbeatKeeps DEF SentOne
<1>13. c.tx \in Nat
  BY Fields
<1>14. Repeated(c, g)
  BY <1>11, <1>12, <1>13 DEF Repeated, Spoke
<1>15. g.out \in Seq(S)
  <2>1. CASE c.channel
    <3>1. PICK k \in Aloud(f, "HB") : g.out = Append(f.out, k)
      BY <1>11, <1>12, <2>1 DEF Spoke
    <3>2. k \in S
      BY <1>11, <1>13, <2>1 DEF Aloud, Again
    <3> QED
      BY <1>11, <3>1, <3>2, AppendProperties
  <2>2. CASE ~c.channel
    BY <1>11, <1>12, <2>2 DEF Spoke
  <2> QED
    BY <2>1, <2>2
<1> QED
  BY <1>1, <1>12, <1>14, <1>15

LEMMA RepairsDoes ==
  ASSUME NEW e, NEW sn, NEW c, Ready(c), NEW d \in Whole,
         c.state \in {"UP", "RETRREQ", "RETRRUN", "CLOSED"},
         Ok(c, d, Utterances(e, "RetrReq", c)),
         d.state = "RETRREQ" \/ (d.state = c.state /\ c.state # "RETRRUN"),
         d.armed = c.armed, d.fifo_send = c.fifo_send
  PROVE  Does(e, "RetrReq", sn, c, d)
<1>1. OpenedLast("RetrReq", c, d.out)
  BY DEF OpenedLast, Begins
<1>2. Turns(e, "RetrReq", sn, c, d) /\ Watched(c, d)
  BY DEF Turns, Watched, Running
<1> QED
  BY <1>1, <1>2 DEF Does

LEMMA RetrReqDone ==
  ASSUME Times, NEW e \in Ends, NEW c, NEW p \in NumberedPdus, c.state # "NONE",
         Ready(c), Fitting("RetrReq", c, p), HandleRetrReq(e, c, p)
  PROVE  Done(e, "RetrReq", p.sn, c)
<1> DEFINE S == Utterances(e, "RetrReq", c)
           Answered(d) == Retransmit(e, SendRetrResp(e, Confirm(d, p)))
<1>1. c \in Whole /\ c.channel /\ c.tx \in Nat /\ c.tx > 0 /\ ~c.quit
  BY Fields DEF Ready, Fitting, Wired
<1>2. c.state \in {"UP", "RETRREQ", "RETRRUN", "CLOSED"}
  BY <1>1, Fields DEF Fitting, States
<1>3. ASSUME NEW d \in Whole, Same(c, d)
      PROVE  /\ Answered(d) \in Whole /\ Ok(c, Answered(d), S)
             /\ Answered(d).state = c.state /\ Answered(d).armed = c.armed
             /\ Answered(d).fifo_send = c.fifo_send
             /\ Answered(d).channel /\ Answered(d).tx > 0 /\ ~Answered(d).quit
  <2>1. PICK f \in Whole : f = Confirm(d, p) /\ Same(d, f)
    BY <1>3, ConfirmIsLater, SameFields DEF Later
  <2>2. Ok(c, f, S)
    <3>1. Same(c, f)
      BY <1>3, <2>1 DEF Same
    <3>2. Ok(c, c, S)
      BY <1>1, OkAtRest DEF Ready
    <3> QED
      BY <1>1, <3>1, <3>2, OkSame
  <2>3. f.tx = c.tx /\ f.channel /\ ~f.quit /\ f.state = c.state /\ f.armed = c.armed
        /\ f.fifo_send = c.fifo_send
    BY <1>1, <1>3, <2>1 DEF Same
  <2>4. PICK r \in Whole : r = SendRetrResp(e, f) /\ Spoke(f, r, "RetrResp")
    BY SendersSay, SendRetrKeeps DEF SentOne
  <2>5. Aloud(f, "RetrResp") \subseteq S
    BY <1>1, <2>3 DEF Aloud, Utterances, Begins
  <2>6. Ok(c, r, S)
    BY <1>1, <2>2, <2>3, <2>4, <2>5, OkSpoke
  <2>7. r.tx = c.tx + 1 /\ r.channel /\ ~r.quit /\ r.state = c.state /\ r.armed = c.armed
        /\ r.fifo_send = c.fifo_send
    BY <2>3, <2>4 DEF Spoke
  <2>8. Again(r) \subseteq S
    BY <1>1, <2>7 DEF Again, Utterances, Begins
  <2> HIDE DEF S
  <2>9. r.out \in Seq(S)
    BY <2>6 DEF Ok
  <2>10. PICK q \in Whole : q = Retransmit(e, r) /\ Repeated(r, q) /\ q.out \in Seq(S)
    BY <2>8, <2>9, RetransmitSays
  <2>11. /\ q.state = c.state /\ q.armed = c.armed /\ q.channel /\ q.tx > 0 /\ ~q.quit
         /\ q.fifo_send = c.fifo_send
    BY <2>7, <2>10 DEF Repeated
  <2>12. Ok(c, q, S)
    BY <2>10, <2>11 DEF Ok, Wired, Mute
  <2>13. Answered(d) = q
    BY <2>1, <2>4, <2>10
  <2> QED
    BY <2>11, <2>12, <2>13
<1>4. CASE SnInSeq(c, p) /\ c.state = "RETRRUN"
  <2>1. PICK d \in Whole : d = CloseConnection(e, c) /\ Shut(c, d)
    BY <1>1, CloseShuts, CloseConnectionKeeps DEF Kept
  <2>2. Ok(c, d, Farewells)
    <3>1. Ok(c, c, Farewells)
      BY <1>1, OkAtRest DEF Ready
    <3> QED
      BY <1>1, <2>1, <3>1, OkShut
  <2>3. PICK t \in Whole : t = Take(d, p) /\ Same(d, t)
    BY TakeKeeps, SameFields DEF Kept
  <2>4. PICK f \in Whole : f = Confirm(t, p) /\ Same(t, f)
    BY ConfirmIsLater, SameFields DEF Later
  <2>5. PICK r \in Whole : r = SendRetrResp(e, f) /\ Spoke(f, r, "RetrResp")
    BY SendersSay, SendRetrKeeps DEF SentOne
  <2>6. Same(d, r) /\ ~r.channel /\ r.state = "CLOSED" /\ r.fifo_send = c.fifo_send
    BY <2>1, <2>3, <2>4, <2>5 DEF Same, Spoke, Shut
  <2>7. Ok(c, r, Farewells)
    BY <1>1, <2>2, <2>6, OkSame
  <2>8. PICK q \in Whole : q = Retransmit(e, r) /\ Repeated(r, q)
    BY <2>6, <2>7, RetransmitSays DEF Ok
  <2>9. Same(r, q)
    BY <2>6, <2>8 DEF Repeated, Same
  <2>10. Ok(c, q, Farewells) /\ q.state = "CLOSED"
    BY <1>1, <2>6, <2>7, <2>9, OkSame DEF Same
  <2>11. Does(e, "RetrReq", p.sn, c, q)
    BY <1>1, <1>4, <2>10, ClosesDoes DEF Begins, Running
  <2>12. Answer(e, q)
    BY <1>4, <2>1, <2>3, <2>4, <2>5, <2>8 DEF HandleRetrReq
  <2> QED
    BY <2>11, <2>12 DEF Done
<1>5. CASE SnInSeq(c, p) /\ c.state # "RETRRUN"
  <2>1. PICK t \in Whole : t = Take(c, p) /\ Same(c, t)
    BY <1>1, TakeKeeps, SameFields DEF Kept
  <2>2. PICK q : q = Answered(t)
    OBVIOUS
  <2>3. Answer(e, q)
    BY <1>5, <2>1, <2>2 DEF HandleRetrReq
  <2> HIDE DEF Answered
  <2>4. /\ q \in Whole /\ Ok(c, q, S) /\ q.state = c.state /\ q.armed = c.armed
        /\ q.fifo_send = c.fifo_send
    BY <1>3, <2>1, <2>2
  <2>5. Does(e, "RetrReq", p.sn, c, q)
    BY <1>2, <1>5, <2>4, RepairsDoes
  <2> QED
    BY <2>3, <2>5 DEF Done
<1>6. CASE ~SnInSeq(c, p)
  <2>1. PICK q : q = Answered(c)
    OBVIOUS
  <2>2. PICK d : d = [q EXCEPT !.state = "RETRREQ"]
    OBVIOUS
  <2>3. Answer(e, d)
    BY <1>6, <2>1, <2>2 DEF HandleRetrReq
  <2>4. Same(c, c)
    BY DEF Same
  <2> HIDE DEF Answered
  <2>5. /\ q \in Whole /\ Ok(c, q, S) /\ q.state = c.state /\ q.armed = c.armed
        /\ q.fifo_send = c.fifo_send /\ q.channel /\ q.tx > 0 /\ ~q.quit
    BY <1>1, <1>3, <2>1, <2>4
  <2> HIDE DEF S
  <2>6. /\ d \in Whole /\ d.state = "RETRREQ" /\ d.armed = q.armed /\ d.fifo_send = q.fifo_send
        /\ d.channel = q.channel /\ d.tx = q.tx /\ d.rx = q.rx /\ d.out = q.out /\ d.quit = q.quit
    BY <2>2, <2>5 DEF Whole, Records, Fits, States
  <2>7. Ok(c, d, S)
    BY <2>5, <2>6 DEF Ok, Wired, Mute
  <2>8. Does(e, "RetrReq", p.sn, c, d)
    BY <1>2, <2>5, <2>6, <2>7, RepairsDoes DEF S
  <2> QED
    BY <2>3, <2>8 DEF Done
<1> QED
  BY <1>4, <1>5, <1>6

\* What a server says when it is asked to open: a goodbye, an answer, or both.
LEMMA OneIsShort ==
  ASSUME NEW S, NEW k \in S, NEW out,
         out = << >> \/ out = << k >> \/ out = Append(<< >>, k)
  PROVE  /\ out \in Seq(S)
         /\ \A i, j \in 1 .. Len(out) : ~(i < j)
<1>1. << >> \in Seq(S) /\ Len(<< >>) = 0
  OBVIOUS
<1>2. PICK nil \in Seq(S) : nil = << >> /\ Len(nil) = 0
  BY <1>1
<1>3. << k >> \in Seq(S) /\ Len(<< k >>) = 1
  OBVIOUS
<1>4. Append(nil, k) \in Seq(S) /\ Len(Append(nil, k)) = 1
  BY <1>2, AppendProperties
<1>5. out \in Seq(S) /\ (Len(out) = 0 \/ Len(out) = 1)
  BY <1>1, <1>2, <1>3, <1>4
<1>6. PICK n \in 0 .. 1 : n = Len(out)
  BY <1>5
<1>7. \A i, j \in 1 .. n : ~(i < j)
  BY <1>6
<1> QED
  BY <1>5, <1>6, <1>7

LEMMA TwoAreShort ==
  ASSUME NEW S, NEW x \in S, NEW k \in S, NEW out,
         out = << x >> \/ out = Append(<< x >>, k), x.pdu.type = "DiscReq"
  PROVE  /\ out \in Seq(S)
         /\ \A i, j \in 1 .. Len(out) : i < j => out[i].pdu.type = "DiscReq"
<1>1. << x >> \in Seq(S) /\ Len(<< x >>) = 1 /\ << x >>[1] = x
  OBVIOUS
<1>2. PICK one \in Seq(S) : one = << x >> /\ Len(one) = 1 /\ one[1] = x
  BY <1>1
<1>3. Append(one, k) \in Seq(S) /\ Len(Append(one, k)) = 2 /\ Append(one, k)[1] = x
  BY <1>2, AppendProperties
<1>4. out \in Seq(S) /\ (Len(out) = 1 \/ Len(out) = 2) /\ out[1] = x
  BY <1>2, <1>3
<1>5. PICK n \in 1 .. 2 : n = Len(out)
  BY <1>4
<1>6. \A i, j \in 1 .. n : i < j => i = 1
  BY <1>5
<1> QED
  BY <1>4, <1>5, <1>6

LEMMA ConReqDone ==
  ASSUME Times, NEW e \in Ends, NEW c, NEW p \in NumberedPdus,
         Ready(c), Fitting("ConReq", c, p), HandleConReq(e, c, p)
  PROVE  Done(e, "ConReq", p.sn, c)
<1>1. c \in Whole /\ c.channel /\ c.out = << >> /\ c.tx \in Nat
  BY Fields DEF Ready
<1>2. CASE Answer(e, CloseConnection(e, c))
  BY <1>2, CloseDone
<1>3. CASE ~Answer(e, CloseConnection(e, c))
  <2> DEFINE S == Utterances(e, "ConReq", c)
             new == [Take(c, p) EXCEPT
                       !.state = "START", !.role = "server",
                       !.sn_t = InitSn[e], !.cs_r = Minus(InitSn[e], 1),
                       !.cts_r = p.cts, !.armed = FALSE,
                       !.fifo_send = << >>, !.fifo_retr = << >>, !.quit = FALSE]
             next == [new EXCEPT !.sn_t = Plus1(@)]
  <2>1. /\ c.state \in {"NONE", "CLOSED"}
        /\ \E d \in Notified(e, next) :
             Answer(e, MuxSend(d, Pdu(e, new, "ConResp", p.cts, << >>)))
    BY <1>3 DEF HandleConReq
  <2>2. PICK d \in Notified(e, next) :
          Answer(e, MuxSend(d, Pdu(e, new, "ConResp", p.cts, << >>)))
    BY <2>1
  <2>3. PICK t \in Whole : t = Take(c, p) /\ t.sn_r = Plus1(p.sn) /\ Same(c, t)
    <3>1. PICK sn : sn = p.sn
      OBVIOUS
    <3>2. PICK n : n = Plus1(sn)
      OBVIOUS
    <3>3. Take(c, p) = [c EXCEPT !.sn_r = n, !.cs_t = sn, !.ts_r = p.ts]
      BY <3>1, <3>2 DEF Take
    <3>4. Take(c, p).sn_r = n
      BY <1>1, <3>3 DEF Whole, Records
    <3> QED
      BY <1>1, <3>1, <3>2, <3>4, TakeKeeps, SameFields DEF Kept
  <2>4. PICK sn \in Numbers : sn = InitSn[e]
    BY ConstantFacts
  <2>5. PICK cs \in Numbers : cs = Minus(sn, 1)
    BY <2>4, NumbersAreClosed
  <2>6. PICK cts \in Nat : cts = p.cts
    BY DEF NumberedPdus
  <2>7. new = [t EXCEPT !.state = "START", !.role = "server", !.sn_t = sn, !.cs_r = cs,
                        !.cts_r = cts, !.armed = FALSE,
                        !.fifo_send = << >>, !.fifo_retr = << >>, !.quit = FALSE]
    BY <2>3, <2>4, <2>5, <2>6
  <2> HIDE DEF new
  <2>8. PICK u : u = [t EXCEPT !.state = "START", !.role = "server", !.sn_t = sn,
                               !.cs_r = cs, !.cts_r = cts, !.armed = FALSE]
    OBVIOUS
  <2>9. /\ u \in Records /\ u.state = "START" /\ u.role = "server" /\ u.sn_r = t.sn_r
        /\ u.channel = t.channel /\ u.tx = t.tx /\ u.rx = t.rx /\ u.out = t.out
    BY <2>8 DEF Whole, Records, States
  <2>10. << >> \in Seq(Nat) /\ << >> \in Seq(Held)
    OBVIOUS
  <2>11. PICK nil : nil = << >> /\ nil \in Seq(Nat) /\ nil \in Seq(Held)
    BY <2>10
  <2>12. new = [u EXCEPT !.fifo_send = nil, !.fifo_retr = nil, !.quit = FALSE]
    BY <2>7, <2>8, <2>11 DEF Whole, Records
  <2>13. /\ new \in Records /\ new.state = "START" /\ new.role = "server"
         /\ new.sn_r = Plus1(p.sn) /\ new.fifo_send = nil /\ new.fifo_retr = nil /\ ~new.quit
         /\ new.channel /\ new.tx = c.tx /\ new.rx = c.rx /\ new.out = << >>
    <3>1. /\ new \in Records /\ new.state = u.state /\ new.role = u.role
          /\ new.sn_r = u.sn_r /\ new.fifo_send = nil /\ new.fifo_retr = nil /\ ~new.quit
          /\ new.channel = u.channel /\ new.tx = u.tx /\ new.rx = u.rx /\ new.out = u.out
      BY <2>9, <2>11, <2>12 DEF Records
    <3> QED
      BY <1>1, <2>3, <2>9, <3>1 DEF Same
  <2>14. new \in Whole
    BY <2>11, <2>13, ConstantFacts DEF Whole, Fits
  <2>15. PICK n \in Numbers : n = Plus1(new.sn_t)
    BY <2>14, Fields, NumbersAreClosed
  <2>16. next = [new EXCEPT !.sn_t = n]
    BY <2>15
  <2> HIDE DEF next
  <2>17. /\ next \in Whole /\ next.state = "START" /\ next.role = "server"
         /\ next.sn_r = Plus1(p.sn) /\ next.fifo_send = << >> /\ ~next.quit
         /\ next.channel /\ next.tx = c.tx /\ next.rx = c.rx /\ next.out = << >>
    <3>1. /\ next \in Whole /\ next.state = new.state /\ next.role = new.role
          /\ next.sn_r = new.sn_r /\ next.fifo_send = new.fifo_send /\ next.quit = new.quit
          /\ next.channel = new.channel /\ next.tx = new.tx /\ next.rx = new.rx
          /\ next.out = new.out
      BY <2>14, <2>16 DEF Whole, Records, Fits
    <3> QED
      BY <2>11, <2>13, <3>1
  <2>18. d \in Whole /\ Called(next, d)
    BY <2>2, <2>17, NotifiedCalls
  <2>19. PICK q \in NumberedPdus : q = Pdu(e, new, "ConResp", p.cts, << >>)
    BY <2>6, <2>14, TypesExist, PduType
  <2>20. q.type = "ConResp"
    BY <2>19 DEF Pdu
  <2>21. PICK k \in Packets, f \in Whole :
           /\ k = [seq |-> d.tx, pdu |-> q] /\ f = MuxSend(d, q)
           /\ f.state = d.state /\ f.role = d.role /\ f.fifo_send = d.fifo_send
           /\ f.channel = d.channel /\ f.rx = d.rx /\ f.quit = d.quit /\ f.armed = d.armed
           /\ f.sn_r = d.sn_r
           /\ d.channel => f.tx = d.tx + 1 /\ f.out = Append(d.out, k)
           /\ ~d.channel => f = d
    BY <2>18, MuxSendFields
  <2>22. k.pdu.type = "ConResp" /\ d.tx \in Nat
    BY <2>18, <2>20, <2>21, Fields
  <2>23. Answer(e, f)
    BY <2>2, <2>19, <2>21
  <2> DEFINE Byes == {x \in Packets : x.pdu.type = "DiscReq"}
  <2>24. << >> \in Seq(Byes) /\ \A x \in Byes : << x >> \in Seq(Byes)
                /\ Append(<< >>, x) = << x >> /\ Len(<< x >>) = 1 /\ Len(Append(<< x >>, k)) = 2
                /\ Append(<< x >>, k)[1] = x /\ Append(<< x >>, k)[2] = k
    OBVIOUS
  <2>25. /\ d.out = << >> \/ \E x \in Byes : d.out = << x >>
         /\ \/ /\ d.channel /\ f.tx > 0 /\ ~f.quit
               /\ f.state = "CLOSED" \/ (f.state = "START" /\ f.role = "server" /\ f.sn_r = Plus1(p.sn))
            \/ ~d.channel /\ f.state = "CLOSED" /\ f.tx = 0 /\ f.rx = 0
         /\ f.fifo_send = << >>
    <3>1. CASE Asked(next, d)
      BY <2>17, <2>21, <2>22, <3>1 DEF Asked
    <3>2. CASE Left(next, d)
      <4>1. PICK x \in Aloud(next, "DiscReq") : d.out = Append(next.out, x)
        BY <2>17, <3>2 DEF Left
      <4>2. d.out = << x >> /\ x \in Byes
        BY <2>17, <2>24, <4>1 DEF Aloud
      <4> QED
        BY <2>17, <2>21, <2>22, <3>2, <4>2 DEF Left
    <3>3. CASE Shut(next, d)
      <4>1. d.out = << >> \/ \E x \in Byes : d.out = << x >>
        <5>1. ASSUME NEW x \in Aloud(next, "DiscReq"), d.out = Append(next.out, x)
              PROVE  x \in Byes /\ d.out = << x >>
          BY <2>17, <2>24, <5>1 DEF Aloud
        <5> QED
          BY <2>17, <3>3, <5>1 DEF Shut
      <4> QED
        BY <2>17, <2>21, <3>3, <4>1 DEF Shut
    <3> QED
      BY <2>18, <3>1, <3>2, <3>3 DEF Called
  <2>26. /\ f.out \in Seq(S)
         /\ \A i, j \in 1 .. Len(f.out) : i < j => f.out[i].pdu.type = "DiscReq"
    <3>1. ASSUME NEW x \in Byes PROVE x \in S
      BY DEF Utterances, Begins
    <3>2. k \in S
      BY <2>22 DEF Utterances, Begins
    <3> HIDE DEF S
    <3>3. CASE d.out = << >>
      <4>1. f.out = << >> \/ f.out = Append(<< >>, k)
        BY <2>21, <3>3
      <4> QED
        BY <3>2, <4>1, OneIsShort
    <3>4. CASE \E x \in Byes : d.out = << x >>
      <4>1. PICK x \in Byes : d.out = << x >>
        BY <3>4
      <4>2. x \in S /\ x.pdu.type = "DiscReq"
        BY <3>1
      <4>3. f.out = << x >> \/ f.out = Append(<< x >>, k)
        BY <2>21, <4>1
      <4>4. PICK out : out = f.out
        OBVIOUS
      <4>5. out = << x >> \/ out = Append(<< x >>, k)
        BY <4>3, <4>4
      <4>6. /\ out \in Seq(S)
            /\ \A i, j \in 1 .. Len(out) : i < j => out[i].pdu.type = "DiscReq"
        BY <3>2, <4>2, <4>5, TwoAreShort
      <4> QED
        BY <4>4, <4>6
    <3> QED
      BY <2>25, <3>3, <3>4
  <2> HIDE DEF S, Byes
  <2>27. Wired(f) /\ Mute(c, f)
    BY <2>21, <2>25 DEF Wired, Mute, Open
  <2>28. Turns(e, "ConReq", p.sn, c, f) /\ Watched(c, f)
    BY <2>1, <2>25 DEF Turns, Watched, Running
  <2>29. Does(e, "ConReq", p.sn, c, f)
    BY <2>26, <2>27, <2>28 DEF Does, Ok, OpenedLast, S
  <2> QED
    BY <2>23, <2>29 DEF Done
<1> QED
  BY <1>2, <1>3

LEMMA ProcessDone ==
  ASSUME Times, NEW e \in Ends, NEW c, NEW p \in NumberedPdus,
         Ready(c), Fitting(p.type, c, p), Process(e, c, p)
  PROVE  Done(e, p.type, p.sn, c)
<1>1. CASE Answer(e, c)
  BY <1>1, RestsDone
<1>2. CASE p.type = "ConReq" /\ HandleConReq(e, c, p)
  BY <1>2, ConReqDone
<1>3. CASE p.type = "ConResp" /\ HandleConResp(e, c, p)
  BY <1>3, ConRespDone
<1>4. CASE /\ c.state # "NONE"
           /\ \/ p.type = "RetrData" /\ HandleRetrData(e, c, p)
              \/ p.type = "Data"     /\ HandleData(e, c, p)
              \/ p.type = "RetrReq"  /\ HandleRetrReq(e, c, p)
              \/ p.type = "RetrResp" /\ HandleRetrResp(e, c, p)
              \/ p.type = "DiscReq"  /\ HandleDiscReq(e, c, p)
              \/ p.type = "HB"       /\ HandleHb(e, c, p)
  BY <1>4, RetrDataDone, DataDone, RetrReqDone, RetrRespDone, DiscReqDone, HbDone
<1> QED
  BY <1>1, <1>2, <1>3, <1>4 DEF Process
-----------------------------------------------------------------------------
(***************************************************************************)
(* A session seen from one end: c is the endpoint e, g its peer, s what is *)
(* on its way to e and r what is on its way to the peer.                   *)
(***************************************************************************)
Kinds(s)    == {s[i].pdu.type : i \in 1 .. Len(s)}
FromZero(s) == \E i \in 1 .. Len(s) : s[i].seq = 0

Calm == {"NONE", "START", "CLOSED"}
Starting(c) == c.state = "START" /\ c.role = "client"

\* What the peer has said so far, if anything, e has not heard.
Unheard(g, s) == "ConReq" \in Kinds(s) \/ g.state = "NONE"

\* The handshake of e is not over.
Fresh(c, g, s, r) ==
  \/ c.state \in {"NONE", "START"} \/ g.state = "NONE"
  \/ "ConReq" \in Kinds(s) \/ "ConResp" \in Kinds(s) \/ FromZero(s)
  \/ "ConReq" \in Kinds(r)

NotBegun(c, r) == c.state = "NONE" => r = << >> /\ c.tx = 0 /\ c.fifo_send = << >>

RequestFirst(e, s) ==
  \A i \in 1 .. Len(s) :
    s[i].pdu.type = "ConReq" => i = 1 /\ s[i].pdu.sn = InitSn[Peer(e)]

OpenedOnce(s) ==
  \A i, j \in 1 .. Len(s) :
    i < j /\ s[i].pdu.type \notin {"ConReq", "DiscReq"} =>
      s[j].pdu.type \notin {"ConReq", "ConResp"} /\ s[j].seq # 0

ZeroOpens(s) == \A i \in 1 .. Len(s) : s[i].seq = 0 => s[i].pdu.type \in Opening

Waits(c, g, s, r) ==
  Unheard(g, s) =>
    /\ Kinds(r) \subseteq {"ConReq", "DiscReq"}
    /\ c.state \in {"NONE", "CLOSED"} \/ Starting(c)
    /\ c.fifo_send = << >>

Opens(c, g, s, r) ==
  Fresh(c, g, s, r) =>
    /\ Kinds(r) \subseteq Opening /\ Kinds(s) \cap Repair = {}
    /\ c.state \in Calm /\ c.fifo_send = << >>

Calls(c, g, s, r) ==
  c.state = "NONE" \/ Starting(c) =>
    /\ Kinds(r) \subseteq {"ConReq"} /\ Kinds(s) \subseteq Opening
    /\ g.state \in Calm /\ g.fifo_send = << >>

Unanswered(c, s, r) ==
  c.rx > 0 /\ c.tx = 0 => Kinds(r) \subseteq Opening /\ Kinds(s) \cap Repair = {}

FirstNumbers(e, c) ==
  /\ c.state = "START" /\ c.role = "server" => c.sn_r = Plus1(InitSn[Peer(e)])
  /\ Starting(c) => c.sn_t = Plus1(InitSn[e])

FirstHeartbeat(e, c, g, s, r) ==
  Fresh(c, g, s, r) =>
    \A i \in 1 .. Len(s) : s[i].pdu.type = "HB" => s[i].pdu.sn = Plus1(InitSn[Peer(e)])

Shape(e, s) == RequestFirst(e, s) /\ OpenedOnce(s) /\ ZeroOpens(s)

Agreed(c, g, s, r) ==
  NotBegun(c, r) /\ Waits(c, g, s, r) /\ Opens(c, g, s, r) /\ Calls(c, g, s, r)

Session(e, c, g, s, r) ==
  /\ Agreed(c, g, s, r) /\ Shape(e, s) /\ Unanswered(c, s, r)
  /\ FirstNumbers(e, c) /\ FirstHeartbeat(e, c, g, s, r)

(***************************************************************************)
(* s thinned out: by the PDU that is received or one that is dropped.      *)
(***************************************************************************)
Thinned(s, t) ==
  \E h \in [1 .. Len(t) -> 1 .. Len(s)] :
    /\ \A i \in 1 .. Len(t) : t[i] = s[h[i]] /\ i <= h[i]
    /\ \A i, j \in 1 .. Len(t) : i < j => h[i] < h[j]

LEMMA ThinnedKinds ==
  ASSUME NEW s \in Seq(Packets), NEW t \in Seq(Packets), Thinned(s, t)
  PROVE  /\ Kinds(t) \subseteq Kinds(s) /\ (FromZero(t) => FromZero(s))
         /\ s = << >> => t = << >>
<1>1. PICK h \in [1 .. Len(t) -> 1 .. Len(s)] : \A i \in 1 .. Len(t) : t[i] = s[h[i]]
  BY DEF Thinned
<1>2. \A i \in 1 .. Len(t) : h[i] \in 1 .. Len(s)
  BY <1>1
<1>3. s = << >> => t = << >>
  <2>1. SUFFICES ASSUME s = << >>, t # << >> PROVE FALSE
    OBVIOUS
  <2>2. Len(s) = 0
    BY <2>1
  <2>3. Len(t) # 0 /\ Len(t) \in Nat
    BY <2>1, EmptySeq, LenProperties
  <2>4. 1 \in 1 .. Len(t)
    BY <2>3
  <2> QED
    BY <1>2, <2>2, <2>4
<1>4. Kinds(t) \subseteq Kinds(s) /\ (FromZero(t) => FromZero(s))
  <2>1. ASSUME NEW i \in 1 .. Len(t) PROVE t[i].pdu.type \in Kinds(s)
    BY <1>1, <1>2 DEF Kinds
  <2>2. FromZero(t) => FromZero(s)
    BY <1>1, <1>2 DEF FromZero
  <2> QED
    BY <2>1, <2>2 DEF Kinds
<1> QED
  BY <1>3, <1>4

LEMMA ThinnedShape ==
  ASSUME NEW e, NEW s \in Seq(Packets), NEW t \in Seq(Packets), Thinned(s, t), Shape(e, s)
  PROVE  Shape(e, t)
<1>1. PICK h \in [1 .. Len(t) -> 1 .. Len(s)] :
        /\ \A i \in 1 .. Len(t) : t[i] = s[h[i]] /\ i <= h[i]
        /\ \A i, j \in 1 .. Len(t) : i < j => h[i] < h[j]
  BY DEF Thinned
<1>2. \A i \in 1 .. Len(t) : h[i] \in 1 .. Len(s) /\ t[i] = s[h[i]] /\ i <= h[i]
  BY <1>1
<1>3. Len(s) \in Nat /\ Len(t) \in Nat
  BY LenProperties
<1>4. RequestFirst(e, t)
  BY <1>2, <1>3 DEF RequestFirst, Shape
<1>5. OpenedOnce(t)
  BY <1>1, <1>2 DEF OpenedOnce, Shape
<1>6. ZeroOpens(t)
  BY <1>2 DEF ZeroOpens, Shape
<1> QED
  BY <1>4, <1>5, <1>6 DEF Shape

LEMMA TailIsThinned ==
  ASSUME NEW s \in Seq(Packets), s # << >>
  PROVE  /\ Tail(s) \in Seq(Packets) /\ Thinned(s, Tail(s))
         /\ Head(s) \in Packets /\ 1 \in 1 .. Len(s) /\ Head(s) = s[1]
         /\ Head(s).pdu.type \in Kinds(s) /\ (Head(s).seq = 0 => FromZero(s))
         /\ \A i \in 1 .. Len(Tail(s)) : Tail(s)[i] = s[i + 1] /\ i + 1 \in 1 .. Len(s)
<1>1. PICK n \in Nat : n + 1 = Len(s)
  BY EmptySeq, LenProperties
<1>2. PICK t \in Seq(Packets) : t = Tail(s) /\ Len(t) = n
  <2>1. Tail(s) \in Seq(Packets) /\ Len(Tail(s)) = n
    BY <1>1, HeadTailProperties
  <2> QED
    BY <2>1
<1>3. \A i \in 1 .. n : t[i] = s[i + 1]
  BY <1>1, <1>2, HeadTailProperties
<1>4. Head(s) \in Packets /\ Head(s) = s[1] /\ 1 \in 1 .. Len(s)
  BY <1>1, HeadTailProperties
<1>5. \A i \in 1 .. Len(t) : t[i] = s[i + 1] /\ i + 1 \in 1 .. Len(s)
  BY <1>1, <1>2, <1>3
<1>6. Thinned(s, t)
  <2>1. PICK h : h = [i \in 1 .. Len(t) |-> i + 1]
    OBVIOUS
  <2>2. h \in [1 .. Len(t) -> 1 .. Len(s)] /\ \A i \in 1 .. Len(t) : h[i] = i + 1
    BY <1>1, <1>2, <2>1
  <2>3. /\ \A i \in 1 .. Len(t) : t[i] = s[h[i]] /\ i <= h[i]
        /\ \A i, j \in 1 .. Len(t) : i < j => h[i] < h[j]
    BY <1>5, <2>2
  <2> QED
    BY <2>2, <2>3 DEF Thinned
<1>7. Head(s).pdu.type \in Kinds(s) /\ (Head(s).seq = 0 => FromZero(s))
  BY <1>4 DEF Kinds, FromZero
<1> QED
  BY <1>2, <1>4, <1>5, <1>6, <1>7

LEMMA AllIsThinned ==
  ASSUME NEW s \in Seq(Packets)
  PROVE  Thinned(s, s)
<1>1. PICK h : h = [i \in 1 .. Len(s) |-> i]
  OBVIOUS
<1>2. h \in [1 .. Len(s) -> 1 .. Len(s)] /\ \A i \in 1 .. Len(s) : h[i] = i
  BY <1>1
<1> QED
  BY <1>2 DEF Thinned

(***************************************************************************)
(* What is said is put behind what is on its way.                          *)
(***************************************************************************)
LEMMA JoinedKinds ==
  ASSUME NEW r \in Seq(Packets), NEW out \in Seq(Packets)
  PROVE  /\ r \o out \in Seq(Packets)
         /\ Kinds(r \o out) = Kinds(r) \cup Kinds(out)
         /\ FromZero(r \o out) <=> FromZero(r) \/ FromZero(out)
         /\ \A i \in 1 .. Len(r \o out) :
              \/ i \in 1 .. Len(r) /\ (r \o out)[i] = r[i]
              \/ /\ i > Len(r) /\ i - Len(r) \in 1 .. Len(out)
                 /\ (r \o out)[i] = out[i - Len(r)]
<1>1. PICK q \in Seq(Packets) : /\ q = r \o out /\ Len(q) = Len(r) + Len(out)
                                /\ \A i \in 1 .. Len(r) : q[i] = r[i]
                                /\ \A i \in 1 .. Len(out) : q[Len(r) + i] = out[i]
  <2>1. r \o out \in Seq(Packets) /\ Len(r \o out) = Len(r) + Len(out)
    BY ConcatProperties
  <2>2. /\ \A i \in 1 .. Len(r) : (r \o out)[i] = r[i]
        /\ \A i \in 1 .. Len(out) : (r \o out)[Len(r) + i] = out[i]
    BY ConcatProperties
  <2> QED
    BY <2>1, <2>2
<1>2. PICK m \in Nat, n \in Nat : m = Len(r) /\ n = Len(out)
  BY LenProperties
<1>3. ASSUME NEW i \in 1 .. Len(q)
      PROVE  \/ i \in 1 .. Len(r) /\ q[i] = r[i]
             \/ i > Len(r) /\ i - Len(r) \in 1 .. Len(out) /\ q[i] = out[i - Len(r)]
  <2>1. CASE i <= m
    BY <1>1, <1>2, <2>1
  <2>2. CASE i > m
    <3>1. i \in Nat /\ i <= m + n
      BY <1>1, <1>2
    <3>2. i - m \in 1 .. n /\ m + (i - m) = i
      BY <1>2, <2>2, <3>1
    <3> QED
      BY <1>1, <1>2, <2>2, <3>2
  <2> QED
    BY <1>2, <2>1, <2>2
<1>4. /\ \A i \in 1 .. Len(r) : i \in 1 .. Len(q) /\ q[i] = r[i]
      /\ \A i \in 1 .. Len(out) : Len(r) + i \in 1 .. Len(q) /\ q[Len(r) + i] = out[i]
  BY <1>1, <1>2
<1>5. Kinds(q) = Kinds(r) \cup Kinds(out)
  <2>1. Kinds(q) \subseteq Kinds(r) \cup Kinds(out)
    BY <1>3 DEF Kinds
  <2>2. Kinds(r) \subseteq Kinds(q) /\ Kinds(out) \subseteq Kinds(q)
    BY <1>4 DEF Kinds
  <2> QED
    BY <2>1, <2>2
<1>6. FromZero(q) <=> FromZero(r) \/ FromZero(out)
  <2>1. FromZero(q) => FromZero(r) \/ FromZero(out)
    BY <1>3 DEF FromZero
  <2>2. FromZero(r) \/ FromZero(out) => FromZero(q)
    BY <1>4 DEF FromZero
  <2> QED
    BY <2>1, <2>2
<1> QED
  BY <1>1, <1>3, <1>5, <1>6

-----------------------------------------------------------------------------
(***************************************************************************)
(* A step of e, in the kinds of PDUs it hears and says: s2 and r2 are what *)
(* is then on its way, out what was said.                                  *)
(***************************************************************************)
Heard(e, t, sn, s, s2) ==
  /\ Kinds(s2) \subseteq Kinds(s) /\ (FromZero(s2) => FromZero(s))
  /\ s = << >> => s2 = << >>
  /\ t # "none" => t \in Kinds(s) /\ "ConReq" \notin Kinds(s2) /\ s # << >>
  /\ t \notin {"none", "ConReq", "DiscReq"} => "ConResp" \notin Kinds(s2) /\ ~FromZero(s2)
  /\ t = "ConReq" => sn = InitSn[Peer(e)]

Said(t, c, out) ==
  /\ Kinds(out) \subseteq Types
  /\ "ConReq" \in Kinds(out) => Begins(t, c)
  /\ Begins(t, c) => Kinds(out) \subseteq {"ConReq"}
  /\ "ConResp" \in Kinds(out) => t = "ConReq"
  /\ "HB" \in Kinds(out) => t = "RetrReq" \/ (t = "ConResp" /\ Starting(c))
  /\ "Data" \in Kinds(out) => t = "none" /\ c.fifo_send # << >>
  /\ "RetrReq" \in Kinds(out) => t \in {"Data", "RetrData"} /\ c.state \in {"UP", "RETRRUN"}
  /\ "RetrResp" \in Kinds(out) \/ "RetrData" \in Kinds(out) => t = "RetrReq"
  /\ FromZero(out) => t = "ConReq" \/ Begins(t, c)
  /\ out = << >> => Kinds(out) = {}

Joined(r, out, r2) ==
  /\ Kinds(r2) = Kinds(r) \cup Kinds(out)
  /\ FromZero(r2) <=> FromZero(r) \/ FromZero(out)
  /\ out = << >> => r2 = r

\* t and sn are those of the first PDU of s, or of none.
First(t, sn, s, s2) ==
  \/ t = "none" /\ s2 = s
  \/ s # << >> /\ t = Head(s).pdu.type /\ sn = Head(s).pdu.sn /\ s2 = Tail(s)

LEMMA FirstIsHeard ==
  ASSUME NEW e, NEW t, NEW sn, NEW s \in Seq(Packets), NEW s2,
         First(t, sn, s, s2), Shape(e, s)
  PROVE  s2 \in Seq(Packets) /\ Thinned(s, s2) /\ Heard(e, t, sn, s, s2)
<1>1. CASE t = "none" /\ s2 = s
  BY <1>1, AllIsThinned DEF Heard
<1>2. CASE s # << >> /\ t = Head(s).pdu.type /\ sn = Head(s).pdu.sn /\ s2 = Tail(s)
  <2>1. /\ s2 \in Seq(Packets) /\ Thinned(s, s2)
        /\ 1 \in 1 .. Len(s) /\ Head(s) = s[1] /\ t \in Kinds(s)
        /\ \A i \in 1 .. Len(s2) : s2[i] = s[i + 1] /\ i + 1 \in 1 .. Len(s)
    BY <1>2, TailIsThinned
  <2>2. Kinds(s2) \subseteq Kinds(s) /\ (FromZero(s2) => FromZero(s)) /\ (s = << >> => s2 = << >>)
    BY <2>1, ThinnedKinds
  <2>3. \A i \in 1 .. Len(s2) : i + 1 # 1 /\ 1 < i + 1
    OBVIOUS
  <2>4. "ConReq" \notin Kinds(s2)
    <3>1. \A i \in 1 .. Len(s2) : s2[i].pdu.type # "ConReq"
      BY <2>1, <2>3 DEF Shape, RequestFirst
    <3> QED
      BY <3>1 DEF Kinds
  <2>5. ASSUME t \notin {"none", "ConReq", "DiscReq"}
        PROVE  "ConResp" \notin Kinds(s2) /\ ~FromZero(s2)
    <3>1. \A i \in 1 .. Len(s2) : s2[i].pdu.type # "ConResp" /\ s2[i].seq # 0
      <4>1. t = s[1].pdu.type
        BY <1>2, <2>1
      <4> QED
        BY <2>1, <2>3, <2>5, <4>1 DEF Shape, OpenedOnce
    <3> QED
      BY <3>1 DEF Kinds, FromZero
  <2>6. t = "ConReq" => sn = InitSn[Peer(e)]
    BY <1>2, <2>1 DEF Shape, RequestFirst
  <2> QED
    BY <1>2, <2>1, <2>2, <2>4, <2>5, <2>6 DEF Heard
<1> QED
  BY <1>1, <1>2 DEF First

LEMMA UtterancesAreSaid ==
  ASSUME NEW e, NEW t, NEW c, NEW out \in Seq(Utterances(e, t, c))
  PROVE  out \in Seq(Packets) /\ Said(t, c, out)
<1>1. \A i \in 1 .. Len(out) : out[i] \in Utterances(e, t, c)
  BY ElementOfSeq
<1>2. Utterances(e, t, c) \subseteq Packets
  BY DEF Utterances
<1>3. out \in Seq(Packets)
  BY <1>2, FifoMonotonic
<1>4. \A i \in 1 .. Len(out) : out[i].pdu.type \in Types
  BY <1>1, <1>2 DEF Packets, NumberedPdus
<1>5. Kinds(out) \subseteq Types
  BY <1>4 DEF Kinds
<1>6. out = << >> => Kinds(out) = {}
  <2>1. Len(<< >>) = 0
    OBVIOUS
  <2> QED
    BY <2>1 DEF Kinds
<1>7. FromZero(out) => t = "ConReq" \/ Begins(t, c)
  BY <1>1 DEF FromZero, Utterances
<1>8. ASSUME NEW k \in Kinds(out)
      PROVE  /\ Begins(t, c) => k = "ConReq"
             /\ k = "ConReq" => Begins(t, c)
             /\ k = "ConResp" => t = "ConReq"
             /\ k = "HB" => t = "RetrReq" \/ (t = "ConResp" /\ Starting(c))
             /\ k = "Data" => t = "none" /\ c.fifo_send # << >>
             /\ k = "RetrReq" => t \in {"Data", "RetrData"} /\ c.state \in {"UP", "RETRRUN"}
             /\ k \in {"RetrResp", "RetrData"} => t = "RetrReq"
  <2>1. PICK i \in 1 .. Len(out) : k = out[i].pdu.type
    BY DEF Kinds
  <2>2. out[i] \in Utterances(e, t, c)
    BY <1>1
  <2> QED
    BY <2>1, <2>2 DEF Utterances, Starting
<1> QED
  BY <1>3, <1>5, <1>6, <1>7, <1>8 DEF Said

LEMMA ConcatIsJoined ==
  ASSUME NEW r \in Seq(Packets), NEW out \in Seq(Packets)
  PROVE  Joined(r, out, r \o out)
<1>1. out = << >> => r \o out = r
  BY ConcatProperties, ConcatEmptySeq
<1> QED
  BY <1>1, JoinedKinds DEF Joined

(***************************************************************************)
(* The kinds of PDUs on their way agree with the states after the step, at *)
(* both ends.                                                              *)
(***************************************************************************)
Stepped(e, t, sn, c, d, s, r, s2, r2) ==
  /\ Turns(e, t, sn, c, d) /\ Heard(e, t, sn, s, s2)
  /\ Said(t, c, d.out) /\ Joined(r, d.out, r2)

LEMMA FreshBefore ==
  ASSUME NEW e, NEW t, NEW sn, NEW c, NEW d, NEW g, NEW s, NEW r, NEW s2, NEW r2,
         Stepped(e, t, sn, c, d, s, r, s2, r2)
  PROVE  /\ Fresh(d, g, s2, r2) => Fresh(c, g, s, r)
         /\ Fresh(g, d, r2, s2) => Fresh(g, c, r, s)
         /\ Unheard(d, r2) => Unheard(c, r)
<1>1. "ConReq" \in Kinds(r2) => "ConReq" \in Kinds(r) \/ c.state = "NONE"
  BY DEF Stepped, Joined, Said, Begins
<1>2. d.state = "NONE" => c.state = "NONE"
  BY DEF Stepped, Turns
<1>3. d.state = "START" => c.state \in {"NONE", "START"} \/ "ConReq" \in Kinds(s)
  BY DEF Stepped, Turns, Heard, Begins
<1>4. "ConResp" \in Kinds(r2) \/ FromZero(r2) =>
        \/ "ConResp" \in Kinds(r) \/ FromZero(r)
        \/ "ConReq" \in Kinds(s) \/ c.state = "NONE"
  BY DEF Stepped, Joined, Said, Heard, Begins
<1>5. Kinds(s2) \subseteq Kinds(s) /\ (FromZero(s2) => FromZero(s))
  BY DEF Stepped, Heard
<1>6. Fresh(d, g, s2, r2) => Fresh(c, g, s, r)
  BY <1>1, <1>2, <1>3, <1>5 DEF Fresh
<1>7. Fresh(g, d, r2, s2) => Fresh(g, c, r, s)
  BY <1>1, <1>2, <1>4, <1>5 DEF Fresh
<1>8. Unheard(d, r2) => Unheard(c, r)
  BY <1>1, <1>2 DEF Unheard
<1> QED
  BY <1>6, <1>7, <1>8

LEMMA ActorAgrees ==
  ASSUME NEW e, NEW t, NEW sn, NEW c, NEW d, NEW g, NEW s, NEW r, NEW s2, NEW r2,
         d.state \in States, Stepped(e, t, sn, c, d, s, r, s2, r2),
         Agreed(c, g, s, r), Agreed(g, c, r, s)
  PROVE  Agreed(d, g, s2, r2)
<1>1. NotBegun(d, r2)
  BY DEF Stepped, Turns, Joined, Agreed, NotBegun
<1>2. Waits(d, g, s2, r2)
  <2>1. SUFFICES ASSUME Unheard(g, s2)
                 PROVE  /\ Kinds(r2) \subseteq {"ConReq", "DiscReq"}
                        /\ d.state \in {"NONE", "CLOSED"} \/ Starting(d)
                        /\ d.fifo_send = << >>
    BY DEF Waits
  <2>2. t = "none"
    BY <2>1 DEF Stepped, Heard, Unheard, Agreed, NotBegun
  <2>3. /\ Kinds(r) \subseteq {"ConReq", "DiscReq"} /\ c.fifo_send = << >>
        /\ c.state \in {"NONE", "CLOSED"} \/ Starting(c)
    BY <2>1 DEF Stepped, Heard, Unheard, Agreed, Waits
  <2>4. Kinds(d.out) \subseteq {"ConReq", "DiscReq"}
    BY <2>2, <2>3 DEF Stepped, Said, Types
  <2>5. d.state \in {"NONE", "CLOSED"} \/ Starting(d)
    BY <2>2, <2>3 DEF Stepped, Turns, States, Starting, Begins, Completes, Running
  <2>6. d.fifo_send = << >>
    BY <2>2, <2>3 DEF Stepped, Turns, Starting, Completes, Running
  <2> QED
    BY <2>3, <2>4, <2>5, <2>6 DEF Stepped, Joined
<1>3. Opens(d, g, s2, r2)
  <2>1. SUFFICES ASSUME Fresh(d, g, s2, r2)
                 PROVE  /\ Kinds(r2) \subseteq Opening /\ Kinds(s2) \cap Repair = {}
                        /\ d.state \in Calm /\ d.fifo_send = << >>
    BY DEF Opens
  <2>2. /\ Kinds(r) \subseteq Opening /\ Kinds(s) \cap Repair = {}
        /\ c.state \in Calm /\ c.fifo_send = << >>
    BY <2>1, FreshBefore DEF Agreed, Opens
  <2>3. t \notin Repair /\ Kinds(s2) \cap Repair = {}
    BY <2>2 DEF Stepped, Heard, Repair
  <2>4. Completes(t, c) => d.state \in {"NONE", "START"}
    <3>1. SUFFICES ASSUME Completes(t, c), d.state \notin {"NONE", "START"} PROVE FALSE
      OBVIOUS
    <3>2. /\ t \in Kinds(s) /\ s # << >> /\ t \notin {"none", "ConReq", "DiscReq"}
          /\ "ConReq" \notin Kinds(s2) /\ "ConResp" \notin Kinds(s2) /\ ~FromZero(s2)
      BY <3>1 DEF Stepped, Heard, Completes
    <3>3. g.state # "NONE"
      BY <3>2 DEF Agreed, NotBegun
    <3>4. "ConReq" \notin Kinds(r)
      BY <3>2 DEF Agreed, Waits, Unheard
    <3>5. "ConReq" \notin Kinds(r2)
      BY <3>2, <3>4 DEF Stepped, Joined, Said, Begins
    <3> QED
      BY <2>1, <3>1, <3>2, <3>3, <3>5 DEF Fresh
  <2>5. d.state \in Calm
    BY <2>2, <2>3, <2>4 DEF Stepped, Turns, States, Calm, Running, Repair
  <2>6. d.fifo_send = << >>
    <3>1. CASE Completes(t, c)
      BY <2>2, <2>4, <3>1 DEF Stepped, Turns, Completes, Begins
    <3>2. CASE ~Completes(t, c)
      BY <2>2, <3>2 DEF Stepped, Turns, Calm, Running
    <3> QED
      BY <3>1, <3>2
  <2>7. Kinds(d.out) \subseteq Opening
    <3>1. "HB" \notin Kinds(d.out)
      <4>1. SUFFICES ASSUME "HB" \in Kinds(d.out) PROVE FALSE
        OBVIOUS
      <4>2. Completes(t, c) /\ t = "ConResp" /\ c.state = "START"
        BY <2>3, <4>1 DEF Stepped, Said, Completes, Starting, Repair
      <4>3. d.out = << >>
        BY <2>4, <4>2 DEF Stepped, Turns, Begins
      <4> QED
        BY <4>1, <4>3 DEF Stepped, Said
    <3>2. "Data" \notin Kinds(d.out)
      BY <2>2 DEF Stepped, Said
    <3>3. Kinds(d.out) \cap Repair = {}
      BY <2>2, <2>3 DEF Stepped, Said, Repair, Calm
    <3> QED
      BY <3>1, <3>2, <3>3 DEF Stepped, Said, Types, Opening, Repair
  <2> QED
    BY <2>2, <2>3, <2>5, <2>6, <2>7 DEF Stepped, Joined
<1>4. Calls(d, g, s2, r2)
  <2>1. SUFFICES ASSUME d.state = "NONE" \/ Starting(d)
                 PROVE  /\ Kinds(r2) \subseteq {"ConReq"} /\ Kinds(s2) \subseteq Opening
                        /\ g.state \in Calm /\ g.fifo_send = << >>
    BY DEF Calls
  <2>2. /\ c.state = "NONE" \/ Starting(c)
        /\ Kinds(d.out) \subseteq {"ConReq"}
    BY <2>1 DEF Stepped, Turns, Said, Starting, Begins
  <2>3. /\ Kinds(r) \subseteq {"ConReq"} /\ Kinds(s) \subseteq Opening
        /\ g.state \in Calm /\ g.fifo_send = << >>
    BY <2>2 DEF Agreed, Calls
  <2> QED
    BY <2>2, <2>3 DEF Stepped, Joined, Heard
<1> QED
  BY <1>1, <1>2, <1>3, <1>4 DEF Agreed

LEMMA PeerAgrees ==
  ASSUME NEW e, NEW t, NEW sn, NEW c, NEW d, NEW g, NEW s, NEW r, NEW s2, NEW r2,
         d.state \in States, Stepped(e, t, sn, c, d, s, r, s2, r2),
         Agreed(g, c, r, s)
  PROVE  Agreed(g, d, r2, s2) /\ (Fresh(g, d, r2, s2) => Fresh(g, c, r, s))
<1>1. Fresh(g, d, r2, s2) => Fresh(g, c, r, s)
  <2>1. ASSUME Fresh(g, d, r2, s2) PROVE Fresh(g, c, r, s)
    BY <2>1, FreshBefore
  <2> QED
    BY <2>1
<1>2. NotBegun(g, s2)
  BY DEF Stepped, Heard, Agreed, NotBegun
<1>3. Waits(g, d, r2, s2)
  BY FreshBefore DEF Agreed, Waits, Stepped, Heard
<1>4. Opens(g, d, r2, s2)
  <2>1. SUFFICES ASSUME Fresh(g, d, r2, s2)
                 PROVE  /\ Kinds(s2) \subseteq Opening /\ Kinds(r2) \cap Repair = {}
                        /\ g.state \in Calm /\ g.fifo_send = << >>
    BY DEF Opens
  <2>2. /\ Kinds(s) \subseteq Opening /\ Kinds(r) \cap Repair = {}
        /\ g.state \in Calm /\ g.fifo_send = << >>
    BY <1>1, <2>1 DEF Agreed, Opens
  <2>3. t \in Opening \cup {"none"}
    BY <2>2 DEF Stepped, Heard
  <2>4. Kinds(d.out) \cap Repair = {}
    BY <2>3 DEF Stepped, Said, Opening, Repair
  <2> QED
    BY <2>2, <2>4 DEF Stepped, Joined, Heard
<1>5. Calls(g, d, r2, s2)
  <2>1. SUFFICES ASSUME g.state = "NONE" \/ Starting(g)
                 PROVE  /\ Kinds(s2) \subseteq {"ConReq"} /\ Kinds(r2) \subseteq Opening
                        /\ d.state \in Calm /\ d.fifo_send = << >>
    BY DEF Calls
  <2>2. /\ Kinds(s) \subseteq {"ConReq"} /\ Kinds(r) \subseteq Opening
        /\ c.state \in Calm /\ c.fifo_send = << >>
    BY <2>1 DEF Agreed, Calls
  <2>3. t \in {"none", "ConReq"}
    BY <2>2 DEF Stepped, Heard
  <2>4. Kinds(d.out) \subseteq Opening
    BY <2>2, <2>3 DEF Stepped, Said, Types, Opening
  <2>5. d.state \in Calm
    BY <2>2, <2>3 DEF Stepped, Turns, States, Calm, Running, Completes
  <2>6. d.fifo_send = << >>
    BY <2>2, <2>3 DEF Stepped, Turns, Calm, Running, Completes
  <2> QED
    BY <2>2, <2>4, <2>5, <2>6 DEF Stepped, Joined, Heard
<1> QED
  BY <1>1, <1>2, <1>3, <1>4, <1>5 DEF Agreed

LEMMA OverflowAgrees ==
  ASSUME NEW c, NEW g, NEW s \in Seq(Packets), NEW s2 \in Seq(Packets), NEW r,
         Thinned(s, s2), Agreed(c, g, s, r), Agreed(g, c, r, s)
  PROVE  Agreed(c, g, s2, r) /\ Agreed(g, c, r, s2)
<1>1. /\ Kinds(s2) \subseteq Kinds(s) /\ (FromZero(s2) => FromZero(s))
      /\ s = << >> => s2 = << >>
  BY ThinnedKinds
<1>2. NotBegun(c, r) /\ NotBegun(g, s2)
  BY <1>1 DEF Agreed, NotBegun
<1>3. Waits(c, g, s2, r) /\ Waits(g, c, r, s2)
  BY <1>1 DEF Agreed, Waits, Unheard
<1>4. Fresh(c, g, s2, r) => Fresh(c, g, s, r)
  BY <1>1 DEF Fresh
<1>5. Fresh(g, c, r, s2) => Fresh(g, c, r, s)
  BY <1>1 DEF Fresh
<1>6. Opens(c, g, s2, r) /\ Opens(g, c, r, s2)
  BY <1>1, <1>4, <1>5 DEF Agreed, Opens
<1>7. Calls(c, g, s2, r) /\ Calls(g, c, r, s2)
  BY <1>1 DEF Agreed, Calls
<1> QED
  BY <1>2, <1>3, <1>6, <1>7 DEF Agreed

(***************************************************************************)
(* The order of what is on its way, and the first numbers.                 *)
(***************************************************************************)
LEMMA SaidInShape ==
  ASSUME NEW e \in Ends, NEW t, NEW sn, NEW c, NEW d, NEW g, NEW s, NEW r \in Seq(Packets),
         NEW s2, NEW r2, r2 = r \o d.out,
         d.out \in Seq(Utterances(e, t, c)), OpenedLast(t, c, d.out),
         Stepped(e, t, sn, c, d, s, r, s2, r2),
         NotBegun(c, r), Waits(c, g, s, r), Shape(Peer(e), r)
  PROVE  Shape(Peer(e), r2)
<1>1. Peer(Peer(e)) = e
  BY DEF Ends, Peer
<1>2. /\ d.out \in Seq(Packets)
      /\ \A i \in 1 .. Len(d.out) : d.out[i] \in Utterances(e, t, c)
  BY UtterancesAreSaid, ElementOfSeq
<1>3. PICK m \in Nat, n \in Nat : m = Len(r) /\ n = Len(d.out)
  BY <1>2, LenProperties
<1>4. \A i \in 1 .. Len(r2) :
        \/ i \in 1 .. m /\ r2[i] = r[i]
        \/ i > m /\ i - m \in 1 .. n /\ r2[i] = d.out[i - m]
  BY <1>2, <1>3, JoinedKinds
<1>5. \A i \in 1 .. n : /\ d.out[i].pdu.type = "ConReq" => Begins(t, c) /\ d.out[i].pdu.sn = InitSn[e]
                        /\ Begins(t, c) => d.out[i].pdu.type = "ConReq"
                        /\ d.out[i].pdu.type = "ConResp" => t = "ConReq"
                        /\ d.out[i].seq = 0 => t = "ConReq" \/ Begins(t, c)
                        /\ d.out[i].seq = 0 => d.out[i].pdu.type \in Opening
  <2>1. ASSUME NEW i \in 1 .. n
        PROVE  /\ d.out[i].pdu.type \in Types
               /\ d.out[i] \in Utterances(e, t, c)
    <3>1. PICK k \in Packets : k = d.out[i] /\ k \in Utterances(e, t, c)
      BY <1>2, <1>3, ElementOfSeq
    <3> QED
      BY <3>1 DEF Packets, NumberedPdus
  <2>2. ASSUME NEW k \in Utterances(e, t, c), k.pdu.type \in Types
        PROVE  /\ k.pdu.type = "ConReq" => Begins(t, c) /\ k.pdu.sn = InitSn[e]
               /\ Begins(t, c) => k.pdu.type = "ConReq"
               /\ k.pdu.type = "ConResp" => t = "ConReq"
               /\ k.seq = 0 => t = "ConReq" \/ Begins(t, c)
               /\ k.seq = 0 => k.pdu.type \in Opening
    BY <2>2 DEF Utterances, Types, Opening, Begins
  <2> QED
    BY <2>1, <2>2
<1>6. \A i, j \in 1 .. n : i < j /\ (t = "ConReq" \/ Begins(t, c)) => d.out[i].pdu.type = "DiscReq"
  BY <1>3 DEF OpenedLast
<1>7. Begins(t, c) => m = 0
  <2>1. Len(<< >>) = 0
    OBVIOUS
  <2> QED
    BY <1>3, <2>1 DEF NotBegun, Begins
<1>8. t = "ConReq" => \A i \in 1 .. m : r[i].pdu.type \in {"ConReq", "DiscReq"}
  <2>1. t = "ConReq" => Unheard(g, s)
    BY DEF Stepped, Heard, Unheard
  <2> QED
    BY <1>3, <2>1 DEF Waits, Kinds
<1>9. RequestFirst(Peer(e), r2)
  <2>1. SUFFICES ASSUME NEW i \in 1 .. Len(r2), r2[i].pdu.type = "ConReq"
                 PROVE  i = 1 /\ r2[i].pdu.sn = InitSn[e]
    BY <1>1 DEF RequestFirst
  <2>2. CASE i \in 1 .. m /\ r2[i] = r[i]
    BY <1>1, <1>3, <2>1, <2>2 DEF Shape, RequestFirst
  <2>3. CASE i > m /\ i - m \in 1 .. n /\ r2[i] = d.out[i - m]
    <3>1. PICK k \in 1 .. n : k = i - m
      BY <2>3
    <3>2. Begins(t, c) /\ d.out[k].pdu.sn = InitSn[e]
      BY <1>5, <2>1, <2>3, <3>1
    <3>3. m = 0 /\ k = i /\ k \in Nat
      BY <1>7, <3>1, <3>2
    <3>4. ~(1 < k)
      <4>1. SUFFICES ASSUME 1 < k PROVE FALSE
        OBVIOUS
      <4>2. 1 \in 1 .. n
        BY <4>1
      <4> QED
        BY <1>5, <1>6, <3>2, <4>1, <4>2
    <3> QED
      BY <2>3, <3>1, <3>2, <3>3, <3>4
  <2> QED
    BY <1>4, <2>2, <2>3
<1>10. OpenedOnce(r2)
  <2>1. SUFFICES ASSUME NEW i \in 1 .. Len(r2), NEW j \in 1 .. Len(r2),
                        i < j, r2[i].pdu.type \notin {"ConReq", "DiscReq"}
                 PROVE  r2[j].pdu.type \notin {"ConReq", "ConResp"} /\ r2[j].seq # 0
    BY DEF OpenedOnce
  <2>2. CASE j \in 1 .. m /\ r2[j] = r[j]
    <3>1. i \in 1 .. m /\ r2[i] = r[i]
      BY <1>4, <2>1, <2>2
    <3> QED
      BY <1>3, <2>1, <2>2, <3>1 DEF Shape, OpenedOnce
  <2>3. CASE j > m /\ j - m \in 1 .. n /\ r2[j] = d.out[j - m]
    <3>1. SUFFICES ASSUME t = "ConReq" \/ Begins(t, c) PROVE FALSE
      BY <1>5, <2>3
    <3>2. CASE i \in 1 .. m /\ r2[i] = r[i]
      BY <1>7, <1>8, <2>1, <3>1, <3>2
    <3>3. CASE i > m /\ i - m \in 1 .. n /\ r2[i] = d.out[i - m]
      <4>1. i - m < j - m
        BY <2>1, <3>3
      <4> QED
        BY <1>6, <2>1, <2>3, <3>1, <3>3, <4>1
    <3> QED
      BY <1>4, <3>2, <3>3
  <2> QED
    BY <1>4, <2>2, <2>3
<1>11. ZeroOpens(r2)
  BY <1>3, <1>4, <1>5 DEF Shape, ZeroOpens
<1> QED
  BY <1>9, <1>10, <1>11 DEF Shape

LEMMA ActorNumbers ==
  ASSUME NEW e, NEW t, NEW sn, NEW c, NEW d, NEW g,
         NEW s \in Seq(Packets), NEW r, NEW s2 \in Seq(Packets), NEW r2, Thinned(s, s2),
         Stepped(e, t, sn, c, d, s, r, s2, r2),
         FirstNumbers(e, c), FirstHeartbeat(e, c, g, s, r)
  PROVE  FirstNumbers(e, d) /\ FirstHeartbeat(e, d, g, s2, r2)
<1>1. FirstNumbers(e, d)
  BY DEF Stepped, Turns, Heard, FirstNumbers, Starting
<1>2. FirstHeartbeat(e, d, g, s2, r2)
  <2>1. PICK h \in [1 .. Len(s2) -> 1 .. Len(s)] : \A i \in 1 .. Len(s2) : s2[i] = s[h[i]]
    BY DEF Thinned
  <2>2. \A i \in 1 .. Len(s2) : h[i] \in 1 .. Len(s) /\ s2[i] = s[h[i]]
    BY <2>1
  <2>3. Fresh(d, g, s2, r2) => Fresh(c, g, s, r)
    BY FreshBefore
  <2> QED
    BY <2>2, <2>3 DEF FirstHeartbeat
<1> QED
  BY <1>1, <1>2

LEMMA PeerNumbers ==
  ASSUME NEW e \in Ends, NEW t, NEW sn, NEW c, NEW d, NEW g, NEW s, NEW r \in Seq(Packets),
         NEW s2, NEW r2, r2 = r \o d.out, d.out \in Seq(Utterances(e, t, c)),
         Stepped(e, t, sn, c, d, s, r, s2, r2), Opens(g, c, r, s),
         Fresh(g, d, r2, s2) => Fresh(g, c, r, s),
         FirstNumbers(e, c), FirstHeartbeat(Peer(e), g, c, r, s)
  PROVE  FirstHeartbeat(Peer(e), g, d, r2, s2)
<1>1. Peer(Peer(e)) = e
  BY DEF Ends, Peer
<1>2. SUFFICES ASSUME Fresh(g, c, r, s), NEW i \in 1 .. Len(r2), r2[i].pdu.type = "HB"
               PROVE  r2[i].pdu.sn = Plus1(InitSn[e])
  BY <1>1 DEF FirstHeartbeat
<1>3. t # "RetrReq"
  BY <1>2 DEF Stepped, Heard, Opens, Opening
<1>4. /\ d.out \in Seq(Packets)
      /\ \A k \in 1 .. Len(d.out) : d.out[k] \in Utterances(e, t, c)
  BY UtterancesAreSaid, ElementOfSeq
<1>5. CASE i \in 1 .. Len(r) /\ r2[i] = r[i]
  BY <1>1, <1>2, <1>5 DEF FirstHeartbeat
<1>6. CASE i - Len(r) \in 1 .. Len(d.out) /\ r2[i] = d.out[i - Len(r)]
  <2>1. PICK k \in Utterances(e, t, c) : k = r2[i]
    BY <1>4, <1>6
  <2>2. Starting(c) /\ k.pdu.sn = c.sn_t
    BY <1>2, <1>3, <2>1 DEF Utterances, Starting
  <2> QED
    BY <2>1, <2>2 DEF FirstNumbers
<1> QED
  BY <1>4, <1>5, <1>6, JoinedKinds

(***************************************************************************)
(* c0 is the endpoint before the reception: rx is counted up only by a PDU *)
(* that is accepted, and on a new channel that is the number 0.            *)
(***************************************************************************)
LEMMA ActorUnanswered ==
  ASSUME NEW e, NEW t, NEW sn, NEW c0, NEW c, NEW d, NEW g, NEW s, NEW r, NEW s2, NEW r2,
         Stepped(e, t, sn, c, d, s, r, s2, r2), Mute(c, d), c.tx = c0.tx,
         c.rx > 0 => c0.rx > 0 \/ FromZero(s),
         Opens(c, g, s, r), Unanswered(c0, s, r)
  PROVE  Unanswered(d, s2, r2)
<1>1. SUFFICES ASSUME d.rx > 0, d.tx = 0
               PROVE  Kinds(r2) \subseteq Opening /\ Kinds(s2) \cap Repair = {}
  BY DEF Unanswered
<1>2. d.out = << >> /\ c.tx = 0 /\ c.rx > 0
  BY <1>1 DEF Mute
<1>3. Kinds(r) \subseteq Opening /\ Kinds(s) \cap Repair = {}
  <2>1. CASE c0.rx > 0
    BY <1>2, <2>1 DEF Unanswered
  <2>2. CASE FromZero(s)
    BY <2>2 DEF Opens, Fresh
  <2> QED
    BY <1>2, <2>1, <2>2
<1> QED
  BY <1>2, <1>3 DEF Stepped, Joined, Heard

LEMMA PeerUnanswered ==
  ASSUME NEW e, NEW t, NEW sn, NEW c, NEW d, NEW g, NEW s, NEW r, NEW s2, NEW r2,
         Stepped(e, t, sn, c, d, s, r, s2, r2), Unanswered(g, r, s)
  PROVE  Unanswered(g, r2, s2)
<1>1. SUFFICES ASSUME g.rx > 0, g.tx = 0
               PROVE  Kinds(s2) \subseteq Opening /\ Kinds(r2) \cap Repair = {}
  BY DEF Unanswered
<1>2. Kinds(s) \subseteq Opening /\ Kinds(r) \cap Repair = {}
  BY <1>1 DEF Unanswered
<1>3. t \in Opening \cup {"none"}
  BY <1>2 DEF Stepped, Heard
<1>4. Kinds(d.out) \cap Repair = {}
  BY <1>3 DEF Stepped, Said, Opening, Repair
<1> QED
  BY <1>2, <1>4 DEF Stepped, Joined, Heard

(***************************************************************************)
(* A session depends on these fields of the endpoints only.                *)
(***************************************************************************)
Like(c, d) ==
  /\ d.state = c.state /\ d.role = c.role /\ d.sn_t = c.sn_t /\ d.sn_r = c.sn_r
  /\ d.fifo_send = c.fifo_send /\ d.tx = c.tx

LEMMA LikeAgrees ==
  ASSUME NEW e, NEW f, NEW c, NEW d, NEW g, NEW s, NEW r, Like(c, d)
  PROVE  /\ Agreed(c, g, s, r) => Agreed(d, g, s, r)
         /\ Agreed(g, c, r, s) => Agreed(g, d, r, s)
         /\ FirstNumbers(e, c) => FirstNumbers(e, d)
         /\ FirstHeartbeat(e, c, g, s, r) => FirstHeartbeat(e, d, g, s, r)
         /\ FirstHeartbeat(f, g, c, r, s) => FirstHeartbeat(f, g, d, r, s)
<1>1. /\ d.state = c.state /\ d.role = c.role /\ d.sn_t = c.sn_t /\ d.sn_r = c.sn_r
      /\ d.fifo_send = c.fifo_send /\ d.tx = c.tx
  BY DEF Like
<1>2. /\ Fresh(d, g, s, r) <=> Fresh(c, g, s, r)
      /\ Fresh(g, d, r, s) <=> Fresh(g, c, r, s)
      /\ Unheard(d, r) <=> Unheard(c, r)
      /\ Starting(d) <=> Starting(c)
  BY <1>1 DEF Fresh, Unheard, Starting
<1>3. Agreed(c, g, s, r) => Agreed(d, g, s, r)
  <2>1. NotBegun(c, r) => NotBegun(d, r)
    BY <1>1 DEF NotBegun
  <2>2. Waits(c, g, s, r) => Waits(d, g, s, r)
    BY <1>1, <1>2 DEF Waits
  <2>3. Opens(c, g, s, r) => Opens(d, g, s, r)
    BY <1>1, <1>2 DEF Opens
  <2>4. Calls(c, g, s, r) => Calls(d, g, s, r)
    BY <1>1, <1>2 DEF Calls
  <2> QED
    BY <2>1, <2>2, <2>3, <2>4 DEF Agreed
<1>4. Agreed(g, c, r, s) => Agreed(g, d, r, s)
  BY <1>1, <1>2 DEF Agreed, NotBegun, Waits, Opens, Calls
<1>5. FirstNumbers(e, c) => FirstNumbers(e, d)
  BY <1>1, <1>2 DEF FirstNumbers
<1>6. FirstHeartbeat(e, c, g, s, r) => FirstHeartbeat(e, d, g, s, r)
  BY <1>2 DEF FirstHeartbeat
<1>7. FirstHeartbeat(f, g, c, r, s) => FirstHeartbeat(f, g, d, r, s)
  BY <1>2 DEF FirstHeartbeat
<1> QED
  BY <1>3, <1>4, <1>5, <1>6, <1>7

LEMMA StepKeepsSession ==
  ASSUME NEW e \in Ends, NEW t, NEW sn, NEW c0, NEW c, NEW d, NEW new, NEW g,
         NEW s \in Seq(Packets), NEW r \in Seq(Packets), NEW s2,
         Like(c0, c), c.rx > 0 => c0.rx > 0 \/ FromZero(s),
         Does(e, t, sn, c, d), Like(d, new), new.rx = d.rx, First(t, sn, s, s2),
         Session(e, c0, g, s, r), Session(Peer(e), g, c0, r, s)
  PROVE  Session(e, new, g, s2, r \o d.out) /\ Session(Peer(e), g, new, r \o d.out, s2)
<1>1. /\ Agreed(c, g, s, r) /\ Agreed(g, c, r, s)
      /\ FirstNumbers(e, c) /\ FirstHeartbeat(e, c, g, s, r)
      /\ FirstHeartbeat(Peer(e), g, c, r, s)
  BY LikeAgrees DEF Session
<1>2. /\ Opens(c, g, s, r) /\ NotBegun(c, r) /\ Waits(c, g, s, r) /\ Opens(g, c, r, s)
  BY <1>1 DEF Agreed
<1>3. s2 \in Seq(Packets) /\ Thinned(s, s2) /\ Heard(e, t, sn, s, s2)
  BY FirstIsHeard DEF Session
<1>4. /\ d.out \in Seq(Utterances(e, t, c)) /\ OpenedLast(t, c, d.out)
      /\ Turns(e, t, sn, c, d) /\ Mute(c, d) /\ d \in Whole
  BY DEF Does, Ok
<1>5. d.out \in Seq(Packets) /\ Said(t, c, d.out)
  BY <1>4, UtterancesAreSaid
<1>6. PICK r2 : r2 = r \o d.out
  OBVIOUS
<1>7. Stepped(e, t, sn, c, d, s, r, s2, r2)
  BY <1>3, <1>4, <1>5, <1>6, ConcatIsJoined DEF Stepped
<1>8. Shape(e, s2) /\ Shape(Peer(e), r2)
  BY <1>2, <1>3, <1>4, <1>6, <1>7, ThinnedShape, SaidInShape DEF Session
<1>9. Agreed(d, g, s2, r2) /\ Agreed(g, d, r2, s2)
  BY <1>1, <1>4, <1>7, ActorAgrees, PeerAgrees, Fields
<1>10. FirstNumbers(e, d) /\ FirstHeartbeat(e, d, g, s2, r2)
  BY <1>1, <1>3, <1>7, ActorNumbers
<1>11. FirstHeartbeat(Peer(e), g, d, r2, s2)
  <2>1. Fresh(g, d, r2, s2) => Fresh(g, c, r, s)
    BY <1>1, <1>4, <1>7, PeerAgrees, Fields
  <2> QED
    BY <1>1, <1>2, <1>4, <1>6, <1>7, <2>1, PeerNumbers
<1>12. FirstNumbers(Peer(e), g)
  BY DEF Session
<1>13. Unanswered(d, s2, r2)
  BY <1>2, <1>4, <1>7, ActorUnanswered DEF Like, Session
<1>14. Unanswered(g, r2, s2)
  BY <1>7, PeerUnanswered DEF Session
<1>15. /\ Agreed(new, g, s2, r2) /\ Agreed(g, new, r2, s2)
       /\ FirstNumbers(e, new) /\ FirstHeartbeat(e, new, g, s2, r2)
       /\ FirstHeartbeat(Peer(e), g, new, r2, s2)
  BY <1>9, <1>10, <1>11, LikeAgrees
<1>16. Unanswered(new, s2, r2)
  BY <1>13 DEF Unanswered, Like
<1> QED
  BY <1>6, <1>8, <1>12, <1>14, <1>15, <1>16 DEF Session

LEMMA DropKeepsSession ==
  ASSUME NEW e, NEW f, NEW c, NEW g,
         NEW s \in Seq(Packets), NEW s2 \in Seq(Packets), NEW r, Thinned(s, s2),
         Session(e, c, g, s, r), Session(f, g, c, r, s)
  PROVE  Session(e, c, g, s2, r) /\ Session(f, g, c, r, s2)
<1>1. /\ Kinds(s2) \subseteq Kinds(s) /\ (FromZero(s2) => FromZero(s))
  BY ThinnedKinds
<1>2. Agreed(c, g, s2, r) /\ Agreed(g, c, r, s2)
  BY OverflowAgrees DEF Session
<1>3. Shape(e, s2) /\ Shape(f, r)
  BY ThinnedShape DEF Session
<1>4. Unanswered(c, s2, r) /\ Unanswered(g, r, s2)
  BY <1>1 DEF Session, Unanswered
<1>5. FirstNumbers(e, c) /\ FirstNumbers(f, g)
  BY DEF Session
<1>6. FirstHeartbeat(e, c, g, s2, r)
  <2>1. PICK h \in [1 .. Len(s2) -> 1 .. Len(s)] : \A i \in 1 .. Len(s2) : s2[i] = s[h[i]]
    BY DEF Thinned
  <2>2. \A i \in 1 .. Len(s2) : h[i] \in 1 .. Len(s) /\ s2[i] = s[h[i]]
    BY <2>1
  <2>3. Fresh(c, g, s2, r) => Fresh(c, g, s, r)
    BY <1>1 DEF Fresh
  <2> QED
    BY <2>2, <2>3 DEF Session, FirstHeartbeat
<1>7. FirstHeartbeat(f, g, c, r, s2)
  <2>1. Fresh(g, c, r, s2) => Fresh(g, c, r, s)
    BY <1>1 DEF Fresh
  <2> QED
    BY <2>1 DEF Session, FirstHeartbeat
<1> QED
  BY <1>2, <1>3, <1>4, <1>5, <1>6, <1>7 DEF Session
-----------------------------------------------------------------------------
(***************************************************************************)
(* A step of e, as far as sessions are concerned: c is the record it works *)
(* on, d what it makes of it.                                              *)
(***************************************************************************)
Acts(e, t, sn, c, d) ==
  /\ Like(con[e], c) /\ c.armed = con[e].armed
  /\ c.rx > 0 => con[e].rx > 0 \/ FromZero(net[e])
  /\ Does(e, t, sn, c, d)
  /\ con' = [con EXCEPT ![e] = [d EXCEPT !.out = << >>]]
  /\ First(t, sn, net[e], net'[e])
  /\ net'[Peer(e)] = net[Peer(e)] \o d.out

Drops(e) ==
  /\ Thinned(net[e], net'[e]) /\ net'[e] \in Seq(Packets)
  /\ net'[Peer(e)] = net[Peer(e)] /\ con' = con

SessionAt(e) == Session(e, con[e], con[Peer(e)], net[e], net[Peer(e)])

SessionInv ==
  /\ TypeInv
  /\ \A e \in Ends : Wired(con[e]) /\ SessionAt(e)

\* No endpoint has been stopped and started again.
Unbroken == stops = 0

Acting == \E e \in Ends : \E t, sn, c, d : Acts(e, t, sn, c, d)

LEMMA EmitActs ==
  ASSUME TypeInv, NEW e \in Ends, NEW d, Does(e, "none", 0, con[e], d), Emit(e, d)
  PROVE  Acting
<1>1. Like(con[e], con[e])
  BY DEF Like
<1>2. Peer(e) \in Ends /\ Peer(e) # e
  BY ConstantFacts
<1>3. PICK more : more = net[Peer(e)] \o d.out
  OBVIOUS
<1>4. net' = [net EXCEPT ![Peer(e)] = more]
  BY <1>3 DEF Emit
<1>5. net'[e] = net[e] /\ net'[Peer(e)] = more
  BY <1>2, <1>4 DEF TypeInv
<1>6. First("none", 0, net[e], net'[e])
  BY <1>5 DEF First
<1>7. Acts(e, "none", 0, con[e], d)
  BY <1>1, <1>3, <1>5, <1>6 DEF Emit, Acts
<1> QED
  BY <1>7 DEF Acting

LEMMA AnswerActs ==
  ASSUME TypeInv, NEW e \in Ends, net[e] # << >>, NEW t, NEW sn, NEW c, NEW d,
         t = Head(net[e]).pdu.type, sn = Head(net[e]).pdu.sn,
         Like(con[e], c), c.armed = con[e].armed,
         c.rx > 0 => con[e].rx > 0 \/ FromZero(net[e]),
         Does(e, t, sn, c, d), Answer(e, d)
  PROVE  Acting
<1>1. Peer(e) \in Ends /\ Peer(e) # e
  BY ConstantFacts
<1>2. PICK more : more = net[Peer(e)] \o d.out
  OBVIOUS
<1>3. PICK rest : rest = Tail(net[e])
  OBVIOUS
<1>4. net' = [net EXCEPT ![e] = rest, ![Peer(e)] = more]
  BY <1>1, <1>2, <1>3 DEF Answer, TypeInv
<1>5. net'[e] = rest /\ net'[Peer(e)] = more
  BY <1>1, <1>4 DEF TypeInv
<1>6. First(t, sn, net[e], net'[e])
  BY <1>3, <1>5 DEF First
<1>7. Acts(e, t, sn, c, d)
  BY <1>2, <1>5, <1>6 DEF Answer, Acts
<1> QED
  BY <1>7 DEF Acting

\* The fields of an endpoint at rest.
LEMMA AtRest ==
  ASSUME SessionInv, NEW e \in Ends
  PROVE  /\ con[e] \in Whole /\ Wired(con[e]) /\ con[e].out = << >>
         /\ net[e] \in Seq(Packets) /\ SessionAt(e)
BY DEF SessionInv, TypeInv

(***************************************************************************)
(* Steps of its own.                                                       *)
(***************************************************************************)
LEMMA DisconnectActs ==
  ASSUME SessionInv, NEW e \in Ends, Disconnect(e)
  PROVE  Acting
<1>1. PICK c \in Whole : c = con[e] /\ Wired(c) /\ c.out = << >> /\ c.state # "NONE"
  BY AtRest DEF Disconnect
<1>2. Ok(c, c, Farewells) /\ ~Begins("none", c)
  BY <1>1, OkAtRest DEF Begins
<1>3. PICK d \in Whole : d = Disconnected(e, c) /\ Shut(c, d)
  BY <1>1, InvTimes, DisconnectedCalls, DisconnectedKeeps DEF SessionInv, Kept
<1>4. Ok(c, d, Farewells)
  BY <1>2, <1>3, OkShut
<1>5. Does(e, "none", 0, c, d)
  BY <1>2, <1>3, <1>4, ClosesDoes DEF Shut
<1> QED
  BY <1>1, <1>3, <1>5, EmitActs DEF Disconnect, SessionInv

LEMMA SrSendActs ==
  ASSUME SessionInv, NEW e \in Ends, NEW n \in 1 .. MaxPacket, SrSend(e, n)
  PROVE  Acting
<1>1. PICK c \in Whole : c = con[e] /\ Wired(c) /\ c.out = << >> /\ c.state \in Open
  BY AtRest DEF SrSend, Open
<1>2. n \in Nat
  BY ConstantFacts
<1>3. PICK d \in Whole : /\ d = Sent(e, c, n)
                         /\ Asked(c, d) \/ Left(c, d)
                         /\ Asked(c, d) => c.state \notin {"START", "RETRREQ", "RETRRUN"}
  BY <1>1, <1>2, InvTimes, SentCalls, SentKeeps DEF SessionInv, Kept
<1>4. ~Begins("none", c) /\ c.state # "NONE"
  BY <1>1 DEF Begins, Open
<1>5. CASE Asked(c, d)
  <2>1. c.state = "UP" /\ d.state = "UP" /\ d.armed = c.armed
    BY <1>1, <1>3, <1>5 DEF Open, Asked
  <2>2. Ok(c, d, Utterances(e, "none", c))
    BY <1>1, <1>3, <1>4, <1>5, OkAtRest, OkCalled, FarewellsAreUtterances DEF Called
  <2>3. Does(e, "none", 0, c, d)
    BY <2>1, <2>2, RunsDoes DEF Running
  <2> QED
    BY <1>1, <1>3, <2>3, EmitActs DEF SrSend, SessionInv
<1>6. CASE Left(c, d)
  <2>1. Ok(c, d, Farewells)
    BY <1>1, <1>3, <1>6, OkAtRest, OkCalled DEF Called
  <2>2. Does(e, "none", 0, c, d)
    BY <1>4, <1>6, <2>1, ClosesDoes DEF Left
  <2> QED
    BY <1>1, <1>3, <2>2, EmitActs DEF SrSend, SessionInv
<1> QED
  BY <1>3, <1>5, <1>6

LEMMA ExpireActs ==
  ASSUME SessionInv, NEW e \in Ends, Expire(e)
  PROVE  Acting
<1>1. PICK c \in Whole : c = con[e] /\ Wired(c) /\ c.out = << >>
  BY AtRest
<1>2. CASE c.state \in {"UP", "RETRREQ", "RETRRUN"}
  <2>1. Ok(c, c, Farewells) /\ ~Begins("none", c)
    BY <1>1, <1>2, OkAtRest DEF Begins
  <2>2. PICK d \in Whole : d = CloseConnection(e, c) /\ Shut(c, d)
    BY InvTimes, CloseShuts, CloseConnectionKeeps DEF SessionInv, Kept
  <2>3. Ok(c, d, Farewells)
    BY <2>1, <2>2, OkShut
  <2>4. Does(e, "none", 0, c, d)
    BY <2>1, <2>2, <2>3, ClosesDoes DEF Shut
  <2> QED
    BY <1>1, <1>2, <2>2, <2>4, EmitActs DEF Expire, SessionInv
<1>3. CASE c.state \notin {"UP", "RETRREQ", "RETRRUN"}
  <2>1. PICK d : d = [c EXCEPT !.armed = FALSE]
    OBVIOUS
  <2>2. /\ d \in Whole /\ d.state = c.state /\ d.role = c.role /\ d.sn_r = c.sn_r
        /\ d.sn_t = c.sn_t /\ d.fifo_send = c.fifo_send /\ d.channel = c.channel
        /\ d.tx = c.tx /\ d.rx = c.rx /\ d.out = c.out /\ d.quit = c.quit
    BY <2>1 DEF Whole, Records, Fits
  <2>3. Ok(c, c, Utterances(e, "none", c))
    BY <1>1, OkAtRest
  <2>4. Ok(c, d, Utterances(e, "none", c))
    BY <2>2, <2>3 DEF Ok, Wired, Mute
  <2>5. OpenedLast("none", c, d.out)
    <3>1. Len(<< >>) = 0
      OBVIOUS
    <3> QED
      BY <1>1, <2>2, <3>1 DEF OpenedLast
  <2>6. Turns(e, "none", 0, c, d) /\ Watched(c, d)
    BY <1>1, <1>3, <2>2 DEF Turns, Watched, Running
  <2>7. Does(e, "none", 0, c, d)
    BY <2>4, <2>5, <2>6 DEF Does
  <2> QED
    BY <1>1, <1>3, <2>1, <2>7, EmitActs DEF Expire, SessionInv
<1> QED
  BY <1>2, <1>3

LEMMA ConnectActs ==
  ASSUME SessionInv, NEW e \in Ends, Connect(e)
  PROVE  Acting
<1> DEFINE c == [con[e] EXCEPT !.channel = TRUE, !.role = "client",
                               !.sn_t = InitSn[e], !.cs_t = 0]
           d == SendPdu(e, c, "ConReq", 0, << >>)
           f == [d EXCEPT !.state = "START", !.cts_r = Clock(e)]
           S == Utterances(e, "none", con[e])
<1>1. con[e].state = "NONE" /\ Emit(e, f)
  BY DEF Connect
<1>2. PICK old \in Whole : old = con[e] /\ Wired(old) /\ old.out = << >>
  BY AtRest
<1>3. ~old.quit /\ old.tx \in Nat
  BY <1>1, <1>2, Fields DEF Wired
<1>4. PICK first \in Numbers : first = InitSn[e]
  BY ConstantFacts
<1>5. /\ c \in Whole /\ c.channel /\ c.role = "client" /\ c.sn_t = first /\ c.tx = old.tx
      /\ c.fifo_send = old.fifo_send /\ c.out = << >> /\ ~c.quit
  <2>1. c = [old EXCEPT !.channel = TRUE, !.role = "client", !.sn_t = first, !.cs_t = 0]
    BY <1>2, <1>4
  <2> HIDE DEF c
  <2> QED
    BY <1>2, <1>3, <2>1, ConstantFacts DEF Whole, Records, Fits
<1> HIDE DEF c
<1>6. d \in Whole /\ d.sn_t = Plus1(first) /\ Spoke(c, d, "ConReq")
  <2>1. 0 \in Nat /\ << >> \in Seq(Nat)
    OBVIOUS
  <2>2. Times /\ "ConReq" \in Types
    BY InvTimes, TypesExist DEF SessionInv
  <2>3. SentOne(c, d)
    BY <1>5, <2>1, <2>2, SendPduKeeps
  <2>4. Spoke(c, d, "ConReq")
    BY <1>5, <2>1, <2>2, SendPduSays
  <2> QED
    BY <1>5, <2>3, <2>4 DEF SentOne
<1> HIDE DEF d
<1>7. PICK k \in Aloud(c, "ConReq") : d.out = Append(<< >>, k)
  BY <1>5, <1>6 DEF Spoke
<1>8. PICK t \in Nat : t = Clock(e)
  BY InvTimes, ConstantFacts DEF Times, Clock, SessionInv
<1>9. /\ f \in Whole /\ f.state = "START" /\ f.role = "client" /\ f.sn_t = Plus1(first)
      /\ f.fifo_send = old.fifo_send /\ f.channel /\ f.tx = old.tx + 1 /\ ~f.quit
      /\ f.out = Append(<< >>, k)
  <2>1. /\ f \in Whole /\ f.state = "START" /\ f.role = d.role /\ f.sn_t = d.sn_t
        /\ f.fifo_send = d.fifo_send /\ f.channel = d.channel /\ f.tx = d.tx
        /\ f.quit = d.quit /\ f.out = d.out
    BY <1>6, <1>8 DEF Whole, Records, Fits, States
  <2> QED
    BY <1>5, <1>6, <1>7, <2>1 DEF Spoke
<1> HIDE DEF f
<1>10. Begins("none", old) /\ k \in S
  BY <1>1, <1>2, <1>4, <1>5 DEF Aloud, Utterances, Begins
<1> HIDE DEF S
<1>11. PICK out : out = f.out /\ out = Append(<< >>, k)
  BY <1>9
<1>12. out \in Seq(S) /\ \A i, j \in 1 .. Len(out) : ~(i < j)
  BY <1>10, <1>11, OneIsShort
<1>13. Ok(old, f, S)
  <2>1. f.tx > 0
    BY <1>3, <1>9
  <2> QED
    BY <1>9, <1>11, <1>12, <2>1 DEF Ok, Wired, Mute
<1>14. OpenedLast("none", old, f.out)
  BY <1>11, <1>12 DEF OpenedLast
<1>15. Turns(e, "none", 0, old, f) /\ Watched(old, f)
  BY <1>4, <1>9, <1>10 DEF Turns, Watched, Running
<1>16. Does(e, "none", 0, con[e], f)
  BY <1>2, <1>13, <1>14, <1>15 DEF Does, S
<1> QED
  BY <1>1, <1>16, EmitActs DEF SessionInv

LEMMA OverflowDrops ==
  ASSUME SessionInv, NEW e \in Ends, Overflow(e)
  PROVE  Drops(e)
<1>1. PICK q \in Seq(Packets) : q = net[e] /\ Len(q) > RecvCap /\ Len(q) \in Nat
  BY DEF SessionInv, TypeInv, Overflow
<1>2. PICK k \in Nat : k = RecvCap + 1 /\ k \in 1 .. Len(q)
  BY <1>1, ConstantFacts
<1>3. PICK n \in Nat : n + 1 = Len(q)
  BY <1>1, <1>2
<1>4. PICK front \in Seq(Packets) : front = SubSeq(q, 1, k - 1) /\ Len(front) = k - 1
                                   /\ \A i \in 1 .. k - 1 : front[i] = q[i]
  <2>1. /\ SubSeq(q, 1, k - 1) \in Seq(Packets) /\ Len(SubSeq(q, 1, k - 1)) = k - 1
        /\ \A i \in 1 .. k - 1 : SubSeq(q, 1, k - 1)[i] = q[i]
    BY <1>1, <1>2
  <2> QED
    BY <2>1
<1>5. PICK back \in Seq(Packets) : back = SubSeq(q, k + 1, Len(q)) /\ Len(back) = n + 1 - k
                                  /\ \A i \in 1 .. n + 1 - k : back[i] = q[k + i]
  <2>1. SubSeq(q, k + 1, Len(q)) \in Seq(Packets)
    BY <1>1, <1>2, <1>3
  <2>2. Len(SubSeq(q, k + 1, Len(q))) = n + 1 - k
    BY <1>1, <1>2, <1>3
  <2>3. ASSUME NEW i \in 1 .. n + 1 - k PROVE SubSeq(q, k + 1, Len(q))[i] = q[k + i]
    BY <1>1, <1>2, <1>3
  <2> QED
    BY <2>1, <2>2, <2>3
<1>6. PICK rest \in Seq(Packets) :
        /\ rest = front \o back /\ Len(rest) = n
        /\ \A i \in 1 .. k - 1 : rest[i] = q[i]
        /\ \A i \in 1 .. n + 1 - k : rest[k - 1 + i] = q[k + i]
  <2>1. /\ front \o back \in Seq(Packets) /\ Len(front \o back) = Len(front) + Len(back)
        /\ \A i \in 1 .. Len(front) : (front \o back)[i] = front[i]
        /\ \A i \in 1 .. Len(back) : (front \o back)[Len(front) + i] = back[i]
    BY ConcatProperties
  <2>2. Len(front) + Len(back) = n
    BY <1>2, <1>3, <1>4, <1>5
  <2>3. PICK both \in Seq(Packets) : both = front \o back
    BY <2>1
  <2>4. \A i \in 1 .. k - 1 : both[i] = q[i]
    BY <1>4, <2>1, <2>3
  <2>5. \A i \in 1 .. n + 1 - k : both[k - 1 + i] = q[k + i]
    BY <1>4, <1>5, <2>1, <2>3
  <2> QED
    BY <2>1, <2>2, <2>3, <2>4, <2>5
<1>7. \A i \in 1 .. n : IF i < k THEN rest[i] = q[i] ELSE rest[i] = q[i + 1]
  <2>1. SUFFICES ASSUME NEW i \in 1 .. n
                 PROVE  IF i < k THEN rest[i] = q[i] ELSE rest[i] = q[i + 1]
    OBVIOUS
  <2>2. CASE i < k
    <3>1. i \in 1 .. k - 1
      BY <1>2, <2>2
    <3>2. rest[i] = q[i]
      BY <1>6, <3>1
    <3> QED
      BY <2>2, <3>2
  <2>3. CASE ~(i < k)
    <3>1. i - k + 1 \in 1 .. n + 1 - k
      BY <1>2, <2>3
    <3>2. k - 1 + (i - k + 1) = i /\ k + (i - k + 1) = i + 1
      BY <1>2
    <3>3. rest[k - 1 + (i - k + 1)] = q[k + (i - k + 1)]
      BY <1>6, <3>1
    <3> QED
      BY <2>3, <3>2, <3>3
  <2> QED
    BY <2>2, <2>3
<1>8. Thinned(q, rest)
  <2>1. PICK h : h = [i \in 1 .. n |-> IF i < k THEN i ELSE i + 1]
    OBVIOUS
  <2>2. /\ h \in [1 .. n -> 1 .. n + 1]
        /\ \A i \in 1 .. n : h[i] = IF i < k THEN i ELSE i + 1
    BY <2>1
  <2>3. \A i \in 1 .. n : rest[i] = q[h[i]]
    BY <1>7, <2>2
  <2>4. \A i \in 1 .. n : i <= h[i]
    BY <2>2
  <2>5. ASSUME NEW i \in 1 .. n, NEW j \in 1 .. n, i < j PROVE h[i] < h[j]
    <3>1. h[i] = i \/ (h[i] = i + 1 /\ ~(i < k))
      BY <2>2
    <3>2. (h[j] = j /\ j < k) \/ h[j] = j + 1
      BY <2>2
    <3> QED
      BY <1>2, <2>5, <3>1, <3>2
  <2> QED
    BY <1>3, <1>6, <2>2, <2>3, <2>4, <2>5 DEF Thinned
<1>9. RemoveAt(q, RecvCap + 1) = rest
  BY <1>2, <1>4, <1>5, <1>6 DEF RemoveAt
<1>10. net' = [net EXCEPT ![e] = rest] /\ con' = con
  BY <1>1, <1>9 DEF Overflow
<1>11. net'[e] = rest /\ net'[Peer(e)] = net[Peer(e)]
  BY <1>10, ConstantFacts DEF SessionInv, TypeInv
<1> QED
  BY <1>1, <1>8, <1>10, <1>11 DEF Drops

(***************************************************************************)
(* Reception.                                                              *)
(***************************************************************************)
LEMMA ArriveFacts ==
  ASSUME SessionInv, NEW e \in Ends, net[e] # << >>
  PROVE  LET c == Arrive(e) IN
         /\ Ready(c) /\ Like(con[e], c) /\ c.armed = con[e].armed
         /\ c.rx > 0 => con[e].rx > 0 \/ Head(net[e]).seq = 0
<1>1. PICK old \in Whole : old = con[e] /\ Wired(old) /\ old.out = << >>
  BY AtRest
<1>2. PICK c \in Whole : c = Arrive(e)
  BY ArriveKeeps DEF SessionInv, Kept
<1>3. Head(net[e]) \in Packets
  BY AtRest, TailIsThinned
<1>4. PICK seq \in Nat : seq = Head(net[e]).seq
  BY <1>3 DEF Packets
<1>5. PICK d : d = [old EXCEPT !.channel = TRUE]
  OBVIOUS
<1>6. /\ d \in Records /\ d.state = old.state /\ d.role = old.role /\ d.sn_t = old.sn_t
      /\ d.sn_r = old.sn_r /\ d.fifo_send = old.fifo_send /\ d.tx = old.tx
      /\ d.rx = old.rx /\ d.armed = old.armed /\ d.quit = old.quit /\ d.out = old.out
      /\ d.channel
  BY <1>5 DEF Whole, Records
<1>7. /\ c.state = d.state /\ c.role = d.role /\ c.sn_t = d.sn_t
      /\ c.sn_r = d.sn_r /\ c.fifo_send = d.fifo_send /\ c.tx = d.tx
      /\ c.armed = d.armed /\ c.quit = d.quit /\ c.out = d.out /\ c.channel
      /\ c.rx = d.rx \/ Accepts(d, seq)
  <2>1. CASE Accepts(d, seq)
    <3>1. PICK rx : rx = seq + 1
      OBVIOUS
    <3>2. c = [d EXCEPT !.rx = rx]
      BY <1>1, <1>2, <1>4, <1>5, <2>1, <3>1 DEF Arrive
    <3> QED
      BY <1>6, <2>1, <3>2 DEF Records
  <2>2. CASE ~Accepts(d, seq)
    <3>1. c = d
      BY <1>1, <1>2, <1>4, <1>5, <2>2 DEF Arrive
    <3> QED
      BY <1>6, <3>1
  <2> QED
    BY <2>1, <2>2
<1>8. Ready(c)
  BY <1>1, <1>6, <1>7 DEF Ready, Wired
<1>9. Like(old, c) /\ c.armed = old.armed
  BY <1>6, <1>7 DEF Like
<1>10. c.rx > 0 => old.rx > 0 \/ seq = 0
  <2>1. old.rx \in Nat
    BY Fields
  <2> QED
    BY <1>6, <1>7, <2>1 DEF Accepts
<1> QED
  BY <1>1, <1>2, <1>4, <1>8, <1>9, <1>10

LEMMA SessionFits ==
  ASSUME SessionInv, NEW e \in Ends, net[e] # << >>, NEW c \in Whole, Like(con[e], c),
         c.rx > 0, c.rx > 0 => con[e].rx > 0 \/ Head(net[e]).seq = 0,
         NEW p, p = Head(net[e]).pdu
  PROVE  Fitting(p.type, c, p)
<1>1. PICK old, g, s, r : /\ old = con[e] /\ g = con[Peer(e)] /\ s = net[e] /\ r = net[Peer(e)]
                          /\ s \in Seq(Packets) /\ s # << >>
                          /\ Session(e, old, g, s, r)
  BY AtRest DEF SessionAt
<1>2. /\ 1 \in 1 .. Len(s) /\ p = s[1].pdu /\ p.type \in Kinds(s)
      /\ c.rx > 0 => old.rx > 0 \/ s[1].seq = 0
  BY <1>1, TailIsThinned
<1>3. /\ c.state = old.state /\ c.role = old.role /\ c.sn_r = old.sn_r /\ c.tx = old.tx
  BY <1>1 DEF Like
<1>4. /\ Fresh(old, g, s, r) => Kinds(s) \cap Repair = {}
      /\ Starting(old) => Kinds(s) \subseteq Opening
  BY <1>1 DEF Session, Agreed, Opens, Calls
<1>5. c.state = "START" => Fresh(old, g, s, r)
  BY <1>3 DEF Fresh
<1>6. ASSUME p.type = "HB", c.state = "START"
      PROVE  c.role = "server" /\ p.sn = c.sn_r
  <2>1. c.role = "server"
    <3>1. ~Starting(old)
      BY <1>2, <1>4, <1>6 DEF Opening
    <3> QED
      BY <1>3, <1>6, <3>1, Fields DEF Starting
  <2>2. c.sn_r = Plus1(InitSn[Peer(e)])
    BY <1>1, <1>3, <1>6, <2>1 DEF Session, FirstNumbers
  <2>3. p.sn = Plus1(InitSn[Peer(e)])
    BY <1>1, <1>2, <1>5, <1>6 DEF Session, FirstHeartbeat
  <2> QED
    BY <2>1, <2>2, <2>3
<1>7. ASSUME p.type = "RetrReq" PROVE c.state # "START" /\ c.tx > 0
  <2>1. c.state # "START"
    BY <1>2, <1>4, <1>5, <1>7 DEF Repair
  <2>2. c.tx # 0
    <3>1. SUFFICES ASSUME c.tx = 0 PROVE FALSE
      OBVIOUS
    <3>2. CASE old.rx > 0
      BY <1>1, <1>2, <1>3, <1>7, <3>1, <3>2 DEF Session, Unanswered, Repair
    <3>3. CASE s[1].seq = 0
      BY <1>1, <1>2, <1>7, <3>3 DEF Session, Shape, ZeroOpens, Opening
    <3> QED
      BY <1>2, <3>2, <3>3
  <2> QED
    BY <2>1, <2>2, Fields
<1> QED
  BY <1>6, <1>7 DEF Fitting

LEMMA ReceiveActs ==
  ASSUME SessionInv, NEW e \in Ends, Receive(e)
  PROVE  Acting
<1>1. net[e] # << >> /\ TypeInv /\ Times
  BY InvTimes DEF Receive, SessionInv
<1>2. PICK c \in Whole :
        /\ c = Arrive(e) /\ Ready(c) /\ Like(con[e], c) /\ c.armed = con[e].armed
        /\ c.rx > 0 => con[e].rx > 0 \/ Head(net[e]).seq = 0
  BY <1>1, ArriveFacts DEF Ready
<1>3. Head(net[e]) \in Packets /\ (Head(net[e]).seq = 0 => FromZero(net[e]))
  BY <1>1, AtRest, TailIsThinned
<1>4. PICK p \in NumberedPdus : p = Head(net[e]).pdu
  BY <1>3 DEF Packets
<1>5. Done(e, p.type, p.sn, c)
  <2>1. CASE Answer(e, c)
    BY <1>2, <2>1, RestsDone
  <2>2. CASE c.rx > 0 /\ Process(e, c, p)
    <3>1. Fitting(p.type, c, p)
      BY <1>1, <1>2, <1>4, <2>2, SessionFits
    <3> QED
      BY <1>1, <1>2, <2>2, <3>1, ProcessDone
  <2>3. Process(e, c, p) /\ ~Answer(e, c) => c.rx > 0
    <3>1. SUFFICES ASSUME ~Answer(e, c) PROVE c.rx > 0
      OBVIOUS
    <3>2. PICK d : d = [con[e] EXCEPT !.channel = TRUE]
      OBVIOUS
    <3>3. PICK rx \in Nat : rx = Head(net[e]).seq + 1 /\ rx > 0
      BY <1>3 DEF Packets
    <3>4. Accepts(d, Head(net[e]).seq)
      BY <1>2, <3>1, <3>2 DEF Receive
    <3>5. c = [d EXCEPT !.rx = rx]
      BY <1>2, <3>2, <3>3, <3>4 DEF Arrive
    <3>6. d \in Records
      <4>1. con[e] \in Records
        BY AtRest DEF Whole
      <4> QED
        BY <3>2, <4>1 DEF Records
    <3> QED
      BY <3>3, <3>5, <3>6 DEF Records
  <2>4. Answer(e, c) \/ Process(e, c, p)
    BY <1>2, <1>4 DEF Receive
  <2> QED
    BY <2>1, <2>2, <2>3, <2>4
<1>6. PICK d : Does(e, p.type, p.sn, c, d) /\ Answer(e, d)
  BY <1>5 DEF Done
<1> QED
  BY <1>1, <1>2, <1>3, <1>4, <1>6, AnswerActs

LEMMA DataSendActs ==
  ASSUME SessionInv, NEW e \in Ends, DataSend(e)
  PROVE  Acting
<1>1. TypeInv /\ Times
  BY InvTimes DEF SessionInv
<1>2. PICK c \in Whole : /\ c = con[e] /\ Wired(c) /\ c.out = << >> /\ SessionAt(e)
                         /\ c.state \in Open /\ c.fifo_send # << >>
  BY <1>1, AtRest, DataSendMakes
<1>3. PICK d, f : d \in Whole /\ HoldsOneMore(c, d) /\ DataOf(e, d, f) /\ Emit(e, f)
  BY <1>1, <1>2, DataSendMakes
<1>4. c.state \in Running
  <2>1. c.state # "START"
    BY <1>2 DEF SessionAt, Session, Agreed, Opens, Fresh
  <2> QED
    BY <1>2, <2>1 DEF Open, Running
<1>5. c.channel /\ c.tx > 0 /\ c.tx \in Nat /\ ~c.quit
  BY <1>2, <1>4, Fields DEF Wired, Running
<1>6. PICK later \in Seq(Nat), fifo \in Seq(Held) : d = [c EXCEPT !.fifo_send = later, !.fifo_retr = fifo]
  BY <1>3 DEF HoldsOneMore
<1>7. /\ d.state = c.state /\ d.role = c.role /\ d.channel = c.channel /\ d.tx = c.tx
      /\ d.rx = c.rx /\ d.out = << >> /\ d.quit = c.quit /\ d.armed = c.armed
  BY <1>2, <1>6 DEF Whole, Records
<1>8. PICK msgs \in Seq(Nat), ts \in Nat, r \in Whole :
        r = SendPdu(e, d, "Data", ts, msgs) /\ f = [r EXCEPT !.hb_call = now]
  BY <1>3 DEF DataOf
<1>9. Spoke(d, r, "Data")
  BY <1>1, <1>3, <1>8, TypesExist, SendPduSays
<1>10. PICK k \in Aloud(d, "Data") : r.out = Append(<< >>, k)
  BY <1>5, <1>7, <1>9 DEF Spoke
<1>11. /\ f \in Whole /\ f.state = c.state /\ f.channel /\ f.tx = c.tx + 1
       /\ ~f.quit /\ f.armed = c.armed /\ f.out = Append(<< >>, k)
  <2>1. /\ f \in Whole /\ f.state = r.state /\ f.channel = r.channel /\ f.tx = r.tx
        /\ f.quit = r.quit /\ f.armed = r.armed /\ f.out = r.out
    BY <1>1, <1>8 DEF Whole, Records, Fits, Times
  <2> QED
    BY <1>5, <1>7, <1>9, <1>10, <2>1 DEF Spoke
<1>12. k \in Utterances(e, "none", c)
  BY <1>2, <1>4, <1>5, <1>7 DEF Aloud, Utterances, Begins, Running
<1>13. PICK out : out = f.out /\ out = Append(<< >>, k)
  BY <1>11
<1>14. out \in Seq(Utterances(e, "none", c))
  BY <1>12, <1>13, OneIsShort
<1>15. Ok(c, f, Utterances(e, "none", c))
  <2>1. f.tx > 0
    BY <1>5, <1>11
  <2> QED
    BY <1>11, <1>13, <1>14, <2>1 DEF Ok, Wired, Mute
<1>16. Does(e, "none", 0, c, f)
  BY <1>4, <1>11, <1>15, RunsDoes DEF Running
<1> QED
  BY <1>1, <1>2, <1>3, <1>16, EmitActs

(***************************************************************************)
(* Without a restart every step is one of these.                           *)
(***************************************************************************)
LEMMA NextActs ==
  ASSUME Unbroken', SessionInv, [Next]_vars
  PROVE  Acting \/ (\E e \in Ends : Drops(e)) \/ UNCHANGED <<con, net>>
<1>1. CASE UNCHANGED vars
  BY <1>1 DEF vars
<1>2. CASE Tick
  BY <1>2 DEF Tick
<1>3. ASSUME NEW e \in Ends, Restart(e) PROVE FALSE
  BY <1>3 DEF Restart, Unbroken, SessionInv, TypeInv
<1>4. ASSUME NEW e \in Ends,
             \/ Connect(e) \/ Disconnect(e) \/ \E n \in 1 .. MaxPacket : SrSend(e, n)
             \/ Receive(e) \/ Overflow(e) \/ DataSend(e) \/ Expire(e)
      PROVE  Acting \/ \E x \in Ends : Drops(x)
  BY <1>4, ConnectActs, DisconnectActs, SrSendActs, ReceiveActs, OverflowDrops,
     DataSendActs, ExpireActs
<1> QED
  BY <1>1, <1>2, <1>3, <1>4 DEF Next

LEMMA ActsKeepSession ==
  ASSUME SessionInv, TypeInv', NEW e \in Ends, NEW t, NEW sn, NEW c, NEW d, Acts(e, t, sn, c, d)
  PROVE  SessionInv'
<1>1. PICK f \in Ends : f = Peer(e) /\ e = Peer(f) /\ f # e /\ \A x \in Ends : x = e \/ x = f
  BY DEF Ends, Peer
<1>2. PICK new : new = [d EXCEPT !.out = << >>]
  OBVIOUS
<1>3. d \in Whole /\ Wired(d)
  BY DEF Acts, Does, Ok
<1>4. /\ Like(d, new) /\ new.rx = d.rx /\ new.channel = d.channel /\ new.quit = d.quit
  BY <1>2, <1>3 DEF Like, Whole, Records
<1>5. con' = [con EXCEPT ![e] = new]
  BY <1>2 DEF Acts
<1>6. con'[e] = new /\ con'[f] = con[f]
  BY <1>1, <1>5 DEF SessionInv, TypeInv
<1>7. PICK c0, g, s, r, s2, r2 :
        /\ c0 = con[e] /\ g = con[f] /\ s = net[e] /\ r = net[f]
        /\ s2 = net'[e] /\ r2 = net'[f]
  OBVIOUS
<1>8. /\ s \in Seq(Packets) /\ r \in Seq(Packets)
      /\ Session(e, c0, g, s, r) /\ Session(f, g, c0, r, s)
  BY <1>1, <1>7, AtRest DEF SessionAt
<1>9. /\ Like(c0, c) /\ (c.rx > 0 => c0.rx > 0 \/ FromZero(s))
      /\ Does(e, t, sn, c, d) /\ First(t, sn, s, s2) /\ r2 = r \o d.out
  BY <1>1, <1>7 DEF Acts
<1>10. Session(e, new, g, s2, r2) /\ Session(f, g, new, r2, s2)
  BY <1>1, <1>4, <1>8, <1>9, StepKeepsSession
<1>11. SessionAt(e)' /\ SessionAt(f)'
  <2>1. Session(e, con'[e], con'[f], net'[e], net'[f])
    BY <1>6, <1>7, <1>10
  <2>2. Session(f, con'[f], con'[e], net'[f], net'[e])
    BY <1>6, <1>7, <1>10
  <2>3. SessionAt(e)'
    BY <1>1, <2>1 DEF SessionAt
  <2>4. SessionAt(f)'
    BY <1>1, <2>2 DEF SessionAt
  <2> QED
    BY <2>3, <2>4
<1>12. Wired(con'[e]) /\ Wired(con'[f])
  <2>1. Wired(new)
    BY <1>3, <1>4 DEF Wired, Like
  <2> QED
    BY <1>6, <2>1 DEF SessionInv
<1>13. \A x \in Ends : Wired(con'[x]) /\ SessionAt(x)'
  BY <1>1, <1>11, <1>12
<1> QED
  BY <1>13 DEF SessionInv

LEMMA DropsKeepSession ==
  ASSUME SessionInv, TypeInv', NEW e \in Ends, Drops(e)
  PROVE  SessionInv'
<1>1. PICK f \in Ends : f = Peer(e) /\ e = Peer(f) /\ f # e /\ \A x \in Ends : x = e \/ x = f
  BY DEF Ends, Peer
<1>2. PICK s2 \in Seq(Packets) : s2 = net'[e] /\ Thinned(net[e], s2)
  BY DEF Drops
<1>3. net'[f] = net[f] /\ con' = con
  BY <1>1 DEF Drops
<1>4. /\ net[e] \in Seq(Packets)
      /\ Session(e, con[e], con[f], net[e], net[f])
      /\ Session(f, con[f], con[e], net[f], net[e])
  BY <1>1, AtRest DEF SessionAt
<1>5. /\ Session(e, con[e], con[f], s2, net[f])
      /\ Session(f, con[f], con[e], net[f], s2)
  BY <1>2, <1>4, DropKeepsSession
<1>6. SessionAt(e)'
  BY <1>1, <1>2, <1>3, <1>5 DEF SessionAt
<1>7. SessionAt(f)'
  BY <1>1, <1>2, <1>3, <1>5 DEF SessionAt
<1>8. \A x \in Ends : Wired(con'[x]) /\ SessionAt(x)'
  BY <1>1, <1>3, <1>6, <1>7 DEF SessionInv
<1> QED
  BY <1>8 DEF SessionInv

LEMMA SessionStarts == Init => SessionInv
<1> SUFFICES ASSUME Init PROVE SessionInv
  OBVIOUS
<1>1. TypeInv
  BY InitInv
<1>2. PICK s \in Seq(Packets) : s = << >> /\ Len(s) = 0
  <2>1. << >> \in Seq(Packets) /\ Len(<< >>) = 0
    OBVIOUS
  <2> QED
    BY <2>1
<1>3. \A i : i \in 1 .. Len(s) => FALSE
  BY <1>2
<1>4. Kinds(s) = {} /\ ~FromZero(s)
  BY <1>3 DEF Kinds, FromZero
<1>5. PICK c : /\ c = NoConnection /\ c.state = "NONE" /\ c.tx = 0 /\ c.rx = 0
               /\ c.fifo_send = << >> /\ ~c.quit
  <2>1. /\ NoConnection.state = "NONE" /\ NoConnection.tx = 0 /\ NoConnection.rx = 0
        /\ NoConnection.fifo_send = << >> /\ ~NoConnection.quit
    BY DEF NoConnection
  <2> QED
    BY <2>1
<1>6. Wired(c)
  BY <1>5 DEF Wired, Open
<1>7. \A e : Session(e, c, c, s, s)
  <2>1. Agreed(c, c, s, s)
    BY <1>2, <1>4, <1>5 DEF Agreed, NotBegun, Waits, Opens, Calls, Calm
  <2>2. \A e : Shape(e, s)
    BY <1>3 DEF Shape, RequestFirst, OpenedOnce, ZeroOpens
  <2>3. Unanswered(c, s, s)
    BY <1>5 DEF Unanswered
  <2>4. \A e : FirstNumbers(e, c) /\ FirstHeartbeat(e, c, c, s, s)
    BY <1>3, <1>5 DEF FirstNumbers, FirstHeartbeat, Starting
  <2> QED
    BY <2>1, <2>2, <2>3, <2>4 DEF Session
<1>8. \A e \in Ends : con[e] = c /\ net[e] = s
  BY <1>2, <1>5 DEF Init
<1>9. \A e \in Ends : Peer(e) \in Ends
  BY ConstantFacts
<1>10. \A e \in Ends : Wired(con[e]) /\ SessionAt(e)
  BY <1>6, <1>7, <1>8, <1>9 DEF SessionAt
<1> QED
  BY <1>1, <1>10 DEF SessionInv

LEMMA SessionStays ==
  ASSUME SessionInv, [Next]_vars, Unbroken'
  PROVE  SessionInv'
<1>1. TypeInv'
  BY NextKeeps DEF SessionInv, Keeps
<1>2. CASE Acting
  BY <1>1, <1>2, ActsKeepSession DEF Acting
<1>3. CASE \E e \in Ends : Drops(e)
  BY <1>1, <1>3, DropsKeepSession
<1>4. CASE UNCHANGED <<con, net>>
  BY <1>1, <1>4 DEF SessionInv, SessionAt
<1> QED
  BY <1>2, <1>3, <1>4, NextActs

LEMMA SessionInvariance == Spec /\ []Unbroken => []SessionInv
<1>1. SessionInv /\ [Next]_vars /\ Unbroken' => SessionInv'
  BY SessionStays
<1> QED
  BY <1>1, SessionStarts, PTL DEF Spec

(***************************************************************************)
(* What a step may do to an endpoint: the two action properties.           *)
(***************************************************************************)
TurnsLegally ==
  \A e \in Ends : LET s == con[e].state
                      t == con'[e].state
                  IN s = t \/ t \in {"CLOSED", "NONE"} \/ <<s, t>> \in Legal

StaysWatched ==
  \A e \in Ends :
    /\ Connected(e)'
    /\ con[e].state = "START" \/ (Connected(e) /\ con[e].armed)
    => con'[e].armed

LEMMA ActsWithinBounds ==
  ASSUME SessionInv, NEW e \in Ends, NEW t, NEW sn, NEW c, NEW d, Acts(e, t, sn, c, d)
  PROVE  TurnsLegally /\ StaysWatched
<1>1. PICK o \in Whole : o = con[e]
  BY AtRest
<1>2. d \in Whole /\ d.state \in States
  BY DEF Acts, Does, Ok, Whole, Records
<1>3. PICK new : new = [d EXCEPT !.out = << >>]
  OBVIOUS
<1>4. new.state = d.state /\ new.armed = d.armed
  BY <1>2, <1>3 DEF Whole, Records
<1>5. con'[e] = new /\ \A x \in Ends : x # e => con'[x] = con[x]
  BY <1>3 DEF Acts, SessionInv, TypeInv
<1>6. c.state = o.state /\ c.armed = o.armed
  BY <1>1 DEF Acts, Like
<1>7. Turns(e, t, sn, c, d) /\ Watched(c, d)
  BY DEF Acts, Does
<1>8. \/ o.state = d.state \/ d.state \in {"CLOSED", "NONE"}
      \/ <<o.state, d.state>> \in Legal
  <2>1. CASE d.state = "START"
    BY <1>6, <1>7, <2>1 DEF Turns, Begins, Legal
  <2>2. CASE d.state = "UP"
    BY <1>6, <1>7, <2>2 DEF Turns, Completes, Legal
  <2>3. CASE d.state = "RETRREQ"
    BY <1>6, <1>7, <2>3 DEF Turns, Running, Legal
  <2>4. CASE d.state = "RETRRUN"
    BY <1>6, <1>7, <2>4 DEF Turns, Legal
  <2> QED
    BY <1>2, <2>1, <2>2, <2>3, <2>4 DEF States
<1>9. TurnsLegally
  BY <1>1, <1>4, <1>5, <1>8 DEF TurnsLegally
<1>10. d.state \in Running /\ (o.state = "START" \/ (o.state \in Running /\ o.armed)) => d.armed
  <2>1. d.state \in Running /\ (c.state = "START" \/ (c.state \in Running /\ c.armed)) => d.armed
    BY <1>7 DEF Watched
  <2>2. o.state = c.state /\ o.armed = c.armed
    BY <1>6
  <2> QED
    BY <2>1, <2>2, Zenon
<1>11. StaysWatched
  BY <1>1, <1>4, <1>5, <1>10 DEF StaysWatched, Connected, Running
<1> QED
  BY <1>9, <1>11

LEMMA StepWithinBounds ==
  ASSUME SessionInv, [Next]_vars, Unbroken'
  PROVE  TurnsLegally /\ StaysWatched
<1>1. CASE Acting
  BY <1>1, ActsWithinBounds DEF Acting
<1>2. CASE con' = con
  BY <1>2 DEF TurnsLegally, StaysWatched, Connected
<1>3. (\E e \in Ends : Drops(e)) \/ UNCHANGED <<con, net>> => con' = con
  BY DEF Drops
<1> QED
  BY <1>1, <1>2, <1>3, NextActs

LEMMA UnbrokenSteps == Spec /\ []Unbroken => [][TurnsLegally /\ StaysWatched]_vars
<1>1. SessionInv /\ [Next]_vars /\ Unbroken' => [TurnsLegally /\ StaysWatched]_vars
  BY StepWithinBounds
<1> QED
  BY <1>1, SessionInvariance, PTL DEF Spec

(***************************************************************************)
(* As long as no endpoint is stopped and started again, an open connection *)
(* has its redundancy channel: what removes the channel closes the         *)
(* connection too, and no PDU still on its way opens one afterwards        *)
(* without the channel it arrives on, not even a RetrReq.                  *)
(***************************************************************************)
THEOREM OpenHasChannel == Spec /\ []Unbroken => []ChannelWhileOpen
<1>1. SessionInv => ChannelWhileOpen
  BY DEF SessionInv, Wired, ChannelWhileOpen
<1> QED
  BY <1>1, SessionInvariance, PTL

(***************************************************************************)
(* As long as no endpoint is stopped and started again, a connection that  *)
(* its application has disconnected is closed, also when sr_disconnect was *)
(* called in the middle of a handler that goes on.                         *)
(***************************************************************************)
THEOREM DisconnectedStaysClosed == Spec /\ []Unbroken => []StaysClosed
<1>1. SessionInv => StaysClosed
  BY DEF SessionInv, Wired, StaysClosed
<1> QED
  BY <1>1, SessionInvariance, PTL

(***************************************************************************)
(* As long as no endpoint is stopped and started again, rasta_sr_state     *)
(* changes only along the pairs of Legal, whatever arrives, in whatever    *)
(* order, and whatever the notifications do in between.                    *)
(***************************************************************************)
THEOREM LegalLifecycle == Spec /\ []Unbroken => Lifecycle
<1>1. TurnsLegally /\ StaysWatched =>
        \A e \in Ends : LET s == con[e].state
                            t == con'[e].state
                        IN s = t \/ t \in {"CLOSED", "NONE"} \/ <<s, t>> \in Legal
  BY DEF TurnsLegally
<1> QED
  BY <1>1, UnbrokenSteps, PTL DEF Lifecycle

(***************************************************************************)
(* As long as no endpoint is stopped and started again, none that the      *)
(* handshake has established goes on without the timer that expires it.    *)
(***************************************************************************)
THEOREM WatchKept == Spec /\ []Unbroken => KeepsWatch
<1>1. TurnsLegally /\ StaysWatched =>
        \A e \in Ends :
          /\ Connected(e)'
          /\ con[e].state = "START" \/ (Connected(e) /\ con[e].armed)
          => con'[e].armed
  BY DEF StaysWatched
<1> QED
  BY <1>1, UnbrokenSteps, PTL DEF KeepsWatch
=============================================================================
