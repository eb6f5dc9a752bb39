--------------------------- MODULE SRDeliveryProofs ---------------------------
(***************************************************************************)
(* Theorems of SRConnection about what the two endpoints hold of each      *)
(* other: the numbers they expect and confirm, and the messages that reach *)
(* the application.                                                        *)
(***************************************************************************)
EXTENDS SRConnectionProofs

(***************************************************************************)
(*            PART I: WHAT THE OPERATORS DO, FIELD BY FIELD                *)
(***************************************************************************)
LEMMA CountFields ==
  ASSUME NEW c \in Whole
  PROVE  /\ c.sn_t \in Nat /\ c.sn_r \in Nat /\ c.cs_t \in Nat /\ c.cs_r \in Nat
         /\ c.sn_t < SnMod /\ c.sn_r < SnMod /\ c.cs_t < SnMod /\ c.cs_r < SnMod
         /\ c.ts_r \in Nat /\ c.cts_r \in Nat
<1>1. /\ c.sn_t \in Numbers /\ c.sn_r \in Numbers /\ c.cs_t \in Numbers
      /\ c.cs_r \in Numbers /\ c.ts_r \in Nat /\ c.cts_r \in Nat
  BY Fields
<1>2. \A n \in Numbers : n \in Nat /\ n < SnMod
  BY ConstantFacts DEF Numbers
<1> QED
  BY <1>1, <1>2

\* The sum of two numbers that do not reach 2^32.
LEMMA NoWrap ==
  ASSUME NEW m \in Nat, NEW i \in Nat, m + i < SnMod
  PROVE  (m + i) % SnMod = m + i /\ m + i \in Numbers
<1>1. m + i \in Numbers /\ m + i \in Int
  BY ConstantFacts DEF Numbers
<1> QED
  BY <1>1, ModFacts

LEMMA RoomForOne ==
  ASSUME NEW c \in Whole, c.sn_t + RetrCap + 4 <= SnMod
  PROVE  c.sn_t \in Nat /\ c.sn_t + 1 < SnMod /\ Plus1(c.sn_t) = c.sn_t + 1
<1>1. c.sn_t \in Nat /\ RetrCap \in Nat /\ SnMod \in Nat
  BY CountFields, ConstantFacts
<1>2. c.sn_t + 1 < SnMod
  BY <1>1
<1> QED
  BY <1>1, <1>2, NoWrap DEF Plus1

LEMMA JoinedTo ==
  ASSUME NEW S, NEW u \in Seq(S), NEW v \in Seq(S), NEW w, w = u \o v
  PROVE  /\ w \in Seq(S) /\ Len(w) = Len(u) + Len(v)
         /\ Len(u) \in Nat /\ Len(v) \in Nat
         /\ \A i \in 1 .. Len(u) : w[i] = u[i]
         /\ \A i \in 1 .. Len(v) : w[Len(u) + i] = v[i]
         /\ \A i \in 1 .. Len(w) :
              \/ i \in 1 .. Len(u)
              \/ i > Len(u) /\ i - Len(u) \in 1 .. Len(v) /\ w[i] = v[i - Len(u)]
<1>1. w \in Seq(S) /\ Len(w) = Len(u) + Len(v)
  BY ConcatProperties
<1>2. Len(u) \in Nat /\ Len(v) \in Nat
  OBVIOUS
<1>3. \A i \in 1 .. Len(u) + Len(v) : w[i] = IF i <= Len(u) THEN u[i] ELSE v[i - Len(u)]
  BY ConcatProperties
<1>4. ASSUME NEW i \in 1 .. Len(u) PROVE w[i] = u[i]
  <2>1. i \in 1 .. Len(u) + Len(v) /\ i <= Len(u)
    BY <1>2
  <2> QED
    BY <1>3, <2>1
<1>5. ASSUME NEW i \in 1 .. Len(v) PROVE w[Len(u) + i] = v[i]
  <2>1. Len(u) + i \in 1 .. Len(u) + Len(v) /\ ~(Len(u) + i <= Len(u)) /\ (Len(u) + i) - Len(u) = i
    BY <1>2
  <2> QED
    BY <1>3, <2>1
<1>6. ASSUME NEW i \in 1 .. Len(w), i \notin 1 .. Len(u)
      PROVE  i > Len(u) /\ i - Len(u) \in 1 .. Len(v) /\ w[i] = v[i - Len(u)]
  <2>1. i \in 1 .. Len(u) + Len(v) /\ ~(i <= Len(u)) /\ i > Len(u) /\ i - Len(u) \in 1 .. Len(v)
    BY <1>1, <1>2, <1>6
  <2> QED
    BY <1>3, <2>1
<1> QED
  BY <1>1, <1>2, <1>4, <1>5, <1>6

\* All of what is held of the peer, and of the messages on their way to it.
Core(c, d) ==
  /\ d.sn_r = c.sn_r /\ d.cs_t = c.cs_t /\ d.cs_r = c.cs_r
  /\ d.ts_r = c.ts_r /\ d.cts_r = c.cts_r /\ d.got = c.got
  /\ d.fifo_retr = c.fifo_retr /\ d.fifo_send = c.fifo_send /\ d.asked = c.asked

\* The PDU made of c, with any number of the redundancy layer.
Made(e, c, type, cts, msgs) ==
  {k \in Packets : k.pdu = Pdu(e, c, type, cts, msgs)}

\* One of K is sent if there is a channel.
Uttered(c, d, K) ==
  /\ c.channel => \E k \in K : d.out = Append(c.out, k)
  /\ ~c.channel => d.out = c.out

LEMMA MuxSendExact ==
  ASSUME NEW c \in Whole, NEW p \in NumberedPdus
  PROVE  \E d \in Whole :
           /\ d = MuxSend(c, p) /\ Core(c, d) /\ d.sn_t = c.sn_t
           /\ d.state = c.state /\ d.role = c.role /\ d.channel = c.channel
           /\ Uttered(c, d, {k \in Packets : k.pdu = p})
<1>1. PICK k \in Packets : k = [seq |-> c.tx, pdu |-> p]
  <2>1. c.tx \in Nat
    BY Fields
  <2> QED
    BY <2>1 DEF Packets
<1>2. PICK d \in Whole : d = MuxSend(c, p)
  BY MuxSendKeeps DEF Kept
<1>3. k.pdu = p
  BY <1>1
<1>4. CASE c.channel
  <2>1. PICK out, tx : out = Append(c.out, k) /\ tx = c.tx + 1
    OBVIOUS
  <2>2. d = [c EXCEPT !.out = out, !.tx = tx]
    BY <1>1, <1>2, <1>4, <2>1 DEF MuxSend, Whole, Records
  <2>3. /\ Core(c, d) /\ d.sn_t = c.sn_t /\ d.state = c.state /\ d.role = c.role
        /\ d.channel = c.channel /\ d.out = out
    BY <2>2 DEF Core, Whole, Records
  <2>4. Uttered(c, d, {x \in Packets : x.pdu = p})
    BY <1>3, <1>4, <2>1, <2>3 DEF Uttered
  <2> QED
    BY <1>2, <2>3, <2>4
<1>5. CASE ~c.channel
  <2>1. d = c
    BY <1>2, <1>5 DEF MuxSend
  <2> QED
    BY <1>2, <1>5, <2>1 DEF Core, Uttered
<1> QED
  BY <1>4, <1>5

LEMMA SendPduExact ==
  ASSUME Times, NEW e \in Ends, NEW c \in Whole, NEW type \in Types,
         NEW cts \in Nat, NEW msgs \in Seq(Nat)
  PROVE  \E d \in Whole :
           /\ d = SendPdu(e, c, type, cts, msgs) /\ Core(c, d)
           /\ d.sn_t = Plus1(c.sn_t)
           /\ d.state = c.state /\ d.role = c.role /\ d.channel = c.channel
           /\ Uttered(c, d, Made(e, c, type, cts, msgs))
<1>1. PICK p \in NumberedPdus : p = Pdu(e, c, type, cts, msgs)
  BY PduType
<1>2. PICK d \in Whole :
        /\ d = MuxSend(c, p) /\ Core(c, d) /\ d.sn_t = c.sn_t
        /\ d.state = c.state /\ d.role = c.role /\ d.channel = c.channel
        /\ Uttered(c, d, {k \in Packets : k.pdu = p})
  BY MuxSendExact
<1>3. PICK n \in Numbers : n = Plus1(c.sn_t)
  BY Fields, NumbersAreClosed
<1>4. PICK f : f = [d EXCEPT !.sn_t = n]
  OBVIOUS
<1>5. f = SendPdu(e, c, type, cts, msgs)
  BY <1>1, <1>2, <1>3, <1>4 DEF SendPdu
<1>6. /\ f \in Whole /\ Core(d, f) /\ f.sn_t = n /\ f.state = d.state /\ f.role = d.role
      /\ f.channel = d.channel /\ f.out = d.out
  BY <1>4 DEF Core, Whole, Records, Fits
<1>7. Uttered(c, d, Made(e, c, type, cts, msgs))
  BY <1>1, <1>2 DEF Made
<1>8. Uttered(c, f, Made(e, c, type, cts, msgs))
  BY <1>6, <1>7 DEF Uttered
<1> QED
  BY <1>2, <1>3, <1>5, <1>6, <1>8 DEF Core

\* d is c after a PDU of its own has taken a number.
Numbered(e, c, d, type, cts) ==
  /\ d \in Whole /\ Core(c, d) /\ d.sn_t = Plus1(c.sn_t)
  /\ d.state = c.state /\ d.role = c.role /\ d.channel = c.channel
  /\ Uttered(c, d, Made(e, c, type, cts, << >>))

LEMMA SendersExact ==
  ASSUME Times, NEW e \in Ends, NEW c \in Whole
  PROVE  /\ Numbered(e, c, SendHeartbeat(e, c), "HB", c.ts_r)
         /\ Numbered(e, c, SendRetrReq(e, c), "RetrReq", c.ts_r)
         /\ Numbered(e, c, SendRetrResp(e, c), "RetrResp", c.ts_r)
         /\ Numbered(e, c, SendPdu(e, c, "ConReq", 0, << >>), "ConReq", 0)
<1>1. c.ts_r \in Nat /\ 0 \in Nat
  BY Fields
<1>2. \A type \in Types, cts \in Nat :
        Numbered(e, c, SendPdu(e, c, type, cts, << >>), type, cts)
  <2> SUFFICES ASSUME NEW type \in Types, NEW cts \in Nat
               PROVE  Numbered(e, c, SendPdu(e, c, type, cts, << >>), type, cts)
    OBVIOUS
  <2>1. PICK d \in Whole :
          /\ d = SendPdu(e, c, type, cts, << >>) /\ Core(c, d)
          /\ d.sn_t = Plus1(c.sn_t)
          /\ d.state = c.state /\ d.role = c.role /\ d.channel = c.channel
          /\ Uttered(c, d, Made(e, c, type, cts, << >>))
    BY TypesExist, SendPduExact
  <2> QED
    BY <2>1 DEF Numbered
<1>3. /\ Numbered(e, c, SendRetrReq(e, c), "RetrReq", c.ts_r)
      /\ Numbered(e, c, SendRetrResp(e, c), "RetrResp", c.ts_r)
      /\ Numbered(e, c, SendPdu(e, c, "ConReq", 0, << >>), "ConReq", 0)
  BY <1>1, <1>2, TypesExist DEF SendRetrReq, SendRetrResp
<1>4. PICK d : d = SendPdu(e, c, "HB", c.ts_r, << >>) /\ Numbered(e, c, d, "HB", c.ts_r)
  BY <1>1, <1>2, TypesExist
<1>5. PICK f : f = [d EXCEPT !.hb_call = now]
  OBVIOUS
<1>6. /\ f \in Whole /\ Core(d, f) /\ f.sn_t = d.sn_t /\ f.state = d.state
      /\ f.role = d.role /\ f.channel = d.channel /\ f.out = d.out
  <2>1. d \in Whole
    BY <1>4 DEF Numbered
  <2> QED
    BY <1>5, <2>1 DEF Core, Whole, Records, Fits, Times
<1>7. Numbered(e, c, f, "HB", c.ts_r)
  BY <1>4, <1>6 DEF Numbered, Core, Uttered
<1>8. f = SendHeartbeat(e, c)
  BY <1>4, <1>5 DEF SendHeartbeat
<1> QED
  BY <1>3, <1>7, <1>8

(***************************************************************************)
(* Goodbyes, and what the application does to its connection.              *)
(***************************************************************************)
Goodbyes(e) == {k \in Packets : k.pdu.type = "DiscReq" /\ k.pdu.ts = Clock(e)}

Below(m, u) == \A i \in 1 .. Len(u) : m < u[i]
Rises(u)    == \A i, j \in 1 .. Len(u) : i < j => u[i] < u[j]

\* What is queued was asked for, in this order.
Queued(c) == Rises(c.fifo_send) /\ \A i \in 1 .. Len(c.fifo_send) : c.fifo_send[i] \in 1 .. c.asked

\* The queue may get longer, by what was not asked for before.
More(c, d) ==
  /\ c.asked <= d.asked
  /\ Queued(c) => Queued(d)
  /\ \A m \in Nat : m <= c.asked /\ Below(m, c.fifo_send) => Below(m, d.fifo_send)

Firm(c, d) ==
  /\ d.sn_r = c.sn_r /\ d.cs_t = c.cs_t /\ d.cs_r = c.cs_r
  /\ d.ts_r = c.ts_r /\ d.cts_r = c.cts_r
  /\ d.sn_t = c.sn_t /\ d.fifo_retr = c.fifo_retr

Ended(e, c, d) == d.out = c.out \/ \E k \in Goodbyes(e) : d.out = Append(c.out, k)

\* What a callback may do.
Told(e, c, d) ==
  /\ d \in Whole /\ Firm(c, d) /\ d.got = c.got /\ More(c, d)
  /\ d.state \in {c.state, "CLOSED"}
  /\ Ended(e, c, d)
  /\ c.state # "UP" => d.fifo_send = c.fifo_send /\ d.asked = c.asked

LEMMA MoreSame ==
  ASSUME NEW c \in Whole, NEW d, d.asked = c.asked, d.fifo_send = c.fifo_send
  PROVE  More(c, d)
<1>1. c.asked \in Nat
  BY Fields
<1> QED
  BY <1>1 DEF More, Queued

LEMMA MoreTransitive ==
  ASSUME NEW c \in Whole, NEW d \in Whole, NEW f \in Whole, More(c, d), More(d, f)
  PROVE  More(c, f)
<1>1. c.asked \in Nat /\ d.asked \in Nat /\ f.asked \in Nat
  BY Fields
<1>2. c.asked <= f.asked
  BY <1>1 DEF More
<1>3. ASSUME NEW m \in Nat, m <= c.asked, Below(m, c.fifo_send)
      PROVE  Below(m, f.fifo_send)
  <2>1. Below(m, d.fifo_send) /\ m <= d.asked
    BY <1>1, <1>3 DEF More
  <2> QED
    BY <2>1 DEF More
<1> QED
  BY <1>2, <1>3 DEF More

LEMMA SendDiscReqExact ==
  ASSUME Times, NEW e \in Ends, NEW c \in Whole
  PROVE  \E d \in Whole : /\ d = SendDiscReq(e, c) /\ Core(c, d) /\ d.sn_t = c.sn_t
                          /\ d.state = c.state /\ d.role = c.role
                          /\ d.channel = c.channel /\ Ended(e, c, d)
<1>1. c.ts_r \in Nat
  BY Fields
<1>2. PICK p \in NumberedPdus : p = Pdu(e, c, "DiscReq", c.ts_r, << >>)
  BY <1>1, TypesExist, PduType
<1>3. p.type = "DiscReq" /\ p.ts = Clock(e)
  BY <1>2 DEF Pdu
<1>4. PICK d \in Whole :
        /\ d = MuxSend(c, p) /\ Core(c, d) /\ d.sn_t = c.sn_t
        /\ d.state = c.state /\ d.role = c.role /\ d.channel = c.channel
        /\ Uttered(c, d, {k \in Packets : k.pdu = p})
  BY MuxSendExact
<1>5. Ended(e, c, d)
  <2>1. {k \in Packets : k.pdu = p} \subseteq Goodbyes(e)
    BY <1>3 DEF Goodbyes
  <2>2. c.channel \/ ~c.channel
    OBVIOUS
  <2> QED
    BY <1>4, <2>1, <2>2 DEF Uttered, Ended
<1>6. d = SendDiscReq(e, c)
  BY <1>2, <1>4 DEF SendDiscReq
<1> QED
  BY <1>4, <1>5, <1>6

\* The end of a connection.
Leaves(e, c, d) ==
  /\ d \in Whole /\ Firm(c, d) /\ d.got = c.got
  /\ d.fifo_send = c.fifo_send /\ d.asked = c.asked
  /\ d.state = "CLOSED" /\ Ended(e, c, d)

LEMMA LeavesIsTold ==
  ASSUME NEW e, NEW c \in Whole, NEW d, Leaves(e, c, d)
  PROVE  Told(e, c, d)
BY MoreSame DEF Leaves, Told

LEMMA CloseLeaves ==
  ASSUME Times, NEW e \in Ends, NEW c \in Whole
  PROVE  Leaves(e, c, CloseConnection(e, c))
<1>1. PICK d \in Whole : /\ d = (IF c.state \in Open THEN SendDiscReq(e, c) ELSE c)
                         /\ Core(c, d) /\ d.sn_t = c.sn_t /\ Ended(e, c, d)
  <2>1. CASE c.state \in Open
    BY <2>1, SendDiscReqExact
  <2>2. CASE c.state \notin Open
    BY <2>2 DEF Core, Ended
  <2> QED
    BY <2>1, <2>2
<1>2. PICK f : f = [d EXCEPT !.state = "CLOSED", !.armed = FALSE]
  OBVIOUS
<1>3. f \in Whole /\ Core(d, f) /\ f.sn_t = d.sn_t /\ f.state = "CLOSED" /\ f.out = d.out
  BY <1>2 DEF Core, Whole, Records, Fits, States
<1>4. PICK g : g = RemoveChannel(f)
  OBVIOUS
<1>5. g \in Whole /\ Core(f, g) /\ g.sn_t = f.sn_t /\ g.state = f.state /\ g.out = f.out
  <2>1. g = [f EXCEPT !.channel = FALSE, !.tx = 0, !.rx = 0]
    BY <1>4 DEF RemoveChannel
  <2> QED
    BY <1>3, <2>1 DEF Core, Whole, Records, Fits
<1>6. g = CloseConnection(e, c)
  BY <1>1, <1>2, <1>4 DEF CloseConnection
<1>7. Leaves(e, c, g)
  BY <1>1, <1>3, <1>5 DEF Leaves, Core, Firm, Ended
<1> QED
  BY <1>6, <1>7

LEMMA SentTold ==
  ASSUME Times, NEW e \in Ends, NEW c \in Whole, NEW n \in Nat
  PROVE  Told(e, c, Sent(e, c, n))
<1>1. CASE c.state = "UP"
  <2>1. PICK fit : fit = IF n < 2 * MaxPacket - Len(c.fifo_send)
                         THEN n ELSE 2 * MaxPacket - Len(c.fifo_send)
    OBVIOUS
  <2>2. fit \in 0 .. n
    <3>1. Len(c.fifo_send) \in 0 .. 2 * MaxPacket /\ MaxPacket \in Nat
      BY Fields, ConstantFacts
    <3>2. PICK m \in Nat : m = 2 * MaxPacket
      BY <3>1
    <3>2a. PICK l \in 0 .. m : l = Len(c.fifo_send)
      BY <3>1, <3>2
    <3>3. fit = IF n < m - l THEN n ELSE m - l
      BY <2>1, <3>2, <3>2a
    <3> QED
      BY <3>2a, <3>3
  <2>3. PICK b \in Nat, u \in Seq(Nat) : b = c.asked /\ u = c.fifo_send
    BY Fields
  <2>4. PICK v : v = [i \in 1 .. fit |-> b + i]
    OBVIOUS
  <2>5. v \in Seq(Nat) /\ Len(v) = fit /\ \A i \in 1 .. fit : v[i] = b + i
    BY <2>2, <2>4
  <2>6. PICK w : w = u \o v
    OBVIOUS
  <2>6a. PICK a \in Nat : a = b + n
    OBVIOUS
  <2>7. Sent(e, c, n) = [c EXCEPT !.asked = a, !.fifo_send = w]
    <3>1. Sent(e, c, n) = [c EXCEPT !.asked = @ + n,
                             !.fifo_send = @ \o [i \in 1 .. fit |-> c.asked + i]]
      BY <1>1, <2>1, Zenon DEF Sent
    <3> QED
      BY <2>3, <2>4, <2>6, <2>6a, <3>1
  <2>8. PICK d \in Whole : d = Sent(e, c, n)
    BY SentKeeps DEF Kept
  <2>9. /\ Firm(c, d) /\ d.got = c.got /\ d.state = c.state /\ d.out = c.out
        /\ d.asked = a /\ d.fifo_send = w
    BY <2>7, <2>8 DEF Firm, Whole, Records
  <2>10. /\ w \in Seq(Nat) /\ Len(w) = Len(u) + fit /\ Len(u) \in Nat
         /\ \A i \in 1 .. Len(u) : w[i] = u[i]
         /\ \A i \in 1 .. Len(w) :
              \/ i \in 1 .. Len(u)
              \/ i > Len(u) /\ i - Len(u) \in 1 .. fit /\ w[i] = b + (i - Len(u))
    <3>1. /\ w \in Seq(Nat) /\ Len(w) = Len(u) + Len(v) /\ Len(u) \in Nat
          /\ \A i \in 1 .. Len(u) : w[i] = u[i]
          /\ \A i \in 1 .. Len(w) :
               \/ i \in 1 .. Len(u)
               \/ i > Len(u) /\ i - Len(u) \in 1 .. Len(v) /\ w[i] = v[i - Len(u)]
      <4>1. u \in Seq(Nat) /\ v \in Seq(Nat)
        BY <2>5
      <4> QED
        BY <2>6, <4>1, JoinedTo
    <3> QED
      BY <2>5, <3>1
  <2>11. Queued(c) => Queued(d)
    <3> SUFFICES ASSUME Rises(u), \A i \in 1 .. Len(u) : u[i] \in 1 .. b
                 PROVE  Rises(w) /\ \A i \in 1 .. Len(w) : w[i] \in 1 .. a
      BY <2>3, <2>9 DEF Queued
    <3>1. ASSUME NEW i \in 1 .. Len(u) PROVE w[i] = u[i] /\ w[i] \in 1 .. b
      BY <2>10
    <3>2. ASSUME NEW i \in 1 .. Len(w), i \notin 1 .. Len(u)
          PROVE  i > Len(u) /\ w[i] = b + (i - Len(u)) /\ w[i] \in b + 1 .. a
      <4>1. i > Len(u) /\ i - Len(u) \in 1 .. fit /\ w[i] = b + (i - Len(u))
        BY <2>10, <3>2
      <4>2. PICK k \in 1 .. fit : k = i - Len(u)
        BY <4>1
      <4>3. w[i] = b + k
        BY <4>1, <4>2
      <4>4. b + k \in b + 1 .. a
        BY <2>2, <2>6a
      <4> QED
        BY <4>1, <4>3, <4>4
    <3>3. \A i \in 1 .. Len(w) : w[i] \in 1 .. a
      <4> SUFFICES ASSUME NEW i \in 1 .. Len(w) PROVE w[i] \in 1 .. a
        OBVIOUS
      <4>1. w[i] \in 1 .. b \/ w[i] \in b + 1 .. a
        BY <3>1, <3>2
      <4> QED
        BY <2>6a, <4>1
    <3>4. ASSUME NEW i \in 1 .. Len(w), NEW j \in 1 .. Len(w), i < j PROVE w[i] < w[j]
      <4>1. CASE j \in 1 .. Len(u)
        <5>1. i \in 1 .. Len(u)
          BY <2>10, <3>4, <4>1
        <5>2. u[i] < u[j]
          BY <3>4, <4>1, <5>1 DEF Rises
        <5> QED
          BY <3>1, <4>1, <5>1, <5>2
      <4>2. CASE j \notin 1 .. Len(u) /\ i \notin 1 .. Len(u)
        <5>1. w[i] = b + (i - Len(u)) /\ w[j] = b + (j - Len(u))
          BY <3>2, <4>2
        <5> QED
          BY <2>3, <2>10, <3>4, <5>1
      <4>3. CASE j \notin 1 .. Len(u) /\ i \in 1 .. Len(u)
        <5>1. w[i] \in 1 .. b /\ w[j] \in b + 1 .. a
          BY <3>1, <3>2, <4>3
        <5> QED
          BY <2>6a, <5>1
      <4> QED
        BY <4>1, <4>2, <4>3
    <3> QED
      BY <3>3, <3>4 DEF Rises
  <2>12. ASSUME NEW m \in Nat, m <= c.asked, Below(m, c.fifo_send)
         PROVE  Below(m, d.fifo_send)
    <3>1. ASSUME NEW i \in 1 .. Len(w) PROVE m < w[i]
      <4>1. CASE i \in 1 .. Len(u)
        <5>1. m < u[i]
          BY <2>3, <2>12, <4>1 DEF Below
        <5> QED
          BY <2>10, <4>1, <5>1
      <4>2. CASE i \notin 1 .. Len(u)
        <5>1. PICK k \in 1 .. fit : w[i] = b + k
          BY <2>10, <4>2
        <5> QED
          BY <2>2, <2>3, <2>12, <5>1
      <4> QED
        BY <4>1, <4>2
    <3> QED
      BY <2>9, <3>1 DEF Below
  <2>13. More(c, d)
    <3>1. c.asked <= d.asked
      BY <2>3, <2>6a, <2>9
    <3> QED
      BY <2>11, <2>12, <3>1 DEF More
  <2> QED
    BY <1>1, <2>8, <2>9, <2>13 DEF Told, Ended
<1>2. CASE c.state \in {"START", "RETRREQ", "RETRRUN"}
  <2>1. PICK d \in Whole : /\ d = SendDiscReq(e, c) /\ Core(c, d) /\ d.sn_t = c.sn_t
                           /\ Ended(e, c, d)
    BY SendDiscReqExact
  <2>2. PICK f : f = [d EXCEPT !.state = "CLOSED"]
    OBVIOUS
  <2>3. f \in Whole /\ Core(d, f) /\ f.sn_t = d.sn_t /\ f.state = "CLOSED" /\ f.out = d.out
    BY <2>2 DEF Core, Whole, Records, Fits, States
  <2>4. Leaves(e, c, f)
    BY <2>1, <2>3 DEF Leaves, Core, Firm, Ended
  <2>5. Sent(e, c, n) = f
    BY <1>2, <2>1, <2>2 DEF Sent
  <2> QED
    BY <2>4, <2>5, LeavesIsTold
<1>3. CASE c.state \notin {"UP", "START", "RETRREQ", "RETRRUN"}
  <2>1. Sent(e, c, n) = c
    BY <1>3 DEF Sent
  <2> QED
    BY <2>1, MoreSame DEF Told, Firm, Ended
<1> QED
  BY <1>1, <1>2, <1>3

LEMMA DisconnectedLeaves ==
  ASSUME Times, NEW e \in Ends, NEW c \in Whole
  PROVE  Leaves(e, c, Disconnected(e, c))
<1>1. PICK d \in Whole : d = CloseConnection(e, c) /\ Leaves(e, c, d)
  BY CloseLeaves DEF Leaves
<1>2. PICK f : f = [d EXCEPT !.quit = TRUE]
  OBVIOUS
<1>3. f = Disconnected(e, c)
  BY <1>1, <1>2 DEF Disconnected
<1>4. Leaves(e, c, f)
  BY <1>1, <1>2 DEF Leaves, Firm, Ended, Whole, Records, Fits
<1> QED
  BY <1>3, <1>4

LEMMA NotifiedTold ==
  ASSUME Times, NEW e \in Ends, NEW c \in Whole, NEW d \in Notified(e, c)
  PROVE  Told(e, c, d)
<1>1. d \in {c, Sent(e, c, 1), Disconnected(e, c)}
  BY DEF Notified
<1>2. Told(e, c, c)
  BY MoreSame DEF Told, Firm, Ended
<1>3. Told(e, c, Sent(e, c, 1))
  BY SentTold
<1>4. Told(e, c, Disconnected(e, c))
  BY DisconnectedLeaves, LeavesIsTold
<1> QED
  BY <1>1, <1>2, <1>3, <1>4

(***************************************************************************)
(* The first PDUs of the messages of a PDU given to the application: what  *)
(* it has then, and what the record may be.                                *)
(***************************************************************************)
\* v is u and the first i of w.
Longer(u, w, i, v) ==
  /\ Len(v) = Len(u) + i
  /\ \A j \in 1 .. Len(u) : v[j] = u[j]
  /\ \A j \in 1 .. i : v[Len(u) + j] = w[j]

Fed(e, c, d) ==
  /\ d \in Whole /\ Firm(c, d) /\ More(c, d)
  /\ d.state \in {c.state, "CLOSED"}
  /\ d.out \in Seq(Goodbyes(e))

LEMMA EndedByGoodbyes ==
  ASSUME NEW e, NEW c, NEW d, Ended(e, c, d), c.out \in Seq(Goodbyes(e))
  PROVE  d.out \in Seq(Goodbyes(e))
<1>1. CASE d.out = c.out
  BY <1>1
<1>2. CASE \E k \in Goodbyes(e) : d.out = Append(c.out, k)
  BY <1>2, AppendProperties
<1> QED
  BY <1>1, <1>2 DEF Ended

LEMMA FedMore ==
  ASSUME NEW e, NEW c \in Whole, NEW x, NEW y, Fed(e, c, x), Told(e, x, y)
  PROVE  Fed(e, c, y)
<1>1. y.out \in Seq(Goodbyes(e))
  BY EndedByGoodbyes DEF Fed, Told
<1>2. More(c, y)
  BY MoreTransitive DEF Fed, Told
<1> QED
  BY <1>1, <1>2 DEF Fed, Told, Firm

LEMMA HandedFeeds ==
  ASSUME Times, NEW e \in Ends, NEW c \in Whole, NEW x \in Whole, Fed(e, c, x), NEW m \in Nat,
         NEW g \in Notified(e, Read(x, m)), NEW y, y = UpdateTI(g)
  PROVE  Fed(e, c, y) /\ y \in Whole /\ y.got = Append(x.got, m)
<1>1. PICK u : u = Append(x.got, m)
  OBVIOUS
<1>2. PICK r \in Whole : r = Read(x, m)
  BY ReadKeeps DEF Kept
<1>3. r = [x EXCEPT !.got = u]
  BY <1>1, <1>2 DEF Read
<1>4. /\ r.got = u /\ Firm(x, r) /\ r.state = x.state /\ r.out = x.out
      /\ r.fifo_send = x.fifo_send /\ r.asked = x.asked
  BY <1>3 DEF Firm, Whole, Records
<1>5. Fed(e, c, r)
  <2>1. More(x, r)
    BY <1>4, MoreSame
  <2>2. More(c, r)
    BY <1>2, <2>1, MoreTransitive DEF Fed
  <2> QED
    BY <1>2, <1>4, <2>2 DEF Fed, Firm
<1>6. Told(e, r, g)
  BY <1>2, NotifiedTold
<1>7. Fed(e, c, g) /\ g \in Whole /\ g.got = u
  <2>1. Fed(e, c, g)
    BY <1>5, <1>6, FedMore
  <2> QED
    BY <1>4, <1>6, <2>1 DEF Told
<1>8. y = [g EXCEPT !.ti_call = now]
  BY DEF UpdateTI
<1>9. /\ y \in Whole /\ y.got = g.got /\ Firm(g, y) /\ y.state = g.state /\ y.out = g.out
      /\ y.fifo_send = g.fifo_send /\ y.asked = g.asked
  BY <1>7, <1>8 DEF Firm, Whole, Records, Fits, Times
<1>10. Fed(e, c, y)
  <2>1. More(g, y)
    BY <1>7, <1>9, MoreSame
  <2>2. More(c, y)
    BY <1>7, <1>9, <2>1, MoreTransitive DEF Fed
  <2> QED
    BY <1>7, <1>9, <2>2 DEF Fed, Firm
<1> QED
  BY <1>1, <1>7, <1>9, <1>10

LEMMA AddAppMessagesFeed ==
  ASSUME Times, NEW e \in Ends, NEW c \in Whole, c.out = << >>, NEW p \in NumberedPdus,
         NEW d \in AddAppMessages(e, c, p)
  PROVE  Fed(e, c, d) /\ Longer(c.got, p.msgs, Len(p.msgs), d.got)
<1> DEFINE T == {x \in Whole : Fed(e, c, x)}
<1>1. c \in T
  <2>1. << >> \in Seq(Goodbyes(e)) /\ More(c, c)
    BY MoreSame, EmptySeq
  <2> QED
    BY <2>1 DEF Fed, Firm
<1>2. ASSUME NEW x \in T, NEW m \in Nat, NEW y \in {UpdateTI(g) : g \in Notified(e, Read(x, m))}
      PROVE  y \in T
  BY <1>2, HandedFeeds
<1>3. PICK found : Hands(e, c, p, T, found)
  <2> HIDE DEF T
  <2>1. \A x \in T, m \in Nat : {UpdateTI(g) : g \in Notified(e, Read(x, m))} \subseteq T
    BY <1>2
  <2> QED
    BY <1>1, <2>1, AddAppMessagesRun
<1>4. PICK w \in Seq(Nat) : w = p.msgs
  BY DEF NumberedPdus
<1>5. PICK n \in Nat : n = Len(w) /\ \A i \in 1 .. n : w[i] \in Nat
  BY <1>4
<1>6. c.got \in Seq(Nat)
  BY Fields
<1> DEFINE S == {i \in 0 .. n : \A x \in found[i] : x \in T /\ Longer(c.got, w, i, x.got)}
<1>7. 0 \in S
  <2>1. found[0] = {c} /\ 0 \in 0 .. n
    BY <1>3 DEF Hands
  <2>2. Longer(c.got, w, 0, c.got)
    BY <1>6 DEF Longer
  <2> QED
    BY <1>1, <2>1, <2>2
<1>8. ASSUME NEW i \in 0 .. n - 1, i \in S PROVE i + 1 \in S
  <2>1. i + 1 \in 1 .. n /\ (i + 1) - 1 = i /\ i + 1 \in 0 .. n
    BY <1>5
  <2>2. ASSUME NEW y \in found[i + 1] PROVE y \in T /\ Longer(c.got, w, i + 1, y.got)
    <3>1. PICK x \in found[i] : \E g \in Notified(e, Read(x, w[i + 1])) : y = UpdateTI(g)
      <4>1. \A j \in 1 .. n : \A z \in found[j] :
              \E x \in found[j - 1] : \E g \in Notified(e, Read(x, w[j])) : z = UpdateTI(g)
        BY <1>3, <1>4, <1>5 DEF Hands
      <4> QED
        BY <2>1, <2>2, <4>1
    <3>2. x \in Whole /\ Fed(e, c, x) /\ Longer(c.got, w, i, x.got)
      BY <1>8
    <3>3. PICK m \in Nat : m = w[i + 1]
      BY <1>5, <2>1
    <3>4. y \in T /\ y.got = Append(x.got, m)
      BY <3>1, <3>2, <3>3, HandedFeeds
    <3>5. x.got \in Seq(Nat)
      BY <3>2, Fields
    <3>6. PICK u \in Seq(Nat), v \in Seq(Nat) : u = c.got /\ v = x.got
      BY <1>6, <3>5
    <3>7. PICK z : z = Append(v, m)
      OBVIOUS
    <3>8. Len(z) = Len(v) + 1 /\ z[Len(v) + 1] = m /\ \A j \in 1 .. Len(v) : z[j] = v[j]
      BY <3>7, AppendProperties
    <3>9. Len(u) \in Nat /\ Len(v) = Len(u) + i
      BY <3>2, <3>6 DEF Longer
    <3>10. Longer(u, w, i + 1, z)
      <4>1. Len(z) = Len(u) + (i + 1)
        BY <3>8, <3>9
      <4>2. ASSUME NEW j \in 1 .. Len(u) PROVE z[j] = u[j]
        <5>1. j \in 1 .. Len(v)
          BY <3>9
        <5>2. v[j] = u[j]
          BY <3>2, <3>6 DEF Longer
        <5> QED
          BY <3>8, <5>1, <5>2
      <4>3. ASSUME NEW j \in 1 .. i + 1 PROVE z[Len(u) + j] = w[j]
        <5>1. CASE j = i + 1
          <6>1. Len(u) + j = Len(v) + 1
            BY <3>9, <5>1
          <6> QED
            BY <3>3, <3>8, <5>1, <6>1
        <5>2. CASE j # i + 1
          <6>1. j \in 1 .. i /\ Len(u) + j \in 1 .. Len(v)
            BY <3>9, <5>2
          <6>2. v[Len(u) + j] = w[j]
            BY <3>2, <3>6, <6>1 DEF Longer
          <6> QED
            BY <3>8, <6>1, <6>2
        <5> QED
          BY <5>1, <5>2
      <4> QED
        BY <4>1, <4>2, <4>3 DEF Longer
    <3> QED
      BY <3>4, <3>6, <3>7, <3>10
  <2> HIDE DEF T
  <2> QED
    BY <2>1, <2>2
<1> HIDE DEF S
<1>9. 0 .. n \subseteq S
  BY <1>7, <1>8, InductionUpTo
<1>10. n \in S /\ d \in found[n]
  BY <1>3, <1>4, <1>5, <1>9 DEF Hands
<1>11. d \in T /\ Longer(c.got, w, n, d.got)
  BY <1>10 DEF S
<1> QED
  BY <1>4, <1>5, <1>11

(***************************************************************************)
(* What sr_retransmit_data sends and holds, far from the end of the        *)
(* numbers.                                                                *)
(***************************************************************************)
Nth(fifo, i) == IF i <= Len(fifo) THEN fifo[i].msgs ELSE << >>

Says(e, c, k, type, sn) ==
  k.pdu.type = type /\ k.pdu.sn = sn /\ k.pdu.cs = c.cs_t /\ k.pdu.ts = Clock(e)

\* d is held after a retransmission that has begun with the number sn.
Refilled(c, d, sn) ==
  LET n == Len(c.fifo_retr) IN
  /\ Len(d.fifo_retr) = IF n < RetrCap THEN n + 1 ELSE RetrCap
  /\ \A i \in 1 .. Len(d.fifo_retr) :
       d.fifo_retr[i].sn = sn + (i - 1) /\ d.fifo_retr[i].msgs = Nth(c.fifo_retr, i)

Repeating(e, c, d) ==
  LET n == Len(c.fifo_retr)
      m == Len(c.out)
  IN /\ Len(d.out) = m + n + 2
     /\ \A i \in 1 .. m : d.out[i] = c.out[i]
     /\ \A i \in 1 .. n + 1 : /\ Says(e, c, d.out[m + i], "RetrData", c.sn_t + (i - 1))
                              /\ d.out[m + i].pdu.msgs = Nth(c.fifo_retr, i)
     /\ Says(e, c, d.out[m + n + 2], "HB", c.sn_t + n + 1)
     /\ d.out[m + n + 2].pdu.cts = c.ts_r

Retransmitted(e, c, d) ==
  /\ d \in Whole /\ d.state = c.state
  /\ d.sn_r = c.sn_r /\ d.cs_t = c.cs_t /\ d.cs_r = c.cs_r /\ d.ts_r = c.ts_r
  /\ d.cts_r = c.cts_r /\ d.got = c.got
  /\ d.fifo_send = c.fifo_send /\ d.asked = c.asked
  /\ d.sn_t = c.sn_t + Len(c.fifo_retr) + 2
  /\ Refilled(c, d, c.sn_t)
  /\ c.channel => Repeating(e, c, d)
  /\ ~c.channel => d.out = c.out

LEMMA RetransmitExact ==
  ASSUME Times, NEW e \in Ends, NEW c \in Whole, c.sn_t + RetrCap + 3 <= SnMod
  PROVE  Retransmitted(e, c, Retransmit(e, c))
<1> DEFINE n == Len(c.fifo_retr)
           msgs(i) == IF i <= n THEN c.fifo_retr[i].msgs ELSE << >>
           sn(i) == (c.sn_t + (i - 1)) % SnMod
           data(i) == RetrData(e, c, sn(i), msgs(i))
           kept == IF n < RetrCap THEN n + 1 ELSE RetrCap
           sent == [i \in 1 .. n + 1 |-> [seq |-> c.tx + (i - 1), pdu |-> data(i)]]
           fifo == [i \in 1 .. kept |-> [sn |-> sn(i), msgs |-> msgs(i)]]
           d == [c EXCEPT !.sn_t = sn(n + 2), !.fifo_retr = fifo]
           f == IF c.channel
                THEN [d EXCEPT !.out = @ \o sent, !.tx = @ + n + 1] ELSE d
<1>1. Retransmit(e, c) = SendHeartbeat(e, f)
  BY DEF Retransmit
<1>2. n \in 0 .. RetrCap /\ RetrCap \in Nat /\ c.sn_t \in Nat /\ SnMod \in Nat
  BY Fields, ConstantFacts DEF Numbers
<1>3. kept \in 0 .. n + 1 /\ kept \in Nat /\ kept <= RetrCap
  BY <1>2
<1>4. \A i \in 1 .. n + 1 : msgs(i) \in Seq(Nat) /\ msgs(i) = Nth(c.fifo_retr, i)
  <2>1. ASSUME NEW i \in 1 .. n + 1 PROVE msgs(i) \in Seq(Nat)
    <3>1. CASE i <= n
      <4>1. i \in 1 .. Len(c.fifo_retr)
        BY <1>2, <3>1
      <4> QED
        BY <3>1, <4>1, HeldFacts
    <3>2. CASE ~(i <= n)
      BY <3>2
    <3> QED
      BY <3>1, <3>2
  <2> QED
    BY <2>1 DEF Nth
<1>5. \A i \in 1 .. n + 2 : sn(i) \in Numbers /\ sn(i) = c.sn_t + (i - 1)
  <2> SUFFICES ASSUME NEW i \in 1 .. n + 2
               PROVE  sn(i) \in Numbers /\ sn(i) = c.sn_t + (i - 1)
    OBVIOUS
  <2>1. i - 1 \in Nat /\ c.sn_t + (i - 1) < SnMod
    BY <1>2
  <2> QED
    BY <1>2, <2>1, NoWrap
<1> HIDE DEF msgs, sn
<1>6. \A i \in 1 .. n + 1 : data(i) \in NumberedPdus
  <2>1. \A i \in 1 .. n + 1 : sn(i) \in Numbers
    BY <1>2, <1>5
  <2> QED
    BY <1>4, <2>1, RetrDataType
<1>7. \A i \in 1 .. n + 1 : /\ data(i).type = "RetrData" /\ data(i).sn = sn(i)
                            /\ data(i).cs = c.cs_t /\ data(i).ts = Clock(e)
                            /\ data(i).msgs = msgs(i)
  BY DEF RetrData, Pdu
<1> HIDE DEF data
<1>8. /\ sent \in Seq(Packets) /\ Len(sent) = n + 1
      /\ \A i \in 1 .. n + 1 : sent[i].pdu = data(i)
  <2>1. c.tx \in Nat
    BY Fields
  <2>2. \A i \in 1 .. n + 1 : [seq |-> c.tx + (i - 1), pdu |-> data(i)] \in Packets
    BY <1>2, <1>6, <2>1 DEF Packets
  <2> HIDE DEF n
  <2> QED
    BY <1>2, <2>2
<1>9. /\ fifo \in Seq(Held) /\ Len(fifo) = kept
      /\ \A i \in 1 .. kept : fifo[i].sn = sn(i) /\ fifo[i].msgs = msgs(i)
  <2>1. \A i \in 1 .. kept : [sn |-> sn(i), msgs |-> msgs(i)] \in Held
    <3>1. \A i \in 1 .. kept : i \in 1 .. n + 1 /\ i \in 1 .. n + 2
      BY <1>2, <1>3
    <3> QED
      BY <1>4, <1>5, <3>1 DEF Held
  <2> HIDE DEF n, kept
  <2> QED
    BY <1>3, <2>1
<1>10. sn(n + 2) \in Numbers /\ sn(n + 2) = c.sn_t + n + 1
  <2>1. n + 2 \in 1 .. n + 2 /\ c.sn_t + ((n + 2) - 1) = c.sn_t + n + 1
    BY <1>2
  <2> QED
    BY <1>5, <2>1
<1> HIDE DEF fifo, sent, n
<1>11. d \in Whole
  BY <1>3, <1>9, <1>10 DEF Whole, Records, Fits
<1>12. /\ d.sn_t = sn(n + 2) /\ d.fifo_retr = fifo /\ d.state = c.state
       /\ d.sn_r = c.sn_r /\ d.cs_t = c.cs_t /\ d.cs_r = c.cs_r /\ d.ts_r = c.ts_r
       /\ d.cts_r = c.cts_r /\ d.got = c.got /\ d.fifo_send = c.fifo_send
       /\ d.asked = c.asked /\ d.out = c.out /\ d.channel = c.channel /\ d.tx = c.tx
  BY DEF Whole, Records
<1> HIDE DEF d
<1>13. /\ f \in Whole /\ Core(d, f) /\ f.sn_t = d.sn_t /\ f.state = d.state
       /\ f.channel = d.channel
       /\ c.channel => f.out = c.out \o sent
       /\ ~c.channel => f.out = c.out
  <2>1. CASE c.channel
    <3>1. c.out \in Seq(Packets) /\ c.tx \in Nat
      BY Fields
    <3>2. PICK out \in Seq(Packets) : out = c.out \o sent
      BY <1>8, <3>1, ConcatProperties
    <3>3. PICK tx \in Nat : tx = c.tx + n + 1
      BY <1>2, <3>1
    <3>4. f = [d EXCEPT !.out = out, !.tx = tx]
      BY <1>12, <2>1, <3>2, <3>3
    <3> HIDE DEF f
    <3>5. /\ f \in Whole /\ Core(d, f) /\ f.sn_t = d.sn_t /\ f.state = d.state
          /\ f.channel = d.channel /\ f.out = out
      BY <1>11, <3>4 DEF Core, Whole, Records, Fits
    <3> QED
      BY <2>1, <3>2, <3>5
  <2>2. CASE ~c.channel
    BY <1>11, <1>12, <2>2 DEF Core
  <2> QED
    BY <2>1, <2>2
<1> HIDE DEF f
<1>14. PICK g : g = Retransmit(e, c) /\ Numbered(e, f, g, "HB", f.ts_r)
  BY <1>1, <1>13, SendersExact
<1>15. g \in Whole /\ Core(f, g) /\ g.state = f.state
  BY <1>14 DEF Numbered
<1>16. /\ g.sn_r = c.sn_r /\ g.cs_t = c.cs_t /\ g.cs_r = c.cs_r /\ g.ts_r = c.ts_r
       /\ g.cts_r = c.cts_r /\ g.got = c.got /\ g.fifo_send = c.fifo_send
       /\ g.asked = c.asked /\ g.fifo_retr = fifo /\ g.state = c.state
  BY <1>12, <1>13, <1>15 DEF Core
<1>17. g.sn_t = c.sn_t + n + 2
  <2>1. g.sn_t = Plus1(c.sn_t + n + 1)
    BY <1>10, <1>12, <1>13, <1>14 DEF Numbered
  <2>2. PICK m \in Nat : m = c.sn_t + n + 1
    BY <1>2
  <2>3. (m + 1) % SnMod = m + 1
    <3>1. m + 1 < SnMod
      BY <1>2, <2>2
    <3> QED
      BY <3>1, NoWrap
  <2> QED
    BY <1>2, <2>1, <2>2, <2>3 DEF Plus1
<1>18. Refilled(c, g, c.sn_t)
  <2>1. Len(g.fifo_retr) = kept
    BY <1>9, <1>16
  <2>2. ASSUME NEW i \in 1 .. kept
        PROVE  g.fifo_retr[i].sn = c.sn_t + (i - 1) /\ g.fifo_retr[i].msgs = Nth(c.fifo_retr, i)
    <3>1. i \in 1 .. n + 1 /\ i \in 1 .. n + 2
      BY <1>2, <1>3
    <3> QED
      BY <1>4, <1>5, <1>9, <1>16, <3>1
  <2> QED
    BY <2>1, <2>2 DEF Refilled, n
<1>19. ASSUME c.channel PROVE Repeating(e, c, g)
  <2>1. PICK k \in Made(e, f, "HB", f.ts_r, << >>) : g.out = Append(f.out, k)
    BY <1>12, <1>13, <1>14, <1>19 DEF Numbered, Uttered
  <2>2. k \in Packets /\ Says(e, c, k, "HB", c.sn_t + n + 1) /\ k.pdu.cts = c.ts_r
    BY <1>10, <1>12, <1>13, <2>1 DEF Made, Says, Pdu, Core
  <2>3. PICK o \in Seq(Packets) : o = c.out
    BY Fields
  <2>4. PICK w : w = o \o sent
    OBVIOUS
  <2>5. /\ w \in Seq(Packets) /\ Len(w) = Len(o) + (n + 1) /\ Len(o) \in Nat
        /\ \A i \in 1 .. Len(o) : w[i] = o[i]
        /\ \A i \in 1 .. n + 1 : w[Len(o) + i] = sent[i]
    <3>1. sent \in Seq(Packets)
      BY <1>8
    <3>2. /\ w \in Seq(Packets) /\ Len(w) = Len(o) + Len(sent) /\ Len(o) \in Nat
          /\ \A i \in 1 .. Len(o) : w[i] = o[i]
          /\ \A i \in 1 .. Len(sent) : w[Len(o) + i] = sent[i]
      BY <2>4, <3>1, JoinedTo
    <3> QED
      BY <1>8, <3>2
  <2>6. g.out = Append(w, k)
    BY <1>13, <1>19, <2>1, <2>3, <2>4
  <2>7. PICK x : x = Append(w, k)
    OBVIOUS
  <2>8. Len(x) = Len(w) + 1 /\ x[Len(w) + 1] = k /\ \A i \in 1 .. Len(w) : x[i] = w[i]
    BY <2>2, <2>5, <2>7, AppendProperties
  <2>9. PICK m \in Nat : m = Len(o)
    BY <2>5
  <2>10. Len(x) = m + n + 2 /\ x[m + n + 2] = k
    <3>1. Len(w) + 1 = m + n + 2
      BY <1>2, <2>5, <2>9
    <3> QED
      BY <2>8, <3>1
  <2>11. \A i \in 1 .. m : x[i] = o[i]
    <3> SUFFICES ASSUME NEW i \in 1 .. m PROVE x[i] = o[i]
      OBVIOUS
    <3>1. i \in 1 .. Len(w)
      BY <1>2, <2>5, <2>9
    <3> QED
      BY <2>5, <2>8, <2>9, <3>1
  <2>12. \A i \in 1 .. n + 1 : x[m + i].pdu = data(i)
    <3> SUFFICES ASSUME NEW i \in 1 .. n + 1 PROVE x[m + i].pdu = data(i)
      OBVIOUS
    <3>1. m + i \in 1 .. Len(w)
      BY <1>2, <2>5, <2>9
    <3>2. x[m + i] = sent[i]
      BY <2>5, <2>8, <2>9, <3>1
    <3> QED
      BY <1>8, <3>2
  <2>13. \A i \in 1 .. n + 1 : /\ Says(e, c, x[m + i], "RetrData", c.sn_t + (i - 1))
                               /\ x[m + i].pdu.msgs = Nth(c.fifo_retr, i)
    <3> SUFFICES ASSUME NEW i \in 1 .. n + 1
                 PROVE  /\ Says(e, c, x[m + i], "RetrData", c.sn_t + (i - 1))
                        /\ x[m + i].pdu.msgs = Nth(c.fifo_retr, i)
      OBVIOUS
    <3>1. i \in 1 .. n + 2
      BY <1>2
    <3>2. sn(i) = c.sn_t + (i - 1) /\ msgs(i) = Nth(c.fifo_retr, i)
      BY <1>4, <1>5, <3>1
    <3> QED
      BY <1>7, <2>12, <3>2 DEF Says
  <2> QED
    BY <2>2, <2>3, <2>6, <2>7, <2>9, <2>10, <2>11, <2>13 DEF Repeating, n
<1>20. ASSUME ~c.channel PROVE g.out = c.out
  BY <1>12, <1>13, <1>14, <1>20 DEF Numbered, Uttered
<1> QED
  BY <1>14, <1>15, <1>16, <1>17, <1>18, <1>19, <1>20 DEF Retransmitted, n

-----------------------------------------------------------------------------
(***************************************************************************)
(*             PART II: EVERY HANDLER IS ONE OF NINE DEEDS                 *)
(***************************************************************************)
\* The PDU p of the peer is taken, in sequence or not.
Taken(p, d) == d.sn_r = Plus1(p.sn) /\ d.cs_t = p.sn /\ d.ts_r = p.ts

Missed(c, d) == d.sn_r = c.sn_r /\ d.cs_t = c.cs_t /\ d.ts_r = c.ts_r

\* Nothing that is held of the peer changes; a connection may end, or know that
\* it has missed something.
Idles(e, c, d) ==
  /\ d \in Whole /\ Firm(c, d) /\ d.got = c.got /\ More(c, d)
  /\ \/ d.state = c.state
     \/ d.state = "CLOSED" /\ c.state # "NONE"
     \/ d.state = "RETRREQ" /\ c.state \in Running
  /\ d.out \in Seq(Goodbyes(e))

\* A PDU is taken that brings no messages, or whose messages are not read.
Hears(e, c, p, d) ==
  /\ d \in Whole /\ Taken(p, d) /\ d.sn_t = c.sn_t /\ d.fifo_retr = c.fifo_retr
  /\ d.got = c.got /\ More(c, d) /\ d.out \in Seq(Goodbyes(e))
  /\ p.type # "RetrResp" => p.sn = c.sn_r
  /\ \/ /\ p.type = "HB" /\ c.state = "START" /\ c.role = "server"
        /\ d.state \in {"UP", "CLOSED"}
        /\ CsValid(c, p) /\ d.cs_r = p.cs /\ d.cts_r = c.cts_r
     \/ /\ p.type = "HB" /\ c.state \in {"UP", "RETRRUN"} /\ d.state = "UP"
        /\ d.cs_r = Minus(c.sn_t, 1) /\ d.cts_r = p.cts /\ p.cts >= c.cts_r
     \/ /\ p.type = "Data" /\ c.state = "RETRRUN" /\ d.state = "RETRRUN"
        /\ d.cs_r = c.cs_r /\ d.cts_r = c.cts_r
     \/ /\ p.type = "RetrResp" /\ c.state = "RETRREQ" /\ d.state = "RETRRUN"
        /\ d.cs_r = Minus(c.sn_t, 1) /\ d.cts_r = p.cts

\* The messages of a PDU are read.
Delivers(e, c, p, d) ==
  /\ d \in Whole /\ Taken(p, d) /\ d.sn_t = c.sn_t /\ p.sn = c.sn_r
  /\ Longer(c.got, p.msgs, Len(p.msgs), d.got) /\ More(c, d)
  /\ d.out \in Seq(Goodbyes(e)) /\ CsValid(c, p) /\ d.cs_r = p.cs
  /\ d.state \in {c.state, "CLOSED"}
  /\ \/ /\ p.type = "Data" /\ c.state = "UP"
        /\ d.fifo_retr = RemoveConfirmed(c.fifo_retr, p.cs)
        /\ d.cts_r = p.cts /\ p.cts >= c.cts_r
     \/ /\ p.type = "RetrData" /\ c.state = "RETRRUN"
        /\ d.fifo_retr = c.fifo_retr /\ d.cts_r = c.cts_r

\* What was missed is asked for.
Requests(e, c, p, d) ==
  /\ d \in Whole /\ Core(c, d) /\ d.sn_t = c.sn_t + 1
  /\ p.type \in {"Data", "RetrData"}
  /\ c.state \in {"UP", "RETRRUN"} /\ d.state = "RETRREQ"
  /\ Len(d.out) = 1 /\ Says(e, c, d.out[1], "RetrReq", c.sn_t)

\* What was asked for is sent again, or would be if there were a channel.
Answers(e, c, d) ==
  /\ Len(d.out) >= 3 /\ Says(e, d, d.out[1], "RetrResp", c.sn_t)
  /\ d.out[1].pdu.cts = d.ts_r
  /\ Len(d.out) = d.sn_t - c.sn_t
  /\ \A i \in 2 .. Len(d.out) - 1 :
       /\ Says(e, d, d.out[i], "RetrData", c.sn_t + (i - 1))
       /\ d.out[i].pdu.msgs = Nth(RemoveConfirmed(c.fifo_retr, d.cs_r), i - 1)
  /\ Says(e, d, d.out[Len(d.out)], "HB", d.sn_t - 1)
  /\ d.out[Len(d.out)].pdu.cts = d.ts_r

Repeats(e, c, p, d) ==
  /\ d \in Whole /\ p.type = "RetrReq" /\ c.state \notin {"NONE", "START"}
  /\ CsValid(c, p) /\ d.cs_r = p.cs /\ d.cts_r = c.cts_r /\ d.got = c.got
  /\ d.fifo_send = c.fifo_send /\ d.asked = c.asked
  /\ LET f == RemoveConfirmed(c.fifo_retr, p.cs) IN
     /\ d.sn_t = c.sn_t + Len(f) + 3
     /\ Len(d.fifo_retr) = IF Len(f) < RetrCap THEN Len(f) + 1 ELSE RetrCap
     /\ \A i \in 1 .. Len(d.fifo_retr) :
          d.fifo_retr[i].sn = c.sn_t + i /\ d.fifo_retr[i].msgs = Nth(f, i)
  /\ \/ p.sn = c.sn_r /\ Taken(p, d) /\ d.state = c.state /\ c.state # "RETRRUN"
     \/ p.sn = c.sn_r /\ Taken(p, d) /\ d.state = "CLOSED" /\ c.state = "RETRRUN"
     \/ Missed(c, d) /\ d.state = "RETRREQ"
  /\ Answers(e, c, d) \/ d.out \in Seq(Goodbyes(e))

\* data_send_event.
Sends(e, c, d) ==
  /\ d \in Whole /\ c.state \in Open /\ d.state = c.state /\ d.sn_t = c.sn_t + 1
  /\ d.sn_r = c.sn_r /\ d.cs_t = c.cs_t /\ d.cs_r = c.cs_r /\ d.ts_r = c.ts_r
  /\ d.cts_r = c.cts_r /\ d.got = c.got /\ d.asked = c.asked
  /\ \E k \in 1 .. Len(c.fifo_send) :
       /\ d.fifo_send = SubSeq(c.fifo_send, k + 1, Len(c.fifo_send))
       /\ Len(d.out) = 1 /\ Says(e, c, d.out[1], "Data", c.sn_t)
       /\ d.out[1].pdu.cts = c.ts_r
       /\ d.out[1].pdu.msgs = SubSeq(c.fifo_send, 1, k)
       /\ \/ d.fifo_retr = c.fifo_retr
          \/ d.fifo_retr = Append(c.fifo_retr, [sn |-> c.sn_t, msgs |-> d.out[1].pdu.msgs])

\* sr_connect.
Connects(e, c, d) ==
  /\ d \in Whole /\ c.state = "NONE" /\ d.state = "START"
  /\ d.sn_t = Plus1(InitSn[e]) /\ d.cs_t = 0 /\ d.sn_r = c.sn_r /\ d.cs_r = c.cs_r
  /\ d.ts_r = c.ts_r /\ d.cts_r = Clock(e) /\ d.got = c.got
  /\ d.fifo_retr = c.fifo_retr /\ d.fifo_send = c.fifo_send /\ d.asked = c.asked
  /\ Len(d.out) = 1 /\ d.out[1].pdu.type = "ConReq" /\ d.out[1].pdu.sn = InitSn[e]
  /\ d.out[1].pdu.cs = 0 /\ d.out[1].pdu.ts = Clock(e) /\ d.out[1].pdu.cts = 0

\* A server accepts a ConReq.
Serves(e, c, p, d) ==
  /\ d \in Whole /\ p.type = "ConReq" /\ c.state \in {"NONE", "CLOSED"}
  /\ d.state \in {"START", "CLOSED"} /\ Taken(p, d)
  /\ d.sn_t = Plus1(InitSn[e]) /\ d.cs_r = Minus(InitSn[e], 1) /\ d.cts_r = p.cts
  /\ d.got = c.got /\ d.asked = c.asked
  /\ d.fifo_retr = << >> /\ d.fifo_send = << >>
  /\ \A i \in 1 .. Len(d.out) :
       d.out[i] \in Goodbyes(e) \/ Says(e, d, d.out[i], "ConResp", InitSn[e])

\* A client has its answer.
Joins(e, c, p, d) ==
  /\ d \in Whole /\ p.type = "ConResp" /\ Starting(c) /\ Taken(p, d)
  /\ d.state \in {"UP", "CLOSED"}
  /\ d.sn_t = c.sn_t + 1 /\ CsValid(c, p) /\ d.cs_r = p.cs /\ d.cts_r = c.cts_r
  /\ d.got = c.got /\ d.fifo_retr = c.fifo_retr /\ More(c, d)
  /\ Len(d.out) >= 1 /\ Says(e, d, d.out[1], "HB", c.sn_t) /\ d.out[1].pdu.cts = d.ts_r
  /\ \A i \in 2 .. Len(d.out) : d.out[i] \in Goodbyes(e)

\* Of its own accord, or when p is received.
Acted(e, c, d) == Idles(e, c, d) \/ Sends(e, c, d) \/ Connects(e, c, d)

Heeded(e, c, p, d) ==
  \/ Idles(e, c, d) \/ Hears(e, c, p, d) \/ Delivers(e, c, p, d) \/ Requests(e, c, p, d)
  \/ Repeats(e, c, p, d) \/ Serves(e, c, p, d) \/ Joins(e, c, p, d)

\* One retransmission does not get to the end of the numbers.
Room(c) == c.sn_t + RetrCap + 4 <= SnMod

Dealt(e, c, p) == \E d : Heeded(e, c, p, d) /\ Answer(e, d)

(***************************************************************************)
(* The assignments of the handlers.                                        *)
(***************************************************************************)
\* What taking a PDU leaves alone.
Rest(c, d) ==
  /\ d.sn_t = c.sn_t /\ d.got = c.got /\ d.fifo_send = c.fifo_send /\ d.asked = c.asked
  /\ d.out = c.out /\ d.channel = c.channel /\ d.role = c.role

LEMMA TakeExact ==
  ASSUME NEW c \in Whole, NEW p \in NumberedPdus
  PROVE  \E d \in Whole : /\ d = Take(c, p) /\ Taken(p, d) /\ Rest(c, d)
                          /\ d.cs_r = c.cs_r /\ d.cts_r = c.cts_r
                          /\ d.fifo_retr = c.fifo_retr /\ d.state = c.state
<1>1. PICK d \in Whole : d = Take(c, p)
  BY TakeKeeps DEF Kept
<1>2. PICK n, m, t : n = Plus1(p.sn) /\ m = p.sn /\ t = p.ts
  OBVIOUS
<1>3. d = [c EXCEPT !.sn_r = n, !.cs_t = m, !.ts_r = t]
  BY <1>1, <1>2 DEF Take
<1>4. d.sn_r = n /\ d.cs_t = m /\ d.ts_r = t
  BY <1>3 DEF Whole, Records
<1>5. /\ Rest(c, d) /\ d.cs_r = c.cs_r /\ d.cts_r = c.cts_r
      /\ d.fifo_retr = c.fifo_retr /\ d.state = c.state
  BY <1>3 DEF Rest, Whole, Records
<1> QED
  BY <1>1, <1>2, <1>4, <1>5 DEF Taken

LEMMA ConfirmExact ==
  ASSUME NEW c \in Whole, NEW p \in NumberedPdus
  PROVE  \E d \in Whole : /\ d = Confirm(c, p) /\ Rest(c, d) /\ Missed(c, d)
                          /\ d.cs_r = p.cs /\ d.cts_r = c.cts_r
                          /\ d.fifo_retr = RemoveConfirmed(c.fifo_retr, p.cs)
                          /\ d.state = c.state
<1>1. PICK d \in Whole : d = Confirm(c, p)
  BY ConfirmIsLater DEF Later
<1>2. PICK cs, fifo : cs = p.cs /\ fifo = RemoveConfirmed(c.fifo_retr, p.cs)
  OBVIOUS
<1>3. d = [c EXCEPT !.cs_r = cs, !.fifo_retr = fifo]
  BY <1>1, <1>2 DEF Confirm
<1>4. d.cs_r = cs /\ d.fifo_retr = fifo
  BY <1>3 DEF Whole, Records
<1>5. Rest(c, d) /\ Missed(c, d) /\ d.cts_r = c.cts_r /\ d.state = c.state
  BY <1>3 DEF Rest, Missed, Whole, Records
<1> QED
  BY <1>1, <1>2, <1>4, <1>5

LEMMA TimersExact ==
  ASSUME Times, NEW c \in Whole
  PROVE  /\ \E d \in Whole : /\ d = StartEvents(c) /\ Core(c, d) /\ d.sn_t = c.sn_t
                             /\ d.state = c.state /\ d.out = c.out
         /\ \E d \in Whole : /\ d = UpdateTI(c) /\ Core(c, d) /\ d.sn_t = c.sn_t
                             /\ d.state = c.state /\ d.out = c.out
<1>1. PICK d \in Whole : d = StartEvents(c)
  BY StartEventsKeeps DEF Kept
<1>2. Core(c, d) /\ d.sn_t = c.sn_t /\ d.state = c.state /\ d.out = c.out
  BY <1>1 DEF StartEvents, Core, Whole, Records
<1>3. PICK f \in Whole : f = UpdateTI(c)
  BY UpdateTIKeeps DEF Kept
<1>4. Core(c, f) /\ f.sn_t = c.sn_t /\ f.state = c.state /\ f.out = c.out
  BY <1>3 DEF UpdateTI, Core, Whole, Records
<1> QED
  BY <1>1, <1>2, <1>3, <1>4

LEMMA NumberFacts ==
  ASSUME NEW p \in NumberedPdus
  PROVE  /\ p.type \in Types /\ p.sn \in Numbers /\ p.cs \in Numbers
         /\ p.ts \in Nat /\ p.cts \in Nat /\ p.msgs \in Seq(Nat)
BY DEF NumberedPdus

(***************************************************************************)
(* Handlers that end or leave the connection.                              *)
(***************************************************************************)
LEMMA RestsIdle ==
  ASSUME NEW e, NEW c, Ready(c)
  PROVE  Idles(e, c, c)
<1>1. c \in Whole /\ c.out = << >> /\ More(c, c)
  BY MoreSame DEF Ready
<1>2. c.out \in Seq(Goodbyes(e))
  BY <1>1, EmptySeq
<1> QED
  BY <1>1, <1>2 DEF Idles, Firm, Running

LEMMA LeavesIdle ==
  ASSUME NEW e, NEW c, Ready(c), c.state # "NONE", NEW d, Leaves(e, c, d)
  PROVE  Idles(e, c, d)
<1>1. c \in Whole /\ c.out \in Seq(Goodbyes(e))
  BY EmptySeq DEF Ready
<1>2. d.out \in Seq(Goodbyes(e)) /\ More(c, d)
  BY <1>1, EndedByGoodbyes, MoreSame DEF Leaves
<1> QED
  BY <1>2 DEF Leaves, Idles

LEMMA RestsDealt ==
  ASSUME NEW e, NEW c, NEW p, Ready(c), Answer(e, c)
  PROVE  Dealt(e, c, p)
BY RestsIdle DEF Dealt, Heeded

LEMMA CloseDealt ==
  ASSUME Times, NEW e \in Ends, NEW c, NEW p, Ready(c), c.state # "NONE",
         Answer(e, CloseConnection(e, c))
  PROVE  Dealt(e, c, p)
<1>1. c \in Whole
  BY DEF Ready
<1> QED
  BY <1>1, CloseLeaves, LeavesIdle DEF Dealt, Heeded

LEMMA DiscReqDealt ==
  ASSUME Times, NEW e \in Ends, NEW c, NEW p \in NumberedPdus, Ready(c), c.state # "NONE",
         HandleDiscReq(e, c, p)
  PROVE  Dealt(e, c, p)
<1>1. c \in Whole
  BY DEF Ready
<1>2. PICK d : d = [c EXCEPT !.state = "CLOSED", !.armed = FALSE]
  OBVIOUS
<1>3. d \in Whole /\ Core(c, d) /\ d.sn_t = c.sn_t /\ d.state = "CLOSED" /\ d.out = c.out
  BY <1>1, <1>2 DEF Core, Whole, Records, Fits, States
<1>4. PICK f : f = RemoveChannel(d)
  OBVIOUS
<1>5. f \in Whole /\ Core(d, f) /\ f.sn_t = d.sn_t /\ f.state = d.state /\ f.out = d.out
  BY <1>3, <1>4 DEF RemoveChannel, Core, Whole, Records, Fits
<1>6. Leaves(e, c, f)
  BY <1>3, <1>5 DEF Leaves, Core, Firm, Ended
<1>7. Answer(e, f)
  BY <1>2, <1>4 DEF HandleDiscReq
<1> QED
  BY <1>6, <1>7, LeavesIdle DEF Dealt, Heeded

(***************************************************************************)
(* A callback, after which the timers may start.                           *)
(***************************************************************************)
\* The parts of Hears, Delivers and Joins that a callback keeps.
LEMMA ToldThenTimers ==
  ASSUME Times, NEW e \in Ends, NEW c \in Whole, NEW told \in Whole, More(c, told),
         told.out \in Seq(Goodbyes(e)), NEW up \in Notified(e, told)
  PROVE  \E d \in Whole : /\ d = StartEvents(up) /\ Firm(told, d) /\ More(c, d)
                          /\ d.got = told.got /\ d.state \in {told.state, "CLOSED"}
                          /\ d.out \in Seq(Goodbyes(e))
<1>1. Told(e, told, up)
  BY NotifiedTold
<1>2. up \in Whole /\ More(c, up) /\ up.out \in Seq(Goodbyes(e))
  BY <1>1, MoreTransitive, EndedByGoodbyes DEF Told
<1>3. PICK d \in Whole : /\ d = StartEvents(up) /\ Core(up, d) /\ d.sn_t = up.sn_t
                         /\ d.state = up.state /\ d.out = up.out
  BY <1>2, TimersExact
<1>4. More(up, d)
  BY <1>2, <1>3, MoreSame DEF Core
<1>5. More(c, d)
  BY <1>2, <1>4, MoreTransitive
<1> QED
  BY <1>1, <1>2, <1>3, <1>5 DEF Told, Firm, Core

LEMMA HbInStartDealt ==
  ASSUME Times, NEW e \in Ends, NEW c, NEW p \in NumberedPdus, p.type = "HB",
         Ready(c), Fitting("HB", c, p), c.state = "START", CsValid(c, p),
         HandleHbInStart(e, c, p)
  PROVE  Dealt(e, c, p)
<1>1. c \in Whole /\ c.out = << >> /\ c.role = "server" /\ SnInSeq(c, p) /\ p.sn = c.sn_r
  BY DEF Ready, Fitting, SnInSeq
<1>2. CASE Answer(e, CloseConnection(e, c))
  BY <1>2, CloseDealt
<1>3. CASE ~Answer(e, CloseConnection(e, c))
  <2> DEFINE told == [Take(c, p) EXCEPT !.cs_r = p.cs, !.state = "UP"]
  <2>1. PICK up \in Notified(e, told) : Answer(e, StartEvents(up))
    BY <1>1, <1>3 DEF HandleHbInStart
  <2>2. PICK f \in Whole : /\ f = Take(c, p) /\ Taken(p, f) /\ Rest(c, f)
                           /\ f.cts_r = c.cts_r /\ f.fifo_retr = c.fifo_retr
    BY <1>1, TakeExact
  <2>3. PICK cs \in Numbers : cs = p.cs
    BY NumberFacts
  <2>4. told = [f EXCEPT !.cs_r = cs, !.state = "UP"]
    BY <2>2, <2>3
  <2> HIDE DEF told
  <2>5. /\ told \in Whole /\ told.cs_r = cs /\ told.state = "UP" /\ Taken(p, told)
        /\ Rest(f, told) /\ told.cts_r = f.cts_r /\ told.fifo_retr = f.fifo_retr
    <3>1. told \in Whole /\ told.cs_r = cs /\ told.state = "UP"
      BY <2>4 DEF Whole, Records, Fits, States
    <3>2. /\ told.sn_r = f.sn_r /\ told.cs_t = f.cs_t /\ told.ts_r = f.ts_r
          /\ Rest(f, told) /\ told.cts_r = f.cts_r /\ told.fifo_retr = f.fifo_retr
      BY <2>4 DEF Rest, Whole, Records
    <3> QED
      BY <2>2, <3>1, <3>2 DEF Taken
  <2>6. Rest(c, told)
    BY <2>2, <2>5 DEF Rest
  <2>7. told.out \in Seq(Goodbyes(e)) /\ More(c, told)
    BY <1>1, <2>6, EmptySeq, MoreSame DEF Rest
  <2>8. PICK d \in Whole : /\ d = StartEvents(up) /\ Firm(told, d) /\ More(c, d)
                           /\ d.got = told.got /\ d.state \in {told.state, "CLOSED"}
                           /\ d.out \in Seq(Goodbyes(e))
    BY <1>1, <2>1, <2>5, <2>7, ToldThenTimers
  <2>9. Hears(e, c, p, d)
    <3>1. Taken(p, d) /\ d.sn_t = c.sn_t /\ d.fifo_retr = c.fifo_retr /\ d.got = c.got
      BY <2>2, <2>5, <2>6, <2>8 DEF Taken, Firm, Rest
    <3>2. d.state \in {"UP", "CLOSED"} /\ d.cs_r = p.cs /\ d.cts_r = c.cts_r
      BY <2>2, <2>3, <2>5, <2>8 DEF Firm
    <3> QED
      BY <1>1, <2>8, <3>1, <3>2 DEF Hears
  <2> QED
    BY <2>1, <2>8, <2>9 DEF Dealt, Heeded
<1> QED
  BY <1>2, <1>3

\* A PDU is taken with what is given for cs_r, cts_r and the state.
TakenOnTime(c, p, cs, cts, state) ==
  [UpdateTI(Take(c, p)) EXCEPT !.cs_r = cs, !.cts_r = cts, !.state = state]

TakenNow(c, p, cs, cts, state) ==
  [Take(c, p) EXCEPT !.state = state, !.cs_r = cs, !.cts_r = cts]

LEMMA TakenWith ==
  ASSUME Times, NEW c \in Whole, NEW p \in NumberedPdus, NEW cs \in Numbers, NEW cts \in Nat,
         NEW state \in States
  PROVE  /\ \E d \in Whole :
              /\ d = TakenOnTime(c, p, cs, cts, state)
              /\ Taken(p, d) /\ Rest(c, d) /\ d.fifo_retr = c.fifo_retr
              /\ d.cs_r = cs /\ d.cts_r = cts /\ d.state = state
         /\ \E d \in Whole :
              /\ d = TakenNow(c, p, cs, cts, state)
              /\ Taken(p, d) /\ Rest(c, d) /\ d.fifo_retr = c.fifo_retr
              /\ d.cs_r = cs /\ d.cts_r = cts /\ d.state = state
<1>1. PICK f \in Whole : /\ f = Take(c, p) /\ Taken(p, f) /\ Rest(c, f)
                         /\ f.fifo_retr = c.fifo_retr
  BY TakeExact
<1>2. PICK d : d = [f EXCEPT !.state = state, !.cs_r = cs, !.cts_r = cts]
  OBVIOUS
<1>3. /\ d \in Whole /\ d.cs_r = cs /\ d.cts_r = cts /\ d.state = state
      /\ d.fifo_retr = f.fifo_retr /\ Rest(f, d) /\ Missed(f, d)
  BY <1>2 DEF Rest, Missed, Whole, Records, Fits
<1>4. Taken(p, d) /\ Rest(c, d)
  BY <1>1, <1>3 DEF Taken, Rest, Missed
<1>5. PICK u : u = [f EXCEPT !.ti_call = now]
  OBVIOUS
<1>6. u = UpdateTI(Take(c, p))
  BY <1>1, <1>5 DEF UpdateTI
<1>7. u \in Whole /\ u.fifo_retr = f.fifo_retr /\ Rest(f, u) /\ Missed(f, u)
  BY <1>5 DEF Rest, Missed, Whole, Records, Fits, Times
<1>8. PICK x : x = [u EXCEPT !.cs_r = cs, !.cts_r = cts, !.state = state]
  OBVIOUS
<1>9. /\ x \in Whole /\ x.cs_r = cs /\ x.cts_r = cts /\ x.state = state
      /\ x.fifo_retr = u.fifo_retr /\ Rest(u, x) /\ Missed(u, x)
  BY <1>7, <1>8 DEF Rest, Missed, Whole, Records, Fits
<1>10. Taken(p, x) /\ Rest(c, x)
  BY <1>1, <1>7, <1>9 DEF Taken, Rest, Missed
<1>11. d = TakenNow(c, p, cs, cts, state) /\ x = TakenOnTime(c, p, cs, cts, state)
  BY <1>1, <1>2, <1>6, <1>8 DEF TakenNow, TakenOnTime
<1> QED
  BY <1>1, <1>3, <1>4, <1>7, <1>9, <1>10, <1>11

LEMMA RestMore ==
  ASSUME NEW e, NEW c, Ready(c), NEW d, Rest(c, d)
  PROVE  d.out \in Seq(Goodbyes(e)) /\ More(c, d)
<1>1. c \in Whole /\ d.out = << >>
  BY DEF Ready, Rest
<1> QED
  BY <1>1, EmptySeq, MoreSame DEF Rest

LEMMA HbDealt ==
  ASSUME Times, NEW e \in Ends, NEW c, NEW p \in NumberedPdus, p.type = "HB",
         Ready(c), c.state # "NONE", Fitting("HB", c, p), CsValid(c, p), HandleHb(e, c, p)
  PROVE  Dealt(e, c, p)
<1>1. c \in Whole
  BY DEF Ready
<1>2. CASE c.state = "START" /\ HandleHbInStart(e, c, p)
  BY <1>2, HbInStartDealt
<1>3. CASE /\ c.state \in {"UP", "RETRRUN"}
           /\ SnInSeq(c, p) /\ CtsInSeq(c, p)
           /\ Answer(e, [UpdateTI(Take(c, p)) EXCEPT
                           !.cs_r = Minus(c.sn_t, 1), !.cts_r = p.cts, !.state = "UP"])
  <2>1. PICK cs \in Numbers, cts \in Nat : cs = Minus(c.sn_t, 1) /\ cts = p.cts
    BY <1>1, Fields, NumbersAreClosed, NumberFacts
  <2>2. "UP" \in States
    BY DEF States
  <2>3. PICK d \in Whole :
          /\ d = TakenOnTime(c, p, cs, cts, "UP")
          /\ Taken(p, d) /\ Rest(c, d) /\ d.fifo_retr = c.fifo_retr
          /\ d.cs_r = cs /\ d.cts_r = cts /\ d.state = "UP"
    BY <1>1, <2>2, TakenWith
  <2>4. p.sn = c.sn_r /\ p.cts >= c.cts_r
    BY <1>3 DEF SnInSeq, CtsInSeq
  <2>5. Hears(e, c, p, d)
    BY <1>3, <2>1, <2>3, <2>4, RestMore DEF Hears, Rest
  <2>6. Answer(e, d)
    BY <1>3, <2>1, <2>3 DEF TakenOnTime
  <2> QED
    BY <2>5, <2>6 DEF Dealt, Heeded
<1>4. CASE Answer(e, CloseConnection(e, c))
  BY <1>4, CloseDealt
<1>5. CASE c.state \in {"UP", "RETRRUN"} /\ Answer(e, [c EXCEPT !.state = "RETRREQ"])
  <2>1. PICK d : d = [c EXCEPT !.state = "RETRREQ"]
    OBVIOUS
  <2>2. /\ d \in Whole /\ Firm(c, d) /\ Rest(c, d) /\ d.state = "RETRREQ"
    BY <1>1, <2>1 DEF Firm, Rest, Whole, Records, Fits, States
  <2>3. Idles(e, c, d)
    BY <1>5, <2>2, RestMore DEF Idles, Rest, Running
  <2> QED
    BY <1>5, <2>1, <2>3 DEF Dealt, Heeded
<1>6. CASE Answer(e, c)
  BY <1>6, RestsDealt
<1> QED
  BY <1>2, <1>3, <1>4, <1>5, <1>6 DEF HandleHb

LEMMA RetrRespDealt ==
  ASSUME Times, NEW e \in Ends, NEW c, NEW p \in NumberedPdus, p.type = "RetrResp",
         Ready(c), c.state # "NONE", HandleRetrResp(e, c, p)
  PROVE  Dealt(e, c, p)
<1>1. c \in Whole
  BY DEF Ready
<1>2. CASE Answer(e, CloseConnection(e, c))
  BY <1>2, CloseDealt
<1>3. CASE ~Answer(e, CloseConnection(e, c))
  <2>1. PICK cs \in Numbers, cts \in Nat : cs = Minus(c.sn_t, 1) /\ cts = p.cts
    BY <1>1, Fields, NumbersAreClosed, NumberFacts
  <2>2. "RETRRUN" \in States
    BY DEF States
  <2>3. PICK d \in Whole :
          /\ d = TakenNow(c, p, cs, cts, "RETRRUN")
          /\ Taken(p, d) /\ Rest(c, d) /\ d.fifo_retr = c.fifo_retr
          /\ d.cs_r = cs /\ d.cts_r = cts /\ d.state = "RETRRUN"
    BY <1>1, <2>2, TakenWith
  <2>4. c.state = "RETRREQ" /\ Answer(e, d)
    BY <1>3, <2>1, <2>3 DEF HandleRetrResp, TakenNow
  <2>5. Hears(e, c, p, d)
    BY <2>1, <2>3, <2>4, RestMore DEF Hears, Rest
  <2> QED
    BY <2>4, <2>5 DEF Dealt, Heeded
<1> QED
  BY <1>2, <1>3

(***************************************************************************)
(* Data, and data sent again.                                              *)
(***************************************************************************)
\* A request for retransmission.
LEMMA RequestDealt ==
  ASSUME Times, NEW e \in Ends, NEW c, NEW p \in NumberedPdus, Ready(c), Room(c),
         p.type \in {"Data", "RetrData"}, c.state \in {"UP", "RETRRUN"},
         Answer(e, [SendRetrReq(e, c) EXCEPT !.state = "RETRREQ"])
  PROVE  Dealt(e, c, p)
<1>1. c \in Whole /\ c.channel /\ c.out = << >>
  BY DEF Ready
<1>2. PICK f \in Whole : f = SendRetrReq(e, c) /\ Numbered(e, c, f, "RetrReq", c.ts_r)
  BY <1>1, SendersExact DEF Numbered
<1>3. PICK d : d = [f EXCEPT !.state = "RETRREQ"]
  OBVIOUS
<1>4. d \in Whole /\ Core(f, d) /\ d.sn_t = f.sn_t /\ d.state = "RETRREQ" /\ d.out = f.out
  BY <1>3 DEF Core, Whole, Records, Fits, States
<1>5. d.sn_t = c.sn_t + 1
  <2>1. Plus1(c.sn_t) = c.sn_t + 1
    BY <1>1, RoomForOne DEF Room
  <2> QED
    BY <1>2, <1>4, <2>1 DEF Numbered
<1>6. PICK k \in Made(e, c, "RetrReq", c.ts_r, << >>) : d.out = Append(<< >>, k)
  BY <1>1, <1>2, <1>4 DEF Numbered, Uttered
<1>7. Len(d.out) = 1 /\ d.out[1] = k
  BY <1>6
<1>8. Says(e, c, k, "RetrReq", c.sn_t)
  BY DEF Made, Pdu, Says
<1>9. Core(c, d)
  BY <1>2, <1>4 DEF Numbered, Core
<1>10. Requests(e, c, p, d)
  BY <1>4, <1>5, <1>7, <1>8, <1>9 DEF Requests
<1> QED
  BY <1>2, <1>3, <1>10 DEF Dealt, Heeded

LEMMA DataDealt ==
  ASSUME Times, NEW e \in Ends, NEW c, NEW p \in NumberedPdus, p.type = "Data",
         Ready(c), c.state # "NONE", Room(c), CsValid(c, p), HandleData(e, c, p)
  PROVE  Dealt(e, c, p)
<1>1. c \in Whole /\ c.out = << >>
  BY DEF Ready
<1>2. CASE Answer(e, CloseConnection(e, c))
  BY <1>2, CloseDealt
<1>3. CASE Answer(e, c)
  BY <1>3, RestsDealt
<1>4. CASE /\ c.state \in {"UP", "RETRRUN"}
           /\ Answer(e, [SendRetrReq(e, c) EXCEPT !.state = "RETRREQ"])
  BY <1>4, RequestDealt
<1>5. CASE /\ c.state = "UP" /\ SnInSeq(c, p) /\ CtsInSeq(c, p)
           /\ \E d \in AddAppMessages(e, c, p) :
                Answer(e, [Confirm(Take(d, p), p) EXCEPT !.cts_r = p.cts])
  <2>1. PICK d \in AddAppMessages(e, c, p) :
               Answer(e, [Confirm(Take(d, p), p) EXCEPT !.cts_r = p.cts])
    BY <1>5
  <2>2. Fed(e, c, d) /\ Longer(c.got, p.msgs, Len(p.msgs), d.got) /\ d \in Whole
    BY <1>1, AddAppMessagesFeed DEF Fed
  <2>3. PICK f \in Whole : /\ f = Take(d, p) /\ Taken(p, f) /\ Rest(d, f)
                           /\ f.cs_r = d.cs_r /\ f.cts_r = d.cts_r
                           /\ f.fifo_retr = d.fifo_retr /\ f.state = d.state
    BY <2>2, TakeExact
  <2>4. PICK g \in Whole : /\ g = Confirm(f, p) /\ Rest(f, g) /\ Missed(f, g)
                           /\ g.cs_r = p.cs /\ g.cts_r = f.cts_r
                           /\ g.fifo_retr = RemoveConfirmed(f.fifo_retr, p.cs)
                           /\ g.state = f.state
    BY ConfirmExact
  <2>5. PICK cts \in Nat : cts = p.cts
    BY NumberFacts
  <2>6. PICK h : h = [g EXCEPT !.cts_r = cts]
    OBVIOUS
  <2>7. /\ h \in Whole /\ h.cts_r = cts /\ Rest(g, h) /\ Missed(g, h)
        /\ h.cs_r = g.cs_r /\ h.fifo_retr = g.fifo_retr /\ h.state = g.state
    BY <2>6 DEF Rest, Missed, Whole, Records, Fits
  <2>8. Rest(d, h) /\ Taken(p, h)
    BY <2>3, <2>4, <2>7 DEF Rest, Missed, Taken
  <2>9. More(c, h)
    <3>1. More(d, h)
      BY <2>2, <2>8, MoreSame DEF Rest
    <3> QED
      BY <1>1, <2>2, <2>7, <3>1, MoreTransitive DEF Fed
  <2>10. p.sn = c.sn_r /\ p.cts >= c.cts_r
    BY <1>5 DEF SnInSeq, CtsInSeq
  <2>11. h.fifo_retr = RemoveConfirmed(c.fifo_retr, p.cs)
    BY <2>2, <2>3, <2>4, <2>7 DEF Fed, Firm
  <2>12. Delivers(e, c, p, h)
    <3>1. h.sn_t = c.sn_t /\ h.out \in Seq(Goodbyes(e)) /\ h.state \in {c.state, "CLOSED"}
      BY <2>2, <2>3, <2>4, <2>7, <2>8 DEF Fed, Firm, Rest
    <3>2. Longer(c.got, p.msgs, Len(p.msgs), h.got)
      BY <2>2, <2>8 DEF Rest
    <3>3. h.cs_r = p.cs /\ h.cts_r = p.cts
      BY <2>4, <2>5, <2>7
    <3> QED
      BY <1>5, <2>7, <2>8, <2>9, <2>10, <2>11, <3>1, <3>2, <3>3 DEF Delivers
  <2>13. Answer(e, h)
    BY <2>1, <2>3, <2>4, <2>5, <2>6
  <2> QED
    BY <2>12, <2>13 DEF Dealt, Heeded
<1>6. CASE /\ c.state = "RETRRUN" /\ SnInSeq(c, p) /\ Answer(e, Take(c, p))
  <2>1. PICK f \in Whole : /\ f = Take(c, p) /\ Taken(p, f) /\ Rest(c, f)
                           /\ f.cs_r = c.cs_r /\ f.cts_r = c.cts_r
                           /\ f.fifo_retr = c.fifo_retr /\ f.state = c.state
    BY <1>1, TakeExact
  <2>2. p.sn = c.sn_r
    BY <1>6 DEF SnInSeq
  <2>3. Hears(e, c, p, f)
    BY <1>6, <2>1, <2>2, RestMore DEF Hears, Rest
  <2> QED
    BY <1>6, <2>1, <2>3 DEF Dealt, Heeded
<1> QED
  BY <1>2, <1>3, <1>4, <1>5, <1>6 DEF HandleData

LEMMA RetrDataDealt ==
  ASSUME Times, NEW e \in Ends, NEW c, NEW p \in NumberedPdus, p.type = "RetrData",
         Ready(c), c.state # "NONE", Room(c), CsValid(c, p), HandleRetrData(e, c, p)
  PROVE  Dealt(e, c, p)
<1>1. c \in Whole /\ c.out = << >>
  BY DEF Ready
<1>2. CASE Answer(e, CloseConnection(e, c))
  BY <1>2, CloseDealt
<1>3. CASE Answer(e, c)
  BY <1>3, RestsDealt
<1>4. CASE /\ c.state \in {"UP", "RETRRUN"}
           /\ Answer(e, [SendRetrReq(e, c) EXCEPT !.state = "RETRREQ"])
  BY <1>4, RequestDealt
<1>5. CASE /\ c.state = "RETRRUN" /\ SnInSeq(c, p)
           /\ \E d \in AddAppMessages(e, c, p) : Answer(e, [Take(d, p) EXCEPT !.cs_r = p.cs])
  <2>1. PICK d \in AddAppMessages(e, c, p) : Answer(e, [Take(d, p) EXCEPT !.cs_r = p.cs])
    BY <1>5
  <2>2. Fed(e, c, d) /\ Longer(c.got, p.msgs, Len(p.msgs), d.got) /\ d \in Whole
    BY <1>1, AddAppMessagesFeed DEF Fed
  <2>3. PICK f \in Whole : /\ f = Take(d, p) /\ Taken(p, f) /\ Rest(d, f)
                           /\ f.cs_r = d.cs_r /\ f.cts_r = d.cts_r
                           /\ f.fifo_retr = d.fifo_retr /\ f.state = d.state
    BY <2>2, TakeExact
  <2>4. PICK cs \in Numbers : cs = p.cs
    BY NumberFacts
  <2>5. PICK h : h = [f EXCEPT !.cs_r = cs]
    OBVIOUS
  <2>6. /\ h \in Whole /\ h.cs_r = cs /\ Rest(f, h) /\ Missed(f, h)
        /\ h.cts_r = f.cts_r /\ h.fifo_retr = f.fifo_retr /\ h.state = f.state
    BY <2>5 DEF Rest, Missed, Whole, Records, Fits
  <2>7. Rest(d, h) /\ Taken(p, h)
    BY <2>3, <2>6 DEF Rest, Missed, Taken
  <2>8. More(c, h)
    <3>1. More(d, h)
      BY <2>2, <2>7, MoreSame DEF Rest
    <3> QED
      BY <1>1, <2>2, <2>6, <3>1, MoreTransitive DEF Fed
  <2>9. p.sn = c.sn_r
    BY <1>5 DEF SnInSeq
  <2>10. Delivers(e, c, p, h)
    <3>1. h.sn_t = c.sn_t /\ h.out \in Seq(Goodbyes(e)) /\ h.state \in {c.state, "CLOSED"}
      BY <2>2, <2>3, <2>6, <2>7 DEF Fed, Firm, Rest
    <3>2. Longer(c.got, p.msgs, Len(p.msgs), h.got)
      BY <2>2, <2>7 DEF Rest
    <3>3. h.cs_r = p.cs /\ h.cts_r = c.cts_r /\ h.fifo_retr = c.fifo_retr
      BY <2>2, <2>3, <2>4, <2>6 DEF Fed, Firm
    <3> QED
      BY <1>5, <2>6, <2>7, <2>8, <2>9, <3>1, <3>2, <3>3 DEF Delivers
  <2>11. Answer(e, h)
    BY <2>1, <2>3, <2>4, <2>5
  <2> QED
    BY <2>10, <2>11 DEF Dealt, Heeded
<1> QED
  BY <1>2, <1>3, <1>4, <1>5 DEF HandleRetrData

(***************************************************************************)
(* The handshake.                                                          *)
(***************************************************************************)
\* A PDU said by f and, after it, goodbyes.
LEMMA OneThenGoodbyes ==
  ASSUME NEW e, NEW k \in Packets, NEW out, NEW told, NEW d, told.out = Append(<< >>, k),
         Ended(e, told, d), out = d.out
  PROVE  /\ Len(out) >= 1 /\ out[1] = k
         /\ \A i \in 2 .. Len(out) : out[i] \in Goodbyes(e)
<1>1. PICK s : s = << k >>
  OBVIOUS
<1>2. s \in Seq(Packets) /\ Len(s) = 1 /\ s[1] = k /\ told.out = s
  BY <1>1
<1>3. CASE out = s
  <2>1. Len(out) = 1 /\ out[1] = k
    BY <1>2, <1>3
  <2>2. \A i \in 2 .. 1 : FALSE
    OBVIOUS
  <2> QED
    BY <2>1, <2>2
<1>4. CASE \E x \in Goodbyes(e) : out = Append(s, x)
  <2>1. PICK x \in Goodbyes(e) : out = Append(s, x)
    BY <1>4
  <2>2. x \in Packets
    BY DEF Goodbyes
  <2>3. Len(out) = 2 /\ out[1] = k /\ out[2] = x
    <3>1. PICK y : y = Append(s, x)
      OBVIOUS
    <3>2. PICK r \in Seq(Packets) : r = s
      BY <1>2
    <3>3. /\ Len(y) = Len(r) + 1 /\ y[Len(r) + 1] = x
          /\ \A i \in 1 .. Len(r) : y[i] = r[i]
      BY <2>2, <3>1, <3>2, AppendProperties
    <3>4. Len(r) = 1 /\ r[1] = k
      BY <1>2, <3>2
    <3>5. 1 + 1 = 2 /\ 1 \in 1 .. 1
      OBVIOUS
    <3> QED
      BY <2>1, <3>1, <3>3, <3>4, <3>5
  <2>4. \A i \in 2 .. 2 : i = 2
    OBVIOUS
  <2> QED
    BY <2>3, <2>4
<1> QED
  BY <1>2, <1>3, <1>4 DEF Ended

LEMMA ConRespDealt ==
  ASSUME Times, NEW e \in Ends, NEW c, NEW p \in NumberedPdus, p.type = "ConResp",
         Ready(c), c.state # "NONE", Room(c), HandleConResp(e, c, p)
  PROVE  Dealt(e, c, p)
<1>1. c \in Whole /\ c.out = << >> /\ c.channel
  BY DEF Ready
<1>2. CASE Answer(e, CloseConnection(e, c))
  BY <1>2, CloseDealt
<1>3. CASE Answer(e, c)
  BY <1>3, RestsDealt
<1>4. ASSUME ~Answer(e, CloseConnection(e, c)), ~Answer(e, c)
      PROVE  Dealt(e, c, p)
  <2> DEFINE confirmed == [Take(c, p) EXCEPT !.cs_r = p.cs]
             up == SendHeartbeat(e, confirmed)
             told == [up EXCEPT !.state = "UP"]
  <2>1. /\ CsValid(c, p) /\ Starting(c)
        /\ \E d \in Notified(e, told) : Answer(e, StartEvents(d))
    BY <1>4 DEF HandleConResp, CheckPacket, Starting
  <2>2. PICK d \in Notified(e, told) : Answer(e, StartEvents(d))
    BY <2>1
  <2>3. PICK f \in Whole : /\ f = Take(c, p) /\ Taken(p, f) /\ Rest(c, f)
                           /\ f.cts_r = c.cts_r /\ f.fifo_retr = c.fifo_retr
    BY <1>1, TakeExact
  <2>4. PICK cs \in Numbers : cs = p.cs
    BY NumberFacts
  <2>5. confirmed = [f EXCEPT !.cs_r = cs]
    BY <2>3, <2>4
  <2> HIDE DEF confirmed
  <2>6. /\ confirmed \in Whole /\ confirmed.cs_r = cs /\ Taken(p, confirmed)
        /\ Rest(c, confirmed) /\ confirmed.cts_r = c.cts_r
        /\ confirmed.fifo_retr = c.fifo_retr
    <3>1. /\ confirmed \in Whole /\ confirmed.cs_r = cs /\ Missed(f, confirmed)
          /\ Rest(f, confirmed) /\ confirmed.cts_r = f.cts_r
          /\ confirmed.fifo_retr = f.fifo_retr
      BY <2>5 DEF Rest, Missed, Whole, Records, Fits
    <3> QED
      BY <2>3, <3>1 DEF Taken, Missed, Rest
  <2>7. Numbered(e, confirmed, up, "HB", confirmed.ts_r)
    BY <2>6, SendersExact
  <2> HIDE DEF up
  <2>8. /\ told \in Whole /\ Core(up, told) /\ told.sn_t = up.sn_t /\ told.state = "UP"
        /\ told.out = up.out
    <3>1. up \in Whole
      BY <2>7 DEF Numbered
    <3> QED
      BY <3>1 DEF Core, Whole, Records, Fits, States
  <2> HIDE DEF told
  <2>9. PICK k \in Made(e, confirmed, "HB", confirmed.ts_r, << >>) : told.out = Append(<< >>, k)
    BY <1>1, <2>6, <2>7, <2>8 DEF Numbered, Uttered, Rest
  <2>10. Told(e, told, d)
    BY <2>2, <2>8, NotifiedTold
  <2>11. PICK g \in Whole : /\ g = StartEvents(d) /\ Core(d, g) /\ g.sn_t = d.sn_t
                            /\ g.state = d.state /\ g.out = d.out
    BY <2>10, TimersExact DEF Told
  <2>12. /\ Len(g.out) >= 1 /\ g.out[1] = k
         /\ \A i \in 2 .. Len(g.out) : g.out[i] \in Goodbyes(e)
    <3>1. k \in Packets /\ Ended(e, told, d)
      BY <2>9, <2>10 DEF Made, Told
    <3> QED
      BY <2>9, <2>11, <3>1, OneThenGoodbyes
  <2>13. told.sn_t = c.sn_t + 1
    <3>1. Plus1(c.sn_t) = c.sn_t + 1
      BY <1>1, RoomForOne DEF Room
    <3>2. confirmed.sn_t = c.sn_t
      BY <2>6 DEF Rest
    <3> QED
      BY <2>7, <2>8, <3>1, <3>2 DEF Numbered
  <2>14. /\ g.sn_t = told.sn_t /\ Taken(p, g) /\ g.cs_r = p.cs /\ g.cts_r = c.cts_r
         /\ g.got = c.got /\ g.fifo_retr = c.fifo_retr /\ g.state \in {"UP", "CLOSED"}
    <3>1. Core(confirmed, told)
      BY <2>7, <2>8 DEF Numbered, Core
    <3>2. Firm(told, g) /\ g.got = told.got /\ g.state \in {told.state, "CLOSED"}
      BY <2>10, <2>11 DEF Told, Core, Firm
    <3> QED
      BY <2>4, <2>6, <2>8, <3>1, <3>2 DEF Core, Firm, Taken, Rest
  <2>15. More(c, g)
    <3>1. told.asked = c.asked /\ told.fifo_send = c.fifo_send
      BY <2>6, <2>7, <2>8 DEF Numbered, Core, Rest
    <3>2. More(c, told) /\ More(told, d) /\ More(d, g) /\ d \in Whole
      BY <1>1, <2>10, <2>11, <3>1, MoreSame DEF Told, Core
    <3>3. More(c, d)
      BY <1>1, <2>8, <3>2, MoreTransitive
    <3> QED
      BY <1>1, <3>2, <3>3, MoreTransitive
  <2>16. Says(e, g, k, "HB", c.sn_t) /\ k.pdu.cts = g.ts_r
    <3>1. /\ k.pdu.type = "HB" /\ k.pdu.sn = confirmed.sn_t /\ k.pdu.cs = confirmed.cs_t
          /\ k.pdu.ts = Clock(e) /\ k.pdu.cts = confirmed.ts_r
      BY DEF Made, Pdu
    <3> QED
      BY <2>6, <2>14, <3>1 DEF Says, Taken, Rest
  <2>17. Joins(e, c, p, g)
    BY <2>1, <2>12, <2>13, <2>14, <2>15, <2>16 DEF Joins
  <2> QED
    BY <2>2, <2>11, <2>17 DEF Dealt, Heeded
<1> QED
  BY <1>2, <1>3, <1>4

\* The record with which a server begins.
Served(e, c, p) ==
  [Take(c, p) EXCEPT
     !.state = "START", !.role = "server",
     !.sn_t = InitSn[e], !.cs_r = Minus(InitSn[e], 1),
     !.cts_r = p.cts, !.armed = FALSE,
     !.fifo_send = << >>, !.fifo_retr = << >>, !.quit = FALSE]

LEMMA ServedExact ==
  ASSUME NEW e \in Ends, NEW c, Ready(c), NEW p \in NumberedPdus
  PROVE  \E d \in Whole :
           /\ d = Served(e, c, p) /\ Taken(p, d) /\ d.state = "START"
           /\ d.sn_t = InitSn[e] /\ d.cs_r = Minus(InitSn[e], 1) /\ d.cts_r = p.cts
           /\ d.fifo_send = << >> /\ d.fifo_retr = << >> /\ d.got = c.got
           /\ d.asked = c.asked /\ d.out = << >>
<1>1. c \in Whole /\ c.out = << >>
  BY DEF Ready
<1>2. PICK t \in Whole : t = Take(c, p) /\ Taken(p, t) /\ Rest(c, t)
  BY <1>1, TakeExact
<1>3. PICK sn \in Numbers : sn = InitSn[e]
  BY ConstantFacts
<1>4. PICK cs \in Numbers : cs = Minus(sn, 1)
  BY <1>3, NumbersAreClosed
<1>5. PICK cts \in Nat : cts = p.cts
  BY NumberFacts
<1>6. PICK d : d = [t EXCEPT !.state = "START", !.role = "server", !.sn_t = sn, !.cs_r = cs,
                             !.cts_r = cts, !.armed = FALSE,
                             !.fifo_send = << >>, !.fifo_retr = << >>, !.quit = FALSE]
  OBVIOUS
<1>7. d = Served(e, c, p)
  BY <1>2, <1>3, <1>4, <1>5, <1>6 DEF Served
<1>8. PICK u : u = [t EXCEPT !.state = "START", !.role = "server", !.sn_t = sn,
                             !.cs_r = cs, !.cts_r = cts, !.armed = FALSE]
  OBVIOUS
<1>9. /\ u \in Records /\ u.state = "START" /\ u.sn_t = sn /\ u.cs_r = cs /\ u.cts_r = cts
      /\ Missed(t, u) /\ u.got = t.got /\ u.asked = t.asked /\ u.out = t.out
  BY <1>8 DEF Missed, Whole, Records, States
<1>10. << >> \in Seq(Nat) /\ << >> \in Seq(Held)
  OBVIOUS
<1>11. PICK nil : nil = << >> /\ nil \in Seq(Nat) /\ nil \in Seq(Held)
  BY <1>10
<1>12. d = [u EXCEPT !.fifo_send = nil, !.fifo_retr = nil, !.quit = FALSE]
  BY <1>6, <1>8, <1>11 DEF Whole, Records
<1>13. /\ d \in Records /\ d.state = u.state /\ d.sn_t = u.sn_t /\ d.cs_r = u.cs_r
       /\ d.cts_r = u.cts_r /\ Missed(u, d) /\ d.got = u.got /\ d.asked = u.asked
       /\ d.out = u.out /\ d.fifo_send = nil /\ d.fifo_retr = nil
  BY <1>9, <1>11, <1>12 DEF Missed, Records
<1>14. d \in Whole
  BY <1>11, <1>13, ConstantFacts DEF Whole, Fits
<1>15. Taken(p, d)
  BY <1>2, <1>9, <1>13 DEF Taken, Missed
<1>16. d.got = c.got /\ d.asked = c.asked /\ d.out = << >>
  BY <1>1, <1>2, <1>9, <1>13 DEF Rest
<1> QED
  BY <1>3, <1>4, <1>5, <1>7, <1>9, <1>11, <1>13, <1>14, <1>15, <1>16

\* What a server says: a goodbye at most, and then its answer.
LEMMA GoodbyeThenOne ==
  ASSUME NEW e, NEW told, told.out = << >>, NEW d, Ended(e, told, d), NEW K, NEW f,
         K \subseteq Packets, Uttered(d, f, K), d.channel \in BOOLEAN
  PROVE  \A i \in 1 .. Len(f.out) : f.out[i] \in Goodbyes(e) \/ f.out[i] \in K
<1>1. PICK s \in Seq(Packets) : s = d.out /\ \A i \in 1 .. Len(s) : s[i] \in Goodbyes(e)
  <2>1. << >> \in Seq(Goodbyes(e)) /\ Goodbyes(e) \subseteq Packets
    BY EmptySeq DEF Goodbyes
  <2>2. d.out \in Seq(Goodbyes(e))
    BY <2>1, EndedByGoodbyes
  <2>3. d.out \in Seq(Packets)
    BY <2>1, <2>2, FifoMonotonic
  <2> QED
    BY <2>2, <2>3
<1>2. CASE f.out = s
  BY <1>1, <1>2
<1>3. CASE \E k \in K : f.out = Append(s, k)
  <2>1. PICK k \in K : f.out = Append(s, k)
    BY <1>3
  <2>2. PICK x : x = Append(s, k)
    OBVIOUS
  <2>3. /\ Len(x) = Len(s) + 1 /\ Len(s) \in Nat /\ x[Len(s) + 1] = k
        /\ \A i \in 1 .. Len(s) : x[i] = s[i]
    BY <2>2, AppendProperties, LenProperties
  <2>4. ASSUME NEW i \in 1 .. Len(x) PROVE x[i] \in Goodbyes(e) \/ x[i] \in K
    <3>1. i \in 1 .. Len(s) \/ i = Len(s) + 1
      BY <2>3
    <3> QED
      BY <1>1, <2>3, <3>1
  <2> QED
    BY <2>1, <2>2, <2>4
<1> QED
  BY <1>1, <1>2, <1>3 DEF Uttered

LEMMA ConReqDealt ==
  ASSUME Times, NEW e \in Ends, NEW c, NEW p \in NumberedPdus, p.type = "ConReq",
         Ready(c), HandleConReq(e, c, p)
  PROVE  Dealt(e, c, p)
<1>1. CASE c.state \in Open /\ Answer(e, CloseConnection(e, c))
  BY <1>1, CloseDealt DEF Open
<1>2. CASE ~(c.state \in Open /\ Answer(e, CloseConnection(e, c)))
  <2>1. PICK new \in Whole :
           /\ new = Served(e, c, p) /\ Taken(p, new) /\ new.state = "START"
           /\ new.sn_t = InitSn[e] /\ new.cs_r = Minus(InitSn[e], 1) /\ new.cts_r = p.cts
           /\ new.fifo_send = << >> /\ new.fifo_retr = << >> /\ new.got = c.got
           /\ new.asked = c.asked /\ new.out = << >>
    BY ServedExact
  <2>2. /\ c.state \in {"NONE", "CLOSED"}
        /\ \E d \in Notified(e, [new EXCEPT !.sn_t = Plus1(@)]) :
             Answer(e, MuxSend(d, Pdu(e, new, "ConResp", p.cts, << >>)))
    BY <1>2, <2>1 DEF HandleConReq, Served
  <2>3. PICK n \in Numbers : n = Plus1(new.sn_t)
    BY <2>1, Fields, NumbersAreClosed
  <2>4. PICK next : next = [new EXCEPT !.sn_t = n]
    OBVIOUS
  <2>5. PICK d \in Notified(e, next) : Answer(e, MuxSend(d, Pdu(e, new, "ConResp", p.cts, << >>)))
    BY <2>2, <2>3, <2>4
  <2>6. next \in Whole /\ Core(new, next) /\ next.sn_t = n /\ next.state = new.state /\ next.out = new.out
    BY <2>4 DEF Core, Whole, Records, Fits
  <2>7. Told(e, next, d)
    BY <2>5, <2>6, NotifiedTold
  <2>8. PICK q \in NumberedPdus : q = Pdu(e, new, "ConResp", p.cts, << >>)
    BY NumberFacts, TypesExist, PduType
  <2>9. PICK f \in Whole :
           /\ f = MuxSend(d, q) /\ Core(d, f) /\ f.sn_t = d.sn_t
           /\ f.state = d.state /\ f.channel = d.channel
           /\ Uttered(d, f, {k \in Packets : k.pdu = q})
    BY <2>7, MuxSendExact DEF Told
  <2>10. /\ Taken(p, f) /\ f.cs_r = Minus(InitSn[e], 1) /\ f.cts_r = p.cts
         /\ f.got = c.got /\ f.asked = c.asked /\ f.fifo_retr = << >> /\ f.fifo_send = << >>
         /\ f.sn_t = Plus1(InitSn[e]) /\ f.state \in {"START", "CLOSED"}
    <3>1. /\ d.sn_r = new.sn_r /\ d.cs_t = new.cs_t /\ d.cs_r = new.cs_r /\ d.ts_r = new.ts_r
          /\ d.cts_r = new.cts_r /\ d.got = new.got /\ d.asked = new.asked
          /\ d.fifo_retr = new.fifo_retr /\ d.fifo_send = new.fifo_send /\ d.sn_t = n
          /\ d.state \in {"START", "CLOSED"}
      BY <2>1, <2>6, <2>7 DEF Told, Firm, Core
    <3> QED
      BY <2>1, <2>3, <2>9, <3>1 DEF Core, Taken
  <2>11. \A i \in 1 .. Len(f.out) :
           f.out[i] \in Goodbyes(e) \/ f.out[i] \in {k \in Packets : k.pdu = q}
    <3>1. next.out = << >> /\ Ended(e, next, d) /\ d.channel \in BOOLEAN
      BY <2>1, <2>6, <2>7, Fields DEF Told
    <3> QED
      BY <2>9, <3>1, GoodbyeThenOne
  <2>12. \A k \in Packets : k.pdu = q => Says(e, f, k, "ConResp", InitSn[e])
    BY <2>1, <2>8, <2>10 DEF Says, Pdu, Taken
  <2>13. Serves(e, c, p, f)
    BY <2>2, <2>9, <2>10, <2>11, <2>12 DEF Serves
  <2>14. Answer(e, f)
    BY <2>5, <2>8, <2>9
  <2> QED
    BY <2>13, <2>14 DEF Dealt, Heeded
<1> QED
  BY <1>1, <1>2

(***************************************************************************)
(* A retransmission.                                                       *)
(***************************************************************************)
\* What is sent is RetrResp, the RetrData of all that is held and one more, and
\* a heartbeat; it is numbered from sn on.
Answered(e, a, d) ==
  LET n == Len(a.fifo_retr) IN
  /\ Len(d.out) = n + 3
  /\ Says(e, a, d.out[1], "RetrResp", a.sn_t) /\ d.out[1].pdu.cts = a.ts_r
  /\ \A i \in 2 .. n + 2 : /\ Says(e, a, d.out[i], "RetrData", a.sn_t + (i - 1))
                           /\ d.out[i].pdu.msgs = Nth(a.fifo_retr, i - 1)
  /\ Says(e, a, d.out[n + 3], "HB", a.sn_t + n + 2) /\ d.out[n + 3].pdu.cts = a.ts_r

Renewed(e, a, d) ==
  /\ d \in Whole /\ d.state = a.state
  /\ d.sn_r = a.sn_r /\ d.cs_t = a.cs_t /\ d.cs_r = a.cs_r /\ d.ts_r = a.ts_r
  /\ d.cts_r = a.cts_r /\ d.got = a.got
  /\ d.fifo_send = a.fifo_send /\ d.asked = a.asked
  /\ d.sn_t = a.sn_t + Len(a.fifo_retr) + 3
  /\ Refilled(a, d, a.sn_t + 1)
  /\ a.channel /\ a.out = << >> => Answered(e, a, d)
  /\ ~a.channel => d.out = a.out

LEMMA AnswerExact ==
  ASSUME Times, NEW e \in Ends, NEW a \in Whole, Room(a)
  PROVE  Renewed(e, a, Retransmit(e, SendRetrResp(e, a)))
<1>1. PICK f \in Whole : f = SendRetrResp(e, a) /\ Numbered(e, a, f, "RetrResp", a.ts_r)
  BY SendersExact DEF Numbered
<1>2. a.sn_t \in Nat /\ SnMod \in Nat /\ RetrCap \in Nat /\ Len(a.fifo_retr) \in 0 .. RetrCap
  BY Fields, ConstantFacts DEF Numbers
<1>3. f.sn_t = a.sn_t + 1
  <2>1. Plus1(a.sn_t) = a.sn_t + 1
    BY RoomForOne DEF Room
  <2> QED
    BY <1>1, <2>1 DEF Numbered
<1>4. f.sn_t + RetrCap + 3 <= SnMod
  BY <1>2, <1>3 DEF Room
<1>5. PICK d : d = Retransmit(e, f) /\ Retransmitted(e, f, d)
  BY <1>1, <1>4, RetransmitExact
<1>6. /\ f.sn_r = a.sn_r /\ f.cs_t = a.cs_t /\ f.cs_r = a.cs_r /\ f.ts_r = a.ts_r
      /\ f.cts_r = a.cts_r /\ f.got = a.got /\ f.fifo_send = a.fifo_send
      /\ f.asked = a.asked /\ f.fifo_retr = a.fifo_retr /\ f.state = a.state
      /\ f.channel = a.channel
  BY <1>1 DEF Numbered, Core
<1>7. d.sn_t = a.sn_t + Len(a.fifo_retr) + 3
  <2>1. d.sn_t = f.sn_t + Len(f.fifo_retr) + 2
    BY <1>5 DEF Retransmitted
  <2> QED
    BY <1>2, <1>3, <1>6, <2>1
<1>8. Refilled(a, d, a.sn_t + 1)
  BY <1>3, <1>5, <1>6 DEF Retransmitted, Refilled
<1>9. ASSUME a.channel, a.out = << >> PROVE Answered(e, a, d)
  <2>1. PICK k \in Made(e, a, "RetrResp", a.ts_r, << >>) : f.out = Append(<< >>, k)
    BY <1>1, <1>9 DEF Numbered, Uttered
  <2>2. Len(f.out) = 1 /\ f.out[1] = k
    BY <2>1
  <2>3. Says(e, a, k, "RetrResp", a.sn_t) /\ k.pdu.cts = a.ts_r
    BY DEF Made, Pdu, Says
  <2>4. PICK n \in Nat : n = Len(a.fifo_retr)
    BY <1>2
  <2>5. PICK b \in Nat : b = a.sn_t
    BY <1>2
  <2>6. /\ Len(d.out) = 1 + n + 2 /\ \A i \in 1 .. 1 : d.out[i] = f.out[i]
        /\ \A i \in 1 .. n + 1 : /\ Says(e, f, d.out[1 + i], "RetrData", b + 1 + (i - 1))
                                 /\ d.out[1 + i].pdu.msgs = Nth(a.fifo_retr, i)
        /\ Says(e, f, d.out[1 + n + 2], "HB", b + 1 + n + 1)
        /\ d.out[1 + n + 2].pdu.cts = a.ts_r
    BY <1>3, <1>5, <1>6, <1>9, <2>2, <2>4, <2>5 DEF Retransmitted, Repeating
  <2>7. d.out[1] = k
    BY <2>2, <2>6
  <2>8. ASSUME NEW i \in 2 .. n + 2
        PROVE  /\ Says(e, a, d.out[i], "RetrData", b + (i - 1))
               /\ d.out[i].pdu.msgs = Nth(a.fifo_retr, i - 1)
    <3>1. PICK j \in 1 .. n + 1 : i = 1 + j
      <4>1. i - 1 \in 1 .. n + 1 /\ i = 1 + (i - 1)
        OBVIOUS
      <4> QED
        BY <4>1
    <3>2. b + 1 + (j - 1) = b + (i - 1) /\ j = i - 1
      BY <3>1
    <3>3. /\ Says(e, f, d.out[i], "RetrData", b + (i - 1))
          /\ d.out[i].pdu.msgs = Nth(a.fifo_retr, i - 1)
      BY <2>6, <3>1, <3>2
    <3> QED
      BY <1>6, <3>3 DEF Says
  <2>9. 1 + n + 2 = n + 3 /\ b + 1 + n + 1 = b + n + 2
    OBVIOUS
  <2>10. Says(e, a, d.out[n + 3], "HB", b + n + 2) /\ d.out[n + 3].pdu.cts = a.ts_r
    BY <1>6, <2>6, <2>9 DEF Says
  <2> QED
    BY <2>3, <2>4, <2>5, <2>6, <2>7, <2>8, <2>9, <2>10 DEF Answered
<1>10. ASSUME ~a.channel PROVE d.out = a.out
  BY <1>1, <1>5, <1>6, <1>10 DEF Numbered, Uttered, Retransmitted
<1>11. Renewed(e, a, d)
  BY <1>5, <1>6, <1>7, <1>8, <1>9, <1>10 DEF Renewed, Retransmitted
<1> QED
  BY <1>1, <1>5, <1>11

\* The parts of Repeats that do not depend on the state of the connection.
LEMMA RepeatsWhatIsHeld ==
  ASSUME NEW e \in Ends, NEW c \in Whole, NEW p \in NumberedPdus, NEW a \in Whole, NEW d,
         a.sn_t = c.sn_t, a.fifo_retr = RemoveConfirmed(c.fifo_retr, p.cs), a.cs_r = p.cs,
         Renewed(e, a, d)
  PROVE  /\ LET f == RemoveConfirmed(c.fifo_retr, p.cs) IN
            /\ d.sn_t = c.sn_t + Len(f) + 3
            /\ Len(d.fifo_retr) = IF Len(f) < RetrCap THEN Len(f) + 1 ELSE RetrCap
            /\ \A i \in 1 .. Len(d.fifo_retr) :
                 d.fifo_retr[i].sn = c.sn_t + i /\ d.fifo_retr[i].msgs = Nth(f, i)
         /\ Answered(e, a, d) => Answers(e, c, d)
<1>1. PICK f \in Seq(Held), n \in Nat : f = a.fifo_retr /\ n = Len(f)
  BY Fields
<1>2. PICK b \in Nat : b = c.sn_t
  BY Fields DEF Numbers
<1>3. /\ d.sn_t = b + n + 3
      /\ Len(d.fifo_retr) = IF n < RetrCap THEN n + 1 ELSE RetrCap
      /\ \A i \in 1 .. Len(d.fifo_retr) :
           d.fifo_retr[i].sn = b + 1 + (i - 1) /\ d.fifo_retr[i].msgs = Nth(f, i)
  BY <1>1, <1>2 DEF Renewed, Refilled
<1>4. \A i \in 1 .. Len(d.fifo_retr) : d.fifo_retr[i].sn = b + i
  <2> SUFFICES ASSUME NEW i \in 1 .. Len(d.fifo_retr) PROVE d.fifo_retr[i].sn = b + i
    OBVIOUS
  <2>1. b + 1 + (i - 1) = b + i
    BY <1>2
  <2> QED
    BY <1>3, <2>1
<1>5. ASSUME Answered(e, a, d) PROVE Answers(e, c, d)
  <2>1. /\ Len(d.out) = n + 3
        /\ Says(e, a, d.out[1], "RetrResp", b) /\ d.out[1].pdu.cts = a.ts_r
        /\ \A i \in 2 .. n + 2 : /\ Says(e, a, d.out[i], "RetrData", b + (i - 1))
                                 /\ d.out[i].pdu.msgs = Nth(f, i - 1)
        /\ Says(e, a, d.out[n + 3], "HB", b + n + 2) /\ d.out[n + 3].pdu.cts = a.ts_r
    BY <1>1, <1>2, <1>5 DEF Answered
  <2>2. d.ts_r = a.ts_r /\ d.cs_t = a.cs_t /\ d.cs_r = p.cs
    BY DEF Renewed
  <2>3. /\ n + 3 >= 3 /\ n + 3 = (b + n + 3) - b /\ (n + 3) - 1 = n + 2
        /\ (b + n + 3) - 1 = b + n + 2
    OBVIOUS
  <2>4. /\ Len(d.out) >= 3 /\ Len(d.out) = d.sn_t - b /\ Len(d.out) - 1 = n + 2
        /\ d.sn_t - 1 = b + n + 2
    BY <1>3, <2>1, <2>3
  <2>5. f = RemoveConfirmed(c.fifo_retr, d.cs_r)
    BY <1>1, <2>2
  <2> QED
    BY <1>2, <2>1, <2>2, <2>4, <2>5 DEF Answers, Says
<1> QED
  BY <1>1, <1>2, <1>3, <1>4, <1>5

LEMMA RetrReqDealt ==
  ASSUME Times, NEW e \in Ends, NEW c, NEW p \in NumberedPdus, p.type = "RetrReq",
         Ready(c), Room(c), c.state \notin {"NONE", "START"}, CsValid(c, p),
         HandleRetrReq(e, c, p)
  PROVE  Dealt(e, c, p)
<1>1. c \in Whole /\ c.out = << >> /\ c.channel /\ << >> \in Seq(Goodbyes(e))
  BY EmptySeq DEF Ready
<1>2. CASE SnInSeq(c, p)
  <2>1. PICK b \in Whole :
          /\ b = (IF c.state = "RETRRUN" THEN CloseConnection(e, c) ELSE c)
          /\ b.sn_t = c.sn_t /\ b.fifo_retr = c.fifo_retr /\ b.cts_r = c.cts_r
          /\ b.got = c.got /\ b.fifo_send = c.fifo_send /\ b.asked = c.asked
          /\ \/ b.state = c.state /\ c.state # "RETRRUN" /\ b.out = << >> /\ b.channel
             \/ b.state = "CLOSED" /\ c.state = "RETRRUN" /\ Ended(e, c, b) /\ ~b.channel
    <3>1. CASE c.state = "RETRRUN"
      <4>1. Leaves(e, c, CloseConnection(e, c)) /\ Shut(c, CloseConnection(e, c))
        BY <1>1, CloseLeaves, CloseShuts
      <4> QED
        BY <3>1, <4>1 DEF Leaves, Firm, Shut
    <3>2. CASE c.state # "RETRRUN"
      BY <1>1, <3>2
    <3> QED
      BY <3>1, <3>2
  <2>2. PICK t \in Whole : /\ t = Take(b, p) /\ Taken(p, t) /\ Rest(b, t)
                           /\ t.cs_r = b.cs_r /\ t.cts_r = b.cts_r
                           /\ t.fifo_retr = b.fifo_retr /\ t.state = b.state
    BY TakeExact
  <2>3. PICK a \in Whole : /\ a = Confirm(t, p) /\ Rest(t, a) /\ Missed(t, a)
                           /\ a.cs_r = p.cs /\ a.cts_r = t.cts_r
                           /\ a.fifo_retr = RemoveConfirmed(t.fifo_retr, p.cs)
                           /\ a.state = t.state
    BY ConfirmExact
  <2>4. /\ a.sn_t = c.sn_t /\ a.fifo_retr = RemoveConfirmed(c.fifo_retr, p.cs)
        /\ a.cts_r = c.cts_r /\ a.got = c.got /\ a.fifo_send = c.fifo_send
        /\ a.asked = c.asked /\ a.state = b.state /\ a.out = b.out /\ a.channel = b.channel
        /\ Taken(p, a)
    BY <2>1, <2>2, <2>3 DEF Rest, Missed, Taken
  <2>5. Room(a)
    BY <2>4 DEF Room
  <2>6. PICK d : d = Retransmit(e, SendRetrResp(e, a)) /\ Renewed(e, a, d)
    BY <2>5, AnswerExact
  <2>7. /\ LET f == RemoveConfirmed(c.fifo_retr, p.cs) IN
           /\ d.sn_t = c.sn_t + Len(f) + 3
           /\ Len(d.fifo_retr) = IF Len(f) < RetrCap THEN Len(f) + 1 ELSE RetrCap
           /\ \A i \in 1 .. Len(d.fifo_retr) :
                d.fifo_retr[i].sn = c.sn_t + i /\ d.fifo_retr[i].msgs = Nth(f, i)
        /\ Answered(e, a, d) => Answers(e, c, d)
    BY <1>1, <2>3, <2>4, <2>6, RepeatsWhatIsHeld
  <2>8. Answers(e, c, d) \/ d.out \in Seq(Goodbyes(e))
    <3>1. CASE b.out = << >> /\ b.channel
      BY <2>4, <2>6, <2>7, <3>1 DEF Renewed
    <3>2. CASE Ended(e, c, b) /\ ~b.channel
      <4>1. b.out \in Seq(Goodbyes(e))
        BY <1>1, <3>2, EndedByGoodbyes
      <4> QED
        BY <2>4, <2>6, <3>2, <4>1 DEF Renewed
    <3> QED
      BY <2>1, <3>1, <3>2
  <2>9. p.sn = c.sn_r
    BY <1>2 DEF SnInSeq
  <2>10. /\ d \in Whole /\ d.cs_r = p.cs /\ d.cts_r = c.cts_r /\ d.got = c.got
         /\ d.fifo_send = c.fifo_send /\ d.asked = c.asked /\ Taken(p, d)
         /\ d.state = b.state
    BY <2>3, <2>4, <2>6 DEF Renewed, Taken
  <2>11. Repeats(e, c, p, d)
    BY <2>1, <2>7, <2>8, <2>9, <2>10 DEF Repeats
  <2>12. Answer(e, d)
    BY <1>2, <2>1, <2>2, <2>3, <2>6 DEF HandleRetrReq
  <2> QED
    BY <2>11, <2>12 DEF Dealt, Heeded
<1>3. CASE ~SnInSeq(c, p)
  <2>1. PICK a \in Whole : /\ a = Confirm(c, p) /\ Rest(c, a) /\ Missed(c, a)
                           /\ a.cs_r = p.cs /\ a.cts_r = c.cts_r
                           /\ a.fifo_retr = RemoveConfirmed(c.fifo_retr, p.cs)
                           /\ a.state = c.state
    BY <1>1, ConfirmExact
  <2>2. Room(a) /\ a.channel /\ a.out = << >> /\ a.sn_t = c.sn_t
    BY <1>1, <2>1 DEF Room, Rest
  <2>3. PICK q \in Whole : q = Retransmit(e, SendRetrResp(e, a)) /\ Renewed(e, a, q)
    BY <2>2, AnswerExact DEF Renewed
  <2>4. PICK d : d = [q EXCEPT !.state = "RETRREQ"]
    OBVIOUS
  <2>5. /\ d \in Whole /\ Core(q, d) /\ d.sn_t = q.sn_t /\ d.state = "RETRREQ"
        /\ d.out = q.out
    BY <2>4 DEF Core, Whole, Records, Fits, States
  <2>6. /\ LET f == RemoveConfirmed(c.fifo_retr, p.cs) IN
           /\ q.sn_t = c.sn_t + Len(f) + 3
           /\ Len(q.fifo_retr) = IF Len(f) < RetrCap THEN Len(f) + 1 ELSE RetrCap
           /\ \A i \in 1 .. Len(q.fifo_retr) :
                q.fifo_retr[i].sn = c.sn_t + i /\ q.fifo_retr[i].msgs = Nth(f, i)
        /\ Answered(e, a, q) => Answers(e, c, q)
    BY <1>1, <2>1, <2>2, <2>3, RepeatsWhatIsHeld
  <2>7. Answers(e, c, q)
    BY <2>2, <2>3, <2>6 DEF Renewed
  <2>8. Answers(e, c, d)
    BY <2>5, <2>7 DEF Answers, Core, Says
  <2>9. d.fifo_retr = q.fifo_retr /\ Missed(c, d) /\ d.cs_r = p.cs /\ d.cts_r = c.cts_r
        /\ d.got = c.got /\ d.fifo_send = c.fifo_send /\ d.asked = c.asked
    BY <2>1, <2>3, <2>5 DEF Renewed, Core, Missed, Rest
  <2>10. Repeats(e, c, p, d)
    BY <2>5, <2>6, <2>8, <2>9 DEF Repeats
  <2>11. Answer(e, d)
    BY <1>3, <2>1, <2>3, <2>4 DEF HandleRetrReq
  <2> QED
    BY <2>10, <2>11 DEF Dealt, Heeded
<1> QED
  BY <1>2, <1>3

\* Whatever is received is dealt with by one of the deeds.
LEMMA ProcessDealt ==
  ASSUME Times, NEW e \in Ends, NEW c, NEW p \in NumberedPdus, Ready(c), Room(c),
         Fitting(p.type, c, p), Process(e, c, p)
  PROVE  Dealt(e, c, p)
<1>1. CASE p.type = "ConReq" /\ HandleConReq(e, c, p)
  BY <1>1, ConReqDealt
<1>2. CASE Answer(e, c)
  BY <1>2, RestsDealt
<1>3. CASE p.type = "ConResp" /\ c.state # "NONE" /\ HandleConResp(e, c, p)
  BY <1>3, ConRespDealt
<1>4. CASE /\ c.state # "NONE" /\ CsValid(c, p)
           /\ \/ p.type = "RetrData" /\ HandleRetrData(e, c, p)
              \/ p.type = "Data"     /\ HandleData(e, c, p)
              \/ p.type = "RetrReq"  /\ HandleRetrReq(e, c, p)
              \/ p.type = "RetrResp" /\ HandleRetrResp(e, c, p)
              \/ p.type = "DiscReq"  /\ HandleDiscReq(e, c, p)
              \/ p.type = "HB"       /\ HandleHb(e, c, p)
  <2>1. CASE p.type = "RetrData" /\ HandleRetrData(e, c, p)
    BY <1>4, <2>1, RetrDataDealt
  <2>2. CASE p.type = "Data" /\ HandleData(e, c, p)
    BY <1>4, <2>2, DataDealt
  <2>3. CASE p.type = "RetrReq" /\ HandleRetrReq(e, c, p)
    <3>1. c.state \notin {"NONE", "START"}
      BY <1>4, <2>3 DEF Fitting
    <3> QED
      BY <1>4, <2>3, <3>1, RetrReqDealt
  <2>4. CASE p.type = "RetrResp" /\ HandleRetrResp(e, c, p)
    BY <1>4, <2>4, RetrRespDealt
  <2>5. CASE p.type = "DiscReq" /\ HandleDiscReq(e, c, p)
    BY <1>4, <2>5, DiscReqDealt
  <2>6. CASE p.type = "HB" /\ HandleHb(e, c, p)
    BY <1>4, <2>6, HbDealt
  <2> QED
    BY <1>4, <2>1, <2>2, <2>3, <2>4, <2>5, <2>6
<1> QED
  BY <1>1, <1>2, <1>3, <1>4 DEF Process

-----------------------------------------------------------------------------
(***************************************************************************)
(*             PART III: A STEP, SEEN FROM BOTH ENDPOINTS                  *)
(***************************************************************************)
\* c becomes d; s was on its way to e and s2 is, r to the peer and r2.
Moves(e, c, d, s, s2, r, r2) ==
  /\ c \in Whole /\ d \in Whole /\ r2 = r \o d.out
  /\ \/ Acted(e, c, d) /\ s2 = s
     \/ s # << >> /\ s2 = Tail(s) /\ Heeded(e, c, Head(s).pdu, d)

Moving(e, d) ==
  /\ con' = [con EXCEPT ![e] = [d EXCEPT !.out = << >>]]
  /\ Moves(e, con[e], d, net[e], net'[e], net[Peer(e)], net'[Peer(e)])

\* The numbers stay below the wrap, by what one retransmission may take.
BelowWrap ==
  \A e \in Ends : InitSn[e] + RetrCap + 4 <= SnMod /\ con[e].sn_t + RetrCap + 4 <= SnMod

LEMMA EmitMoves ==
  ASSUME TypeInv, NEW e \in Ends, NEW d \in Whole, Acted(e, con[e], d), Emit(e, d)
  PROVE  Moving(e, d)
<1>1. Peer(e) \in Ends /\ Peer(e) # e
  BY ConstantFacts
<1>2. PICK more : more = net[Peer(e)] \o d.out
  OBVIOUS
<1>3. net' = [net EXCEPT ![Peer(e)] = more]
  BY <1>2 DEF Emit
<1>4. net'[e] = net[e] /\ net'[Peer(e)] = more
  BY <1>1, <1>3 DEF TypeInv
<1>5. con[e] \in Whole
  BY DEF TypeInv
<1> QED
  BY <1>2, <1>4, <1>5 DEF Moving, Moves, Emit

LEMMA AnswerMoves ==
  ASSUME TypeInv, NEW e \in Ends, net[e] # << >>, NEW d \in Whole,
         Heeded(e, con[e], Head(net[e]).pdu, d), Answer(e, d)
  PROVE  Moving(e, d)
<1>1. Peer(e) \in Ends /\ Peer(e) # e
  BY ConstantFacts
<1>2. PICK more, rest : more = net[Peer(e)] \o d.out /\ rest = Tail(net[e])
  OBVIOUS
<1>3. net' = [net EXCEPT ![e] = rest, ![Peer(e)] = more]
  BY <1>1, <1>2 DEF Answer, TypeInv
<1>4. net'[e] = rest /\ net'[Peer(e)] = more
  BY <1>1, <1>3 DEF TypeInv
<1>5. con[e] \in Whole
  BY DEF TypeInv
<1> QED
  BY <1>2, <1>4, <1>5 DEF Moving, Moves, Answer

\* What a handler finds differs from the record at rest in the channel only.
Alike(c, d) == Core(c, d) /\ d.sn_t = c.sn_t /\ d.state = c.state /\ d.role = c.role

LEMMA HeededAlike ==
  ASSUME NEW e, NEW c, NEW c0, NEW p, NEW d, Alike(c0, c), Heeded(e, c, p, d)
  PROVE  Heeded(e, c0, p, d)
<1>1. /\ c.sn_r = c0.sn_r /\ c.cs_t = c0.cs_t /\ c.cs_r = c0.cs_r
      /\ c.ts_r = c0.ts_r /\ c.cts_r = c0.cts_r /\ c.got = c0.got
      /\ c.fifo_retr = c0.fifo_retr /\ c.fifo_send = c0.fifo_send /\ c.asked = c0.asked
      /\ c.sn_t = c0.sn_t /\ c.state = c0.state /\ c.role = c0.role
  BY DEF Alike, Core
<1>2. More(c, d) => More(c0, d)
  BY <1>1 DEF More, Queued
<1>3. CsValid(c, p) => CsValid(c0, p)
  BY <1>1 DEF CsValid
<1>4. Missed(c, d) => Missed(c0, d)
  BY <1>1 DEF Missed
<1>5. CASE Idles(e, c, d)
  <2>1. Idles(e, c0, d)
    BY <1>1, <1>2, <1>5 DEF Idles, Firm
  <2> QED
    BY <2>1 DEF Heeded
<1>6. CASE Hears(e, c, p, d)
  <2>1. Hears(e, c0, p, d)
    BY <1>1, <1>2, <1>3, <1>6 DEF Hears
  <2> QED
    BY <2>1 DEF Heeded
<1>7. CASE Delivers(e, c, p, d)
  <2>1. Delivers(e, c0, p, d)
    BY <1>1, <1>2, <1>3, <1>7 DEF Delivers
  <2> QED
    BY <2>1 DEF Heeded
<1>8. CASE Requests(e, c, p, d)
  <2>1. Requests(e, c0, p, d)
    BY <1>1, <1>8 DEF Requests, Core, Says
  <2> QED
    BY <2>1 DEF Heeded
<1>9. CASE Repeats(e, c, p, d)
  <2>1. Answers(e, c, d) => Answers(e, c0, d)
    BY <1>1 DEF Answers
  <2>2. Repeats(e, c0, p, d)
    BY <1>1, <1>3, <1>4, <1>9, <2>1 DEF Repeats
  <2> QED
    BY <2>2 DEF Heeded
<1>10. CASE Serves(e, c, p, d)
  <2>1. Serves(e, c0, p, d)
    BY <1>1, <1>10 DEF Serves
  <2> QED
    BY <2>1 DEF Heeded
<1>11. CASE Joins(e, c, p, d)
  <2>1. Joins(e, c0, p, d)
    BY <1>1, <1>2, <1>3, <1>11 DEF Joins, Starting
  <2> QED
    BY <2>1 DEF Heeded
<1> QED
  BY <1>5, <1>6, <1>7, <1>8, <1>9, <1>10, <1>11 DEF Heeded

LEMMA ArriveAlike ==
  ASSUME SessionInv, NEW e \in Ends, net[e] # << >>
  PROVE  Alike(con[e], Arrive(e))
<1>1. PICK old \in Whole : old = con[e]
  BY AtRest
<1>2. PICK seq : seq = Head(net[e]).seq
  OBVIOUS
<1>3. PICK d : d = [old EXCEPT !.channel = TRUE]
  OBVIOUS
<1>4. d \in Records /\ Alike(old, d)
  BY <1>3 DEF Whole, Records, Alike, Core
<1>5. CASE Accepts(d, seq)
  <2>1. PICK c : c = [d EXCEPT !.rx = seq + 1]
    OBVIOUS
  <2>2. c = Arrive(e)
    BY <1>1, <1>2, <1>3, <1>5, <2>1 DEF Arrive
  <2>3. Alike(d, c)
    BY <1>4, <2>1 DEF Records, Alike, Core
  <2> QED
    BY <1>1, <1>4, <2>2, <2>3 DEF Alike, Core
<1>6. CASE ~Accepts(d, seq)
  <2>1. d = Arrive(e)
    BY <1>1, <1>2, <1>3, <1>6 DEF Arrive
  <2> QED
    BY <1>1, <1>4, <2>1
<1> QED
  BY <1>5, <1>6

LEMMA ReceiveMoves ==
  ASSUME SessionInv, BelowWrap, NEW e \in Ends, Receive(e)
  PROVE  \E d : Moving(e, d)
<1>1. net[e] # << >> /\ TypeInv /\ Times
  BY InvTimes DEF Receive, SessionInv
<1>2. PICK c \in Whole :
        /\ c = Arrive(e) /\ Ready(c) /\ Like(con[e], c) /\ c.armed = con[e].armed
        /\ c.rx > 0 => con[e].rx > 0 \/ Head(net[e]).seq = 0
  BY <1>1, ArriveFacts DEF Ready
<1>3. Head(net[e]) \in Packets
  BY <1>1, AtRest, TailIsThinned
<1>4. PICK p \in NumberedPdus : p = Head(net[e]).pdu
  BY <1>3 DEF Packets
<1>5. Room(c)
  BY <1>2 DEF Room, BelowWrap, Like
<1>6. Dealt(e, c, p)
  <2>1. CASE Answer(e, c)
    BY <1>2, <2>1, RestsDealt
  <2>2. CASE c.rx > 0 /\ Process(e, c, p)
    <3>1. Fitting(p.type, c, p)
      BY <1>1, <1>2, <1>4, <2>2, SessionFits
    <3> QED
      BY <1>1, <1>2, <1>5, <2>2, <3>1, ProcessDealt
  <2>3. Process(e, c, p) /\ ~Answer(e, c) => c.rx > 0
    <3>1. SUFFICES ASSUME ~Answer(e, c) PROVE c.rx > 0
      OBVIOUS
    <3>2. PICK d : d = [con[e] EXCEPT !.channel = TRUE]
      OBVIOUS
    <3>3. PICK rx \in Nat : rx = Head(net[e]).seq + 1 /\ rx > 0
      BY <1>3 DEF Packets
    <3>4. Accepts(d, Head(net[e]).seq)
      BY <1>2, <3>1, <3>2 DEF Receive
    <3>5. c = [d EXCEPT !.rx = rx]
      BY <1>2, <3>2, <3>3, <3>4 DEF Arrive
    <3>6. d \in Records
      <4>1. con[e] \in Records
        BY AtRest DEF Whole
      <4> QED
        BY <3>2, <4>1 DEF Records
    <3> QED
      BY <3>3, <3>5, <3>6 DEF Records
  <2>4. Answer(e, c) \/ Process(e, c, p)
    BY <1>2, <1>4 DEF Receive
  <2> QED
    BY <2>1, <2>2, <2>3, <2>4
<1>7. PICK d : Heeded(e, c, p, d) /\ Answer(e, d)
  BY <1>6 DEF Dealt
<1>8. Heeded(e, con[e], p, d)
  BY <1>1, <1>2, <1>7, ArriveAlike, HeededAlike
<1>9. d \in Whole
  BY <1>8 DEF Heeded, Idles, Hears, Delivers, Requests, Repeats, Serves, Joins
<1> QED
  BY <1>1, <1>4, <1>7, <1>8, <1>9, AnswerMoves

(***************************************************************************)
(* Steps of its own.                                                       *)
(***************************************************************************)
LEMMA ToldIdles ==
  ASSUME NEW e, NEW c \in Whole, c.out = << >>, c.state # "NONE", NEW d, Told(e, c, d)
  PROVE  Idles(e, c, d)
<1>1. c.out \in Seq(Goodbyes(e))
  BY EmptySeq
<1>2. d.out \in Seq(Goodbyes(e))
  BY <1>1, EndedByGoodbyes DEF Told
<1> QED
  BY <1>2 DEF Told, Idles

LEMMA DisconnectMoves ==
  ASSUME SessionInv, NEW e \in Ends, Disconnect(e)
  PROVE  \E d : Moving(e, d)
<1>1. PICK c \in Whole : c = con[e] /\ c.out = << >> /\ c.state # "NONE"
  BY AtRest DEF Disconnect
<1>2. TypeInv /\ Times
  BY InvTimes DEF SessionInv
<1>3. PICK d \in Whole : d = Disconnected(e, c) /\ Told(e, c, d)
  BY <1>2, DisconnectedLeaves, LeavesIsTold DEF Leaves
<1>4. Acted(e, c, d)
  BY <1>1, <1>3, ToldIdles DEF Acted
<1> QED
  BY <1>1, <1>2, <1>3, <1>4, EmitMoves DEF Disconnect

LEMMA SrSendMoves ==
  ASSUME SessionInv, NEW e \in Ends, NEW n \in 1 .. MaxPacket, SrSend(e, n)
  PROVE  \E d : Moving(e, d)
<1>1. PICK c \in Whole : c = con[e] /\ c.out = << >> /\ c.state # "NONE"
  BY AtRest DEF SrSend
<1>2. TypeInv /\ Times /\ n \in Nat
  BY InvTimes, ConstantFacts DEF SessionInv
<1>3. PICK d \in Whole : d = Sent(e, c, n) /\ Told(e, c, d)
  BY <1>2, SentTold DEF Told
<1>4. Acted(e, c, d)
  BY <1>1, <1>3, ToldIdles DEF Acted
<1> QED
  BY <1>1, <1>2, <1>3, <1>4, EmitMoves DEF SrSend

LEMMA ExpireMoves ==
  ASSUME SessionInv, NEW e \in Ends, Expire(e)
  PROVE  \E d : Moving(e, d)
<1>1. PICK c \in Whole : c = con[e] /\ c.out = << >>
  BY AtRest
<1>2. TypeInv /\ Times
  BY InvTimes DEF SessionInv
<1>3. CASE c.state \in {"UP", "RETRREQ", "RETRRUN"}
  <2>1. PICK d \in Whole : d = CloseConnection(e, c) /\ Told(e, c, d)
    BY <1>2, CloseLeaves, LeavesIsTold DEF Leaves
  <2>2. Acted(e, c, d)
    BY <1>1, <1>3, <2>1, ToldIdles DEF Acted
  <2> QED
    BY <1>1, <1>2, <1>3, <2>1, <2>2, EmitMoves DEF Expire
<1>4. CASE c.state \notin {"UP", "RETRREQ", "RETRRUN"}
  <2>1. PICK d : d = [c EXCEPT !.armed = FALSE]
    OBVIOUS
  <2>2. d \in Whole /\ Firm(c, d) /\ Rest(c, d) /\ d.state = c.state
    BY <2>1 DEF Whole, Records, Fits, Firm, Rest
  <2>3. d.out \in Seq(Goodbyes(e)) /\ More(c, d)
    BY <1>1, <2>2, EmptySeq, MoreSame DEF Rest
  <2>4. Acted(e, c, d)
    BY <2>2, <2>3 DEF Acted, Idles, Rest
  <2> QED
    BY <1>1, <1>2, <1>4, <2>1, <2>2, <2>4, EmitMoves DEF Expire
<1> QED
  BY <1>3, <1>4

LEMMA ConnectMoves ==
  ASSUME SessionInv, NEW e \in Ends, Connect(e)
  PROVE  \E d : Moving(e, d)
<1> DEFINE c == [con[e] EXCEPT !.channel = TRUE, !.role = "client",
                               !.sn_t = InitSn[e], !.cs_t = 0]
           d == SendPdu(e, c, "ConReq", 0, << >>)
           f == [d EXCEPT !.state = "START", !.cts_r = Clock(e)]
<1>1. con[e].state = "NONE" /\ Emit(e, f)
  BY DEF Connect
<1>2. PICK old \in Whole : old = con[e] /\ old.out = << >>
  BY AtRest
<1>3. TypeInv /\ Times
  BY InvTimes DEF SessionInv
<1>4. PICK first \in Numbers : first = InitSn[e]
  BY ConstantFacts
<1>5. /\ c \in Whole /\ c.channel /\ c.sn_t = first /\ c.cs_t = 0 /\ c.out = << >>
      /\ c.sn_r = old.sn_r /\ c.cs_r = old.cs_r /\ c.ts_r = old.ts_r
      /\ c.got = old.got /\ c.fifo_retr = old.fifo_retr
      /\ c.fifo_send = old.fifo_send /\ c.asked = old.asked
  <2>1. c = [old EXCEPT !.channel = TRUE, !.role = "client", !.sn_t = first, !.cs_t = 0]
    BY <1>2, <1>4
  <2> HIDE DEF c
  <2> QED
    BY <1>2, <2>1, ConstantFacts, ZenonT(30) DEF Whole, Records, Fits, Numbers
<1> HIDE DEF c
<1>6. Numbered(e, c, d, "ConReq", 0)
  BY <1>3, <1>5, SendersExact
<1> HIDE DEF d
<1>7. PICK k \in Made(e, c, "ConReq", 0, << >>) : d.out = Append(<< >>, k)
  BY <1>5, <1>6 DEF Numbered, Uttered
<1>8. PICK t \in Nat : t = Clock(e)
  BY <1>3, ConstantFacts DEF Times, Clock
<1>9. /\ f \in Whole /\ f.state = "START" /\ f.cts_r = t /\ f.sn_t = d.sn_t
      /\ f.out = d.out /\ f.sn_r = d.sn_r /\ f.cs_t = d.cs_t /\ f.cs_r = d.cs_r
      /\ f.ts_r = d.ts_r /\ f.got = d.got /\ f.fifo_retr = d.fifo_retr
      /\ f.fifo_send = d.fifo_send /\ f.asked = d.asked
  <2>1. d \in Whole
    BY <1>6 DEF Numbered
  <2> QED
    BY <1>8, <2>1 DEF Whole, Records, Fits, States
<1> HIDE DEF f
<1>10. /\ k.pdu.type = "ConReq" /\ k.pdu.sn = first /\ k.pdu.cs = 0 /\ k.pdu.ts = Clock(e)
       /\ k.pdu.cts = 0
  BY <1>5 DEF Made, Pdu
<1>11. Len(f.out) = 1 /\ f.out[1] = k
  BY <1>7, <1>9
<1>12. Connects(e, old, f)
  <2>1. Core(c, d) /\ d.sn_t = Plus1(first)
    BY <1>5, <1>6 DEF Numbered
  <2> QED
    BY <1>1, <1>2, <1>4, <1>5, <1>8, <1>9, <1>10, <1>11, <2>1 DEF Connects, Core
<1> QED
  BY <1>1, <1>2, <1>3, <1>9, <1>12, EmitMoves DEF Acted

LEMMA DataSendMoves ==
  ASSUME SessionInv, BelowWrap, NEW e \in Ends, DataSend(e)
  PROVE  \E d : Moving(e, d)
<1> DEFINE c == con[e]
           k == IF Len(c.fifo_send) < MaxPacket THEN Len(c.fifo_send) ELSE MaxPacket
           msgs == SubSeq(c.fifo_send, 1, k)
           d == [c EXCEPT !.fifo_send = SubSeq(@, k + 1, Len(@)),
                          !.fifo_retr = Push(@, [sn |-> c.sn_t, msgs |-> msgs], RetrCap)]
           f == [SendPdu(e, d, "Data", c.ts_r, msgs) EXCEPT !.hb_call = now]
<1>1. c.state \in Open /\ Emit(e, f) /\ k > 0
  BY DEF DataSend
<1>2. c \in Whole /\ Wired(c) /\ c.out = << >> /\ TypeInv /\ Times
  BY AtRest, InvTimes DEF SessionInv
<1>3. c.sn_t \in Nat /\ Room(c)
  BY <1>2, CountFields DEF Room, BelowWrap
<1> HIDE DEF c
<1>4. PICK waiting \in Seq(Nat), l \in Nat, most \in Nat :
        waiting = c.fifo_send /\ l = Len(waiting) /\ most = 2 * MaxPacket /\ l <= most
  <2>1. c.fifo_send \in Seq(Nat) /\ Len(c.fifo_send) \in 0 .. 2 * MaxPacket
    BY <1>2, Fields
  <2>2. PICK most \in Nat : most = 2 * MaxPacket
    BY ConstantFacts
  <2>3. Len(c.fifo_send) \in Nat /\ Len(c.fifo_send) <= most
    BY <2>1, <2>2
  <2> QED
    BY <2>1, <2>2, <2>3
<1>5. k \in 1 .. l
  <2>1. PICK packet \in Nat : packet = MaxPacket
    BY ConstantFacts
  <2>2. k = IF l < packet THEN l ELSE packet
    BY <1>4, <2>1
  <2> HIDE DEF k
  <2> QED
    BY <1>1, <1>4, <2>1, <2>2
<1> HIDE DEF k
<1>6. PICK later \in Seq(Nat) : later = SubSeq(waiting, k + 1, l) /\ Len(later) <= most
  <2>1. SubSeq(waiting, k + 1, l) \in Seq(Nat) /\ Len(SubSeq(waiting, k + 1, l)) = l - k
    BY <1>4, <1>5
  <2>2. l - k <= most
    BY <1>4, <1>5
  <2> QED
    BY <2>1, <2>2
<1>7. msgs \in Seq(Nat) /\ msgs = SubSeq(waiting, 1, k)
  BY <1>4, <1>5
<1> HIDE DEF msgs
<1>8. PICK held \in Held : held = [sn |-> c.sn_t, msgs |-> msgs]
  BY <1>2, <1>7, Fields DEF Held
<1>9. PICK fifo \in Seq(Held) : /\ fifo = Push(c.fifo_retr, held, RetrCap)
                                /\ Len(fifo) <= RetrCap
                                /\ fifo = c.fifo_retr \/ fifo = Append(c.fifo_retr, held)
  <2>1. c.fifo_retr \in Seq(Held) /\ Len(c.fifo_retr) \in Nat /\ Len(c.fifo_retr) <= RetrCap
    BY <1>2, Fields, ConstantFacts
  <2>2. CASE Len(c.fifo_retr) < RetrCap
    <3>1. PICK x : x = Append(c.fifo_retr, held)
      OBVIOUS
    <3>2. x \in Seq(Held) /\ Len(x) = Len(c.fifo_retr) + 1
      BY <2>1, <3>1, AppendProperties
    <3>3. Len(x) <= RetrCap
      BY <2>1, <2>2, <3>2, ConstantFacts
    <3> QED
      BY <2>2, <3>1, <3>2, <3>3 DEF Push
  <2>3. CASE ~(Len(c.fifo_retr) < RetrCap)
    BY <2>1, <2>3 DEF Push
  <2> QED
    BY <2>2, <2>3
<1>10. d = [c EXCEPT !.fifo_send = later, !.fifo_retr = fifo]
  BY <1>4, <1>6, <1>8, <1>9
<1> HIDE DEF d
<1>11. /\ d \in Whole /\ d.sn_t = c.sn_t /\ d.state = c.state /\ d.fifo_retr = fifo
       /\ d.fifo_send = later /\ d.channel = c.channel /\ d.out = << >>
       /\ Missed(c, d) /\ d.cs_r = c.cs_r /\ d.cts_r = c.cts_r /\ d.got = c.got
       /\ d.asked = c.asked
  BY <1>2, <1>4, <1>6, <1>9, <1>10 DEF Whole, Records, Fits, Missed
<1>12. PICK ts \in Nat : ts = c.ts_r
  BY <1>2, Fields
<1>13. PICK q \in Whole :
         /\ q = SendPdu(e, d, "Data", ts, msgs) /\ Core(d, q) /\ q.sn_t = Plus1(d.sn_t)
         /\ q.state = d.state /\ Uttered(d, q, Made(e, d, "Data", ts, msgs))
  BY <1>2, <1>7, <1>11, TypesExist, SendPduExact
<1>14. f = [q EXCEPT !.hb_call = now]
  BY <1>12, <1>13
<1> HIDE DEF f
<1>15. /\ f \in Whole /\ Core(q, f) /\ f.sn_t = q.sn_t /\ f.state = q.state /\ f.out = q.out
  BY <1>2, <1>14 DEF Core, Whole, Records, Fits, Times
<1>16. c.channel
  BY <1>1, <1>2 DEF Wired
<1>17. PICK x \in Made(e, d, "Data", ts, msgs) : f.out = Append(<< >>, x)
  BY <1>11, <1>13, <1>15, <1>16 DEF Uttered
<1>18. Len(f.out) = 1 /\ f.out[1] = x
  BY <1>17
<1>19. Says(e, c, x, "Data", c.sn_t) /\ x.pdu.cts = c.ts_r /\ x.pdu.msgs = msgs
  BY <1>11, <1>12 DEF Made, Pdu, Says, Missed
<1>20. f.sn_t = c.sn_t + 1
  <2>1. Plus1(c.sn_t) = c.sn_t + 1
    BY <1>2, <1>3, RoomForOne DEF Room
  <2> QED
    BY <1>11, <1>13, <1>15, <2>1
<1>21. Sends(e, c, f)
  <2>1. /\ f.sn_r = c.sn_r /\ f.cs_t = c.cs_t /\ f.cs_r = c.cs_r /\ f.ts_r = c.ts_r
        /\ f.cts_r = c.cts_r /\ f.got = c.got /\ f.asked = c.asked /\ f.state = c.state
        /\ f.fifo_retr = fifo /\ f.fifo_send = later
    BY <1>11, <1>13, <1>15 DEF Core, Missed
  <2>2. /\ k \in 1 .. Len(c.fifo_send)
        /\ f.fifo_send = SubSeq(c.fifo_send, k + 1, Len(c.fifo_send))
        /\ f.out[1].pdu.msgs = SubSeq(c.fifo_send, 1, k)
        /\ \/ f.fifo_retr = c.fifo_retr
           \/ f.fifo_retr = Append(c.fifo_retr, [sn |-> c.sn_t, msgs |-> f.out[1].pdu.msgs])
    BY <1>4, <1>5, <1>6, <1>7, <1>8, <1>9, <1>18, <1>19, <2>1
  <2> QED
    BY <1>1, <1>15, <1>18, <1>19, <1>20, <2>1, <2>2 DEF Sends
<1>22. Moving(e, f)
  BY <1>1, <1>2, <1>15, <1>21, EmitMoves DEF Acted, c
<1> QED
  BY <1>22

\* Without a restart, every step is a move of an endpoint or the loss of a PDU.
LEMMA NextMoves ==
  ASSUME Unbroken', SessionInv, BelowWrap, [Next]_vars
  PROVE  \/ \E e \in Ends : \E d : Moving(e, d) /\ now' = now
         \/ \E e \in Ends : Drops(e) /\ now' = now
         \/ UNCHANGED <<con, net>> /\ now' \in Nat /\ now' >= now
<1>1. CASE UNCHANGED vars
  <2>1. now \in Nat
    BY InvTimes DEF SessionInv, Times
  <2> QED
    BY <1>1, <2>1 DEF vars
<1>2. CASE Tick
  <2>1. now \in Nat
    BY InvTimes DEF SessionInv, Times
  <2> QED
    BY <1>2, <2>1 DEF Tick
<1>3. ASSUME NEW e \in Ends, Restart(e) PROVE FALSE
  BY <1>3 DEF Restart, Unbroken, SessionInv, TypeInv
<1>4. ASSUME NEW e \in Ends,
             \/ Connect(e) \/ Disconnect(e) \/ \E n \in 1 .. MaxPacket : SrSend(e, n)
             \/ Receive(e) \/ DataSend(e) \/ Expire(e)
      PROVE  (\E d : Moving(e, d)) /\ now' = now
  <2>1. \E d : Moving(e, d)
    BY <1>4, ConnectMoves, DisconnectMoves, SrSendMoves, ReceiveMoves, DataSendMoves,
       ExpireMoves
  <2>1a. \A x : Emit(e, x) => now' = now
    BY DEF Emit
  <2>1b. \A x : Answer(e, x) => now' = now
    BY DEF Answer
  <2>2. CASE Connect(e)
    BY <2>1, <2>1a, <2>2 DEF Connect
  <2>3. CASE Disconnect(e)
    BY <2>1, <2>1a, <2>3 DEF Disconnect
  <2>4. CASE \E n \in 1 .. MaxPacket : SrSend(e, n)
    BY <2>1, <2>1a, <2>4 DEF SrSend
  <2>5. CASE Receive(e)
    <3>1. PICK c, p : IF Accepts([con[e] EXCEPT !.channel = TRUE], Head(net[e]).seq)
                      THEN Process(e, c, p) ELSE Answer(e, c)
      BY <2>5 DEF Receive
    <3>2. Process(e, c, p) => now' = now
      BY <2>1b DEF Process, HandleConReq, HandleConResp, HandleDiscReq, HandleHb,
         HandleHbInStart, HandleData, HandleRetrReq, HandleRetrResp, HandleRetrData
    <3>3. Process(e, c, p) \/ Answer(e, c)
      BY <3>1
    <3> QED
      BY <2>1, <2>1b, <3>2, <3>3
  <2>6. CASE DataSend(e)
    BY <2>1, <2>1a, <2>6 DEF DataSend
  <2>7. CASE Expire(e)
    BY <2>1, <2>1a, <2>7 DEF Expire
  <2> QED
    BY <1>4, <2>1, <2>2, <2>3, <2>4, <2>5, <2>6, <2>7
<1>5. ASSUME NEW e \in Ends, Overflow(e) PROVE Drops(e) /\ now' = now
  BY <1>5, OverflowDrops DEF Overflow
<1> QED
  BY <1>1, <1>2, <1>3, <1>4, <1>5 DEF Next

-----------------------------------------------------------------------------
(***************************************************************************)
(*                     PART IV: THE NUMBERS AND THE CLOCKS                 *)
(*                                                                         *)
(* c is a receiver and g the peer that sends to it, with s on the way to c *)
(* and r on the way to g; first is the number with which g begins, and     *)
(* clock the time of g.                                                    *)
(***************************************************************************)
Ordinary == {"HB", "Data", "RetrReq", "RetrResp", "RetrData"}

\* Those whose echo of a clock is kept.
Echoes == {"HB", "Data", "RetrResp"}

\* A PDU of the peer has been taken.
Took(c) == c.sn_r = Plus1(c.cs_t)

AtNone(c) ==
  c.state = "NONE" =>
    /\ c.sn_t = 0 /\ c.sn_r = 0 /\ c.cs_t = 0 /\ c.cs_r = 0 /\ c.ts_r = 0 /\ c.cts_r = 0
    /\ c.got = << >>

\* Until then there is nothing but the handshake.
Never(c, g, s, r) ==
  ~Took(c) =>
    /\ c.state \in Calm /\ g.state \in Calm /\ c.got = << >>
    /\ Kinds(r) \subseteq {"ConReq", "DiscReq"} /\ Kinds(s) \subseteq Opening

Reaches(first, n, p) ==
  /\ p.type # "DiscReq" => p.sn < n
  /\ p.type \in Ordinary => p.sn > first
  /\ p.type \in {"ConReq", "ConResp"} => p.sn = first

Reach(first, c, g, s, r) ==
  /\ c.sn_r <= g.sn_t
  /\ g.state # "NONE" => g.sn_t > first
  /\ \A i \in 1 .. Len(s) : Reaches(first, g.sn_t, s[i].pdu)
  /\ Unheard(c, r) => c.sn_r <= first + 1

Rising(s) ==
  \A i, j \in 1 .. Len(s) :
    i < j /\ s[i].pdu.type \in Ordinary /\ s[j].pdu.type \in Ordinary =>
      s[i].pdu.sn < s[j].pdu.sn

Ahead(c, s) ==
  \A i \in 1 .. Len(s) : s[i].pdu.type \in Ordinary => s[i].pdu.sn >= c.sn_r

\* What is held for confirmed, and will be confirmed.  A server begins with the
\* number before its first, which may be the last of all.
Acked(c) ==
  /\ c.state # "NONE" =>
       \/ c.cs_r < c.sn_t
       \/ c.cs_r = SnMod - 1 /\ c.state \in {"START", "CLOSED"}
  /\ c.cs_t + 1 < SnMod

Acking(s) == \A i \in 1 .. Len(s) : s[i].pdu.type # "DiscReq" => s[i].pdu.cs + 1 < SnMod

Timely(clock, c, s) ==
  /\ \A i, j \in 1 .. Len(s) : i < j => s[i].pdu.ts <= s[j].pdu.ts
  /\ \A i \in 1 .. Len(s) : c.ts_r <= s[i].pdu.ts /\ s[i].pdu.ts <= clock
  /\ c.ts_r <= clock

Echoed(c, g, s, r) ==
  /\ \A i, j \in 1 .. Len(s) :
       i < j /\ s[i].pdu.type \in Echoes /\ s[j].pdu.type \in Echoes =>
         s[i].pdu.cts <= s[j].pdu.cts
  /\ \A i \in 1 .. Len(s) :
       s[i].pdu.type \in Echoes => c.cts_r <= s[i].pdu.cts /\ s[i].pdu.cts <= g.ts_r
  /\ \A i \in 1 .. Len(s) : s[i].pdu.type = "ConReq" => s[i].pdu.cts = 0
  /\ Took(c) \/ "ConResp" \in Kinds(s) => c.cts_r <= g.ts_r
  /\ ~Took(c) => \A i \in 1 .. Len(r) : r[i].pdu.type = "ConReq" => c.cts_r <= r[i].pdu.ts

Bond(first, clock, c, g, s, r) ==
  /\ AtNone(c) /\ Never(c, g, s, r) /\ Reach(first, c, g, s, r)
  /\ Rising(s) /\ Ahead(c, s) /\ Acked(c) /\ Acking(s)
  /\ Timely(clock, c, s) /\ Echoed(c, g, s, r)

(***************************************************************************)
(* What a move takes, counts and says.                                     *)
(***************************************************************************)
Takes(s, s2, d) ==
  s # << >> /\ s2 = Tail(s) /\ Taken(Head(s).pdu, d) /\ Head(s).pdu.type # "DiscReq"

Serving(e, c, s, d) == s # << >> /\ Serves(e, c, Head(s).pdu, d)

Speaks(e, c, s, d, n, p) ==
  /\ p.ts = Clock(e)
  /\ \/ p.type = "DiscReq"
     \/ /\ p.type \in Ordinary /\ p.sn = c.sn_t + (n - 1) /\ p.sn < d.sn_t
        /\ c.state # "NONE" /\ p.cs = d.cs_t
        /\ p.type \in Echoes => p.cts = d.ts_r
     \/ /\ p.type = "ConReq" /\ p.sn = InitSn[e] /\ p.cs = 0 /\ p.cts = 0
        /\ Connects(e, c, d) /\ p.ts = d.cts_r
     \/ /\ p.type = "ConResp" /\ p.sn = InitSn[e] /\ p.cs = d.cs_t /\ Serving(e, c, s, d)

LEMMA WhatIsTaken ==
  ASSUME NEW e, NEW c, NEW d, NEW s, NEW s2, NEW r, NEW r2, Moves(e, c, d, s, s2, r, r2)
  PROVE  \/ Missed(c, d)
         \/ Connects(e, c, d)
         \/ Takes(s, s2, d)
<1>1. CASE Acted(e, c, d)
  BY <1>1 DEF Acted, Idles, Firm, Sends, Missed
<1>2. CASE s # << >> /\ s2 = Tail(s) /\ Heeded(e, c, Head(s).pdu, d)
  <2>1. PICK p : p = Head(s).pdu
    OBVIOUS
  <2>2. CASE Idles(e, c, d)
    BY <2>2 DEF Idles, Firm, Missed
  <2>3. CASE Hears(e, c, p, d)
    BY <1>2, <2>1, <2>3 DEF Hears, Takes
  <2>4. CASE Delivers(e, c, p, d)
    BY <1>2, <2>1, <2>4 DEF Delivers, Takes
  <2>5. CASE Requests(e, c, p, d)
    BY <2>5 DEF Requests, Core, Missed
  <2>6. CASE Repeats(e, c, p, d)
    <3>1. Taken(p, d) \/ Missed(c, d)
      BY <2>6 DEF Repeats
    <3>2. p.type = "RetrReq"
      BY <2>6 DEF Repeats
    <3> QED
      BY <1>2, <2>1, <3>1, <3>2 DEF Takes
  <2>7. CASE Serves(e, c, p, d)
    BY <1>2, <2>1, <2>7 DEF Serves, Takes
  <2>8. CASE Joins(e, c, p, d)
    BY <1>2, <2>1, <2>8 DEF Joins, Takes
  <2> QED
    BY <1>2, <2>1, <2>2, <2>3, <2>4, <2>5, <2>6, <2>7, <2>8 DEF Heeded
<1> QED
  BY <1>1, <1>2 DEF Moves

LEMMA WhatIsCounted ==
  ASSUME NEW e \in Ends, InitSn[e] + 1 < SnMod, NEW c, NEW d, NEW s, NEW s2, NEW r, NEW r2,
         Moves(e, c, d, s, s2, r, r2)
  PROVE  /\ \/ c.sn_t <= d.sn_t
            \/ d.sn_t = InitSn[e] + 1 /\ (Connects(e, c, d) \/ Serving(e, c, s, d))
         /\ d.state = "NONE" => c.state = "NONE"
         /\ c.state = "NONE" /\ ~Connects(e, c, d) /\ ~Serving(e, c, s, d) =>
              Idles(e, c, d) /\ d.state = "NONE"
         /\ Connects(e, c, d) \/ Serving(e, c, s, d) => d.sn_t = InitSn[e] + 1
<1>1. c.sn_t \in Nat /\ d.sn_t \in Nat
  BY Fields, ConstantFacts DEF Moves, Numbers
<1>2. Plus1(InitSn[e]) = InitSn[e] + 1
  BY NoWrap, ConstantFacts DEF Plus1, Numbers
<1>3. Connects(e, c, d) \/ Serving(e, c, s, d) => d.sn_t = InitSn[e] + 1
  BY <1>2 DEF Connects, Serving, Serves
<1>3a. Idles(e, c, d) => d.sn_t = c.sn_t /\ (d.state = "NONE" <=> c.state = "NONE")
  BY DEF Idles, Firm, Running
<1>4. CASE Acted(e, c, d)
  <2>1. CASE Idles(e, c, d)
    BY <1>1, <1>3, <1>3a, <2>1
  <2>2. CASE Sends(e, c, d)
    BY <1>1, <1>3, <2>2 DEF Sends, Open
  <2>3. CASE Connects(e, c, d)
    BY <1>3, <2>3 DEF Connects
  <2> QED
    BY <1>4, <2>1, <2>2, <2>3 DEF Acted
<1>5. CASE s # << >> /\ s2 = Tail(s) /\ Heeded(e, c, Head(s).pdu, d)
  <2>1. PICK p : p = Head(s).pdu
    OBVIOUS
  <2>2. CASE Idles(e, c, d)
    BY <1>1, <1>3, <1>3a, <2>2
  <2>3. CASE Hears(e, c, p, d)
    BY <1>1, <1>3, <2>3 DEF Hears
  <2>4. CASE Delivers(e, c, p, d)
    BY <1>1, <1>3, <2>4 DEF Delivers
  <2>5. CASE Requests(e, c, p, d)
    BY <1>1, <1>3, <2>5 DEF Requests
  <2>6. CASE Repeats(e, c, p, d)
    <3>1. PICK l \in Nat : l = Len(RemoveConfirmed(c.fifo_retr, p.cs))
      <4>1. c.fifo_retr \in Seq(Held)
        BY Fields DEF Moves
      <4>2. RemoveConfirmed(c.fifo_retr, p.cs) \in Seq(Held)
        BY <4>1, RemoveConfirmedFacts
      <4> QED
        BY <4>2
    <3>2. d.sn_t = c.sn_t + l + 3
      BY <2>6, <3>1 DEF Repeats
    <3>3. c.state # "NONE" /\ d.state # "NONE"
      BY <2>6 DEF Repeats
    <3> QED
      BY <1>1, <1>3, <3>2, <3>3
  <2>7. CASE Serves(e, c, p, d)
    <3>1. Serving(e, c, s, d)
      BY <1>5, <2>1, <2>7 DEF Serving
    <3> QED
      BY <1>3, <2>7, <3>1 DEF Serves
  <2>8. CASE Joins(e, c, p, d)
    BY <1>1, <1>3, <2>8 DEF Joins, Starting
  <2> QED
    BY <1>5, <2>1, <2>2, <2>3, <2>4, <2>5, <2>6, <2>7, <2>8 DEF Heeded
<1> QED
  BY <1>4, <1>5 DEF Moves

LEMMA WhatIsSaid ==
  ASSUME NEW e \in Ends, NEW c, NEW d, NEW s, NEW s2, NEW r, NEW r2, Room(c),
         Moves(e, c, d, s, s2, r, r2)
  PROVE  \A n \in 1 .. Len(d.out) : Speaks(e, c, s, d, n, d.out[n].pdu)
<1>1. PICK b \in Nat, l \in Nat : /\ b = c.sn_t /\ l = d.sn_t
                                  /\ c \in Whole /\ d \in Whole /\ d.out \in Seq(Packets)
  <2>1. c \in Whole /\ d \in Whole
    BY DEF Moves
  <2>2. c.sn_t \in Nat /\ d.sn_t \in Nat /\ d.out \in Seq(Packets)
    BY <2>1, Fields, ConstantFacts DEF Numbers
  <2> QED
    BY <2>1, <2>2
<1>2. ASSUME d.out \in Seq(Goodbyes(e))
      PROVE  \A n \in 1 .. Len(d.out) : Speaks(e, c, s, d, n, d.out[n].pdu)
  <2> SUFFICES ASSUME NEW n \in 1 .. Len(d.out) PROVE Speaks(e, c, s, d, n, d.out[n].pdu)
    OBVIOUS
  <2>1. d.out[n] \in Goodbyes(e)
    BY <1>2
  <2> QED
    BY <2>1 DEF Goodbyes, Speaks
<1>3. ASSUME NEW k, k \in Goodbyes(e)
      PROVE  \A n : Speaks(e, c, s, d, n, k.pdu)
  BY <1>3 DEF Goodbyes, Speaks
\* The first and only PDU.
<1>4. ASSUME NEW type \in Ordinary, Len(d.out) >= 1, Says(e, d, d.out[1], type, b),
             b < l, c.state # "NONE", type \in Echoes => d.out[1].pdu.cts = d.ts_r
      PROVE  Speaks(e, c, s, d, 1, d.out[1].pdu)
  <2>1. b = b + (1 - 1)
    OBVIOUS
  <2> QED
    BY <1>1, <1>4, <2>1 DEF Speaks, Says
<1>5. CASE Acted(e, c, d)
  <2>1. CASE Idles(e, c, d)
    BY <1>2, <2>1 DEF Idles
  <2>2. CASE Sends(e, c, d)
    <3>1. /\ Len(d.out) = 1 /\ Says(e, d, d.out[1], "Data", b) /\ d.out[1].pdu.cts = d.ts_r
          /\ c.state # "NONE" /\ l = b + 1
      BY <1>1, <2>2 DEF Sends, Says, Open
    <3>2. Len(d.out) >= 1 /\ b < l /\ "Data" \in Ordinary
      BY <3>1 DEF Ordinary
    <3>3. Speaks(e, c, s, d, 1, d.out[1].pdu)
      BY <1>4, <3>1, <3>2
    <3>4. \A n \in 1 .. Len(d.out) : n = 1
      BY <3>1
    <3> QED
      BY <3>3, <3>4
  <2>3. CASE Connects(e, c, d)
    <3>1. \A n \in 1 .. Len(d.out) : n = 1
      BY <2>3 DEF Connects
    <3>2. Speaks(e, c, s, d, 1, d.out[1].pdu)
      BY <2>3 DEF Connects, Speaks
    <3> QED
      BY <3>1, <3>2
  <2> QED
    BY <1>5, <2>1, <2>2, <2>3 DEF Acted
<1>6. CASE s # << >> /\ s2 = Tail(s) /\ Heeded(e, c, Head(s).pdu, d)
  <2>1. PICK p : p = Head(s).pdu
    OBVIOUS
  <2>2. CASE Idles(e, c, d) \/ Hears(e, c, p, d) \/ Delivers(e, c, p, d)
    <3>1. d.out \in Seq(Goodbyes(e))
      BY <2>2 DEF Idles, Hears, Delivers
    <3> QED
      BY <1>2, <3>1
  <2>3. CASE Requests(e, c, p, d)
    <3>1. /\ Len(d.out) = 1 /\ Says(e, d, d.out[1], "RetrReq", b)
          /\ c.state # "NONE" /\ l = b + 1
      BY <1>1, <2>3 DEF Requests, Says, Core
    <3>2. /\ Len(d.out) >= 1 /\ b < l /\ "RetrReq" \in Ordinary
          /\ "RetrReq" \notin Echoes
      BY <3>1 DEF Ordinary, Echoes
    <3>3. Speaks(e, c, s, d, 1, d.out[1].pdu)
      BY <1>4, <3>1, <3>2
    <3>4. \A n \in 1 .. Len(d.out) : n = 1
      BY <3>1
    <3> QED
      BY <3>3, <3>4
  <2>4. CASE Repeats(e, c, p, d)
    <3>1. CASE d.out \in Seq(Goodbyes(e))
      BY <1>2, <3>1
    <3>2. CASE Answers(e, c, d)
      <4>1. PICK m \in Nat : m = Len(d.out) /\ m >= 3 /\ m = l - b
        BY <1>1, <3>2 DEF Answers
      <4>2. c.state # "NONE"
        BY <2>4 DEF Repeats
      <4>3. ASSUME NEW n \in 1 .. m, NEW type \in Ordinary,
                   Says(e, d, d.out[n], type, b + (n - 1)),
                   type \in Echoes => d.out[n].pdu.cts = d.ts_r
            PROVE  Speaks(e, c, s, d, n, d.out[n].pdu)
        <5>1. b + (n - 1) < l
          BY <1>1, <4>1
        <5> QED
          BY <1>1, <4>2, <4>3, <5>1 DEF Speaks, Says
      <4>4. Speaks(e, c, s, d, 1, d.out[1].pdu)
        <5>1. Says(e, d, d.out[1], "RetrResp", b) /\ d.out[1].pdu.cts = d.ts_r
          BY <1>1, <3>2 DEF Answers
        <5>2. b + (1 - 1) = b /\ 1 \in 1 .. m /\ "RetrResp" \in Ordinary
          BY <4>1 DEF Ordinary
        <5> QED
          BY <4>3, <5>1, <5>2
      <4>5. Speaks(e, c, s, d, m, d.out[m].pdu)
        <5>1. Says(e, d, d.out[m], "HB", l - 1) /\ d.out[m].pdu.cts = d.ts_r
          BY <1>1, <3>2, <4>1 DEF Answers
        <5>2. b + (m - 1) = l - 1 /\ m \in 1 .. m /\ "HB" \in Ordinary
          BY <1>1, <4>1 DEF Ordinary
        <5> QED
          BY <4>3, <5>1, <5>2
      <4>6. ASSUME NEW n \in 2 .. m - 1
            PROVE  Speaks(e, c, s, d, n, d.out[n].pdu)
        <5>1. Says(e, d, d.out[n], "RetrData", b + (n - 1))
          BY <1>1, <3>2, <4>1 DEF Answers
        <5>2. n \in 1 .. m /\ "RetrData" \in Ordinary /\ "RetrData" \notin Echoes
          BY <4>1 DEF Ordinary, Echoes
        <5> QED
          BY <4>3, <5>1, <5>2
      <4>7. \A n \in 1 .. Len(d.out) : n = 1 \/ n = m \/ n \in 2 .. m - 1
        BY <4>1
      <4> QED
        BY <4>4, <4>5, <4>6, <4>7
    <3> QED
      BY <2>4, <3>1, <3>2 DEF Repeats
  <2>5. CASE Serves(e, c, p, d)
    <3> SUFFICES ASSUME NEW n \in 1 .. Len(d.out)
                 PROVE  Speaks(e, c, s, d, n, d.out[n].pdu)
      OBVIOUS
    <3>1. Serving(e, c, s, d)
      BY <1>6, <2>1, <2>5 DEF Serving
    <3>2. d.out[n] \in Goodbyes(e) \/ Says(e, d, d.out[n], "ConResp", InitSn[e])
      BY <2>5 DEF Serves
    <3>3. CASE Says(e, d, d.out[n], "ConResp", InitSn[e])
      BY <3>1, <3>3 DEF Speaks, Says
    <3> QED
      BY <1>3, <3>2, <3>3
  <2>6. CASE Joins(e, c, p, d)
    <3>1. /\ Len(d.out) >= 1 /\ Says(e, d, d.out[1], "HB", b) /\ d.out[1].pdu.cts = d.ts_r
          /\ c.state # "NONE" /\ l = b + 1
      BY <1>1, <2>6 DEF Joins, Starting
    <3>2. b < l /\ "HB" \in Ordinary
      BY <3>1 DEF Ordinary
    <3>3. Speaks(e, c, s, d, 1, d.out[1].pdu)
      BY <1>4, <3>1, <3>2
    <3>4. \A n \in 2 .. Len(d.out) : Speaks(e, c, s, d, n, d.out[n].pdu)
      BY <1>3, <2>6 DEF Joins
    <3>5. \A n \in 1 .. Len(d.out) : n = 1 \/ n \in 2 .. Len(d.out)
      BY <1>1
    <3> QED
      BY <3>3, <3>4, <3>5
  <2> QED
    BY <1>6, <2>1, <2>2, <2>3, <2>4, <2>5, <2>6 DEF Heeded
<1> QED
  BY <1>5, <1>6 DEF Moves

(***************************************************************************)
(* A move between two endpoints that are bound to each other, before it    *)
(* and with what it finds; g is the peer, which begins with the number     *)
(* first and whose time is clock.                                          *)
(***************************************************************************)
Staged(e, first, clock, c, d, g, s, s2, r, r2) ==
  /\ Moves(e, c, d, s, s2, r, r2)
  /\ g \in Whole /\ s \in Seq(Packets) /\ r \in Seq(Packets)
  /\ Room(c) /\ Room(g) /\ InitSn[e] + RetrCap + 4 <= SnMod /\ first + RetrCap + 4 <= SnMod
  /\ Agreed(c, g, s, r) /\ Agreed(g, c, r, s)
  /\ Bond(first, clock, c, g, s, r)
  /\ Bond(InitSn[e], Clock(e), g, c, r, s)

\* What was on its way to the peer, and what is said now.
Grown(e, c, d, s, r, r2) ==
  \A i \in 1 .. Len(r2) :
    \/ i \in 1 .. Len(r) /\ r2[i] = r[i]
    \/ i > Len(r) /\ Speaks(e, c, s, d, i - Len(r), r2[i].pdu)

LEMMA PduFields ==
  ASSUME NEW s \in Seq(Packets), NEW i \in 1 .. Len(s)
  PROVE  /\ s[i] \in Packets /\ s[i].pdu.type \in Kinds(s)
         /\ s[i].pdu.sn \in Nat /\ s[i].pdu.cs \in Nat
         /\ s[i].pdu.ts \in Nat /\ s[i].pdu.cts \in Nat
<1>1. PICK k \in Packets : k = s[i]
  OBVIOUS
<1>2. k.pdu \in NumberedPdus
  BY DEF Packets
<1>3. k.pdu.sn \in Nat /\ k.pdu.cs \in Nat /\ k.pdu.ts \in Nat /\ k.pdu.cts \in Nat
  BY <1>2, ConstantFacts DEF NumberedPdus, Numbers
<1> QED
  BY <1>1, <1>3 DEF Kinds

LEMMA Frame ==
  ASSUME NEW e \in Ends, NEW first, NEW clock, NEW c, NEW d, NEW g,
         NEW s, NEW s2, NEW r, NEW r2, Staged(e, first, clock, c, d, g, s, s2, r, r2)
  PROVE  /\ s2 \in Seq(Packets) /\ r2 \in Seq(Packets)
         /\ Thinned(s, s2) /\ Kinds(s2) \subseteq Kinds(s)
         /\ Grown(e, c, d, s, r, r2)
         /\ s # << >> => 1 \in 1 .. Len(s) /\ Head(s) = s[1]
         /\ s # << >> => \A i \in 1 .. Len(Tail(s)) : Tail(s)[i] = s[i + 1] /\ i + 1 \in 1 .. Len(s)
<1>1. /\ Moves(e, c, d, s, s2, r, r2) /\ s \in Seq(Packets) /\ r \in Seq(Packets)
      /\ Room(c)
  BY DEF Staged
<1>2. d.out \in Seq(Packets) /\ r2 = r \o d.out
  BY <1>1, Fields DEF Moves
<1>3. s2 = s \/ (s # << >> /\ s2 = Tail(s))
  BY <1>1 DEF Moves
<1>4. s2 \in Seq(Packets) /\ Thinned(s, s2)
  BY <1>1, <1>3, AllIsThinned, TailIsThinned
<1>5. Kinds(s2) \subseteq Kinds(s)
  BY <1>1, <1>4, ThinnedKinds
<1>6. \A n \in 1 .. Len(d.out) : Speaks(e, c, s, d, n, d.out[n].pdu)
  BY <1>1, WhatIsSaid
<1>7. r2 \in Seq(Packets) /\ Grown(e, c, d, s, r, r2)
  <2>1. \A i \in 1 .. Len(r2) :
          \/ i \in 1 .. Len(r) /\ r2[i] = r[i]
          \/ /\ i > Len(r) /\ i - Len(r) \in 1 .. Len(d.out) /\ r2[i] = d.out[i - Len(r)]
    BY <1>1, <1>2, JoinedKinds
  <2>2. r2 \in Seq(Packets)
    BY <1>1, <1>2, JoinedKinds
  <2> SUFFICES ASSUME NEW i \in 1 .. Len(r2)
               PROVE  \/ i \in 1 .. Len(r) /\ r2[i] = r[i]
                      \/ i > Len(r) /\ Speaks(e, c, s, d, i - Len(r), r2[i].pdu)
    BY <2>2 DEF Grown
  <2>3. CASE i \in 1 .. Len(r) /\ r2[i] = r[i]
    BY <2>3
  <2>4. CASE i > Len(r) /\ i - Len(r) \in 1 .. Len(d.out) /\ r2[i] = d.out[i - Len(r)]
    <3>1. PICK n \in 1 .. Len(d.out) : n = i - Len(r) /\ r2[i] = d.out[n]
      BY <2>4
    <3>2. Speaks(e, c, s, d, n, r2[i].pdu)
      BY <1>6, <3>1
    <3> QED
      BY <2>4, <3>1, <3>2
  <2> QED
    BY <2>1, <2>3, <2>4
<1>8. s # << >> => 1 \in 1 .. Len(s) /\ Head(s) = s[1]
  BY <1>1, TailIsThinned
<1>9. s # << >> => \A i \in 1 .. Len(Tail(s)) : Tail(s)[i] = s[i + 1] /\ i + 1 \in 1 .. Len(s)
  BY <1>1, TailIsThinned
<1> QED
  BY <1>4, <1>5, <1>7, <1>8, <1>9

\* As long as a connection is calm and only a handshake arrives, it is all there is.
LEMMA CalmMoves ==
  ASSUME NEW e \in Ends, NEW c, NEW d, NEW g, NEW s \in Seq(Packets), NEW s2, NEW r, NEW r2,
         Moves(e, c, d, s, s2, r, r2), Opens(c, g, s, r),
         c.state \in Calm, Kinds(s) \subseteq Opening
  PROVE  \/ Idles(e, c, d) \/ Connects(e, c, d) \/ Serving(e, c, s, d)
         \/ s # << >> /\ Joins(e, c, Head(s).pdu, d)
<1>1. s # << >> => Head(s).pdu.type \in Opening
  BY TailIsThinned
<1>2. ~(s # << >> /\ Hears(e, c, Head(s).pdu, d))
  BY <1>1 DEF Hears, Opening
<1>3. CASE Acted(e, c, d)
  <2>1. ~Sends(e, c, d)
    <3>1. SUFFICES ASSUME Sends(e, c, d) PROVE FALSE
      OBVIOUS
    <3>2. c.state = "START"
      BY <3>1 DEF Sends, Open, Calm
    <3>3. c.fifo_send = << >>
      BY <3>2 DEF Opens, Fresh
    <3>4. Len(c.fifo_send) = 0
      BY <3>3
    <3>5. \A k \in 1 .. 0 : FALSE
      OBVIOUS
    <3> QED
      BY <3>1, <3>4, <3>5 DEF Sends
  <2> QED
    BY <1>2, <1>3, <2>1 DEF Acted
<1>4. CASE s # << >> /\ s2 = Tail(s) /\ Heeded(e, c, Head(s).pdu, d)
  <2>1. PICK p : p = Head(s).pdu /\ p.type \in Opening
    BY <1>1, <1>4
  <2>2. ~Delivers(e, c, p, d) /\ ~Requests(e, c, p, d) /\ ~Repeats(e, c, p, d)
    BY <2>1 DEF Delivers, Requests, Repeats, Opening
  <2> QED
    BY <1>2, <1>4, <2>1, <2>2 DEF Heeded, Serving
<1> QED
  BY <1>3, <1>4 DEF Moves

(***************************************************************************)
(* What becomes of the endpoint that moves.                                *)
(***************************************************************************)
\* The first PDU of s is taken.
Taking(c, d, g, s, s2, p) ==
  /\ p \in NumberedPdus /\ 1 \in 1 .. Len(s) /\ s[1] \in Packets /\ p = s[1].pdu
  /\ s # << >> /\ Head(s) = s[1] /\ s2 = Tail(s)
  /\ Taken(p, d) /\ p.type # "DiscReq" /\ p.type \in Kinds(s)
  /\ p.sn \in Nat /\ p.ts \in Nat /\ p.cts \in Nat
  /\ p.sn < g.sn_t /\ p.sn + 1 < SnMod /\ d.sn_r = p.sn + 1
  /\ \A i \in 1 .. Len(s2) : s2[i] = s[i + 1] /\ i + 1 \in 1 .. Len(s)

LEMMA TakesIsTaking ==
  ASSUME NEW e \in Ends, NEW first \in Nat, NEW clock \in Nat, NEW c, NEW d, NEW g,
         NEW s, NEW s2, NEW r, NEW r2, Staged(e, first, clock, c, d, g, s, s2, r, r2),
         Takes(s, s2, d)
  PROVE  Taking(c, d, g, s, s2, Head(s).pdu)
<1>1. /\ Moves(e, c, d, s, s2, r, r2) /\ s \in Seq(Packets) /\ Bond(first, clock, c, g, s, r)
      /\ Room(g) /\ g \in Whole
  BY DEF Staged
<1>2. PICK p : p = s[1].pdu
  OBVIOUS
<1>3. /\ s # << >> /\ 1 \in 1 .. Len(s) /\ Head(s) = s[1] /\ s2 = Tail(s)
  BY <1>1, TailIsThinned DEF Takes
<1>4. \A i \in 1 .. Len(s2) : s2[i] = s[i + 1] /\ i + 1 \in 1 .. Len(s)
  BY <1>1, <1>3, TailIsThinned
<1>5. /\ s[1] \in Packets /\ p.type \in Kinds(s) /\ p.sn \in Nat
      /\ p.ts \in Nat /\ p.cts \in Nat
  BY <1>1, <1>2, <1>3, PduFields
<1>6. p \in NumberedPdus
  BY <1>2, <1>5 DEF Packets
<1>7. Taken(p, d) /\ p.type # "DiscReq"
  BY <1>2, <1>3 DEF Takes
<1>8. p.sn < g.sn_t
  BY <1>1, <1>2, <1>3, <1>7 DEF Bond, Reach, Reaches
<1>9. p.sn + 1 < SnMod
  <2>1. g.sn_t \in Nat /\ SnMod \in Nat /\ RetrCap \in Nat
    BY <1>1, Fields, ConstantFacts DEF Numbers
  <2> QED
    BY <1>1, <1>5, <1>8, <2>1 DEF Room
<1>10. d.sn_r = p.sn + 1
  BY <1>5, <1>7, <1>9, NoWrap DEF Taken, Plus1
<1> QED
  BY <1>2, <1>3, <1>4, <1>5, <1>6, <1>7, <1>8, <1>9, <1>10 DEF Taking

LEMMA MissedOrTaking ==
  ASSUME NEW e \in Ends, NEW first \in Nat, NEW clock \in Nat, NEW c, NEW d, NEW g,
         NEW s, NEW s2, NEW r, NEW r2, Staged(e, first, clock, c, d, g, s, s2, r, r2)
  PROVE  Missed(c, d) \/ \E p : Taking(c, d, g, s, s2, p)
<1>1. Moves(e, c, d, s, s2, r, r2) /\ AtNone(c)
  BY DEF Staged, Bond
<1>2. Connects(e, c, d) => Missed(c, d)
  BY <1>1 DEF Connects, Missed, AtNone
<1> QED
  BY <1>1, <1>2, WhatIsTaken, TakesIsTaking

\* Nothing taken yet: nothing but the handshake happens.
LEMMA NotYet ==
  ASSUME NEW e \in Ends, NEW first \in Nat, NEW clock \in Nat, NEW c, NEW d, NEW g,
         NEW s, NEW s2, NEW r, NEW r2, Staged(e, first, clock, c, d, g, s, s2, r, r2),
         ~Took(d)
  PROVE  /\ ~Took(c) /\ c.state \in Calm /\ Kinds(s) \subseteq Opening
         /\ Idles(e, c, d) \/ Connects(e, c, d)
<1>1. /\ Moves(e, c, d, s, s2, r, r2) /\ s \in Seq(Packets) /\ Bond(first, clock, c, g, s, r)
      /\ Opens(c, g, s, r)
  BY DEF Staged, Agreed
<1>2. Missed(c, d)
  BY MissedOrTaking DEF Taking, Taken, Took
<1>3. ~Took(c)
  BY <1>2 DEF Missed, Took
<1>4. c.state \in Calm /\ Kinds(s) \subseteq Opening
  BY <1>1, <1>3 DEF Bond, Never
<1>5. ~Serving(e, c, s, d) /\ ~(s # << >> /\ Joins(e, c, Head(s).pdu, d))
  BY DEF Serving, Serves, Joins, Taken, Took
<1> QED
  BY <1>1, <1>3, <1>4, <1>5, CalmMoves

LEMMA KindsSaid ==
  ASSUME NEW e \in Ends, NEW first \in Nat, NEW clock \in Nat, NEW c, NEW d, NEW g,
         NEW s, NEW s2, NEW r, NEW r2, Staged(e, first, clock, c, d, g, s, s2, r, r2)
  PROVE  /\ Idles(e, c, d) => Kinds(r2) \subseteq Kinds(r) \cup {"DiscReq"}
         /\ Connects(e, c, d) => Kinds(r2) \subseteq Kinds(r) \cup {"ConReq"}
         /\ Serving(e, c, s, d) => Kinds(r2) \subseteq Kinds(r) \cup {"DiscReq", "ConResp"}
<1>1. Moves(e, c, d, s, s2, r, r2) /\ r \in Seq(Packets)
  BY DEF Staged
<1>2. d.out \in Seq(Packets) /\ r2 = r \o d.out
  BY <1>1, Fields DEF Moves
<1>3. Kinds(r2) = Kinds(r) \cup Kinds(d.out)
  BY <1>1, <1>2, JoinedKinds
<1>4. Idles(e, c, d) => Kinds(d.out) \subseteq {"DiscReq"}
  <2>1. ASSUME Idles(e, c, d), NEW i \in 1 .. Len(d.out) PROVE d.out[i].pdu.type = "DiscReq"
    <3>1. d.out[i] \in Goodbyes(e)
      BY <2>1 DEF Idles
    <3> QED
      BY <3>1 DEF Goodbyes
  <2> QED
    BY <2>1 DEF Kinds
<1>5. Connects(e, c, d) => Kinds(d.out) \subseteq {"ConReq"}
  <2>1. ASSUME Connects(e, c, d), NEW i \in 1 .. Len(d.out) PROVE i = 1
    BY <2>1 DEF Connects
  <2>2. Connects(e, c, d) => d.out[1].pdu.type = "ConReq"
    BY DEF Connects
  <2> QED
    BY <2>1, <2>2 DEF Kinds
<1>6. Serving(e, c, s, d) => Kinds(d.out) \subseteq {"DiscReq", "ConResp"}
  <2>1. ASSUME Serving(e, c, s, d), NEW i \in 1 .. Len(d.out)
        PROVE  d.out[i].pdu.type \in {"DiscReq", "ConResp"}
    BY <2>1 DEF Serving, Serves, Goodbyes, Says
  <2> QED
    BY <2>1 DEF Kinds
<1> QED
  BY <1>3, <1>4, <1>5, <1>6

LEMMA ActorBegins ==
  ASSUME NEW e \in Ends, NEW first \in Nat, NEW clock \in Nat, NEW c, NEW d, NEW g,
         NEW s, NEW s2, NEW r, NEW r2, Staged(e, first, clock, c, d, g, s, s2, r, r2)
  PROVE  AtNone(d) /\ Never(d, g, s2, r2)
<1>1. /\ Moves(e, c, d, s, s2, r, r2) /\ Bond(first, clock, c, g, s, r)
      /\ AtNone(c) /\ Never(c, g, s, r)
  BY DEF Staged, Bond
<1>2. AtNone(d)
  <2>1. SUFFICES ASSUME d.state = "NONE" PROVE AtNone(d)
    BY DEF AtNone
  <2>2. InitSn[e] + 1 < SnMod
    BY ConstantFacts DEF Staged, Numbers
  <2>3. c.state = "NONE"
    BY <1>1, <2>1, <2>2, WhatIsCounted
  <2>4. ~Connects(e, c, d) /\ ~Serving(e, c, s, d)
    BY <2>1 DEF Connects, Serving, Serves
  <2>5. Idles(e, c, d)
    BY <1>1, <2>2, <2>3, <2>4, WhatIsCounted
  <2> QED
    BY <1>1, <2>3, <2>5 DEF Idles, Firm, AtNone
<1>3. Never(d, g, s2, r2)
  <2>1. SUFFICES ASSUME ~Took(d) PROVE Never(d, g, s2, r2)
    BY DEF Never
  <2>2. /\ ~Took(c) /\ c.state \in Calm /\ Kinds(s) \subseteq Opening
        /\ Idles(e, c, d) \/ Connects(e, c, d)
    BY <2>1, NotYet
  <2>3. g.state \in Calm /\ c.got = << >> /\ Kinds(r) \subseteq {"ConReq", "DiscReq"}
    BY <1>1, <2>2 DEF Never
  <2>4. Kinds(s2) \subseteq Opening
    BY <2>2, Frame
  <2>5. Kinds(r2) \subseteq {"ConReq", "DiscReq"}
    BY <2>2, <2>3, KindsSaid
  <2>6. d.state \in Calm /\ d.got = << >>
    BY <2>2, <2>3 DEF Idles, Connects, Calm, Running
  <2> QED
    BY <2>3, <2>4, <2>5, <2>6 DEF Never
<1> QED
  BY <1>2, <1>3

LEMMA ActorReaches ==
  ASSUME NEW e \in Ends, NEW first \in Nat, NEW clock \in Nat, NEW c, NEW d, NEW g,
         NEW s, NEW s2, NEW r, NEW r2, Staged(e, first, clock, c, d, g, s, s2, r, r2)
  PROVE  Reach(first, d, g, s2, r2)
<1>1. /\ Moves(e, c, d, s, s2, r, r2) /\ Reach(first, c, g, s, r) /\ Waits(g, c, r, s)
      /\ c \in Whole /\ d \in Whole /\ g \in Whole /\ s \in Seq(Packets)
  BY DEF Staged, Bond, Agreed, Moves
<1>2. PICK m \in Nat, n \in Nat, l \in Nat : m = c.sn_r /\ n = d.sn_r /\ l = g.sn_t
  BY <1>1, CountFields
<1>3. Missed(c, d) \/ \E p : Taking(c, d, g, s, s2, p)
  BY MissedOrTaking
<1>4. d.sn_r <= g.sn_t
  <2>1. CASE Missed(c, d)
    BY <1>1, <2>1 DEF Missed, Reach
  <2>2. CASE \E p : Taking(c, d, g, s, s2, p)
    <3>1. PICK p : Taking(c, d, g, s, s2, p)
      BY <2>2
    <3>2. p.sn \in Nat /\ p.sn < g.sn_t /\ d.sn_r = p.sn + 1
      BY <3>1 DEF Taking
    <3>3. PICK q \in Nat : q = p.sn /\ q < l /\ n = q + 1
      BY <1>2, <3>2
    <3> QED
      BY <1>2, <3>3
  <2> QED
    BY <1>3, <2>1, <2>2
<1>5. \A i \in 1 .. Len(s2) : Reaches(first, g.sn_t, s2[i].pdu)
  <2>1. Thinned(s, s2)
    BY Frame
  <2>2. \A i \in 1 .. Len(s2) : \E j \in 1 .. Len(s) : s2[i] = s[j]
    BY <2>1 DEF Thinned
  <2>3. \A j \in 1 .. Len(s) : Reaches(first, g.sn_t, s[j].pdu)
    BY <1>1 DEF Reach
  <2> QED
    BY <2>2, <2>3
<1>6. ASSUME Unheard(d, r2) PROVE d.sn_r <= first + 1
  <2>1. Unheard(c, r)
    <3>1. InitSn[e] + 1 < SnMod
      BY ConstantFacts DEF Staged, Numbers
    <3>2. CASE d.state = "NONE"
      <4>1. c.state = "NONE"
        BY <1>1, <3>1, <3>2, WhatIsCounted
      <4> QED
        BY <4>1 DEF Unheard
    <3>3. CASE "ConReq" \in Kinds(r2)
      <4>1. PICK i \in 1 .. Len(r2) : r2[i].pdu.type = "ConReq"
        BY <3>3 DEF Kinds
      <4>2. CASE i \in 1 .. Len(r) /\ r2[i] = r[i]
        BY <4>1, <4>2 DEF Unheard, Kinds
      <4>3. CASE Speaks(e, c, s, d, i - Len(r), r2[i].pdu)
        <5>1. Connects(e, c, d)
          BY <4>1, <4>3 DEF Speaks, Ordinary
        <5> QED
          BY <5>1 DEF Connects, Unheard
      <4> QED
        BY <4>2, <4>3, Frame DEF Grown
    <3> QED
      BY <1>6, <3>2, <3>3 DEF Unheard
  <2>2. CASE Missed(c, d)
    BY <1>1, <2>1, <2>2 DEF Missed, Reach
  <2>3. CASE \E p : Taking(c, d, g, s, s2, p)
    <3>1. PICK p : Taking(c, d, g, s, s2, p)
      BY <2>3
    <3>2. p.type = "ConReq"
      BY <1>1, <2>1, <3>1 DEF Waits, Taking
    <3>3. p.sn = first /\ d.sn_r = p.sn + 1
      BY <1>1, <3>1, <3>2 DEF Taking, Reach, Reaches
    <3> QED
      BY <3>3
  <2> QED
    BY <1>3, <2>2, <2>3
<1> QED
  BY <1>1, <1>4, <1>5, <1>6 DEF Reach

\* What holds of the PDUs on their way holds of those that are left.
LEMMA LeftOver ==
  ASSUME NEW s \in Seq(Packets), NEW s2 \in Seq(Packets), Thinned(s, s2)
  PROVE  /\ Rising(s) => Rising(s2)
         /\ Acking(s) => Acking(s2)
         /\ \A c : Ahead(c, s) => Ahead(c, s2)
         /\ \A clock, c : Timely(clock, c, s) => Timely(clock, c, s2)
<1>1. PICK h \in [1 .. Len(s2) -> 1 .. Len(s)] :
        /\ \A i \in 1 .. Len(s2) : s2[i] = s[h[i]]
        /\ \A i, j \in 1 .. Len(s2) : i < j => h[i] < h[j]
  BY DEF Thinned
<1>2. Rising(s) => Rising(s2)
  BY <1>1 DEF Rising
<1>3. Acking(s) => Acking(s2)
  BY <1>1 DEF Acking
<1>4. \A c : Ahead(c, s) => Ahead(c, s2)
  BY <1>1 DEF Ahead
<1>5. ASSUME NEW clock, NEW c, Timely(clock, c, s) PROVE Timely(clock, c, s2)
  <2>1. \A i, j \in 1 .. Len(s2) : i < j => s2[i].pdu.ts <= s2[j].pdu.ts
    BY <1>1, <1>5 DEF Timely
  <2>2. \A i \in 1 .. Len(s2) : c.ts_r <= s2[i].pdu.ts /\ s2[i].pdu.ts <= clock
    BY <1>1, <1>5 DEF Timely
  <2> QED
    BY <1>5, <2>1, <2>2 DEF Timely
<1> QED
  BY <1>2, <1>3, <1>4, <1>5

LEMMA ActorKeepsAhead ==
  ASSUME NEW e \in Ends, NEW first \in Nat, NEW clock \in Nat, NEW c, NEW d, NEW g,
         NEW s, NEW s2, NEW r, NEW r2, Staged(e, first, clock, c, d, g, s, s2, r, r2)
  PROVE  Rising(s2) /\ Acking(s2) /\ Ahead(d, s2) /\ Timely(clock, d, s2)
<1>1. /\ Moves(e, c, d, s, s2, r, r2) /\ s \in Seq(Packets) /\ s2 \in Seq(Packets)
      /\ Rising(s) /\ Acking(s) /\ Ahead(c, s) /\ Timely(clock, c, s)
      /\ Reach(first, c, g, s, r) /\ Thinned(s, s2)
  BY Frame DEF Staged, Bond
<1>2. Rising(s2) /\ Acking(s2) /\ Ahead(c, s2) /\ Timely(clock, c, s2)
  BY <1>1, LeftOver
<1>3. CASE Missed(c, d)
  BY <1>2, <1>3 DEF Missed, Ahead, Timely
<1>4. CASE \E p : Taking(c, d, g, s, s2, p)
  <2>1. PICK p : Taking(c, d, g, s, s2, p)
    BY <1>4
  <2>2. ASSUME NEW i \in 1 .. Len(s2) PROVE s2[i].pdu.ts >= d.ts_r /\ s2[i].pdu.ts <= clock
    <3>1. s2[i] = s[i + 1] /\ i + 1 \in 1 .. Len(s) /\ 1 \in 1 .. Len(s) /\ 1 < i + 1
      BY <2>1 DEF Taking
    <3>2. s[1].pdu.ts <= s[i + 1].pdu.ts
      BY <1>1, <3>1 DEF Timely
    <3>3. s2[i].pdu.ts <= clock
      BY <1>2 DEF Timely
    <3>4. d.ts_r = s[1].pdu.ts
      BY <2>1 DEF Taking, Taken
    <3>5. s[1].pdu.ts \in Nat /\ s[i + 1].pdu.ts \in Nat
      BY <1>1, <3>1, PduFields
    <3> QED
      BY <3>1, <3>2, <3>3, <3>4, <3>5
  <2>3. ASSUME NEW i \in 1 .. Len(s2), s2[i].pdu.type \in Ordinary
        PROVE  s2[i].pdu.sn >= d.sn_r
    <3>1. s2[i] = s[i + 1] /\ i + 1 \in 1 .. Len(s) /\ 1 \in 1 .. Len(s) /\ 1 < i + 1
      BY <2>1 DEF Taking
    <3>2. PICK x \in Nat, y \in Nat : x = s[1].pdu.sn /\ y = s[i + 1].pdu.sn
      BY <1>1, <3>1, PduFields
    <3>3. d.sn_r = x + 1
      BY <2>1, <3>2 DEF Taking
    <3>4. CASE p.type \in Ordinary
      <4>1. x < y
        BY <1>1, <2>1, <2>3, <3>1, <3>2, <3>4 DEF Rising, Taking
      <4> QED
        BY <3>1, <3>2, <3>3, <4>1
    <3>5. CASE p.type \notin Ordinary
      <4>1. p.type \in {"ConReq", "ConResp"}
        BY <2>1, <3>5 DEF Taking, Ordinary, NumberedPdus, Types
      <4>2. x = first
        BY <1>1, <2>1, <3>1, <3>2, <4>1 DEF Reach, Reaches, Taking
      <4>3. y > first
        BY <1>1, <2>3, <3>1, <3>2 DEF Reach, Reaches
      <4> QED
        BY <3>1, <3>2, <3>3, <4>2, <4>3
    <3> QED
      BY <3>4, <3>5
  <2>4. d.ts_r <= clock
    <3>1. s[1].pdu.ts <= clock
      BY <1>1, <2>1 DEF Timely, Taking
    <3> QED
      BY <2>1, <3>1 DEF Taking, Taken
  <2>5. Ahead(d, s2)
    BY <2>3 DEF Ahead
  <2>6. Timely(clock, d, s2)
    <3>1. \A i \in 1 .. Len(s2) : d.ts_r <= s2[i].pdu.ts /\ s2[i].pdu.ts <= clock
      <4>1. d.ts_r \in Nat
        BY <1>1, Fields DEF Moves
      <4>2. \A i \in 1 .. Len(s2) : s2[i].pdu.ts \in Nat
        BY <1>1, PduFields
      <4> QED
        BY <2>2, <4>1, <4>2
    <3> QED
      BY <1>2, <2>4, <3>1 DEF Timely
  <2> QED
    BY <1>2, <2>5, <2>6
<1> QED
  BY <1>3, <1>4, MissedOrTaking

\* A PDU that passes the check confirms no more than has been sent, and no less
\* than was confirmed before.
LEMMA Confirmed ==
  ASSUME NEW c \in Whole, NEW p \in NumberedPdus, CsValid(c, p), p.cs + 1 < SnMod,
         p.type \notin {"ConReq", "ConResp"},
         c.cs_r < c.sn_t \/ c.cs_r = SnMod - 1
  PROVE  c.cs_r <= p.cs /\ p.cs < c.sn_t
<1>1. PICK x \in Nat, y \in Nat, z \in Nat, w \in Nat :
        x = c.cs_r /\ y = c.sn_t /\ z = p.cs /\ w = SnMod /\ x < w /\ y < w /\ z < w
  BY CountFields, ConstantFacts DEF NumberedPdus, Numbers
<1>2. z >= x /\ (z - x) % w < (y - x) % w
  BY <1>1 DEF CsValid, Minus
<1>3. x < y
  BY <1>1, <1>2
<1>4. (z - x) % w = z - x /\ (y - x) % w = y - x
  <2>1. z - x \in 0 .. w - 1 /\ y - x \in 0 .. w - 1
    BY <1>1, <1>2, <1>3
  <2> QED
    <3>1. ASSUME NEW v \in 0 .. w - 1 PROVE v % w = v
      <4>1. v \in Int /\ v \in Numbers
        BY <1>1 DEF Numbers
      <4> QED
        BY <1>1, <4>1, ModFacts
    <3> QED
      BY <2>1, <3>1
<1> QED
  BY <1>1, <1>2, <1>4

LEMMA BeforeNext ==
  ASSUME NEW n \in Numbers
  PROVE  /\ n > 0 => Minus(n, 1) = n - 1
         /\ n = 0 => Minus(n, 1) = SnMod - 1
<1>1. n - 1 \in Int
  BY ConstantFacts DEF Numbers
<1>2. CASE n > 0
  <2>1. n - 1 \in Numbers
    BY <1>2, ConstantFacts DEF Numbers
  <2> QED
    BY <1>1, <1>2, <2>1, ModFacts DEF Minus
<1>3. CASE n = 0
  <2>1. n - 1 \in -SnMod .. -1 /\ (n - 1) + SnMod = SnMod - 1
    BY <1>3, ConstantFacts
  <2> QED
    BY <1>1, <1>3, <2>1, ModFacts DEF Minus
<1> QED
  BY <1>2, <1>3, ConstantFacts DEF Numbers

LEMMA ActorKeepsAcked ==
  ASSUME NEW e \in Ends, NEW first \in Nat, NEW clock \in Nat, NEW c, NEW d, NEW g,
         NEW s, NEW s2, NEW r, NEW r2, Staged(e, first, clock, c, d, g, s, s2, r, r2)
  PROVE  Acked(d)
<1>1. /\ Moves(e, c, d, s, s2, r, r2) /\ c \in Whole /\ d \in Whole /\ s \in Seq(Packets)
      /\ AtNone(c) /\ Acked(c) /\ Acking(s) /\ Room(c)
      /\ Reach(InitSn[e], g, c, r, s) /\ InitSn[e] + RetrCap + 4 <= SnMod
  BY DEF Staged, Bond, Moves
<1>2. PICK x \in Nat, y \in Nat, y2 \in Nat, w \in Nat, n \in Nat :
        /\ x = c.cs_r /\ y = c.sn_t /\ y2 = d.sn_t /\ w = SnMod /\ n = InitSn[e]
        /\ n + 1 < w /\ y < w
  <2>1. InitSn[e] \in Nat /\ InitSn[e] + 1 < SnMod
    BY <1>1, ConstantFacts DEF Numbers
  <2> QED
    BY <1>1, <2>1, CountFields, ConstantFacts
<1>3. d.cs_t + 1 < SnMod
  <2>1. CASE Missed(c, d)
    BY <1>1, <2>1 DEF Missed, Acked
  <2>2. CASE \E p : Taking(c, d, g, s, s2, p)
    BY <2>2 DEF Taking, Taken
  <2> QED
    BY <2>1, <2>2, MissedOrTaking
<1>4. Plus1(InitSn[e]) = n + 1
  BY <1>2, NoWrap DEF Plus1
<1>5. c.state # "NONE" => y > n /\ (x < y \/ (x = w - 1 /\ c.state \in {"START", "CLOSED"}))
  <2>1. c.state # "NONE" => y > n
    BY <1>1, <1>2 DEF Reach
  <2>2. c.state # "NONE" => x < y \/ (x = w - 1 /\ c.state \in {"START", "CLOSED"})
    BY <1>1, <1>2 DEF Acked
  <2> QED
    BY <2>1, <2>2
<1>6. c.state # "NONE" => Minus(c.sn_t, 1) = y - 1
  <2>1. c.sn_t \in Numbers
    BY <1>1, Fields
  <2> QED
    BY <1>2, <1>5, <2>1, BeforeNext
<1>7. ASSUME d.state # "NONE"
      PROVE  d.cs_r < y2 \/ (d.cs_r = w - 1 /\ d.state \in {"START", "CLOSED"})
  <2>1. CASE Acted(e, c, d)
    <3>1. CASE Idles(e, c, d)
      <4>1. d.cs_r = x /\ y2 = y /\ c.state # "NONE"
        BY <1>2, <1>7, <3>1 DEF Idles, Firm, Running
      <4>2. c.state \in {"START", "CLOSED"} => d.state \in {"START", "CLOSED"}
        BY <3>1 DEF Idles, Running
      <4> QED
        BY <1>5, <4>1, <4>2
    <3>2. CASE Sends(e, c, d)
      <4>1. d.cs_r = x /\ y2 = y + 1 /\ c.state # "NONE" /\ d.state = c.state
        BY <1>2, <3>2 DEF Sends, Open
      <4> QED
        BY <1>2, <1>5, <4>1
    <3>3. CASE Connects(e, c, d)
      <4>1. d.cs_r = 0 /\ y2 = n + 1
        BY <1>1, <1>2, <1>4, <3>3 DEF Connects, AtNone
      <4> QED
        BY <1>2, <4>1
    <3> QED
      BY <2>1, <3>1, <3>2, <3>3 DEF Acted
  <2>2. CASE s # << >> /\ s2 = Tail(s) /\ Heeded(e, c, Head(s).pdu, d)
    <3>1. PICK p \in NumberedPdus : p = Head(s).pdu /\ (p.type # "DiscReq" => p.cs + 1 < w)
      <4>1. Head(s) = s[1] /\ 1 \in 1 .. Len(s) /\ Head(s) \in Packets
        BY <1>1, <2>2, TailIsThinned
      <4> QED
        BY <1>1, <1>2, <4>1 DEF Acking, Packets
    <3>2. ASSUME CsValid(c, p), c.state # "NONE",
                 p.type \notin {"ConReq", "ConResp", "DiscReq"}
          PROVE  p.cs < y /\ p.cs \in Nat
      <4>1. p.cs \in Nat
        BY ConstantFacts DEF NumberedPdus, Numbers
      <4> QED
        BY <1>1, <1>2, <1>5, <3>1, <3>2, <4>1, Confirmed
    <3>3. CASE Idles(e, c, d)
      <4>1. d.cs_r = x /\ y2 = y /\ c.state # "NONE"
        BY <1>2, <1>7, <3>3 DEF Idles, Firm, Running
      <4>2. c.state \in {"START", "CLOSED"} => d.state \in {"START", "CLOSED"}
        BY <3>3 DEF Idles, Running
      <4> QED
        BY <1>5, <4>1, <4>2
    <3>4. CASE Hears(e, c, p, d)
      <4>1. y2 = y /\ c.state # "NONE"
        BY <1>2, <3>4 DEF Hears
      <4>2. \/ p.type = "HB" /\ CsValid(c, p) /\ d.cs_r = p.cs
            \/ d.cs_r = y - 1
            \/ d.cs_r = x /\ c.state = "RETRRUN"
        BY <1>2, <1>6, <3>4, <4>1 DEF Hears
      <4>3. p.type = "HB" /\ CsValid(c, p) => p.cs < y
        BY <3>2, <4>1
      <4> QED
        BY <1>2, <1>5, <4>1, <4>2, <4>3
    <3>5. CASE Delivers(e, c, p, d)
      <4>1. y2 = y /\ c.state # "NONE" /\ d.cs_r = p.cs
        BY <1>2, <3>5 DEF Delivers
      <4>2. CsValid(c, p) /\ p.type \notin {"ConReq", "ConResp", "DiscReq"}
        BY <3>5 DEF Delivers
      <4> QED
        BY <3>2, <4>1, <4>2
    <3>6. CASE Requests(e, c, p, d)
      <4>1. d.cs_r = x /\ y2 = y + 1 /\ c.state \in {"UP", "RETRRUN"}
        BY <1>2, <3>6 DEF Requests, Core
      <4> QED
        BY <1>2, <1>5, <4>1
    <3>7. CASE Repeats(e, c, p, d)
      <4>1. PICK l \in Nat : l = Len(RemoveConfirmed(c.fifo_retr, p.cs))
        <5>1. c.fifo_retr \in Seq(Held)
          BY <1>1, Fields
        <5>2. RemoveConfirmed(c.fifo_retr, p.cs) \in Seq(Held)
          BY <5>1, RemoveConfirmedFacts
        <5> QED
          BY <5>2
      <4>2. y2 = y + l + 3 /\ c.state # "NONE" /\ d.cs_r = p.cs
        BY <1>2, <3>7, <4>1 DEF Repeats
      <4>3. CsValid(c, p) /\ p.type \notin {"ConReq", "ConResp", "DiscReq"}
        BY <3>7 DEF Repeats
      <4>4. p.cs < y /\ p.cs \in Nat
        BY <3>2, <4>2, <4>3
      <4> QED
        BY <4>2, <4>4
    <3>8. CASE Serves(e, c, p, d)
      <4>1. y2 = n + 1 /\ d.cs_r = Minus(InitSn[e], 1) /\ d.state \in {"START", "CLOSED"}
        BY <1>2, <1>4, <3>8 DEF Serves
      <4>2. IF n > 0 THEN d.cs_r = n - 1 ELSE d.cs_r = w - 1
        BY <1>2, <4>1, BeforeNext, ConstantFacts
      <4> QED
        BY <1>2, <4>1, <4>2
    <3>9. CASE Joins(e, c, p, d)
      <4>1. y2 = y + 1 /\ c.state # "NONE" /\ d.cs_r = p.cs /\ CsValid(c, p)
            /\ p.type = "ConResp"
        BY <1>2, <3>9 DEF Joins, Starting
      <4>2. d.cs_r = y - 1
        BY <1>2, <1>6, <4>1 DEF CsValid
      <4> QED
        BY <1>2, <4>1, <4>2
    <3> QED
      BY <2>2, <3>1, <3>3, <3>4, <3>5, <3>6, <3>7, <3>8, <3>9 DEF Heeded
  <2> QED
    BY <1>1, <2>1, <2>2 DEF Moves
<1> QED
  BY <1>2, <1>3, <1>7 DEF Acked

LEMMA LeftEchoes ==
  ASSUME NEW s \in Seq(Packets), NEW s2 \in Seq(Packets), Thinned(s, s2), NEW c, NEW g,
         NEW r, Echoed(c, g, s, r)
  PROVE  Echoed(c, g, s2, r)
<1>1. PICK h \in [1 .. Len(s2) -> 1 .. Len(s)] :
        /\ \A i \in 1 .. Len(s2) : s2[i] = s[h[i]]
        /\ \A i, j \in 1 .. Len(s2) : i < j => h[i] < h[j]
  BY DEF Thinned
<1>2. \A i, j \in 1 .. Len(s2) :
        i < j /\ s2[i].pdu.type \in Echoes /\ s2[j].pdu.type \in Echoes =>
          s2[i].pdu.cts <= s2[j].pdu.cts
  BY <1>1 DEF Echoed
<1>3. \A i \in 1 .. Len(s2) :
        /\ s2[i].pdu.type \in Echoes => c.cts_r <= s2[i].pdu.cts /\ s2[i].pdu.cts <= g.ts_r
        /\ s2[i].pdu.type = "ConReq" => s2[i].pdu.cts = 0
  BY <1>1 DEF Echoed
<1>4. Kinds(s2) \subseteq Kinds(s)
  BY ThinnedKinds
<1> QED
  BY <1>2, <1>3, <1>4 DEF Echoed

\* Where the echo that is held comes from.
LEMMA WhatIsEchoed ==
  ASSUME NEW e \in Ends, NEW first \in Nat, NEW clock \in Nat, NEW c, NEW d, NEW g,
         NEW s, NEW s2, NEW r, NEW r2, Staged(e, first, clock, c, d, g, s, s2, r, r2)
  PROVE  \/ d.cts_r = c.cts_r /\ (Took(d) => Took(c) \/ "ConResp" \in Kinds(s))
         \/ Connects(e, c, d)
         \/ \E p : /\ Taking(c, d, g, s, s2, p) /\ d.cts_r = p.cts
                  /\ p.type \in Echoes \cup {"ConReq"}
<1>1. Moves(e, c, d, s, s2, r, r2) /\ s \in Seq(Packets) /\ Never(c, g, s, r)
  BY DEF Staged, Bond
<1>2. ASSUME Missed(c, d) PROVE Took(d) => Took(c)
  BY <1>2 DEF Missed, Took
<1>3. CASE Acted(e, c, d)
  BY <1>2, <1>3 DEF Acted, Idles, Firm, Sends, Missed
<1>4. CASE s # << >> /\ s2 = Tail(s) /\ Heeded(e, c, Head(s).pdu, d)
  <2>1. PICK p : p = Head(s).pdu
    OBVIOUS
  <2>2. p.type \in Kinds(s)
    BY <1>1, <1>4, <2>1, TailIsThinned
  <2>3. p.type \in Ordinary => Took(c)
    BY <1>1, <2>2 DEF Never, Ordinary, Opening
  <2>4. Taken(p, d) /\ p.type # "DiscReq" => Taking(c, d, g, s, s2, p)
    BY <1>4, <2>1, TakesIsTaking DEF Takes
  <2>5. CASE Idles(e, c, d)
    BY <1>2, <2>5 DEF Idles, Firm, Missed
  <2>6. CASE Hears(e, c, p, d)
    BY <2>3, <2>4, <2>6 DEF Hears, Ordinary, Echoes
  <2>7. CASE Delivers(e, c, p, d)
    BY <2>3, <2>4, <2>7 DEF Delivers, Ordinary, Echoes
  <2>8. CASE Requests(e, c, p, d)
    BY <1>2, <2>8 DEF Requests, Core, Missed
  <2>9. CASE Repeats(e, c, p, d)
    BY <2>3, <2>9 DEF Repeats, Ordinary
  <2>10. CASE Serves(e, c, p, d)
    BY <2>4, <2>10 DEF Serves
  <2>11. CASE Joins(e, c, p, d)
    BY <2>2, <2>11 DEF Joins
  <2> QED
    BY <1>4, <2>1, <2>5, <2>6, <2>7, <2>8, <2>9, <2>10, <2>11 DEF Heeded
<1> QED
  BY <1>1, <1>3, <1>4 DEF Moves

LEMMA ActorKeepsEchoed ==
  ASSUME NEW e \in Ends, NEW first \in Nat, NEW clock \in Nat, NEW c, NEW d, NEW g,
         NEW s, NEW s2, NEW r, NEW r2, Staged(e, first, clock, c, d, g, s, s2, r, r2)
  PROVE  Echoed(d, g, s2, r2)
<1>1. /\ Moves(e, c, d, s, s2, r, r2) /\ s \in Seq(Packets) /\ s2 \in Seq(Packets)
      /\ Thinned(s, s2) /\ Kinds(s2) \subseteq Kinds(s) /\ r2 \in Seq(Packets)
      /\ Echoed(c, g, s, r) /\ AtNone(c) /\ Never(c, g, s, r) /\ Waits(g, c, r, s)
      /\ NotBegun(c, r) /\ c \in Whole /\ d \in Whole /\ g \in Whole
  <2>1. /\ s2 \in Seq(Packets) /\ r2 \in Seq(Packets)
        /\ Thinned(s, s2) /\ Kinds(s2) \subseteq Kinds(s)
    BY Frame
  <2>2. /\ Moves(e, c, d, s, s2, r, r2) /\ s \in Seq(Packets) /\ g \in Whole
        /\ Bond(first, clock, c, g, s, r) /\ Agreed(c, g, s, r) /\ Agreed(g, c, r, s)
    BY DEF Staged
  <2>3. Echoed(c, g, s, r) /\ AtNone(c) /\ Never(c, g, s, r)
    BY <2>2 DEF Bond
  <2>4. c \in Whole /\ d \in Whole
    BY <2>2 DEF Moves
  <2>5. Waits(g, c, r, s) /\ NotBegun(c, r)
    BY <2>2 DEF Agreed
  <2> QED
    BY <2>1, <2>2, <2>3, <2>4, <2>5
<1>2. Echoed(c, g, s2, r)
  BY <1>1, LeftEchoes
<1>3. PICK x \in Nat, x2 \in Nat, y \in Nat : x = c.cts_r /\ x2 = d.cts_r /\ y = g.ts_r
  BY <1>1, CountFields
\* Before and after sr_connect nothing has been taken.
<1>4. Connects(e, c, d) => ~Took(c) /\ ~Took(d) /\ c.state = "NONE" /\ Unheard(c, r)
  <2>1. 0 # 1 % SnMod
    <3>1. 1 < SnMod
      BY ConstantFacts DEF Staged, Numbers
    <3>2. Plus1(0) = 1
      BY <3>1, NoWrap DEF Plus1
    <3> QED
      BY <3>2 DEF Plus1
  <2>2. Plus1(0) # 0
    BY <2>1 DEF Plus1
  <2> QED
    BY <1>1, <2>2 DEF Connects, AtNone, Took, Unheard
<1>5. \A i \in 1 .. Len(s2) :
        s2[i].pdu.type \in Echoes => d.cts_r <= s2[i].pdu.cts /\ s2[i].pdu.cts <= g.ts_r
  <2> SUFFICES ASSUME NEW i \in 1 .. Len(s2), s2[i].pdu.type \in Echoes
               PROVE  d.cts_r <= s2[i].pdu.cts /\ s2[i].pdu.cts <= g.ts_r
    OBVIOUS
  <2>1. c.cts_r <= s2[i].pdu.cts /\ s2[i].pdu.cts <= g.ts_r
    BY <1>2 DEF Echoed
  <2>2. s2[i].pdu.type \in Kinds(s) /\ s2[i].pdu.cts \in Nat
    BY <1>1, PduFields
  <2>3. CASE d.cts_r = c.cts_r
    BY <2>1, <2>3
  <2>4. CASE Connects(e, c, d)
    BY <1>1, <1>4, <2>2, <2>4 DEF Never, Echoes, Opening
  <2>5. CASE \E p : /\ Taking(c, d, g, s, s2, p) /\ d.cts_r = p.cts
                   /\ p.type \in Echoes \cup {"ConReq"}
    <3>1. PICK p : /\ Taking(c, d, g, s, s2, p) /\ d.cts_r = p.cts
                   /\ p.type \in Echoes \cup {"ConReq"}
      BY <2>5
    <3>2. s2[i] = s[i + 1] /\ i + 1 \in 1 .. Len(s) /\ 1 \in 1 .. Len(s) /\ 1 < i + 1
          /\ p = s[1].pdu
      BY <3>1 DEF Taking
    <3>3. CASE p.type \in Echoes
      <4>1. p.cts <= s2[i].pdu.cts
        BY <1>1, <3>2, <3>3 DEF Echoed
      <4> QED
        BY <2>1, <3>1, <4>1
    <3>4. CASE p.type = "ConReq"
      <4>1. p.cts = 0
        BY <1>1, <3>2, <3>4 DEF Echoed
      <4> QED
        BY <2>1, <2>2, <3>1, <4>1
    <3> QED
      BY <3>1, <3>3, <3>4
  <2> QED
    BY <2>3, <2>4, <2>5, WhatIsEchoed
<1>6. ASSUME Took(d) \/ "ConResp" \in Kinds(s2) PROVE d.cts_r <= g.ts_r
  <2>1. CASE d.cts_r = c.cts_r /\ (Took(d) => Took(c) \/ "ConResp" \in Kinds(s))
    BY <1>1, <1>6, <2>1 DEF Echoed
  <2>2. CASE Connects(e, c, d)
    BY <1>1, <1>4, <1>6, <2>2 DEF Waits
  <2>3. CASE \E p : /\ Taking(c, d, g, s, s2, p) /\ d.cts_r = p.cts
                   /\ p.type \in Echoes \cup {"ConReq"}
    <3>1. PICK p : /\ Taking(c, d, g, s, s2, p) /\ d.cts_r = p.cts
                   /\ p.type \in Echoes \cup {"ConReq"}
      BY <2>3
    <3>2. p = s[1].pdu /\ 1 \in 1 .. Len(s)
      BY <3>1 DEF Taking
    <3>3. CASE p.type \in Echoes
      BY <1>1, <3>1, <3>2, <3>3 DEF Echoed
    <3>4. CASE p.type = "ConReq"
      <4>1. p.cts = 0
        BY <1>1, <3>2, <3>4 DEF Echoed
      <4> QED
        BY <1>3, <3>1, <4>1
    <3> QED
      BY <3>1, <3>3, <3>4
  <2> QED
    BY <2>1, <2>2, <2>3, WhatIsEchoed
<1>7. ASSUME ~Took(d), NEW i \in 1 .. Len(r2), r2[i].pdu.type = "ConReq"
      PROVE  d.cts_r <= r2[i].pdu.ts
  <2>1. ~Took(c) /\ (Idles(e, c, d) \/ Connects(e, c, d))
    BY <1>7, NotYet
  <2>2. CASE i \in 1 .. Len(r) /\ r2[i] = r[i]
    <3>1. c.cts_r <= r2[i].pdu.ts /\ "ConReq" \in Kinds(r)
      BY <1>1, <1>7, <2>1, <2>2 DEF Echoed, Kinds
    <3>2. r # << >>
      BY <2>2
    <3>3. ~Connects(e, c, d)
      BY <1>1, <1>4, <3>2 DEF NotBegun
    <3> QED
      BY <2>1, <3>1, <3>3 DEF Idles, Firm
  <2>3. CASE Speaks(e, c, s, d, i - Len(r), r2[i].pdu)
    <3>1. r2[i].pdu.ts = d.cts_r
      BY <1>7, <2>3 DEF Speaks, Ordinary
    <3> QED
      BY <1>3, <3>1
  <2> QED
    BY <2>2, <2>3, Frame DEF Grown
<1>8. \A i, j \in 1 .. Len(s2) :
        i < j /\ s2[i].pdu.type \in Echoes /\ s2[j].pdu.type \in Echoes =>
          s2[i].pdu.cts <= s2[j].pdu.cts
  BY <1>2 DEF Echoed
<1>9. \A i \in 1 .. Len(s2) : s2[i].pdu.type = "ConReq" => s2[i].pdu.cts = 0
  BY <1>2 DEF Echoed
<1> QED
  BY <1>5, <1>6, <1>7, <1>8, <1>9 DEF Echoed

(***************************************************************************)
(* What becomes of the peer, to which the PDUs are sent.                   *)
(***************************************************************************)
LEMMA PeerBegins ==
  ASSUME NEW e \in Ends, NEW first \in Nat, NEW clock \in Nat, NEW c, NEW d, NEW g,
         NEW s, NEW s2, NEW r, NEW r2, Staged(e, first, clock, c, d, g, s, s2, r, r2)
  PROVE  Never(g, d, r2, s2)
<1>1. /\ Moves(e, c, d, s, s2, r, r2) /\ Never(g, c, r, s) /\ Opens(c, g, s, r)
      /\ s \in Seq(Packets)
  BY DEF Staged, Bond, Agreed
<1>2. SUFFICES ASSUME ~Took(g) PROVE Never(g, d, r2, s2)
  BY DEF Never
<1>3. /\ g.state \in Calm /\ c.state \in Calm /\ g.got = << >>
      /\ Kinds(s) \subseteq {"ConReq", "DiscReq"} /\ Kinds(r) \subseteq Opening
  BY <1>1, <1>2 DEF Never
<1>4. Kinds(s) \subseteq Opening
  BY <1>3 DEF Opening
<1>5. ~(s # << >> /\ Joins(e, c, Head(s).pdu, d))
  <2>1. s # << >> => Head(s).pdu.type \in Kinds(s)
    BY <1>1, TailIsThinned
  <2> QED
    BY <1>3, <2>1 DEF Joins
<1>6. Idles(e, c, d) \/ Connects(e, c, d) \/ Serving(e, c, s, d)
  BY <1>1, <1>3, <1>4, <1>5, CalmMoves
<1>7. d.state \in Calm
  BY <1>3, <1>6 DEF Idles, Connects, Serving, Serves, Calm, Running
<1>8. Kinds(r2) \subseteq Opening
  BY <1>3, <1>6, KindsSaid DEF Opening
<1>9. Kinds(s2) \subseteq {"ConReq", "DiscReq"}
  BY <1>3, Frame
<1> QED
  BY <1>3, <1>7, <1>8, <1>9 DEF Never

\* What begins anew finds a peer that has heard at most the request to.
LEMMA BeginsAnew ==
  ASSUME NEW e \in Ends, NEW first \in Nat, NEW clock \in Nat, NEW c, NEW d, NEW g,
         NEW s, NEW s2, NEW r, NEW r2, Staged(e, first, clock, c, d, g, s, s2, r, r2)
  PROVE  /\ c.sn_t <= d.sn_t \/ Connects(e, c, d) \/ Serving(e, c, s, d)
         /\ Connects(e, c, d) \/ Serving(e, c, s, d) =>
              d.sn_t = InitSn[e] + 1 /\ g.sn_r <= InitSn[e] + 1
         /\ Connects(e, c, d) => r = << >>
         /\ Serving(e, c, s, d) => Kinds(r) \subseteq {"ConReq", "DiscReq"}
<1>1. /\ Moves(e, c, d, s, s2, r, r2) /\ Reach(InitSn[e], g, c, r, s) /\ NotBegun(c, r)
      /\ Waits(c, g, s, r) /\ AtNone(c) /\ s \in Seq(Packets) /\ g \in Whole
  BY DEF Staged, Bond, Agreed
<1>2. PICK n \in Nat : n = InitSn[e] /\ n + 1 < SnMod
  BY ConstantFacts DEF Staged, Numbers
<1>3. /\ c.sn_t <= d.sn_t \/ Connects(e, c, d) \/ Serving(e, c, s, d)
      /\ Connects(e, c, d) \/ Serving(e, c, s, d) => d.sn_t = n + 1
  BY <1>1, <1>2, WhatIsCounted
<1>4. g.sn_r \in Nat
  BY <1>1, CountFields
<1>5. ASSUME Connects(e, c, d) PROVE r = << >> /\ g.sn_r <= n + 1
  <2>1. c.state = "NONE" /\ c.sn_t = 0 /\ r = << >>
    BY <1>1, <1>5 DEF Connects, AtNone, NotBegun
  <2>2. g.sn_r <= 0
    BY <1>1, <2>1 DEF Reach
  <2> QED
    BY <1>2, <1>4, <2>1, <2>2
<1>6. ASSUME Serving(e, c, s, d)
      PROVE  Kinds(r) \subseteq {"ConReq", "DiscReq"} /\ g.sn_r <= n + 1
  <2>1. Head(s).pdu.type = "ConReq" /\ s # << >>
    BY <1>6 DEF Serving, Serves
  <2>2. Unheard(g, s)
    BY <1>1, <2>1, TailIsThinned DEF Unheard
  <2> QED
    BY <1>1, <1>2, <2>2 DEF Waits, Reach
<1> QED
  BY <1>2, <1>3, <1>5, <1>6

LEMMA PeerReaches ==
  ASSUME NEW e \in Ends, NEW first \in Nat, NEW clock \in Nat, NEW c, NEW d, NEW g,
         NEW s, NEW s2, NEW r, NEW r2, Staged(e, first, clock, c, d, g, s, s2, r, r2)
  PROVE  Reach(InitSn[e], g, d, r2, s2)
<1>1. /\ Moves(e, c, d, s, s2, r, r2) /\ Reach(InitSn[e], g, c, r, s) /\ AtNone(c)
      /\ r \in Seq(Packets) /\ r2 \in Seq(Packets) /\ Kinds(s2) \subseteq Kinds(s)
      /\ c \in Whole /\ d \in Whole /\ g \in Whole
  BY Frame DEF Staged, Bond, Moves
<1>2. PICK n \in Nat, y \in Nat, y2 \in Nat, x \in Nat :
        n = InitSn[e] /\ n + 1 < SnMod /\ y = c.sn_t /\ y2 = d.sn_t /\ x = g.sn_r
  <2>1. InitSn[e] \in Nat /\ InitSn[e] + 1 < SnMod
    BY ConstantFacts DEF Staged, Numbers
  <2> QED
    BY <1>1, <2>1, CountFields
<1>3. /\ y <= y2 \/ Connects(e, c, d) \/ Serving(e, c, s, d)
      /\ Connects(e, c, d) \/ Serving(e, c, s, d) => y2 = n + 1 /\ x <= n + 1
      /\ Connects(e, c, d) => r = << >>
      /\ Serving(e, c, s, d) => Kinds(r) \subseteq {"ConReq", "DiscReq"}
  BY <1>2, BeginsAnew
<1>4. x <= y2
  <2>1. x <= y
    BY <1>1, <1>2 DEF Reach
  <2> QED
    BY <1>3, <2>1
<1>5. d.state # "NONE" => y2 > n
  <2>1. c.state = "NONE" /\ ~Connects(e, c, d) /\ ~Serving(e, c, s, d) => d.state = "NONE"
    BY <1>1, <1>2, WhatIsCounted
  <2>2. c.state # "NONE" => y > n
    BY <1>1, <1>2 DEF Reach
  <2> QED
    BY <1>3, <2>1, <2>2
<1>6. \A i \in 1 .. Len(r2) : Reaches(n, y2, r2[i].pdu)
  <2> SUFFICES ASSUME NEW i \in 1 .. Len(r2) PROVE Reaches(n, y2, r2[i].pdu)
    OBVIOUS
  <2>1. r2[i].pdu.sn \in Nat
    BY <1>1, PduFields
  <2>2. CASE i \in 1 .. Len(r) /\ r2[i] = r[i]
    <3>1. Reaches(n, y, r2[i].pdu) /\ r2[i].pdu.type \in Kinds(r) /\ r # << >>
      <4>1. Reaches(n, y, r[i].pdu)
        BY <1>1, <1>2, <2>2 DEF Reach
      <4>2. r # << >>
        BY <2>2
      <4> QED
        BY <1>1, <2>2, <4>1, <4>2, PduFields
    <3>2. CASE y <= y2
      BY <2>1, <3>1, <3>2 DEF Reaches
    <3>3. CASE Connects(e, c, d)
      BY <1>3, <3>1, <3>3
    <3>4. CASE Serving(e, c, s, d)
      <4>1. r2[i].pdu.type \in {"ConReq", "DiscReq"} /\ y2 = n + 1
        BY <1>3, <3>1, <3>4
      <4> QED
        BY <3>1, <4>1 DEF Reaches, Ordinary
    <3> QED
      BY <1>3, <3>2, <3>3, <3>4
  <2>3. CASE i > Len(r) /\ Speaks(e, c, s, d, i - Len(r), r2[i].pdu)
    <3>1. PICK k \in Nat : k = (i - Len(r)) - 1 /\ Speaks(e, c, s, d, k + 1, r2[i].pdu)
      <4>1. Len(r) \in Nat /\ i \in Nat
        BY <1>1
      <4>2. (i - Len(r)) - 1 \in Nat /\ ((i - Len(r)) - 1) + 1 = i - Len(r)
        BY <2>3, <4>1
      <4> QED
        BY <2>3, <4>2
    <3>2. CASE r2[i].pdu.type = "DiscReq"
      BY <3>2 DEF Reaches, Ordinary
    <3>3. CASE r2[i].pdu.type \in Ordinary
      <4>1. r2[i].pdu.sn = y + ((k + 1) - 1) /\ r2[i].pdu.sn < y2 /\ c.state # "NONE"
        BY <1>2, <3>1, <3>3 DEF Speaks, Ordinary
      <4>2. y > n
        BY <1>1, <1>2, <4>1 DEF Reach
      <4>3. r2[i].pdu.sn > n
        BY <4>1, <4>2
      <4> QED
        BY <3>3, <4>1, <4>3 DEF Reaches, Ordinary
    <3>4. CASE r2[i].pdu.type \in {"ConReq", "ConResp"}
      <4>1. r2[i].pdu.sn = n /\ (Connects(e, c, d) \/ Serving(e, c, s, d))
        BY <1>2, <3>1, <3>4 DEF Speaks, Ordinary
      <4>2. y2 = n + 1
        BY <1>3, <4>1
      <4> QED
        BY <3>4, <4>1, <4>2 DEF Reaches, Ordinary
    <3> QED
      BY <3>1, <3>2, <3>3, <3>4 DEF Speaks
  <2> QED
    BY <2>2, <2>3, Frame DEF Grown
<1>7. Unheard(g, s2) => x <= n + 1
  <2>1. Unheard(g, s2) => Unheard(g, s)
    BY <1>1 DEF Unheard
  <2> QED
    BY <1>1, <1>2, <2>1 DEF Reach
<1> QED
  BY <1>2, <1>4, <1>5, <1>6, <1>7 DEF Reach

LEMMA PeerKeepsAhead ==
  ASSUME NEW e \in Ends, NEW first \in Nat, NEW clock \in Nat, NEW c, NEW d, NEW g,
         NEW s, NEW s2, NEW r, NEW r2, Staged(e, first, clock, c, d, g, s, s2, r, r2),
         Clock(e) \in Nat
  PROVE  Rising(r2) /\ Acking(r2) /\ Ahead(g, r2) /\ Timely(Clock(e), g, r2)
<1>1. /\ Moves(e, c, d, s, s2, r, r2) /\ r \in Seq(Packets) /\ r2 \in Seq(Packets)
      /\ Rising(r) /\ Acking(r) /\ Ahead(g, r) /\ Timely(Clock(e), g, r)
      /\ Reach(InitSn[e], g, c, r, s) /\ c \in Whole /\ d \in Whole /\ g \in Whole
  BY Frame DEF Staged, Bond, Moves
<1>2. PICK l \in Nat : l = Len(r) /\ \A i \in 1 .. Len(r2) :
        \/ i \in 1 .. l /\ r2[i] = r[i]
        \/ i > l /\ Speaks(e, c, s, d, i - l, r2[i].pdu)
  BY <1>1, Frame DEF Grown
<1>3. PICK y \in Nat, x \in Nat, t \in Nat : y = c.sn_t /\ x = g.sn_r /\ t = Clock(e)
  BY <1>1, CountFields
<1>4. x <= y
  BY <1>1, <1>3 DEF Reach
\* What is said now has the next numbers, and the time.
<1>5. ASSUME NEW i \in 1 .. Len(r2), i > l, r2[i].pdu.type \in Ordinary
      PROVE  r2[i].pdu.sn = y + ((i - l) - 1)
  <2>1. Speaks(e, c, s, d, i - l, r2[i].pdu)
    BY <1>2, <1>5
  <2> QED
    BY <1>3, <1>5, <2>1 DEF Speaks, Ordinary
<1>6. ASSUME NEW i \in 1 .. Len(r2), i > l PROVE r2[i].pdu.ts = t
  BY <1>2, <1>3, <1>6 DEF Speaks
<1>7. ASSUME NEW i \in 1 .. Len(r2), i \in 1 .. l PROVE r2[i] = r[i] /\ i \in 1 .. Len(r)
  BY <1>2, <1>7
<1>8. \A i \in 1 .. Len(r2) : r2[i].pdu.sn \in Nat /\ r2[i].pdu.ts \in Nat
  BY <1>1, PduFields
<1>9. Rising(r2)
  <2> SUFFICES ASSUME NEW i \in 1 .. Len(r2), NEW j \in 1 .. Len(r2), i < j,
                      r2[i].pdu.type \in Ordinary, r2[j].pdu.type \in Ordinary
               PROVE  r2[i].pdu.sn < r2[j].pdu.sn
    BY DEF Rising
  <2>1. CASE j \in 1 .. l
    <3>1. i \in 1 .. l
      BY <1>1, <2>1
    <3> QED
      BY <1>1, <1>7, <2>1, <3>1 DEF Rising
  <2>2. CASE j > l /\ i \in 1 .. l
    <3>1. r2[i].pdu.sn < y
      <4>1. Reaches(InitSn[e], y, r[i].pdu)
        BY <1>1, <1>3, <1>7, <2>2 DEF Reach
      <4> QED
        BY <1>7, <2>2, <4>1 DEF Reaches, Ordinary
    <3>2. r2[j].pdu.sn = y + ((j - l) - 1)
      BY <1>5, <2>2
    <3> QED
      BY <1>8, <2>2, <3>1, <3>2
  <2>3. CASE j > l /\ i > l
    <3>1. r2[i].pdu.sn = y + ((i - l) - 1) /\ r2[j].pdu.sn = y + ((j - l) - 1)
      BY <1>5, <2>3
    <3> QED
      BY <3>1
  <2> QED
    BY <1>1, <2>1, <2>2, <2>3
<1>10. Ahead(g, r2)
  <2> SUFFICES ASSUME NEW i \in 1 .. Len(r2), r2[i].pdu.type \in Ordinary
               PROVE  r2[i].pdu.sn >= x
    BY <1>3 DEF Ahead
  <2>1. CASE i \in 1 .. l
    BY <1>1, <1>3, <1>7, <2>1 DEF Ahead
  <2>2. CASE i > l
    <3>1. r2[i].pdu.sn = y + ((i - l) - 1)
      BY <1>5, <2>2
    <3> QED
      BY <1>4, <2>2, <3>1
  <2> QED
    BY <1>1, <2>1, <2>2
<1>11. Timely(Clock(e), g, r2)
  <2>1. ASSUME NEW i \in 1 .. Len(r2) PROVE g.ts_r <= r2[i].pdu.ts /\ r2[i].pdu.ts <= t
    <3>1. CASE i \in 1 .. l
      BY <1>1, <1>3, <1>7, <3>1 DEF Timely
    <3>2. CASE i > l
      BY <1>1, <1>3, <1>6, <3>2 DEF Timely
    <3> QED
      BY <1>1, <3>1, <3>2
  <2>2. ASSUME NEW i \in 1 .. Len(r2), NEW j \in 1 .. Len(r2), i < j
        PROVE  r2[i].pdu.ts <= r2[j].pdu.ts
    <3>1. CASE j \in 1 .. l
      <4>1. i \in 1 .. l
        BY <1>1, <2>2, <3>1
      <4> QED
        BY <1>1, <1>7, <2>2, <3>1, <4>1 DEF Timely
    <3>2. CASE j > l
      BY <1>6, <2>1, <3>2
    <3> QED
      BY <1>1, <3>1, <3>2
  <2> QED
    BY <1>1, <1>3, <2>1, <2>2 DEF Timely
<1>12. Acking(r2)
  <2> SUFFICES ASSUME NEW i \in 1 .. Len(r2), r2[i].pdu.type # "DiscReq"
               PROVE  r2[i].pdu.cs + 1 < SnMod
    BY DEF Acking
  <2>1. CASE i \in 1 .. l
    BY <1>1, <1>7, <2>1 DEF Acking
  <2>2. CASE i > l
    <3>1. r2[i].pdu.cs = d.cs_t \/ r2[i].pdu.cs = 0
      BY <1>2, <2>2 DEF Speaks
    <3>2. d.cs_t + 1 < SnMod
      BY ActorKeepsAcked DEF Acked
    <3>3. 0 + 1 < SnMod
      BY ConstantFacts DEF Staged, Numbers
    <3> QED
      BY <3>1, <3>2, <3>3
  <2> QED
    BY <1>1, <2>1, <2>2
<1> QED
  BY <1>9, <1>10, <1>11, <1>12

LEMMA PeerKeepsEchoed ==
  ASSUME NEW e \in Ends, NEW first \in Nat, NEW clock \in Nat, NEW c, NEW d, NEW g,
         NEW s, NEW s2, NEW r, NEW r2, Staged(e, first, clock, c, d, g, s, s2, r, r2)
  PROVE  Echoed(g, d, r2, s2)
<1>1. /\ Moves(e, c, d, s, s2, r, r2) /\ s \in Seq(Packets) /\ s2 \in Seq(Packets)
      /\ r \in Seq(Packets) /\ r2 \in Seq(Packets) /\ Thinned(s, s2)
      /\ Echoed(g, c, r, s) /\ Timely(clock, c, s)
      /\ c \in Whole /\ d \in Whole /\ g \in Whole
  <2>1. s2 \in Seq(Packets) /\ r2 \in Seq(Packets) /\ Thinned(s, s2)
    BY Frame
  <2>2. /\ Moves(e, c, d, s, s2, r, r2) /\ s \in Seq(Packets) /\ r \in Seq(Packets)
        /\ g \in Whole
        /\ Bond(first, clock, c, g, s, r) /\ Bond(InitSn[e], Clock(e), g, c, r, s)
    BY DEF Staged
  <2>3. Echoed(g, c, r, s) /\ Timely(clock, c, s)
    BY <2>2 DEF Bond
  <2>4. c \in Whole /\ d \in Whole
    BY <2>2 DEF Moves
  <2> QED
    BY <2>1, <2>2, <2>3, <2>4
<1>2. PICK l \in Nat : l = Len(r) /\ \A i \in 1 .. Len(r2) :
        \/ i \in 1 .. l /\ r2[i] = r[i]
        \/ i > l /\ Speaks(e, c, s, d, i - l, r2[i].pdu)
  BY <1>1, Frame DEF Grown
<1>3. PICK x \in Nat, y \in Nat, y2 \in Nat : x = g.cts_r /\ y = c.ts_r /\ y2 = d.ts_r
  BY <1>1, CountFields
<1>4. y <= y2
  <2>1. CASE Missed(c, d)
    BY <1>3, <2>1 DEF Missed
  <2>2. CASE \E p : Taking(c, d, g, s, s2, p)
    <3>1. PICK p : Taking(c, d, g, s, s2, p)
      BY <2>2
    <3>2. c.ts_r <= s[1].pdu.ts
      BY <1>1, <3>1 DEF Timely, Taking
    <3> QED
      BY <1>3, <3>1, <3>2 DEF Taking, Taken
  <2> QED
    BY <2>1, <2>2, MissedOrTaking
<1>5. \A i \in 1 .. Len(r2) : r2[i].pdu.cts \in Nat /\ r2[i].pdu.type \in Kinds(r2)
  BY <1>1, PduFields
\* An echo in r2 is one of the clock that has been seen.
<1>6. ASSUME NEW i \in 1 .. Len(r2), r2[i].pdu.type \in Echoes
      PROVE  /\ x <= r2[i].pdu.cts /\ r2[i].pdu.cts <= y2
             /\ i > l => r2[i].pdu.cts = y2
             /\ i \in 1 .. l => r2[i] = r[i]
  <2>1. CASE i \in 1 .. l
    <3>1. r2[i] = r[i] /\ ~(i > l)
      BY <1>2, <2>1
    <3>2. x <= r[i].pdu.cts /\ r[i].pdu.cts <= y
      BY <1>1, <1>2, <1>3, <1>6, <2>1, <3>1 DEF Echoed
    <3> QED
      BY <1>3, <1>4, <1>5, <3>1, <3>2
  <2>2. CASE i > l
    <3>1. r2[i].pdu.cts = y2
      BY <1>2, <1>3, <1>6, <2>2 DEF Speaks, Echoes, Ordinary
    <3>2. Took(g)
      <4>1. ~(Kinds(r2) \subseteq Opening)
        BY <1>5, <1>6 DEF Echoes, Opening
      <4> QED
        BY <4>1, PeerBegins DEF Never
    <3>3. x <= y
      BY <1>1, <1>3, <3>2 DEF Echoed
    <3> QED
      BY <1>3, <1>4, <2>2, <3>1, <3>3
  <2> QED
    BY <1>2, <2>1, <2>2
<1>7. ASSUME NEW i \in 1 .. Len(r2), NEW j \in 1 .. Len(r2), i < j,
             r2[i].pdu.type \in Echoes, r2[j].pdu.type \in Echoes
      PROVE  r2[i].pdu.cts <= r2[j].pdu.cts
  <2>1. CASE j \in 1 .. l
    <3>1. i \in 1 .. l
      BY <1>1, <1>7, <2>1
    <3>2. r2[i] = r[i] /\ r2[j] = r[j]
      BY <1>6, <1>7, <2>1, <3>1
    <3> QED
      BY <1>1, <1>2, <1>7, <2>1, <3>1, <3>2 DEF Echoed
  <2>2. CASE j > l
    BY <1>6, <1>7, <2>2
  <2> QED
    BY <1>2, <2>1, <2>2
<1>8. ASSUME NEW i \in 1 .. Len(r2), r2[i].pdu.type = "ConReq" PROVE r2[i].pdu.cts = 0
  <2>1. CASE i \in 1 .. l /\ r2[i] = r[i]
    BY <1>1, <1>2, <1>8, <2>1 DEF Echoed
  <2>2. CASE Speaks(e, c, s, d, i - l, r2[i].pdu)
    BY <1>8, <2>2 DEF Speaks, Ordinary
  <2> QED
    BY <1>2, <2>1, <2>2
<1>9. ASSUME Took(g) \/ "ConResp" \in Kinds(r2) PROVE x <= y2
  <2>1. CASE Took(g) \/ "ConResp" \in Kinds(r)
    <3>1. x <= y
      BY <1>1, <1>3, <2>1 DEF Echoed
    <3> QED
      BY <1>3, <1>4, <3>1
  <2>2. CASE ~Took(g) /\ "ConResp" \in Kinds(r2) /\ "ConResp" \notin Kinds(r)
    <3>1. PICK i \in 1 .. Len(r2) : r2[i].pdu.type = "ConResp"
      BY <2>2 DEF Kinds
    <3>2. ~(i \in 1 .. l /\ r2[i] = r[i])
      BY <1>2, <2>2, <3>1 DEF Kinds
    <3>3. Serving(e, c, s, d)
      BY <1>2, <3>1, <3>2 DEF Speaks, Ordinary
    <3>4. Head(s).pdu.type = "ConReq" /\ d.ts_r = Head(s).pdu.ts /\ s # << >>
      BY <3>3 DEF Serving, Serves, Taken
    <3>5. 1 \in 1 .. Len(s) /\ Head(s) = s[1]
      BY <3>4, Frame
    <3>6. g.cts_r <= s[1].pdu.ts
      BY <1>1, <2>2, <3>4, <3>5 DEF Echoed
    <3> QED
      BY <1>3, <3>4, <3>5, <3>6
  <2> QED
    BY <1>9, <2>1, <2>2
<1>10. ~Took(g) => \A i \in 1 .. Len(s2) : s2[i].pdu.type = "ConReq" => g.cts_r <= s2[i].pdu.ts
  BY <1>1 DEF Echoed, Thinned
<1> QED
  BY <1>3, <1>6, <1>7, <1>8, <1>9, <1>10 DEF Echoed

\* Both endpoints stay bound to each other.
LEMMA MovesKeepBond ==
  ASSUME NEW e \in Ends, NEW first \in Nat, NEW clock \in Nat, NEW c, NEW d, NEW g,
         NEW s, NEW s2, NEW r, NEW r2, Staged(e, first, clock, c, d, g, s, s2, r, r2),
         Clock(e) \in Nat
  PROVE  Bond(first, clock, d, g, s2, r2) /\ Bond(InitSn[e], Clock(e), g, d, r2, s2)
<1>1. Bond(first, clock, d, g, s2, r2)
  BY ActorBegins, ActorReaches, ActorKeepsAhead, ActorKeepsAcked, ActorKeepsEchoed DEF Bond
<1>2. AtNone(g) /\ Acked(g)
  BY DEF Staged, Bond
<1> QED
  BY <1>1, <1>2, PeerBegins, PeerReaches, PeerKeepsAhead, PeerKeepsEchoed DEF Bond

(***************************************************************************)
(* The two endpoints of the system.                                        *)
(***************************************************************************)
BondAt(e) ==
  Bond(InitSn[Peer(e)], Clock(Peer(e)), con[e], con[Peer(e)], net[e], net[Peer(e)])

BondInv == \A e \in Ends : BondAt(e)

LEMMA BondAlike ==
  ASSUME NEW first, NEW clock, NEW c, NEW c2, NEW g, NEW s, NEW r, Alike(c, c2)
  PROVE  /\ Bond(first, clock, c, g, s, r) => Bond(first, clock, c2, g, s, r)
         /\ Bond(first, clock, g, c, r, s) => Bond(first, clock, g, c2, r, s)
<1>1. /\ c2.sn_r = c.sn_r /\ c2.cs_t = c.cs_t /\ c2.cs_r = c.cs_r /\ c2.ts_r = c.ts_r
      /\ c2.cts_r = c.cts_r /\ c2.got = c.got /\ c2.sn_t = c.sn_t /\ c2.state = c.state
  BY DEF Alike, Core
<1>2. ASSUME Bond(first, clock, c, g, s, r) PROVE Bond(first, clock, c2, g, s, r)
  <2>1. AtNone(c2)
    BY <1>1, <1>2 DEF Bond, AtNone
  <2>2. Never(c2, g, s, r)
    BY <1>1, <1>2 DEF Bond, Never, Took
  <2>3. Reach(first, c2, g, s, r)
    BY <1>1, <1>2 DEF Bond, Reach, Unheard
  <2>4. Rising(s) /\ Ahead(c2, s) /\ Acking(s)
    BY <1>1, <1>2 DEF Bond, Ahead
  <2>5. Acked(c2)
    BY <1>1, <1>2 DEF Bond, Acked
  <2>6. Timely(clock, c2, s)
    BY <1>1, <1>2 DEF Bond, Timely
  <2>7. Echoed(c2, g, s, r)
    BY <1>1, <1>2 DEF Bond, Echoed, Took
  <2> QED
    BY <2>1, <2>2, <2>3, <2>4, <2>5, <2>6, <2>7 DEF Bond
<1>3. ASSUME Bond(first, clock, g, c, r, s) PROVE Bond(first, clock, g, c2, r, s)
  <2>1. Never(g, c2, r, s)
    BY <1>1, <1>3 DEF Bond, Never
  <2>2. Reach(first, g, c2, r, s)
    BY <1>1, <1>3 DEF Bond, Reach, Unheard
  <2>3. Echoed(g, c2, r, s)
    BY <1>1, <1>3 DEF Bond, Echoed
  <2> QED
    BY <1>3, <2>1, <2>2, <2>3 DEF Bond
<1> QED
  BY <1>2, <1>3

\* Losing a PDU, and time, change nothing of it.
LEMMA BondThinned ==
  ASSUME NEW first, NEW clock, NEW first2, NEW clock2, NEW c, NEW g,
         NEW s \in Seq(Packets), NEW s2 \in Seq(Packets), NEW r, Thinned(s, s2),
         Bond(first, clock, c, g, s, r), Bond(first2, clock2, g, c, r, s)
  PROVE  Bond(first, clock, c, g, s2, r) /\ Bond(first2, clock2, g, c, r, s2)
<1>1. Kinds(s2) \subseteq Kinds(s)
  BY ThinnedKinds
<1>2. Bond(first, clock, c, g, s2, r)
  <2>1. Never(c, g, s2, r)
    BY <1>1 DEF Bond, Never
  <2>2. Reach(first, c, g, s2, r)
    BY DEF Bond, Reach, Thinned
  <2>3. Rising(s2) /\ Acking(s2) /\ Ahead(c, s2) /\ Timely(clock, c, s2)
    BY LeftOver DEF Bond
  <2>4. Echoed(c, g, s2, r)
    BY LeftEchoes DEF Bond
  <2> QED
    BY <2>1, <2>2, <2>3, <2>4 DEF Bond
<1>3. Bond(first2, clock2, g, c, r, s2)
  <2>1. Never(g, c, r, s2)
    BY <1>1 DEF Bond, Never
  <2>2. Reach(first2, g, c, r, s2)
    <3>1. Unheard(g, s2) => Unheard(g, s)
      BY <1>1 DEF Unheard
    <3> QED
      BY <3>1 DEF Bond, Reach
  <2>3. Echoed(g, c, r, s2)
    BY DEF Bond, Echoed, Thinned
  <2> QED
    BY <2>1, <2>2, <2>3 DEF Bond
<1> QED
  BY <1>2, <1>3

LEMMA BondLater ==
  ASSUME NEW first, NEW clock \in Nat, NEW later \in Nat, clock <= later, NEW c, c.ts_r \in Nat,
         NEW g, NEW s \in Seq(Packets), NEW r, Bond(first, clock, c, g, s, r)
  PROVE  Bond(first, later, c, g, s, r)
<1>1. \A i \in 1 .. Len(s) : s[i].pdu.ts \in Nat
  BY PduFields
<1>2. Timely(later, c, s)
  BY <1>1 DEF Bond, Timely
<1> QED
  BY <1>2 DEF Bond

LEMMA MovingIsStaged ==
  ASSUME SessionInv, BelowWrap, BondInv, NEW e \in Ends, NEW d, Moving(e, d)
  PROVE  /\ Staged(e, InitSn[Peer(e)], Clock(Peer(e)), con[e], d, con[Peer(e)],
                   net[e], net'[e], net[Peer(e)], net'[Peer(e)])
         /\ InitSn[Peer(e)] \in Nat /\ Clock(Peer(e)) \in Nat /\ Clock(e) \in Nat
<1>1. PICK f \in Ends : f = Peer(e) /\ Peer(f) = e
  BY DEF Ends, Peer
<1>2. PICK c, g, s, r, s2, r2 : /\ c = con[e] /\ g = con[f] /\ s = net[e] /\ r = net[f]
                                /\ s2 = net'[e] /\ r2 = net'[f]
  OBVIOUS
<1>3. PICK first \in Nat, clock \in Nat :
        first = InitSn[f] /\ clock = Clock(f) /\ Clock(e) \in Nat
  BY InvTimes, ConstantFacts DEF SessionInv, Times, Clock, Numbers
<1>4. Moves(e, c, d, s, s2, r, r2)
  BY <1>1, <1>2 DEF Moving
<1>5. g \in Whole /\ s \in Seq(Packets) /\ r \in Seq(Packets)
  BY <1>2, AtRest
<1>6. /\ Room(c) /\ Room(g) /\ InitSn[e] + RetrCap + 4 <= SnMod
      /\ first + RetrCap + 4 <= SnMod
  BY <1>2, <1>3 DEF BelowWrap, Room
<1>7. Agreed(c, g, s, r) /\ Agreed(g, c, r, s)
  BY <1>1, <1>2 DEF SessionInv, SessionAt, Session
<1>8. Bond(first, clock, c, g, s, r) /\ Bond(InitSn[e], Clock(e), g, c, r, s)
  BY <1>1, <1>2, <1>3 DEF BondInv, BondAt
<1>9. Staged(e, first, clock, c, d, g, s, s2, r, r2)
  BY <1>4, <1>5, <1>6, <1>7, <1>8 DEF Staged
<1> QED
  BY <1>1, <1>2, <1>3, <1>9

LEMMA MovingKeepsBond ==
  ASSUME SessionInv, BelowWrap, BondInv, NEW e \in Ends, NEW d, Moving(e, d), now' = now
  PROVE  BondInv'
<1>1. PICK f \in Ends : f = Peer(e) /\ Peer(f) = e /\ Ends = {e, f} /\ f # e
  BY DEF Ends, Peer
<1>2. PICK c, g, s, r, s2, r2 : /\ c = con[e] /\ g = con[f] /\ s = net[e] /\ r = net[f]
                                /\ s2 = net'[e] /\ r2 = net'[f]
  OBVIOUS
<1>3. PICK first \in Nat, clock \in Nat :
        /\ first = InitSn[f] /\ clock = Clock(f) /\ Clock(e) \in Nat
        /\ Staged(e, first, clock, c, d, g, s, s2, r, r2)
  BY <1>1, <1>2, MovingIsStaged
<1>4. Bond(first, clock, d, g, s2, r2) /\ Bond(InitSn[e], Clock(e), g, d, r2, s2)
  BY <1>3, MovesKeepBond
<1>5. PICK d2 : d2 = [d EXCEPT !.out = << >>]
  OBVIOUS
<1>6. con'[e] = d2 /\ con'[f] = g
  BY <1>1, <1>2, <1>5 DEF Moving, SessionInv, TypeInv
<1>7. Alike(d, d2)
  <2>1. d \in Records
    BY <1>3 DEF Staged, Moves, Whole
  <2> QED
    BY <1>5, <2>1 DEF Records, Alike, Core
<1>8. Bond(first, clock, d2, g, s2, r2) /\ Bond(InitSn[e], Clock(e), g, d2, r2, s2)
  BY <1>4, <1>7, BondAlike
<1>9. Clock(e)' = Clock(e) /\ Clock(f)' = Clock(f)
  BY DEF Clock
<1>10. BondAt(e)' /\ BondAt(f)'
  BY <1>1, <1>2, <1>3, <1>6, <1>8, <1>9 DEF BondAt
<1> QED
  BY <1>1, <1>10 DEF BondInv

LEMMA BondStays ==
  ASSUME SessionInv, BelowWrap, BondInv, Unbroken', [Next]_vars
  PROVE  BondInv'
<1>1. CASE \E e \in Ends : \E d : Moving(e, d) /\ now' = now
  BY <1>1, MovingKeepsBond
<1>2. CASE \E e \in Ends : Drops(e) /\ now' = now
  <2>1. PICK e \in Ends, f \in Ends :
          /\ Drops(e) /\ now' = now /\ f = Peer(e) /\ Peer(f) = e /\ Ends = {e, f}
    BY <1>2 DEF Ends, Peer
  <2>2. net[e] \in Seq(Packets)
    BY AtRest
  <2>3. /\ Bond(InitSn[f], Clock(f), con[e], con[f], net'[e], net[f])
        /\ Bond(InitSn[e], Clock(e), con[f], con[e], net[f], net'[e])
    <3>1. /\ Bond(InitSn[f], Clock(f), con[e], con[f], net[e], net[f])
          /\ Bond(InitSn[e], Clock(e), con[f], con[e], net[f], net[e])
      BY <2>1 DEF BondInv, BondAt
    <3> QED
      BY <2>1, <2>2, <3>1, BondThinned DEF Drops
  <2>4. Clock(e)' = Clock(e) /\ Clock(f)' = Clock(f) /\ con' = con /\ net'[f] = net[f]
    BY <2>1 DEF Clock, Drops
  <2>5. BondAt(e)' /\ BondAt(f)'
    BY <2>1, <2>3, <2>4 DEF BondAt
  <2> QED
    BY <2>1, <2>5 DEF BondInv
<1>3. CASE UNCHANGED <<con, net>> /\ now' \in Nat /\ now' >= now
  <2> SUFFICES ASSUME NEW e \in Ends PROVE BondAt(e)'
    BY DEF BondInv
  <2>1. PICK f \in Ends : f = Peer(e)
    BY ConstantFacts
  <2>2. PICK clock \in Nat, later \in Nat :
          clock = Clock(f) /\ later = Clock(f)' /\ clock <= later
    <3>1. now \in Nat /\ Boot[f] \in Nat
      BY InvTimes, ConstantFacts DEF SessionInv, Times
    <3> QED
      BY <1>3, <3>1 DEF Clock
  <2>3. con[e].ts_r \in Nat /\ net[e] \in Seq(Packets)
    BY AtRest, CountFields
  <2>4. Bond(InitSn[f], clock, con[e], con[f], net[e], net[f])
    BY <2>1, <2>2 DEF BondInv, BondAt
  <2>5. Bond(InitSn[f], later, con[e], con[f], net[e], net[f])
    BY <2>2, <2>3, <2>4, BondLater
  <2> QED
    BY <1>3, <2>1, <2>2, <2>5 DEF BondAt
<1> QED
  BY <1>1, <1>2, <1>3, NextMoves

LEMMA BondStarts == Init => BondInv
<1> SUFFICES ASSUME Init, NEW e \in Ends PROVE BondAt(e)
  BY DEF BondInv
<1>1. PICK s \in Seq(Packets) : s = << >> /\ Len(s) = 0
  <2>1. << >> \in Seq(Packets) /\ Len(<< >>) = 0
    OBVIOUS
  <2> QED
    BY <2>1
<1>2. \A i : i \in 1 .. Len(s) => FALSE
  BY <1>1
<1>3. Kinds(s) = {}
  BY <1>2 DEF Kinds
<1>4. PICK c : /\ c = NoConnection /\ c.state = "NONE" /\ c.sn_t = 0 /\ c.sn_r = 0
               /\ c.cs_t = 0 /\ c.cs_r = 0 /\ c.ts_r = 0 /\ c.cts_r = 0 /\ c.got = << >>
  <2>1. /\ NoConnection.state = "NONE" /\ NoConnection.sn_t = 0 /\ NoConnection.sn_r = 0
        /\ NoConnection.cs_t = 0 /\ NoConnection.cs_r = 0 /\ NoConnection.ts_r = 0
        /\ NoConnection.cts_r = 0 /\ NoConnection.got = << >>
    BY DEF NoConnection
  <2> QED
    BY <2>1
<1>5. con[e] = c /\ con[Peer(e)] = c /\ net[e] = s /\ net[Peer(e)] = s
  BY <1>1, <1>4, ConstantFacts DEF Init
<1>6. PICK first \in Nat, clock \in Nat : first = InitSn[Peer(e)] /\ clock = Clock(Peer(e))
  BY ConstantFacts DEF Init, Clock, Numbers
<1>7. AtNone(c) /\ Never(c, c, s, s)
  BY <1>3, <1>4 DEF AtNone, Never, Calm
<1>8. Reach(first, c, c, s, s)
  BY <1>2, <1>4, <1>6 DEF Reach
<1>9. Rising(s) /\ Ahead(c, s) /\ Acking(s) /\ Timely(clock, c, s)
  BY <1>2, <1>4, <1>6 DEF Rising, Ahead, Acking, Timely
<1>10. Echoed(c, c, s, s)
  BY <1>2, <1>4 DEF Echoed
<1>11. Acked(c)
  <2>1. 0 + 1 < SnMod
    BY RetrCapAssumption, ConstantFacts
  <2> QED
    BY <1>4, <2>1 DEF Acked
<1>12. Bond(first, clock, c, c, s, s)
  BY <1>7, <1>8, <1>9, <1>10, <1>11 DEF Bond
<1> QED
  BY <1>5, <1>6, <1>12 DEF BondAt

LEMMA BondInvariance == Spec /\ []Unbroken /\ []BelowWrap => []BondInv
<1>1. SessionInv /\ BelowWrap /\ BondInv /\ Unbroken' /\ [Next]_vars => BondInv'
  BY BondStays
<1> QED
  BY <1>1, BondStarts, SessionInvariance, PTL DEF Spec

(***************************************************************************)
(* The numbers agree and only go forward.                                  *)
(***************************************************************************)
LEMMA BoundNumbersAgree ==
  ASSUME SessionInv, BondInv
  PROVE  NumbersAgree
<1> SUFFICES ASSUME NEW e \in Ends, Connected(e)
             PROVE  /\ con[e].sn_r <= con[Peer(e)].sn_t
                    /\ con[e].cs_t + 1 = con[e].sn_r
                    /\ con[e].cs_r < con[e].sn_t
  BY DEF NumbersAgree
<1>1. PICK c, g, s, r, first, clock :
        /\ c = con[e] /\ g = con[Peer(e)] /\ s = net[e] /\ r = net[Peer(e)]
        /\ Bond(first, clock, c, g, s, r)
  BY DEF BondInv, BondAt
<1>2. c \in Whole /\ c.state \in {"UP", "RETRREQ", "RETRRUN"}
  BY <1>1, AtRest DEF Connected
<1>3. c.sn_r <= g.sn_t
  BY <1>1 DEF Bond, Reach
<1>4. c.cs_t + 1 = c.sn_r
  <2>1. Took(c)
    BY <1>1, <1>2 DEF Bond, Never, Calm
  <2>2. c.cs_t + 1 < SnMod /\ c.cs_t \in Nat
    BY <1>1, <1>2, CountFields DEF Bond, Acked
  <2> QED
    BY <2>1, <2>2, NoWrap DEF Took, Plus1
<1>5. c.cs_r < c.sn_t
  BY <1>1, <1>2 DEF Bond, Acked
<1> QED
  BY <1>1, <1>3, <1>4, <1>5

Onward(c, d) ==
  d.sn_r >= c.sn_r /\ d.cs_r >= c.cs_r /\ d.ts_r >= c.ts_r /\ d.cts_r >= c.cts_r

LEMMA RunsOnward ==
  ASSUME NEW e \in Ends, NEW first \in Nat, NEW clock \in Nat, NEW c, NEW d, NEW g,
         NEW s, NEW s2, NEW r, NEW r2, Staged(e, first, clock, c, d, g, s, s2, r, r2),
         c.state \in Running
  PROVE  Onward(c, d)
<1>1. /\ Moves(e, c, d, s, s2, r, r2) /\ s \in Seq(Packets) /\ c \in Whole /\ d \in Whole
      /\ Ahead(c, s) /\ Acked(c) /\ Acking(s) /\ Timely(clock, c, s)
      /\ Echoed(c, g, s, r) /\ Reach(InitSn[e], g, c, r, s)
  BY DEF Staged, Bond, Moves
<1>2. /\ c.sn_r \in Nat /\ c.cs_r \in Nat /\ c.ts_r \in Nat /\ c.cts_r \in Nat
      /\ c.sn_t \in Nat
  BY <1>1, CountFields
<1>3. c.state \notin {"NONE", "CLOSED", "START"}
  BY DEF Running
<1>4. c.cs_r < c.sn_t
  BY <1>1, <1>3 DEF Acked
<1>5. c.cs_r <= Minus(c.sn_t, 1)
  <2>1. c.sn_t > 0 /\ c.sn_t \in Numbers
    BY <1>1, <1>2, <1>4, Fields
  <2>2. Minus(c.sn_t, 1) = c.sn_t - 1
    BY <2>1, BeforeNext
  <2> QED
    BY <1>2, <1>4, <2>2
<1>6. ASSUME Missed(c, d), d.cs_r >= c.cs_r, d.cts_r >= c.cts_r PROVE Onward(c, d)
  BY <1>2, <1>6 DEF Missed, Onward
<1>7. CASE Acted(e, c, d)
  <2>1. Missed(c, d) /\ d.cs_r = c.cs_r /\ d.cts_r = c.cts_r
    BY <1>3, <1>7 DEF Acted, Idles, Firm, Sends, Connects, Missed
  <2> QED
    BY <1>2, <1>6, <2>1
<1>8. CASE s # << >> /\ s2 = Tail(s) /\ Heeded(e, c, Head(s).pdu, d)
  <2>1. PICK p : p = Head(s).pdu
    OBVIOUS
  <2>2. 1 \in 1 .. Len(s) /\ Head(s) = s[1]
    BY <1>8, Frame
  <2>3. ASSUME p.type \in Ordinary, Taken(p, d) PROVE d.sn_r >= c.sn_r /\ d.ts_r >= c.ts_r
    <3>1. Taking(c, d, g, s, s2, p)
      <4>1. Takes(s, s2, d)
        BY <1>8, <2>1, <2>3 DEF Takes, Ordinary
      <4> QED
        BY <2>1, <4>1, TakesIsTaking
    <3>2. p.sn >= c.sn_r /\ p.ts >= c.ts_r
      BY <1>1, <2>1, <2>2, <2>3 DEF Ahead, Timely
    <3>3. d.sn_r = p.sn + 1 /\ p.sn \in Nat /\ d.ts_r = p.ts
      BY <3>1 DEF Taking, Taken
    <3> QED
      BY <1>2, <3>2, <3>3
  <2>4. ASSUME p.type \in {"HB", "Data", "RetrReq", "RetrData"}, CsValid(c, p)
        PROVE  p.cs >= c.cs_r
    <3>1. s[1] \in Packets
      BY <1>1, <2>2, PduFields
    <3>2. p \in NumberedPdus /\ p.cs \in Nat
      BY <2>1, <2>2, <3>1, ConstantFacts DEF Packets, NumberedPdus, Numbers
    <3>3. p.cs + 1 < SnMod
      BY <1>1, <2>1, <2>2, <2>4 DEF Acking
    <3>4. c.cs_r <= p.cs
      BY <1>1, <1>4, <2>4, <3>2, <3>3, Confirmed
    <3> QED
      BY <1>2, <3>2, <3>4
  <2>5. ASSUME p.type \in Echoes PROVE c.cts_r <= p.cts
    BY <1>1, <2>1, <2>2, <2>5 DEF Echoed
  <2>6. CASE Idles(e, c, d) \/ Requests(e, c, p, d)
    <3>1. Missed(c, d) /\ d.cs_r = c.cs_r /\ d.cts_r = c.cts_r
      BY <2>6 DEF Idles, Firm, Requests, Core, Missed
    <3> QED
      BY <1>2, <1>6, <3>1
  <2>7. CASE Hears(e, c, p, d)
    <3>1. p.type \in {"HB", "Data", "RetrResp"} /\ Taken(p, d)
      BY <2>7 DEF Hears
    <3>2. d.cs_r = Minus(c.sn_t, 1) \/ d.cs_r = c.cs_r
      BY <1>3, <2>7 DEF Hears
    <3>3. d.cts_r = c.cts_r \/ d.cts_r = p.cts
      BY <2>7 DEF Hears
    <3>4. d.sn_r >= c.sn_r /\ d.ts_r >= c.ts_r
      BY <2>3, <3>1 DEF Ordinary
    <3>5. d.cs_r >= c.cs_r
      <4>1. d.cs_r \in Nat
        BY <1>1, CountFields
      <4> QED
        BY <1>2, <1>5, <3>2, <4>1
    <3>6. d.cts_r >= c.cts_r
      <4>1. d.cts_r \in Nat
        BY <1>1, CountFields
      <4>2. c.cts_r <= p.cts
        BY <2>5, <3>1 DEF Echoes
      <4> QED
        BY <1>2, <3>3, <4>1, <4>2
    <3> QED
      BY <3>4, <3>5, <3>6 DEF Onward
  <2>8. CASE Delivers(e, c, p, d)
    <3>1. /\ p.type \in {"Data", "RetrData"} /\ Taken(p, d) /\ CsValid(c, p) /\ d.cs_r = p.cs
          /\ d.cts_r = c.cts_r \/ (d.cts_r = p.cts /\ p.cts >= c.cts_r)
      BY <2>8 DEF Delivers
    <3>2. d.cs_r >= c.cs_r
      BY <2>4, <3>1
    <3>3. d.cts_r >= c.cts_r
      BY <1>2, <3>1
    <3>4. d.sn_r >= c.sn_r /\ d.ts_r >= c.ts_r
      BY <2>3, <3>1 DEF Ordinary
    <3> QED
      BY <3>2, <3>3, <3>4 DEF Onward
  <2>9. CASE Repeats(e, c, p, d)
    <3>1. /\ p.type = "RetrReq" /\ CsValid(c, p) /\ d.cs_r = p.cs /\ d.cts_r = c.cts_r
          /\ Taken(p, d) \/ Missed(c, d)
      BY <2>9 DEF Repeats
    <3>2. d.cs_r >= c.cs_r /\ d.cts_r >= c.cts_r
      BY <1>2, <2>4, <3>1
    <3>3. CASE Taken(p, d)
      BY <2>3, <3>1, <3>2, <3>3 DEF Ordinary, Onward
    <3>4. CASE Missed(c, d)
      BY <1>6, <3>2, <3>4
    <3> QED
      BY <3>1, <3>3, <3>4
  <2>10. ~Serves(e, c, p, d) /\ ~Joins(e, c, p, d)
    BY <1>3 DEF Serves, Joins, Starting
  <2> QED
    BY <1>8, <2>1, <2>6, <2>7, <2>8, <2>9, <2>10 DEF Heeded
<1> QED
  BY <1>1, <1>7, <1>8 DEF Moves

GoesOnward ==
  \A e \in Ends : Connected(e) /\ con'[e].state # "NONE" => Onward(con[e], con'[e])

LEMMA StepsGoOnward ==
  ASSUME SessionInv, BelowWrap, BondInv, Unbroken', [Next]_vars
  PROVE  GoesOnward
<1> SUFFICES ASSUME NEW f \in Ends, Connected(f) PROVE Onward(con[f], con'[f])
  BY DEF GoesOnward
<1>1. con \in [Ends -> Whole]
  BY DEF SessionInv, TypeInv
<1>2. CASE con'[f] = con[f]
  <2>1. PICK c \in Whole : c = con[f]
    BY <1>1
  <2>2. c.sn_r \in Nat /\ c.cs_r \in Nat /\ c.ts_r \in Nat /\ c.cts_r \in Nat
    BY CountFields
  <2> QED
    BY <1>2, <2>1, <2>2 DEF Onward
<1>3. CASE \E e \in Ends : \E d : Moving(e, d) /\ now' = now
  <2>0. PICK e \in Ends : \E d : Moving(e, d)
    BY <1>3
  <2>1. PICK d : Moving(e, d)
    BY <2>0
  <2>2. CASE f = e
    <3>1. PICK d2 : d2 = [d EXCEPT !.out = << >>]
      OBVIOUS
    <3>2. con'[e] = d2 /\ d \in Whole
      BY <1>1, <2>1, <3>1 DEF Moving, Moves
    <3>3. Onward(con[e], d)
      BY <2>1, <2>2, MovingIsStaged, RunsOnward DEF Connected, Running
    <3>4. Onward(con[e], d2)
      BY <3>1, <3>2, <3>3 DEF Onward, Whole, Records
    <3> QED
      BY <2>2, <3>2, <3>4
  <2>3. CASE f # e
    <3>1. PICK d2 : con' = [con EXCEPT ![e] = d2]
      BY <2>1 DEF Moving
    <3>2. con'[f] = con[f]
      BY <1>1, <2>3, <3>1
    <3> QED
      BY <1>2, <3>2
  <2> QED
    BY <2>2, <2>3
<1>4. CASE \E e \in Ends : Drops(e) /\ now' = now
  BY <1>2, <1>4 DEF Drops
<1>5. CASE UNCHANGED <<con, net>>
  BY <1>2, <1>5
<1> QED
  BY <1>3, <1>4, <1>5, NextMoves

(***************************************************************************)
(* Two connected endpoints agree on the numbers: neither expects one that  *)
(* the other has not reached, what it will confirm is the number before    *)
(* the one it expects, and none takes a number of its own for confirmed    *)
(* that it has not used.  As long as no endpoint starts again and none     *)
(* runs out of numbers: a retransmission takes at most RetrCap + 3.        *)
(***************************************************************************)
THEOREM EndpointsAgree == Spec /\ []Unbroken /\ []BelowWrap => []NumbersAgree
BY BoundNumbersAgree, SessionInvariance, BondInvariance, PTL

(***************************************************************************)
(* What a connection expects, holds for confirmed and has seen of both     *)
(* clocks only goes forward, whatever is lost and retransmitted.           *)
(***************************************************************************)
THEOREM ForwardOnly == Spec /\ []Unbroken /\ []BelowWrap => NeverBack
<1>1. GoesOnward => [\A e \in Ends : Connected(e) /\ con'[e].state # "NONE" =>
                       /\ con'[e].sn_r >= con[e].sn_r
                       /\ con'[e].cs_r >= con[e].cs_r
                       /\ con'[e].ts_r >= con[e].ts_r
                       /\ con'[e].cts_r >= con[e].cts_r]_vars
  BY DEF GoesOnward, Onward
<1>2. SessionInv /\ BelowWrap /\ BondInv /\ Unbroken' /\ [Next]_vars =>
        [\A e \in Ends : Connected(e) /\ con'[e].state # "NONE" =>
           /\ con'[e].sn_r >= con[e].sn_r
           /\ con'[e].cs_r >= con[e].cs_r
           /\ con'[e].ts_r >= con[e].ts_r
           /\ con'[e].cts_r >= con[e].cts_r]_vars
  BY <1>1, StepsGoOnward
<1> QED
  BY <1>2, SessionInvariance, BondInvariance, PTL DEF Spec, NeverBack
-----------------------------------------------------------------------------
(***************************************************************************)
(*                           PART V: THE MESSAGES                          *)
(*                                                                         *)
(* c, g, s and r are as in part IV.  Messages are numbered in the order    *)
(* the application asks for them.                                          *)
(***************************************************************************)
\* What arrives may get to the application.
Live(c) == c.state \notin {"RETRREQ", "CLOSED"}

Carries(p) == p.type \in {"Data", "RetrData"}

Before(u, v) == \A i \in 1 .. Len(u) : Below(u[i], v)

\* Messages in order that c was asked for.
Wanted(u, c) == Rises(u) /\ \A i \in 1 .. Len(u) : u[i] \in 1 .. c.asked

\* The i-th PDU may get to the application, now or after the answer to a request.
Due(c, s, i) ==
  /\ Carries(s[i].pdu)
  /\ Live(c) \/ \E h \in 1 .. i - 1 : s[h].pdu.type = "RetrResp"

\* What is held for retransmission is in order, and before what waits.
Stored(c) ==
  LET f == c.fifo_retr IN
  /\ Queued(c)
  /\ \A i \in 1 .. Len(f) : /\ f[i].sn < c.sn_t /\ Wanted(f[i].msgs, c)
                            /\ Before(f[i].msgs, c.fifo_send)
  /\ \A i, j \in 1 .. Len(f) : i < j => f[i].sn < f[j].sn /\ Before(f[i].msgs, f[j].msgs)

Once(type, s) ==
  \A i, j \in 1 .. Len(s) : s[i].pdu.type = type /\ s[j].pdu.type = type => i = j

\* One request for retransmission is under way, or the answer to one, and while
\* it is nothing else gets to the application.
Asking(c, s, r) ==
  /\ Once("RetrReq", r) /\ Once("RetrResp", s)
  /\ "RetrReq" \in Kinds(r) => "RetrResp" \notin Kinds(s)
  /\ "RetrReq" \in Kinds(r) \/ "RetrResp" \in Kinds(s) => ~Live(c)

\* Nothing is read before both have begun.
Blank(c, g, s) == Unheard(g, s) \/ c.state = "START" => c.got = << >>

\* What was read, is under way and waits to be sent comes in this order.
Flowing(c, g, s) ==
  /\ Wanted(c.got, g) /\ Before(c.got, g.fifo_send)
  /\ \A i \in 1 .. Len(s) :
       Carries(s[i].pdu) => Wanted(s[i].pdu.msgs, g) /\ Before(s[i].pdu.msgs, g.fifo_send)
  /\ \A i \in 1 .. Len(s) : Due(c, s, i) => Before(c.got, s[i].pdu.msgs)
  /\ \A i, j \in 1 .. Len(s) :
       i < j /\ Due(c, s, i) /\ Carries(s[j].pdu) => Before(s[i].pdu.msgs, s[j].pdu.msgs)

\* What is held and would be sent again comes after what was read by then: what
\* is expected, what was asked for, and what is under way.
Follows(c, s, r, held) ==
  /\ held.sn >= c.sn_r => Before(c.got, held.msgs)
  /\ \A k \in 1 .. Len(r) :
       r[k].pdu.type = "RetrReq" /\ held.sn > r[k].pdu.cs => Before(c.got, held.msgs)
  /\ \A k \in 1 .. Len(s) :
       Due(c, s, k) /\ held.sn > s[k].pdu.sn => Before(s[k].pdu.msgs, held.msgs)

Holding(c, g, s, r) == \A i \in 1 .. Len(g.fifo_retr) : Follows(c, s, r, g.fifo_retr[i])

Stream(c, g, s, r) ==
  /\ Stored(g) /\ Asking(c, s, r) /\ Blank(c, g, s) /\ Flowing(c, g, s)
  /\ Holding(c, g, s, r)

StreamAt(e) == Stream(con[e], con[Peer(e)], net[e], net[Peer(e)])

StreamInv == \A e \in Ends : StreamAt(e)

(***************************************************************************)
(* Messages in order.                                                      *)
(***************************************************************************)
\* What is taken off the front of a queue, and what is left.
Halved(u, k, v, w) ==
  k \in 0 .. Len(u) /\ v = SubSeq(u, 1, k) /\ w = SubSeq(u, k + 1, Len(u))

LEMMA Halves ==
  ASSUME NEW u \in Seq(Nat), NEW k, NEW v, NEW w, Halved(u, k, v, w)
  PROVE  /\ v \in Seq(Nat) /\ w \in Seq(Nat)
         /\ \A c : Wanted(u, c) => Wanted(v, c) /\ Wanted(w, c) /\ Before(v, w)
         /\ \A m : Below(m, u) => Below(m, v) /\ Below(m, w)
<1>0. k \in 0 .. Len(u) /\ v = SubSeq(u, 1, k) /\ w = SubSeq(u, k + 1, Len(u))
  BY DEF Halved
<1>1. /\ v \in Seq(Nat) /\ Len(v) = k
      /\ \A i \in 1 .. k : v[i] = u[i] /\ i \in 1 .. Len(u)
  <2>1. SubSeq(u, 1, k) \in Seq(Nat) /\ Len(SubSeq(u, 1, k)) = k
    BY <1>0
  <2>2. \A i \in 1 .. k : SubSeq(u, 1, k)[i] = u[i]
    BY <1>0
  <2>3. \A i \in 1 .. k : i \in 1 .. Len(u)
    BY <1>0
  <2> QED
    BY <1>0, <2>1, <2>2, <2>3
<1>2. PICK n \in Nat : n = Len(u) - k /\ Len(u) = n + k
  <2>1. PICK l \in Nat : l = Len(u)
    OBVIOUS
  <2>2. k \in 0 .. l
    BY <1>0, <2>1
  <2>3. l - k \in Nat /\ l = (l - k) + k
    BY <2>2
  <2> QED
    BY <2>1, <2>3
<1>3. /\ w \in Seq(Nat) /\ Len(w) = n
      /\ \A i \in 1 .. n : w[i] = u[k + i] /\ k + i \in 1 .. Len(u)
  <2>1. SubSeq(u, k + 1, Len(u)) \in Seq(Nat) /\ Len(SubSeq(u, k + 1, Len(u))) = n
    BY <1>0, <1>2
  <2>2. \A i \in 1 .. n : k + i \in 1 .. Len(u)
    BY <1>0, <1>2
  <2>3. \A i \in 1 .. n : SubSeq(u, k + 1, Len(u))[i] = u[k + i]
    BY <1>0, <1>2
  <2> QED
    BY <1>0, <2>1, <2>2, <2>3
<1>4. ASSUME NEW c, Wanted(u, c) PROVE Wanted(v, c) /\ Wanted(w, c) /\ Before(v, w)
  <2>1. Rises(u) /\ \A i \in 1 .. Len(u) : u[i] \in 1 .. c.asked
    BY <1>4 DEF Wanted
  <2>2. Wanted(v, c)
    BY <1>1, <2>1 DEF Wanted, Rises
  <2>3. \A i, j \in 1 .. n : i < j => k + i < k + j
    BY <1>0
  <2>4. Rises(w)
    BY <1>0, <1>3, <2>1, <2>3 DEF Rises
  <2>5. Wanted(w, c)
    BY <1>3, <2>1, <2>4 DEF Wanted
  <2>6. \A i \in 1 .. k, j \in 1 .. n : i < k + j
    BY <1>0
  <2>7. Before(v, w)
    BY <1>1, <1>3, <2>1, <2>6 DEF Before, Below, Rises
  <2> QED
    BY <2>2, <2>5, <2>7
<1>5. ASSUME NEW m, Below(m, u) PROVE Below(m, v) /\ Below(m, w)
  BY <1>1, <1>3, <1>5 DEF Below
<1> QED
  BY <1>1, <1>3, <1>4, <1>5

LEMMA MoreBefore ==
  ASSUME NEW c \in Whole, NEW d \in Whole, More(c, d), NEW u \in Seq(Nat), Wanted(u, c)
  PROVE  Wanted(u, d) /\ (Before(u, c.fifo_send) => Before(u, d.fifo_send))
<1>1. PICK m \in Nat, n \in Nat : m = c.asked /\ n = d.asked /\ m <= n
  BY Fields DEF More
<1>2. \A i \in 1 .. Len(u) : u[i] \in 1 .. m /\ u[i] \in Nat /\ u[i] <= m
  BY <1>1 DEF Wanted
<1>3. \A i \in 1 .. Len(u) : u[i] \in 1 .. n
  BY <1>1, <1>2
<1>4. Wanted(u, d)
  BY <1>1, <1>3 DEF Wanted
<1>5. ASSUME Before(u, c.fifo_send) PROVE Before(u, d.fifo_send)
  BY <1>1, <1>2, <1>5 DEF Before, More
<1> QED
  BY <1>4, <1>5

\* Whatever happens, what waits to be sent comes after what was asked for before.
LEMMA MovesMore ==
  ASSUME NEW e, NEW c, NEW d, NEW s, NEW s2, NEW r, NEW r2, Moves(e, c, d, s, s2, r, r2)
  PROVE  More(c, d)
<1>1. c \in Whole /\ d \in Whole
  BY DEF Moves
<1>2. c.asked \in Nat /\ c.fifo_send \in Seq(Nat)
  BY <1>1, Fields
<1>3. ASSUME NEW p, Requests(e, c, p, d) \/ Repeats(e, c, p, d) PROVE More(c, d)
  BY <1>1, <1>3, MoreSame DEF Requests, Repeats, Core
<1>4. ASSUME Connects(e, c, d) PROVE More(c, d)
  BY <1>1, <1>4, MoreSame DEF Connects
<1>5. ASSUME Sends(e, c, d) PROVE More(c, d)
  <2>1. PICK k \in 1 .. Len(c.fifo_send) :
          d.fifo_send = SubSeq(c.fifo_send, k + 1, Len(c.fifo_send))
    BY <1>5 DEF Sends
  <2>2. PICK v : v = SubSeq(c.fifo_send, 1, k)
    OBVIOUS
  <2>3. Halved(c.fifo_send, k, v, d.fifo_send)
    <3>1. k \in 0 .. Len(c.fifo_send)
      BY <1>2
    <3> QED
      BY <2>1, <2>2, <3>1 DEF Halved
  <2>4. /\ Wanted(c.fifo_send, c) => Wanted(d.fifo_send, c)
        /\ \A m : Below(m, c.fifo_send) => Below(m, d.fifo_send)
    BY <1>2, <2>3, Halves
  <2>5. d.asked = c.asked
    BY <1>5 DEF Sends
  <2>6. Queued(c) => Queued(d)
    BY <2>4, <2>5 DEF Queued, Wanted
  <2> QED
    BY <1>2, <2>4, <2>5, <2>6 DEF More
<1>6. ASSUME NEW p, Serves(e, c, p, d) PROVE More(c, d)
  <2>1. d.fifo_send = << >> /\ d.asked = c.asked
    BY <1>6 DEF Serves
  <2>2. \A i \in 1 .. Len(d.fifo_send) : FALSE
    BY <2>1
  <2>3. Queued(d) /\ \A m : Below(m, d.fifo_send)
    BY <2>2 DEF Queued, Below, Rises
  <2> QED
    BY <1>2, <2>1, <2>3 DEF More
<1>7. CASE Acted(e, c, d)
  BY <1>4, <1>5, <1>7 DEF Acted, Idles
<1>8. CASE \E p : Heeded(e, c, p, d)
  BY <1>3, <1>6, <1>8 DEF Heeded, Idles, Hears, Delivers, Joins
<1> QED
  BY <1>7, <1>8 DEF Moves

(***************************************************************************)
(* What is held for retransmission.                                        *)
(***************************************************************************)
\* v is the end of u.
Rear(u, v) ==
  \E o \in Nat : /\ Len(u) = o + Len(v)
                 /\ \A i \in 1 .. Len(v) : v[i] = u[o + i] /\ o + i \in 1 .. Len(u)

LEMMA FifoFacts ==
  ASSUME NEW c \in Whole
  PROVE  /\ c.fifo_retr \in Seq(Held)
         /\ \A i \in 1 .. Len(c.fifo_retr) :
              c.fifo_retr[i].sn \in Nat /\ c.fifo_retr[i].msgs \in Seq(Nat)
<1>1. PICK f \in Seq(Held) : f = c.fifo_retr
  BY Fields
<1>2. \A i \in 1 .. Len(f) : f[i] \in Held
  OBVIOUS
<1>3. \A h \in Held : h.sn \in Nat /\ h.msgs \in Seq(Nat)
  BY ConstantFacts DEF Held, Numbers
<1> QED
  BY <1>1, <1>2, <1>3

\* What is not yet confirmed.
LEMMA StillHeld ==
  ASSUME NEW c \in Whole, NEW cs \in Nat, NEW f, f = RemoveConfirmed(c.fifo_retr, cs)
  PROVE  /\ f \in Seq(Held) /\ Rear(c.fifo_retr, f)
         /\ Stored(c) => \A i \in 1 .. Len(f) : f[i].sn > cs
<1>1. PICK u \in Seq(Held), n \in Nat : u = c.fifo_retr /\ n = Len(u)
  BY Fields
<1>2. PICK o \in 0 .. n :
        /\ f \in Seq(Held) /\ Len(f) = n - o /\ \A i \in 1 .. n - o : f[i] = u[o + i]
        /\ o < n => o \in 1 .. n /\ u[o].sn = cs
  BY <1>1, RemoveConfirmedFacts
<1>3. PICK l \in Nat : l = Len(f) /\ l = n - o /\ n = o + l /\ o \in Nat
  BY <1>2
<1>4. \A i \in 1 .. l : f[i] = u[o + i] /\ o + i \in 1 .. n
  <2>1. \A i \in 1 .. l : o + i \in 1 .. n
    BY <1>3
  <2> QED
    BY <1>2, <1>3, <2>1
<1>5. Rear(u, f)
  BY <1>1, <1>3, <1>4 DEF Rear
<1>6. ASSUME Stored(c), NEW i \in 1 .. Len(f) PROVE f[i].sn > cs
  <2>1. o < n /\ o < o + i /\ o + i \in 1 .. n
    BY <1>3, <1>4, <1>6
  <2>2. o \in 1 .. n /\ u[o].sn = cs /\ f[i] = u[o + i]
    BY <1>2, <1>3, <1>4, <1>6, <2>1
  <2>3. u[o].sn < u[o + i].sn
    BY <1>1, <1>6, <2>1, <2>2 DEF Stored
  <2>4. u[o + i].sn \in Nat
    BY <1>1, <2>1, FifoFacts
  <2> QED
    BY <2>2, <2>3, <2>4
<1> QED
  BY <1>1, <1>2, <1>5, <1>6

LEMMA RearSame ==
  ASSUME NEW S, NEW u \in Seq(S)
  PROVE  Rear(u, u)
<1>1. PICK n \in Nat : n = Len(u)
  OBVIOUS
<1>2. n = 0 + n /\ \A i \in 1 .. n : 0 + i = i /\ 0 + i \in 1 .. n
  OBVIOUS
<1> QED
  BY <1>1, <1>2 DEF Rear

LEMMA RearEmpty ==
  ASSUME NEW S, NEW u \in Seq(S), NEW v, v = << >>
  PROVE  Rear(u, v)
<1>1. PICK n \in Nat : n = Len(u)
  OBVIOUS
<1>2. Len(v) = 0 /\ n = n + 0 /\ \A i \in 1 .. 0 : FALSE
  OBVIOUS
<1> QED
  BY <1>1, <1>2 DEF Rear

\* What is sent again, and the empty message after it.
LEMMA NthInOrder ==
  ASSUME NEW c \in Whole, Stored(c), NEW f \in Seq(Held), Rear(c.fifo_retr, f),
         NEW i \in Nat \ {0}
  PROVE  /\ Nth(f, i) \in Seq(Nat) /\ Wanted(Nth(f, i), c) /\ Before(Nth(f, i), c.fifo_send)
         /\ \A j \in Nat : i < j => Before(Nth(f, i), Nth(f, j))
<1>1. PICK u \in Seq(Held), l \in Nat : u = c.fifo_retr /\ l = Len(f)
  BY Fields
<1>2. PICK o \in Nat : \A k \in 1 .. l : f[k] = u[o + k] /\ o + k \in 1 .. Len(u)
  BY <1>1 DEF Rear
<1>3. PICK none \in Seq(Nat) : none = << >> /\ Len(none) = 0
  <2>1. << >> \in Seq(Nat)
    OBVIOUS
  <2> QED
    BY <2>1
<1>4. \A v : Before(none, v) /\ Before(v, none)
  BY <1>3 DEF Before, Below
<1>5. Wanted(none, c)
  BY <1>3 DEF Wanted, Rises
<1>6. CASE i <= l
  <2>1. i \in 1 .. l /\ o + i \in 1 .. Len(u) /\ f[i] = u[o + i]
    BY <1>2, <1>6
  <2>2. Nth(f, i) = u[o + i].msgs
    BY <1>1, <1>6, <2>1 DEF Nth
  <2>3. /\ Nth(f, i) \in Seq(Nat) /\ Wanted(Nth(f, i), c) /\ Before(Nth(f, i), c.fifo_send)
    BY <1>1, <2>1, <2>2, FifoFacts DEF Stored
  <2>4. ASSUME NEW j \in Nat, i < j PROVE Before(Nth(f, i), Nth(f, j))
    <3>1. CASE j <= l
      <4>1. j \in 1 .. l /\ o + i < o + j
        BY <2>4, <3>1
      <4>2. o + j \in 1 .. Len(u) /\ f[j] = u[o + j]
        BY <1>2, <4>1
      <4>3. Nth(f, j) = u[o + j].msgs
        BY <1>1, <3>1, <4>2 DEF Nth
      <4> QED
        BY <1>1, <2>1, <2>2, <4>1, <4>2, <4>3 DEF Stored
    <3>2. CASE ~(j <= l)
      BY <1>1, <1>3, <1>4, <3>2 DEF Nth
    <3> QED
      BY <3>1, <3>2
  <2> QED
    BY <2>3, <2>4
<1>7. CASE ~(i <= l)
  <2>1. Nth(f, i) = none
    BY <1>1, <1>3, <1>7 DEF Nth
  <2> QED
    BY <1>3, <1>4, <1>5, <2>1
<1> QED
  BY <1>6, <1>7

\* What becomes of it in a step.
LEMMA WhatIsHeld ==
  ASSUME NEW e, NEW c, NEW d, NEW s \in Seq(Packets), NEW s2, NEW r, NEW r2,
         Moves(e, c, d, s, s2, r, r2)
  PROVE  \/ Rear(c.fifo_retr, d.fifo_retr)
         \/ /\ Sends(e, c, d)
            /\ d.fifo_retr = Append(c.fifo_retr, [sn |-> c.sn_t, msgs |-> d.out[1].pdu.msgs])
         \/ s # << >> /\ s2 = Tail(s) /\ Repeats(e, c, Head(s).pdu, d)
<1>1. c \in Whole /\ d \in Whole
  BY DEF Moves
<1>2. c.fifo_retr \in Seq(Held)
  BY <1>1, Fields
<1>3. d.fifo_retr = c.fifo_retr => Rear(c.fifo_retr, d.fifo_retr)
  BY <1>2, RearSame
<1>4. CASE Acted(e, c, d)
  BY <1>3, <1>4 DEF Acted, Idles, Firm, Connects, Sends
<1>5. CASE s # << >> /\ s2 = Tail(s) /\ Heeded(e, c, Head(s).pdu, d)
  <2>1. PICK p \in NumberedPdus : p = Head(s).pdu
    <3>1. Head(s) \in Packets
      BY <1>5
    <3> QED
      BY <3>1 DEF Packets
  <2>2. CASE Idles(e, c, d) \/ Hears(e, c, p, d) \/ Requests(e, c, p, d) \/ Joins(e, c, p, d)
    BY <1>3, <2>2 DEF Idles, Firm, Hears, Requests, Core, Joins
  <2>3. CASE Delivers(e, c, p, d)
    <3>1. p.cs \in Nat
      BY NumberFacts, ConstantFacts DEF Numbers
    <3>2. Rear(c.fifo_retr, RemoveConfirmed(c.fifo_retr, p.cs))
      BY <1>1, <3>1, StillHeld
    <3> QED
      BY <1>3, <2>3, <3>2 DEF Delivers
  <2>4. CASE Serves(e, c, p, d)
    BY <1>2, <2>4, RearEmpty DEF Serves
  <2>5. CASE Repeats(e, c, p, d)
    BY <1>5, <2>1, <2>5
  <2> QED
    BY <1>5, <2>1, <2>2, <2>3, <2>4, <2>5 DEF Heeded
<1> QED
  BY <1>4, <1>5 DEF Moves

(***************************************************************************)
(* What is held stays in order.                                            *)
(***************************************************************************)
LEMMA HeldAtTheEnd ==
  ASSUME NEW u \in Seq(Held), NEW h \in Held, NEW w, w = Append(u, h)
  PROVE  /\ Len(w) = Len(u) + 1
         /\ \A i \in 1 .. Len(w) : \/ i \in 1 .. Len(u) /\ w[i] = u[i]
                                   \/ i = Len(u) + 1 /\ w[i] = h
<1>1. PICK n \in Nat : n = Len(u)
  OBVIOUS
<1>2. Len(w) = n + 1 /\ \A i \in 1 .. n + 1 : w[i] = IF i <= n THEN u[i] ELSE h
  BY <1>1, AppendProperties
<1>3. \A i \in 1 .. n + 1 : (i \in 1 .. n /\ i <= n) \/ (i = n + 1 /\ ~(i <= n))
  OBVIOUS
<1> QED
  BY <1>1, <1>2, <1>3

\* The messages of a new PDU are the first of those that wait.
LEMMA WhatIsSent ==
  ASSUME NEW e, NEW c \in Whole, NEW d \in Whole, Sends(e, c, d), Queued(c)
  PROVE  \E v \in Seq(Nat) :
           /\ v = d.out[1].pdu.msgs /\ Wanted(v, d) /\ Before(v, d.fifo_send)
           /\ \A x : Below(x, c.fifo_send) => Below(x, v)
<1>1. PICK k \in 1 .. Len(c.fifo_send) :
        /\ d.out[1].pdu.msgs = SubSeq(c.fifo_send, 1, k)
        /\ d.fifo_send = SubSeq(c.fifo_send, k + 1, Len(c.fifo_send))
  BY DEF Sends
<1>2. PICK u \in Seq(Nat) : u = c.fifo_send /\ k \in 0 .. Len(u)
  <2>1. c.fifo_send \in Seq(Nat) /\ k \in 0 .. Len(c.fifo_send)
    BY Fields
  <2> QED
    BY <2>1
<1>2a. PICK v, w : v = d.out[1].pdu.msgs /\ w = d.fifo_send /\ Halved(u, k, v, w)
  BY <1>1, <1>2 DEF Halved
<1>3. Wanted(u, c)
  BY <1>2 DEF Queued, Wanted
<1>4. /\ v \in Seq(Nat) /\ Wanted(v, c) /\ Before(v, w)
      /\ \A x : Below(x, u) => Below(x, v)
  BY <1>2a, <1>3, Halves
<1>5. Wanted(v, d)
  BY <1>4 DEF Sends, Wanted
<1> QED
  BY <1>2, <1>2a, <1>4, <1>5

LEMMA ActorStores ==
  ASSUME NEW e \in Ends, NEW first \in Nat, NEW clock \in Nat, NEW c, NEW d, NEW g,
         NEW s, NEW s2, NEW r, NEW r2, Staged(e, first, clock, c, d, g, s, s2, r, r2),
         Stored(c)
  PROVE  Stored(d)
<1>1. /\ Moves(e, c, d, s, s2, r, r2) /\ s \in Seq(Packets) /\ Room(c)
      /\ c \in Whole /\ d \in Whole /\ AtNone(c)
  BY DEF Staged, Bond, Moves
<1>2. More(c, d)
  BY <1>1, MovesMore
<1>3. Queued(d)
  BY <1>2 DEF Stored, More
<1>4. PICK u \in Seq(Held), w \in Seq(Held), m \in Nat, n \in Nat :
        u = c.fifo_retr /\ w = d.fifo_retr /\ m = c.sn_t /\ n = d.sn_t
  BY <1>1, Fields, CountFields
<1>5. /\ \A i \in 1 .. Len(u) : u[i].sn < m /\ u[i].sn \in Nat /\ u[i].msgs \in Seq(Nat)
                                /\ Wanted(u[i].msgs, c) /\ Before(u[i].msgs, c.fifo_send)
      /\ \A i, j \in 1 .. Len(u) : i < j => u[i].sn < u[j].sn /\ Before(u[i].msgs, u[j].msgs)
  BY <1>1, <1>4, FifoFacts DEF Stored
<1>6. \A i \in 1 .. Len(u) : Wanted(u[i].msgs, d) /\ Before(u[i].msgs, d.fifo_send)
  BY <1>1, <1>2, <1>5, MoreBefore
<1>7. CASE Rear(u, w)
  <2>1. PICK o \in Nat : \A i \in 1 .. Len(w) : w[i] = u[o + i] /\ o + i \in 1 .. Len(u)
    BY <1>7 DEF Rear
  <2>2. \A i \in 1 .. Len(w) : w[i].sn < n
    <3>1. m <= n \/ Connects(e, c, d) \/ Serving(e, c, s, d)
      BY <1>4, BeginsAnew
    <3>2. CASE m <= n
      BY <1>5, <2>1, <3>2
    <3>3. CASE Connects(e, c, d)
      <4>1. m = 0
        BY <1>1, <1>4, <3>3 DEF Connects, AtNone
      <4>2. \A i \in 1 .. Len(w) : u[o + i].sn \in Nat /\ u[o + i].sn < 0
        BY <1>5, <2>1, <4>1
      <4>3. \A i \in 1 .. Len(w) : FALSE
        BY <4>2
      <4> QED
        BY <4>3
    <3>4. CASE Serving(e, c, s, d)
      <4>1. w = << >>
        BY <1>4, <3>4 DEF Serving, Serves
      <4> QED
        BY <4>1
    <3> QED
      BY <3>1, <3>2, <3>3, <3>4
  <2>3. \A i, j \in 1 .. Len(w) : i < j => o + i < o + j
    OBVIOUS
  <2>4. \A i, j \in 1 .. Len(w) : i < j => w[i].sn < w[j].sn /\ Before(w[i].msgs, w[j].msgs)
    BY <1>5, <2>1, <2>3
  <2>5. \A i \in 1 .. Len(w) : Wanted(w[i].msgs, d) /\ Before(w[i].msgs, d.fifo_send)
    BY <1>6, <2>1
  <2> QED
    BY <1>3, <1>4, <2>2, <2>4, <2>5 DEF Stored
<1>8. CASE /\ Sends(e, c, d)
           /\ w = Append(u, [sn |-> c.sn_t, msgs |-> d.out[1].pdu.msgs])
  <2>1. PICK v \in Seq(Nat) :
          /\ v = d.out[1].pdu.msgs /\ Wanted(v, d) /\ Before(v, d.fifo_send)
          /\ \A x : Below(x, c.fifo_send) => Below(x, v)
    BY <1>1, <1>8, WhatIsSent DEF Stored
  <2>2. n = m + 1
    BY <1>4, <1>8 DEF Sends
  <2>5. PICK h \in Held : h = [sn |-> c.sn_t, msgs |-> d.out[1].pdu.msgs]
    BY <1>1, <2>1, Fields DEF Held
  <2>6. h.sn = m /\ h.msgs = v
    BY <1>4, <2>1, <2>5
  <2>7. \A i \in 1 .. Len(w) : \/ i \in 1 .. Len(u) /\ w[i] = u[i]
                               \/ i = Len(u) + 1 /\ w[i] = h
    BY <1>8, <2>5, HeldAtTheEnd
  <2>8. \A i \in 1 .. Len(u) : Before(u[i].msgs, v)
    BY <1>5, <2>1 DEF Before
  <2>9. \A i \in 1 .. Len(w) : /\ w[i].sn < n /\ Wanted(w[i].msgs, d)
                               /\ Before(w[i].msgs, d.fifo_send)
    <3> SUFFICES ASSUME NEW i \in 1 .. Len(w)
                 PROVE  /\ w[i].sn < n /\ Wanted(w[i].msgs, d)
                        /\ Before(w[i].msgs, d.fifo_send)
      OBVIOUS
    <3>1. CASE i \in 1 .. Len(u) /\ w[i] = u[i]
      <4>1. u[i].sn \in Nat /\ u[i].sn < m
        BY <1>5, <3>1
      <4>2. u[i].sn < n
        BY <2>2, <4>1
      <4> QED
        BY <1>6, <3>1, <4>2
    <3>2. CASE w[i] = h
      BY <2>1, <2>2, <2>6, <3>2
    <3> QED
      BY <2>7, <3>1, <3>2
  <2>10. ASSUME NEW i \in 1 .. Len(w), NEW j \in 1 .. Len(w), i < j
         PROVE  w[i].sn < w[j].sn /\ Before(w[i].msgs, w[j].msgs)
    <3>1. i \in 1 .. Len(u) /\ w[i] = u[i]
      <4>1. j <= Len(u) + 1 /\ Len(u) \in Nat
        BY <2>7
      <4>2. i # Len(u) + 1
        BY <2>10, <4>1
      <4> QED
        BY <2>7, <4>2
    <3>2. CASE j \in 1 .. Len(u) /\ w[j] = u[j]
      BY <1>5, <2>10, <3>1, <3>2
    <3>3. CASE w[j] = h
      BY <1>5, <2>6, <2>8, <3>1, <3>3
    <3> QED
      BY <2>7, <3>2, <3>3
  <2> QED
    BY <1>3, <1>4, <2>9, <2>10 DEF Stored
<1>9. CASE s # << >> /\ Repeats(e, c, Head(s).pdu, d)
  <2>1. PICK p \in NumberedPdus : p = Head(s).pdu /\ p.cs \in Nat
    <3>1. Head(s) \in Packets
      BY <1>1, <1>9
    <3> QED
      BY <3>1, NumberFacts, ConstantFacts DEF Packets, Numbers
  <2>2. PICK f \in Seq(Held), l \in Nat :
          f = RemoveConfirmed(c.fifo_retr, p.cs) /\ l = Len(f) /\ Rear(c.fifo_retr, f)
    <3>1. PICK f \in Seq(Held) : /\ f = RemoveConfirmed(c.fifo_retr, p.cs)
                                 /\ Rear(c.fifo_retr, f)
      BY <1>1, <2>1, StillHeld
    <3> QED
      BY <3>1
  <2>3. /\ n = m + l + 3
        /\ Len(w) = IF l < RetrCap THEN l + 1 ELSE RetrCap
        /\ \A i \in 1 .. Len(w) : w[i].sn = m + i /\ w[i].msgs = Nth(f, i)
    BY <1>4, <1>9, <2>1, <2>2 DEF Repeats
  <2>4. Len(w) \in Nat /\ Len(w) <= l + 1
    <3>1. RetrCap \in Nat
      BY ConstantFacts
    <3> QED
      BY <2>2, <2>3, <3>1
  <2>5. \A i \in 1 .. Len(w) : i \in Nat \ {0} /\ m + i < n
    BY <2>3, <2>4
  <2>6. \A i \in 1 .. Len(w) :
          /\ Nth(f, i) \in Seq(Nat) /\ Wanted(Nth(f, i), c) /\ Before(Nth(f, i), c.fifo_send)
          /\ \A j \in Nat : i < j => Before(Nth(f, i), Nth(f, j))
    BY <1>1, <2>2, <2>5, NthInOrder
  <2>7. \A i \in 1 .. Len(w) : Wanted(Nth(f, i), d) /\ Before(Nth(f, i), d.fifo_send)
    BY <1>1, <1>2, <2>6, MoreBefore
  <2>8. \A i, j \in 1 .. Len(w) : i < j => m + i < m + j /\ j \in Nat
    OBVIOUS
  <2>9. \A i, j \in 1 .. Len(w) : i < j => w[i].sn < w[j].sn /\ Before(w[i].msgs, w[j].msgs)
    BY <2>3, <2>6, <2>8
  <2>10. \A i \in 1 .. Len(w) : /\ w[i].sn < n /\ Wanted(w[i].msgs, d)
                                /\ Before(w[i].msgs, d.fifo_send)
    BY <2>3, <2>5, <2>7
  <2> QED
    BY <1>3, <1>4, <2>9, <2>10 DEF Stored
<1> QED
  BY <1>1, <1>4, <1>7, <1>8, <1>9, WhatIsHeld

(***************************************************************************)
(* What is sent for the application, and to make up for what was missed.   *)
(***************************************************************************)
Speech == {"Data", "RetrData", "RetrReq", "RetrResp"}

\* What was missed is sent again.
Answering(e, c, d, s, s2) == s # << >> /\ s2 = Tail(s) /\ Repeats(e, c, Head(s).pdu, d)
Resent(c, s) == RemoveConfirmed(c.fifo_retr, Head(s).pdu.cs)

\* p is the n-th PDU of a move.
Utters(e, c, d, s, s2, n, p) ==
  \/ p.type \notin Speech
  \/ n = 1 /\ p.type = "Data" /\ Sends(e, c, d) /\ p = d.out[1].pdu
  \/ /\ n = 1 /\ p.type = "RetrReq" /\ p.cs = c.cs_t
     /\ s # << >> /\ s2 = Tail(s) /\ Requests(e, c, Head(s).pdu, d)
  \/ n = 1 /\ p.type = "RetrResp" /\ Answering(e, c, d, s, s2)
  \/ n >= 2 /\ p.type = "RetrData" /\ p.msgs = Nth(Resent(c, s), n - 1) /\ Answering(e, c, d, s, s2)

LEMMA WhatIsUttered ==
  ASSUME NEW e \in Ends, NEW c, NEW d, NEW s, NEW s2, NEW r, NEW r2,
         Moves(e, c, d, s, s2, r, r2)
  PROVE  \A n \in 1 .. Len(d.out) : Utters(e, c, d, s, s2, n, d.out[n].pdu)
<1> SUFFICES ASSUME NEW n \in 1 .. Len(d.out), d.out[n].pdu.type \in Speech
             PROVE  Utters(e, c, d, s, s2, n, d.out[n].pdu)
  BY DEF Utters
<1>1. d.out \in Seq(Packets)
  BY Fields DEF Moves
<1>2. \A k \in Goodbyes(e) : k.pdu.type \notin Speech
  BY DEF Goodbyes, Speech
<1>3. d.out \notin Seq(Goodbyes(e))
  <2>1. SUFFICES ASSUME d.out \in Seq(Goodbyes(e)) PROVE FALSE
    OBVIOUS
  <2>2. d.out[n] \in Goodbyes(e)
    BY <2>1
  <2> QED
    BY <1>2, <2>2
<1>4. CASE Acted(e, c, d)
  <2>1. CASE Idles(e, c, d)
    BY <1>3, <2>1 DEF Idles
  <2>2. CASE Sends(e, c, d)
    <3>1. Len(d.out) = 1 /\ d.out[1].pdu.type = "Data"
      BY <2>2 DEF Sends, Says
    <3>2. n = 1
      BY <3>1
    <3> QED
      BY <2>2, <3>1, <3>2 DEF Utters
  <2>3. CASE Connects(e, c, d)
    <3>1. Len(d.out) = 1 /\ d.out[1].pdu.type = "ConReq"
      BY <2>3 DEF Connects
    <3>2. n = 1
      BY <3>1
    <3> QED
      BY <3>1, <3>2 DEF Speech
  <2> QED
    BY <1>4, <2>1, <2>2, <2>3 DEF Acted
<1>5. CASE s # << >> /\ s2 = Tail(s) /\ Heeded(e, c, Head(s).pdu, d)
  <2>1. PICK p : p = Head(s).pdu
    OBVIOUS
  <2>2. CASE Idles(e, c, d) \/ Hears(e, c, p, d) \/ Delivers(e, c, p, d)
    BY <1>3, <2>2 DEF Idles, Hears, Delivers
  <2>3. CASE Requests(e, c, p, d)
    <3>1. Len(d.out) = 1 /\ d.out[1].pdu.type = "RetrReq" /\ d.out[1].pdu.cs = c.cs_t
      BY <2>3 DEF Requests, Says
    <3>2. n = 1
      BY <3>1
    <3> QED
      BY <1>5, <2>1, <2>3, <3>1, <3>2 DEF Utters
  <2>4. CASE Repeats(e, c, p, d)
    <3>1. Answering(e, c, d, s, s2) /\ d.cs_r = p.cs
      BY <1>5, <2>1, <2>4 DEF Answering, Repeats
    <3>2. Answers(e, c, d)
      BY <1>3, <2>4 DEF Repeats
    <3>3. PICK m \in Nat : m = Len(d.out) /\ m >= 3
      BY <1>1, <3>2 DEF Answers
    <3>4. CASE n = 1
      <4>1. d.out[1].pdu.type = "RetrResp"
        BY <3>2 DEF Answers, Says
      <4> QED
        BY <3>1, <3>4, <4>1 DEF Utters
    <3>5. CASE n = m
      <4>1. d.out[m].pdu.type = "HB"
        BY <3>2, <3>3 DEF Answers, Says
      <4> QED
        BY <3>5, <4>1 DEF Speech
    <3>6. CASE n \in 2 .. m - 1
      <4>1. /\ d.out[n].pdu.type = "RetrData"
            /\ d.out[n].pdu.msgs = Nth(RemoveConfirmed(c.fifo_retr, d.cs_r), n - 1)
        BY <3>2, <3>3, <3>6 DEF Answers, Says
      <4>2. d.out[n].pdu.msgs = Nth(Resent(c, s), n - 1) /\ n >= 2
        BY <2>1, <3>1, <3>6, <4>1 DEF Resent
      <4> QED
        BY <3>1, <4>1, <4>2 DEF Utters
    <3> QED
      BY <3>3, <3>4, <3>5, <3>6
  <2>5. CASE Serves(e, c, p, d)
    <3>1. d.out[n] \in Goodbyes(e) \/ Says(e, d, d.out[n], "ConResp", InitSn[e])
      BY <2>5 DEF Serves
    <3> QED
      BY <1>2, <3>1 DEF Says, Speech
  <2>6. CASE Joins(e, c, p, d)
    <3>1. Says(e, d, d.out[1], "HB", c.sn_t) /\ \A i \in 2 .. Len(d.out) : d.out[i] \in Goodbyes(e)
      BY <2>6 DEF Joins
    <3>2. n = 1 \/ n \in 2 .. Len(d.out)
      BY <1>1
    <3> QED
      BY <1>2, <3>1, <3>2 DEF Says, Speech
  <2> QED
    BY <1>5, <2>1, <2>2, <2>3, <2>4, <2>5, <2>6 DEF Heeded
<1> QED
  BY <1>4, <1>5 DEF Moves

\* What was on its way to the peer, and what is said now.
Extended(e, c, d, s, s2, r, r2) ==
  \A i \in 1 .. Len(r2) :
    \/ i \in 1 .. Len(r) /\ r2[i] = r[i]
    \/ /\ i > Len(r) /\ i - Len(r) >= 1
       /\ Utters(e, c, d, s, s2, i - Len(r), r2[i].pdu)
       /\ r2[i].pdu.type \in Speech => r2[i].pdu.sn = c.sn_t + ((i - Len(r)) - 1)

LEMMA WhatIsOnItsWay ==
  ASSUME NEW e \in Ends, NEW first, NEW clock, NEW c, NEW d, NEW g,
         NEW s, NEW s2, NEW r, NEW r2, Staged(e, first, clock, c, d, g, s, s2, r, r2)
  PROVE  /\ Extended(e, c, d, s, s2, r, r2)
         /\ \A i \in 1 .. Len(r) : i \in 1 .. Len(r2) /\ r2[i] = r[i]
         /\ Len(r) \in Nat /\ Len(r2) \in Nat
<1>1. Moves(e, c, d, s, s2, r, r2) /\ r \in Seq(Packets) /\ r2 = r \o d.out
  BY DEF Staged, Moves
<1>2. d.out \in Seq(Packets)
  BY <1>1, Fields DEF Moves
<1>3. /\ Len(r2) = Len(r) + Len(d.out)
      /\ Len(r) \in Nat /\ Len(d.out) \in Nat
      /\ \A i \in 1 .. Len(r) : r2[i] = r[i]
      /\ \A i \in 1 .. Len(r2) :
           \/ i \in 1 .. Len(r)
           \/ i > Len(r) /\ i - Len(r) \in 1 .. Len(d.out) /\ r2[i] = d.out[i - Len(r)]
  BY <1>1, <1>2, JoinedTo
<1>4. PICK l \in Nat, m \in Nat : l = Len(r) /\ m = Len(d.out)
  BY <1>3
<1>5. \A i \in 1 .. l : i \in 1 .. l + m
  OBVIOUS
<1>6. Extended(e, c, d, s, s2, r, r2)
  <2> SUFFICES ASSUME NEW i \in 1 .. Len(r2), i \notin 1 .. Len(r)
               PROVE  /\ i > Len(r) /\ i - Len(r) >= 1
                      /\ Utters(e, c, d, s, s2, i - Len(r), r2[i].pdu)
                      /\ r2[i].pdu.type \in Speech => r2[i].pdu.sn = c.sn_t + ((i - Len(r)) - 1)
    BY <1>3 DEF Extended
  <2>1. i > l /\ i - l \in 1 .. m /\ r2[i] = d.out[i - l]
    BY <1>3, <1>4
  <2>2. PICK n \in 1 .. m : n = i - l /\ r2[i] = d.out[n] /\ n >= 1
    BY <2>1
  <2>3. Utters(e, c, d, s, s2, n, r2[i].pdu)
    BY <1>1, <1>4, <2>2, WhatIsUttered
  <2>4. Speaks(e, c, s, d, n, r2[i].pdu)
    BY <1>1, <1>4, <2>2, WhatIsSaid DEF Staged
  <2>5. r2[i].pdu.type \in Speech => r2[i].pdu.sn = c.sn_t + (n - 1)
    BY <2>4 DEF Speaks, Speech, Ordinary
  <2> QED
    BY <1>4, <2>1, <2>2, <2>3, <2>5
<1> QED
  BY <1>3, <1>4, <1>5, <1>6

(***************************************************************************)
(* What is due to the application.                                         *)
(***************************************************************************)
\* A request to connect is alone.
LEMMA OnlyOpening ==
  ASSUME NEW e \in Ends, NEW first, NEW clock, NEW c, NEW d, NEW g,
         NEW s, NEW s2, NEW r, NEW r2, Staged(e, first, clock, c, d, g, s, s2, r, r2),
         Serving(e, c, s, d)
  PROVE  /\ Kinds(s) \subseteq Opening /\ Kinds(r) \subseteq Opening
         /\ Unheard(g, s)
<1>1. Opens(c, g, s, r) /\ Opens(g, c, r, s) /\ s \in Seq(Packets)
  BY DEF Staged, Agreed
<1>2. Head(s).pdu.type = "ConReq" /\ s # << >>
  BY DEF Serving, Serves
<1>3. "ConReq" \in Kinds(s)
  BY <1>1, <1>2, TailIsThinned
<1>4. Fresh(c, g, s, r) /\ Fresh(g, c, r, s)
  BY <1>3 DEF Fresh
<1> QED
  BY <1>1, <1>3, <1>4 DEF Opens, Unheard

\* What makes it live again.
LEMMA WhatLivens ==
  ASSUME NEW e \in Ends, NEW c, NEW d, NEW s, NEW s2, NEW r, NEW r2,
         Moves(e, c, d, s, s2, r, r2), ~Live(c), Live(d)
  PROVE  \/ s # << >> /\ s2 = Tail(s) /\ Head(s).pdu.type = "RetrResp" /\ d.out \in Seq(Goodbyes(e))
         \/ s # << >> /\ s2 = Tail(s) /\ Serving(e, c, s, d)
<1>1. c.state \in {"RETRREQ", "CLOSED"} /\ d.state \notin {"RETRREQ", "CLOSED"}
  BY DEF Live
<1>2. ~Idles(e, c, d) /\ ~Sends(e, c, d) /\ ~Connects(e, c, d)
  BY <1>1 DEF Idles, Sends, Connects
<1>3. s # << >> /\ s2 = Tail(s) /\ Heeded(e, c, Head(s).pdu, d)
  BY <1>2 DEF Moves, Acted
<1>4. PICK p : p = Head(s).pdu
  OBVIOUS
<1>5. ~Delivers(e, c, p, d) /\ ~Requests(e, c, p, d) /\ ~Joins(e, c, p, d)
  BY <1>1 DEF Delivers, Requests, Joins, Starting
<1>6. ~Repeats(e, c, p, d)
  BY <1>1 DEF Repeats
<1>7. CASE Hears(e, c, p, d)
  BY <1>1, <1>3, <1>4, <1>7 DEF Hears
<1>8. CASE Serves(e, c, p, d)
  BY <1>3, <1>4, <1>8 DEF Serving
<1> QED
  BY <1>2, <1>3, <1>4, <1>5, <1>6, <1>7, <1>8 DEF Heeded

\* s2 is s without its first off.
Less(s, s2, off) ==
  \A i \in 1 .. Len(s2) : i + off \in 1 .. Len(s) /\ s2[i] = s[i + off]

LEMMA WhatIsLeft ==
  ASSUME NEW e \in Ends, NEW first, NEW clock, NEW c, NEW d, NEW g,
         NEW s, NEW s2, NEW r, NEW r2, Staged(e, first, clock, c, d, g, s, s2, r, r2)
  PROVE  \E off \in {0, 1} :
           /\ Less(s, s2, off)
           /\ s # << >> /\ s2 = Tail(s) => off = 1
           /\ \A i \in 1 .. Len(s2) : Due(d, s2, i) => Due(c, s, i + off)
<1>1. /\ Moves(e, c, d, s, s2, r, r2) /\ s \in Seq(Packets) /\ s2 \in Seq(Packets)
      /\ Kinds(s2) \subseteq Kinds(s)
  BY Frame DEF Staged
<1>2. ASSUME NEW off \in {0, 1}, Less(s, s2, off), s # << >> /\ s2 = Tail(s) => off = 1,
             NEW i \in 1 .. Len(s2), Due(d, s2, i)
      PROVE  Due(c, s, i + off)
  <2>1. /\ i + off \in 1 .. Len(s) /\ s2[i] = s[i + off] /\ Carries(s[i + off].pdu)
    BY <1>2 DEF Less, Due
  <2>2. SUFFICES ASSUME ~Live(c)
                 PROVE  \E h \in 1 .. (i + off) - 1 : s[h].pdu.type = "RetrResp"
    BY <2>1 DEF Due
  <2>3. CASE ~Live(d)
    <3>1. PICK h \in 1 .. i - 1 : s2[h].pdu.type = "RetrResp"
      BY <1>2, <2>3 DEF Due
    <3>2. Len(s2) \in Nat
      BY <1>1
    <3>3. h \in 1 .. Len(s2) /\ h + off \in 1 .. (i + off) - 1
      BY <3>2
    <3> QED
      BY <1>2, <3>1, <3>3 DEF Less
  <2>4. CASE Live(d)
    <3>1. ~Serving(e, c, s, d)
      <4>1. SUFFICES ASSUME Serving(e, c, s, d) PROVE FALSE
        OBVIOUS
      <4>2. Kinds(s) \subseteq Opening
        BY <4>1, OnlyOpening
      <4>3. s[i + off].pdu.type \in Kinds(s)
        BY <2>1 DEF Kinds
      <4> QED
        BY <2>1, <4>2, <4>3 DEF Carries, Opening
    <3>2. s # << >> /\ s2 = Tail(s) /\ Head(s).pdu.type = "RetrResp"
      BY <1>1, <2>2, <2>4, <3>1, WhatLivens
    <3>3. s[1].pdu.type = "RetrResp"
      BY <1>1, <3>2, TailIsThinned
    <3>4. off = 1 /\ 1 \in 1 .. (i + off) - 1
      BY <1>2, <3>2
    <3> QED
      BY <3>3, <3>4
  <2> QED
    BY <2>3, <2>4
<1>3. CASE s # << >> /\ s2 = Tail(s)
  <2>1. \A i \in 1 .. Len(s2) : s2[i] = s[i + 1] /\ i + 1 \in 1 .. Len(s)
    BY <1>1, <1>3, TailIsThinned
  <2>2. Less(s, s2, 1)
    BY <2>1 DEF Less
  <2> QED
    BY <1>2, <2>2
<1>4. CASE s2 = s /\ ~(s # << >> /\ s2 = Tail(s))
  <2>1. Len(s) \in Nat
    BY <1>1
  <2>2. \A i \in 1 .. Len(s) : i + 0 = i /\ i + 0 \in 1 .. Len(s)
    BY <2>1
  <2>3. Less(s, s2, 0)
    BY <1>4, <2>2 DEF Less
  <2> QED
    BY <1>2, <1>4, <2>3
<1> QED
  BY <1>1, <1>3, <1>4 DEF Moves

(***************************************************************************)
(* The requests for retransmission.                                        *)
(***************************************************************************)
Streaming(e, first, clock, c, d, g, s, s2, r, r2) ==
  /\ Staged(e, first, clock, c, d, g, s, s2, r, r2)
  /\ Stream(c, g, s, r) /\ Stream(g, c, r, s)

LEMMA OnceLess ==
  ASSUME NEW s, NEW s2, NEW off \in {0, 1}, Less(s, s2, off), NEW type, Once(type, s)
  PROVE  /\ Once(type, s2)
         /\ off = 1 /\ s[1].pdu.type = type /\ 1 \in 1 .. Len(s) => type \notin Kinds(s2)
<1>1. \A i \in 1 .. Len(s2) : i + off \in 1 .. Len(s) /\ s2[i] = s[i + off]
  BY DEF Less
<1>2. ASSUME NEW i \in 1 .. Len(s2), NEW j \in 1 .. Len(s2),
             s2[i].pdu.type = type, s2[j].pdu.type = type
      PROVE  i = j
  <2>1. i + off = j + off
    BY <1>1, <1>2 DEF Once
  <2> QED
    BY <2>1
<1>3. ASSUME off = 1, s[1].pdu.type = type, 1 \in 1 .. Len(s), NEW i \in 1 .. Len(s2),
             s2[i].pdu.type = type
      PROVE  FALSE
  <2>1. i + 1 \in 1 .. Len(s) /\ s[i + 1].pdu.type = type
    BY <1>1, <1>3
  <2>2. 1 = i + 1
    BY <1>3, <2>1 DEF Once
  <2> QED
    BY <2>2
<1> QED
  BY <1>2, <1>3 DEF Once, Kinds

LEMMA ActorAsks ==
  ASSUME NEW e \in Ends, NEW first, NEW clock, NEW c, NEW d, NEW g,
         NEW s, NEW s2, NEW r, NEW r2, Streaming(e, first, clock, c, d, g, s, s2, r, r2)
  PROVE  Asking(d, s2, r2)
<1>1. /\ Staged(e, first, clock, c, d, g, s, s2, r, r2) /\ Moves(e, c, d, s, s2, r, r2)
      /\ Asking(c, s, r) /\ s \in Seq(Packets) /\ r \in Seq(Packets)
  BY DEF Streaming, Stream, Staged
<1>2. Kinds(s2) \subseteq Kinds(s)
  BY <1>1, Frame
<1>3. PICK off \in {0, 1} : Less(s, s2, off) /\ (s # << >> /\ s2 = Tail(s) => off = 1)
  BY <1>1, WhatIsLeft
<1>4. PICK l \in Nat : l = Len(r) /\ Len(r2) \in Nat
  BY <1>1, WhatIsOnItsWay
<1>5. ASSUME NEW i \in 1 .. Len(r2), r2[i].pdu.type = "RetrReq", ~(i \in 1 .. l /\ r2[i] = r[i])
      PROVE  i = l + 1 /\ Live(c) /\ ~Live(d)
  <2>1. i > l /\ Utters(e, c, d, s, s2, i - l, r2[i].pdu)
    BY <1>1, <1>4, <1>5, WhatIsOnItsWay DEF Extended
  <2>2. i - l = 1 /\ Requests(e, c, Head(s).pdu, d)
    BY <1>5, <2>1 DEF Utters, Speech
  <2>3. i = l + 1
    BY <1>4, <2>2
  <2> QED
    BY <2>2, <2>3 DEF Requests, Live
<1>6. Live(c) => "RetrReq" \notin Kinds(r) /\ "RetrResp" \notin Kinds(s)
  BY <1>1 DEF Asking
<1>7. Once("RetrReq", r2)
  <2> SUFFICES ASSUME NEW i \in 1 .. Len(r2), NEW j \in 1 .. Len(r2),
                      r2[i].pdu.type = "RetrReq", r2[j].pdu.type = "RetrReq"
               PROVE  i = j
    BY DEF Once
  <2>1. \A k \in 1 .. l : r[k].pdu.type = "RetrReq" => ~Live(c)
    BY <1>4, <1>6 DEF Kinds
  <2>2. CASE (i \in 1 .. l /\ r2[i] = r[i]) /\ (j \in 1 .. l /\ r2[j] = r[j])
    BY <1>1, <1>4, <2>2 DEF Asking, Once
  <2>3. CASE ~(i \in 1 .. l /\ r2[i] = r[i])
    <3>1. i = l + 1 /\ Live(c)
      BY <1>5, <2>3
    <3>2. ~(j \in 1 .. l /\ r2[j] = r[j])
      BY <2>1, <3>1
    <3>3. j = l + 1
      BY <1>5, <3>2
    <3> QED
      BY <3>1, <3>3
  <2>4. CASE ~(j \in 1 .. l /\ r2[j] = r[j])
    <3>1. j = l + 1 /\ Live(c)
      BY <1>5, <2>4
    <3>2. ~(i \in 1 .. l /\ r2[i] = r[i])
      BY <2>1, <3>1
    <3>3. i = l + 1
      BY <1>5, <3>2
    <3> QED
      BY <3>1, <3>3
  <2> QED
    BY <2>2, <2>3, <2>4
<1>8. "RetrReq" \in Kinds(r2) => "RetrReq" \in Kinds(r) \/ (Live(c) /\ ~Live(d))
  <2> SUFFICES ASSUME NEW i \in 1 .. Len(r2), r2[i].pdu.type = "RetrReq"
               PROVE  "RetrReq" \in Kinds(r) \/ (Live(c) /\ ~Live(d))
    BY DEF Kinds
  <2>1. CASE i \in 1 .. l /\ r2[i] = r[i]
    BY <1>4, <2>1 DEF Kinds
  <2> QED
    BY <1>5, <2>1
<1>9. Once("RetrResp", s2)
  BY <1>1, <1>3, OnceLess DEF Asking
<1>10. "RetrReq" \in Kinds(r2) => "RetrResp" \notin Kinds(s2)
  BY <1>1, <1>2, <1>6, <1>8 DEF Asking
<1>11. ASSUME Live(d), "RetrReq" \in Kinds(r2) \/ "RetrResp" \in Kinds(s2) PROVE FALSE
  <2>1. ~Live(c)
    BY <1>2, <1>6, <1>8, <1>11
  <2>2. CASE /\ s # << >> /\ s2 = Tail(s) /\ Head(s).pdu.type = "RetrResp"
    <3>1. off = 1 /\ s[1].pdu.type = "RetrResp" /\ 1 \in 1 .. Len(s) /\ "RetrResp" \in Kinds(s)
      BY <1>1, <1>3, <2>2, TailIsThinned
    <3>2. "RetrResp" \notin Kinds(s2)
      BY <1>1, <1>3, <3>1, OnceLess DEF Asking
    <3>3. "RetrReq" \in Kinds(r)
      BY <1>8, <1>11, <2>1, <3>2
    <3> QED
      BY <1>1, <3>1, <3>3 DEF Asking
  <2>3. CASE Serving(e, c, s, d)
    <3>1. Kinds(s) \subseteq Opening /\ Kinds(r) \subseteq Opening
      BY <1>1, <2>3, OnlyOpening
    <3> QED
      BY <1>2, <1>8, <1>11, <2>1, <3>1 DEF Opening
  <2> QED
    BY <1>1, <1>11, <2>1, <2>2, <2>3, WhatLivens
<1> QED
  BY <1>7, <1>9, <1>10, <1>11 DEF Asking

\* An answer finds its request at the front, and no other answer.
LEMMA WhatIsAnswered ==
  ASSUME NEW e \in Ends, NEW first, NEW clock, NEW c, NEW d, NEW g,
         NEW s, NEW s2, NEW r, NEW r2, Streaming(e, first, clock, c, d, g, s, s2, r, r2),
         Answering(e, c, d, s, s2)
  PROVE  /\ "RetrReq" \in Kinds(s) /\ "RetrReq" \notin Kinds(s2)
         /\ "RetrResp" \notin Kinds(r) /\ ~Live(g)
         /\ \A i : ~(i \in 1 .. Len(r) /\ Due(g, r, i))
<1>1. /\ Staged(e, first, clock, c, d, g, s, s2, r, r2) /\ Asking(g, r, s)
      /\ s \in Seq(Packets) /\ r \in Seq(Packets) /\ Len(r) \in Nat
  BY DEF Streaming, Stream, Staged
<1>2. /\ s # << >> /\ s2 = Tail(s) /\ Head(s).pdu.type = "RetrReq"
  BY DEF Answering, Repeats
<1>3. s[1].pdu.type = "RetrReq" /\ 1 \in 1 .. Len(s) /\ "RetrReq" \in Kinds(s)
  BY <1>1, <1>2, TailIsThinned
<1>4. "RetrReq" \notin Kinds(s2)
  <2>1. PICK off \in {0, 1} : Less(s, s2, off) /\ (s # << >> /\ s2 = Tail(s) => off = 1)
    BY <1>1, WhatIsLeft
  <2> QED
    BY <1>1, <1>2, <1>3, <2>1, OnceLess DEF Asking
<1>5. "RetrResp" \notin Kinds(r) /\ ~Live(g)
  BY <1>1, <1>3 DEF Asking
<1>6. ASSUME NEW i \in 1 .. Len(r), Due(g, r, i) PROVE FALSE
  <2>1. PICK h \in 1 .. i - 1 : r[h].pdu.type = "RetrResp"
    BY <1>5, <1>6 DEF Due
  <2>2. h \in 1 .. Len(r)
    BY <1>1
  <2> QED
    BY <1>5, <2>1, <2>2 DEF Kinds
<1> QED
  BY <1>3, <1>4, <1>5, <1>6

LEMMA PeerAsks ==
  ASSUME NEW e \in Ends, NEW first, NEW clock, NEW c, NEW d, NEW g,
         NEW s, NEW s2, NEW r, NEW r2, Streaming(e, first, clock, c, d, g, s, s2, r, r2)
  PROVE  Asking(g, r2, s2)
<1>1. /\ Staged(e, first, clock, c, d, g, s, s2, r, r2)
      /\ Asking(g, r, s) /\ s \in Seq(Packets) /\ r \in Seq(Packets)
  BY DEF Streaming, Stream, Staged
<1>2. Kinds(s2) \subseteq Kinds(s)
  BY <1>1, Frame
<1>3. PICK off \in {0, 1} : Less(s, s2, off)
  BY <1>1, WhatIsLeft
<1>4. PICK l \in Nat : l = Len(r) /\ Len(r2) \in Nat
  BY <1>1, WhatIsOnItsWay
<1>5. ASSUME NEW i \in 1 .. Len(r2), r2[i].pdu.type = "RetrResp", ~(i \in 1 .. l /\ r2[i] = r[i])
      PROVE  i = l + 1 /\ Answering(e, c, d, s, s2)
  <2>1. i > l /\ Utters(e, c, d, s, s2, i - l, r2[i].pdu)
    BY <1>1, <1>4, <1>5, WhatIsOnItsWay DEF Extended
  <2>2. i - l = 1 /\ Answering(e, c, d, s, s2)
    BY <1>5, <2>1 DEF Utters, Speech
  <2>3. i = l + 1
    BY <1>4, <2>2
  <2> QED
    BY <2>2, <2>3
<1>6. Answering(e, c, d, s, s2) =>
        /\ "RetrReq" \notin Kinds(s2) /\ "RetrResp" \notin Kinds(r) /\ ~Live(g)
  BY WhatIsAnswered
<1>7. Once("RetrResp", r2)
  <2> SUFFICES ASSUME NEW i \in 1 .. Len(r2), NEW j \in 1 .. Len(r2),
                      r2[i].pdu.type = "RetrResp", r2[j].pdu.type = "RetrResp"
               PROVE  i = j
    BY DEF Once
  <2>1. Answering(e, c, d, s, s2) => \A k \in 1 .. l : r[k].pdu.type # "RetrResp"
    BY <1>4, <1>6 DEF Kinds
  <2>2. CASE (i \in 1 .. l /\ r2[i] = r[i]) /\ (j \in 1 .. l /\ r2[j] = r[j])
    BY <1>1, <1>4, <2>2 DEF Asking, Once
  <2>3. CASE ~(i \in 1 .. l /\ r2[i] = r[i])
    <3>1. i = l + 1 /\ Answering(e, c, d, s, s2)
      BY <1>5, <2>3
    <3>2. j = l + 1
      BY <1>5, <2>1, <3>1
    <3> QED
      BY <3>1, <3>2
  <2>4. CASE ~(j \in 1 .. l /\ r2[j] = r[j])
    <3>1. j = l + 1 /\ Answering(e, c, d, s, s2)
      BY <1>5, <2>4
    <3>2. i = l + 1
      BY <1>5, <2>1, <3>1
    <3> QED
      BY <3>1, <3>2
  <2> QED
    BY <2>2, <2>3, <2>4
<1>8. "RetrResp" \in Kinds(r2) => "RetrResp" \in Kinds(r) \/ Answering(e, c, d, s, s2)
  <2> SUFFICES ASSUME NEW i \in 1 .. Len(r2), r2[i].pdu.type = "RetrResp"
               PROVE  "RetrResp" \in Kinds(r) \/ Answering(e, c, d, s, s2)
    BY DEF Kinds
  <2>1. CASE i \in 1 .. l /\ r2[i] = r[i]
    BY <1>4, <2>1 DEF Kinds
  <2> QED
    BY <1>5, <2>1
<1>9. Once("RetrReq", s2)
  BY <1>1, <1>3, OnceLess DEF Asking
<1> QED
  BY <1>1, <1>2, <1>6, <1>7, <1>8, <1>9 DEF Asking

\* Nothing is read by those who have not begun.
LEMMA BothStayBlank ==
  ASSUME NEW e \in Ends, NEW first, NEW clock, NEW c, NEW d, NEW g,
         NEW s, NEW s2, NEW r, NEW r2, Streaming(e, first, clock, c, d, g, s, s2, r, r2)
  PROVE  Blank(d, g, s2) /\ Blank(g, d, r2)
<1>1. /\ Staged(e, first, clock, c, d, g, s, s2, r, r2) /\ Moves(e, c, d, s, s2, r, r2)
      /\ Blank(c, g, s) /\ Blank(g, c, r) /\ Waits(c, g, s, r) /\ AtNone(c)
  BY DEF Streaming, Stream, Staged, Agreed, Bond
<1>2. Kinds(s2) \subseteq Kinds(s)
  BY <1>1, Frame
<1>3. Unheard(g, s2) => Unheard(g, s)
  BY <1>2 DEF Unheard
<1>4. d.got = c.got \/ (s # << >> /\ Delivers(e, c, Head(s).pdu, d))
  BY <1>1 DEF Moves, Acted, Heeded, Idles, Sends, Connects, Hears, Requests, Core, Repeats,
              Serves, Joins
<1>5. ASSUME Unheard(g, s) PROVE d.got = << >>
  <2>1. c.got = << >> /\ c.state \notin {"UP", "RETRRUN"}
    BY <1>1, <1>5 DEF Blank, Waits, Starting
  <2>2. ~(s # << >> /\ Delivers(e, c, Head(s).pdu, d))
    BY <2>1 DEF Delivers
  <2> QED
    BY <1>4, <2>1, <2>2
<1>6. ASSUME d.state = "START" PROVE d.got = << >>
  <2>1. ~(s # << >> /\ Delivers(e, c, Head(s).pdu, d))
    BY <1>6 DEF Delivers
  <2>2. d.got = c.got
    BY <1>4, <2>1
  <2>3. c.state \in {"NONE", "START"} \/ Serving(e, c, s, d)
    BY <1>1, <1>6 DEF Moves, Acted, Heeded, Idles, Sends, Connects, Hears, Delivers, Requests,
                      Repeats, Joins, Starting, Serving
  <2>4. c.state = "NONE" => c.got = << >>
    BY <1>1 DEF AtNone
  <2>5. Serving(e, c, s, d) => c.got = << >>
    <3>1. Serving(e, c, s, d) => Unheard(g, s)
      BY <1>1, OnlyOpening
    <3> QED
      BY <1>1, <3>1 DEF Blank
  <2> QED
    BY <1>1, <2>2, <2>3, <2>4, <2>5 DEF Blank
<1>7. Unheard(d, r2) => Unheard(c, r)
  <2>1. InitSn[e] + 1 < SnMod
    BY <1>1, ConstantFacts DEF Staged, Numbers
  <2>2. CASE d.state = "NONE"
    <3>1. c.state = "NONE"
      BY <1>1, <2>1, <2>2, WhatIsCounted
    <3> QED
      BY <3>1 DEF Unheard
  <2>3. CASE "ConReq" \in Kinds(r2)
    <3>1. PICK i \in 1 .. Len(r2) : r2[i].pdu.type = "ConReq"
      BY <2>3 DEF Kinds
    <3>2. CASE i \in 1 .. Len(r) /\ r2[i] = r[i]
      BY <3>1, <3>2 DEF Unheard, Kinds
    <3>3. CASE Speaks(e, c, s, d, i - Len(r), r2[i].pdu)
      <4>1. Connects(e, c, d)
        BY <3>1, <3>3 DEF Speaks, Ordinary
      <4> QED
        BY <4>1 DEF Connects, Unheard
    <3> QED
      BY <1>1, <3>2, <3>3, Frame DEF Grown
  <2> QED
    BY <2>2, <2>3 DEF Unheard
<1> QED
  BY <1>1, <1>3, <1>5, <1>6, <1>7 DEF Blank

(***************************************************************************)
(* What is read and what flows.                                            *)
(***************************************************************************)
LEMMA MessageFields ==
  ASSUME NEW s \in Seq(Packets), NEW i \in 1 .. Len(s)
  PROVE  s[i].pdu.msgs \in Seq(Nat)
<1>1. PICK k \in Packets : k = s[i]
  OBVIOUS
<1>2. k.pdu \in NumberedPdus
  BY DEF Packets
<1> QED
  BY <1>1, <1>2 DEF NumberedPdus

LEMMA LongerInOrder ==
  ASSUME NEW u \in Seq(Nat), NEW w \in Seq(Nat), NEW v \in Seq(Nat), Longer(u, w, Len(w), v),
         NEW c
  PROVE  /\ Wanted(u, c) /\ Wanted(w, c) /\ Before(u, w) => Wanted(v, c)
         /\ \A x : Before(u, x) /\ Before(w, x) => Before(v, x)
<1>1. PICK l \in Nat, m \in Nat : l = Len(u) /\ m = Len(w) /\ Len(v) = l + m
  BY DEF Longer
<1>2. /\ \A i \in 1 .. l : v[i] = u[i]
      /\ \A i \in 1 .. m : v[l + i] = w[i]
  BY <1>1 DEF Longer
<1>3. ASSUME NEW i \in 1 .. l + m, i \notin 1 .. l
      PROVE  \E k \in 1 .. m : i = l + k /\ v[i] = w[k]
  <2>1. i - l \in 1 .. m /\ i = l + (i - l)
    BY <1>3
  <2>2. PICK k \in 1 .. m : i = l + k
    BY <2>1
  <2> QED
    BY <1>2, <2>2
<1>4. ASSUME NEW x, Before(u, x), Before(w, x) PROVE Before(v, x)
  <2> SUFFICES ASSUME NEW i \in 1 .. l + m PROVE Below(v[i], x)
    BY <1>1 DEF Before
  <2>1. CASE i \in 1 .. l
    BY <1>1, <1>2, <1>4, <2>1 DEF Before
  <2>2. CASE i \notin 1 .. l
    BY <1>1, <1>3, <1>4, <2>2 DEF Before
  <2> QED
    BY <2>1, <2>2
<1>5. ASSUME Wanted(u, c), Wanted(w, c), Before(u, w) PROVE Wanted(v, c)
  <2>1. /\ \A i \in 1 .. l : u[i] \in 1 .. c.asked
        /\ \A i \in 1 .. m : w[i] \in 1 .. c.asked
        /\ \A i, j \in 1 .. l : i < j => u[i] < u[j]
        /\ \A i, j \in 1 .. m : i < j => w[i] < w[j]
        /\ \A i \in 1 .. l : \A j \in 1 .. m : u[i] < w[j]
    BY <1>1, <1>5 DEF Wanted, Before, Below, Rises
  <2>2. ASSUME NEW i \in 1 .. l + m PROVE v[i] \in 1 .. c.asked
    <3>1. CASE i \in 1 .. l
      BY <1>2, <2>1, <3>1
    <3>2. CASE i \notin 1 .. l
      BY <1>3, <2>1, <3>2
    <3> QED
      BY <3>1, <3>2
  <2>3. ASSUME NEW i \in 1 .. l + m, NEW j \in 1 .. l + m, i < j PROVE v[i] < v[j]
    <3>1. CASE j \in 1 .. l
      <4>1. i \in 1 .. l
        BY <2>3, <3>1
      <4> QED
        BY <1>2, <2>1, <2>3, <3>1, <4>1
    <3>2. CASE j \notin 1 .. l /\ i \in 1 .. l
      <4>1. PICK k \in 1 .. m : v[j] = w[k]
        BY <1>3, <3>2
      <4> QED
        BY <1>2, <2>1, <3>2, <4>1
    <3>3. CASE j \notin 1 .. l /\ i \notin 1 .. l
      <4>1. PICK h \in 1 .. m, k \in 1 .. m : i = l + h /\ v[i] = w[h] /\ j = l + k /\ v[j] = w[k]
        BY <1>3, <3>3
      <4>2. h < k
        BY <2>3, <4>1
      <4> QED
        BY <2>1, <4>1, <4>2
    <3> QED
      BY <3>1, <3>2, <3>3
  <2> QED
    BY <1>1, <2>2, <2>3 DEF Wanted, Rises
<1> QED
  BY <1>4, <1>5

\* The first PDU of s is read.
Reading(e, c, d, s, s2, p) ==
  /\ s # << >> /\ s2 = Tail(s) /\ 1 \in 1 .. Len(s) /\ p = s[1].pdu
  /\ Delivers(e, c, p, d) /\ Carries(p) /\ Live(c) /\ Due(c, s, 1)
  /\ p.msgs \in Seq(Nat) /\ Longer(c.got, p.msgs, Len(p.msgs), d.got)

LEMMA WhatIsRead ==
  ASSUME NEW e \in Ends, NEW first, NEW clock, NEW c, NEW d, NEW g,
         NEW s, NEW s2, NEW r, NEW r2, Staged(e, first, clock, c, d, g, s, s2, r, r2)
  PROVE  d.got = c.got \/ \E p : Reading(e, c, d, s, s2, p)
<1>1. Moves(e, c, d, s, s2, r, r2) /\ s \in Seq(Packets)
  BY DEF Staged
<1>2. \/ d.got = c.got
      \/ s # << >> /\ s2 = Tail(s) /\ Delivers(e, c, Head(s).pdu, d)
  BY <1>1 DEF Moves, Acted, Heeded, Idles, Sends, Connects, Hears, Requests, Core, Repeats,
              Serves, Joins
<1>3. ASSUME s # << >>, s2 = Tail(s), Delivers(e, c, Head(s).pdu, d)
      PROVE  \E p : Reading(e, c, d, s, s2, p)
  <2>1. PICK p : p = Head(s).pdu
    OBVIOUS
  <2>2. 1 \in 1 .. Len(s) /\ p = s[1].pdu /\ p.msgs \in Seq(Nat)
    BY <1>1, <1>3, <2>1, TailIsThinned, MessageFields
  <2>3. Delivers(e, c, p, d)
    BY <1>3, <2>1
  <2>4. Carries(p) /\ Live(c) /\ Longer(c.got, p.msgs, Len(p.msgs), d.got)
    BY <2>3 DEF Delivers, Carries, Live
  <2>5. Due(c, s, 1)
    BY <2>2, <2>4 DEF Due
  <2> QED
    BY <1>3, <2>2, <2>3, <2>4, <2>5 DEF Reading
<1> QED
  BY <1>2, <1>3

LEMMA ActorFlows ==
  ASSUME NEW e \in Ends, NEW first, NEW clock, NEW c, NEW d, NEW g,
         NEW s, NEW s2, NEW r, NEW r2, Streaming(e, first, clock, c, d, g, s, s2, r, r2)
  PROVE  Flowing(d, g, s2)
<1>1. /\ Staged(e, first, clock, c, d, g, s, s2, r, r2) /\ Flowing(c, g, s)
      /\ c \in Whole /\ d \in Whole
  BY DEF Streaming, Stream, Staged, Moves
<1>2. PICK off \in {0, 1} :
        /\ Less(s, s2, off) /\ (s # << >> /\ s2 = Tail(s) => off = 1)
        /\ \A i \in 1 .. Len(s2) : Due(d, s2, i) => Due(c, s, i + off)
  BY <1>1, WhatIsLeft
<1>3. \A i \in 1 .. Len(s2) : i + off \in 1 .. Len(s) /\ s2[i] = s[i + off]
  BY <1>2 DEF Less
<1>4. /\ Wanted(c.got, g) /\ Before(c.got, g.fifo_send)
      /\ \A i \in 1 .. Len(s) :
           Carries(s[i].pdu) => Wanted(s[i].pdu.msgs, g) /\ Before(s[i].pdu.msgs, g.fifo_send)
      /\ \A i \in 1 .. Len(s) : Due(c, s, i) => Before(c.got, s[i].pdu.msgs)
      /\ \A i, j \in 1 .. Len(s) :
           i < j /\ Due(c, s, i) /\ Carries(s[j].pdu) => Before(s[i].pdu.msgs, s[j].pdu.msgs)
  BY <1>1 DEF Flowing
<1>5. \A i \in 1 .. Len(s2) :
        Carries(s2[i].pdu) => Wanted(s2[i].pdu.msgs, g) /\ Before(s2[i].pdu.msgs, g.fifo_send)
  BY <1>3, <1>4
<1>6. ASSUME NEW i \in 1 .. Len(s2), NEW j \in 1 .. Len(s2), i < j, Due(d, s2, i),
             Carries(s2[j].pdu)
      PROVE  Before(s2[i].pdu.msgs, s2[j].pdu.msgs)
  <2>1. /\ i + off \in 1 .. Len(s) /\ j + off \in 1 .. Len(s) /\ s2[i] = s[i + off]
        /\ s2[j] = s[j + off] /\ Due(c, s, i + off)
    BY <1>2, <1>3, <1>6
  <2>2. i + off < j + off
    BY <1>6
  <2> QED
    BY <1>4, <1>6, <2>1, <2>2
<1>7. /\ Wanted(d.got, g) /\ Before(d.got, g.fifo_send)
      /\ \A i \in 1 .. Len(s2) : Due(d, s2, i) => Before(d.got, s2[i].pdu.msgs)
  <2>1. CASE d.got = c.got
    BY <1>2, <1>3, <1>4, <2>1
  <2>2. ASSUME NEW p, Reading(e, c, d, s, s2, p)
        PROVE  /\ Wanted(d.got, g) /\ Before(d.got, g.fifo_send)
               /\ \A i \in 1 .. Len(s2) : Due(d, s2, i) => Before(d.got, s2[i].pdu.msgs)
    <3>1. PICK u \in Seq(Nat), w \in Seq(Nat), v \in Seq(Nat) :
            u = c.got /\ w = p.msgs /\ v = d.got /\ Longer(u, w, Len(w), v)
      <4>1. c.got \in Seq(Nat) /\ d.got \in Seq(Nat)
        BY <1>1, Fields
      <4> QED
        BY <2>2, <4>1 DEF Reading
    <3>2. /\ off = 1 /\ 1 \in 1 .. Len(s) /\ Due(c, s, 1) /\ w = s[1].pdu.msgs
          /\ Carries(s[1].pdu)
      BY <1>2, <2>2, <3>1 DEF Reading
    <3>3. Wanted(w, g) /\ Before(w, g.fifo_send) /\ Before(u, w)
      BY <1>4, <3>1, <3>2
    <3>4. /\ Wanted(u, g) /\ Wanted(w, g) /\ Before(u, w) => Wanted(v, g)
          /\ \A x : Before(u, x) /\ Before(w, x) => Before(v, x)
      BY <3>1, LongerInOrder
    <3>5. ASSUME NEW i \in 1 .. Len(s2), Due(d, s2, i) PROVE Before(v, s2[i].pdu.msgs)
      <4>1. i + 1 \in 1 .. Len(s) /\ s2[i] = s[i + 1] /\ Due(c, s, i + 1) /\ 1 < i + 1
        BY <1>2, <1>3, <3>2, <3>5
      <4>2. Carries(s[i + 1].pdu)
        BY <4>1 DEF Due
      <4>3. Before(w, s2[i].pdu.msgs)
        BY <1>4, <3>2, <4>1, <4>2
      <4>4. Before(u, s2[i].pdu.msgs)
        BY <1>4, <3>1, <4>1
      <4> QED
        BY <3>4, <4>3, <4>4
    <3> QED
      BY <1>4, <3>1, <3>3, <3>4, <3>5
  <2> QED
    BY <1>1, <2>1, <2>2, WhatIsRead
<1> QED
  BY <1>5, <1>6, <1>7 DEF Flowing

\* What is sent again comes after what was read.
LEMMA WhatIsResent ==
  ASSUME NEW e \in Ends, NEW first, NEW clock, NEW c, NEW d, NEW g,
         NEW s, NEW s2, NEW r, NEW r2, Streaming(e, first, clock, c, d, g, s, s2, r, r2),
         Answering(e, c, d, s, s2), NEW i \in Nat \ {0}
  PROVE  /\ Nth(Resent(c, s), i) \in Seq(Nat)
         /\ Wanted(Nth(Resent(c, s), i), d) /\ Before(Nth(Resent(c, s), i), d.fifo_send)
         /\ Before(g.got, Nth(Resent(c, s), i))
         /\ \A j \in Nat : i < j => Before(Nth(Resent(c, s), i), Nth(Resent(c, s), j))
<1>1. /\ Moves(e, c, d, s, s2, r, r2) /\ Stored(c) /\ Holding(g, c, r, s)
      /\ s \in Seq(Packets) /\ c \in Whole /\ d \in Whole
  BY DEF Streaming, Stream, Staged, Moves
<1>2. s # << >> /\ Head(s).pdu.type = "RetrReq"
  BY DEF Answering, Repeats
<1>3. PICK cs \in Nat : /\ cs = Head(s).pdu.cs /\ cs = s[1].pdu.cs /\ s[1].pdu.type = "RetrReq"
                        /\ 1 \in 1 .. Len(s)
  BY <1>1, <1>2, TailIsThinned, PduFields
<1>4. PICK f \in Seq(Held) : /\ f = Resent(c, s) /\ Rear(c.fifo_retr, f)
                             /\ \A k \in 1 .. Len(f) : f[k].sn > cs
  <2>1. PICK f : f = RemoveConfirmed(c.fifo_retr, cs)
    OBVIOUS
  <2>2. f \in Seq(Held) /\ Rear(c.fifo_retr, f) /\ \A k \in 1 .. Len(f) : f[k].sn > cs
    BY <1>1, <2>1, StillHeld
  <2> QED
    BY <1>3, <2>1, <2>2 DEF Resent
<1>5. /\ Nth(f, i) \in Seq(Nat) /\ Wanted(Nth(f, i), c) /\ Before(Nth(f, i), c.fifo_send)
      /\ \A j \in Nat : i < j => Before(Nth(f, i), Nth(f, j))
  BY <1>1, <1>4, NthInOrder
<1>6. Wanted(Nth(f, i), d) /\ Before(Nth(f, i), d.fifo_send)
  BY <1>1, <1>5, MovesMore, MoreBefore
<1>7. Before(g.got, Nth(f, i))
  <2>1. CASE i \in 1 .. Len(f)
    <3>1. PICK k \in 1 .. Len(c.fifo_retr) : f[i] = c.fifo_retr[k]
      BY <1>4, <2>1 DEF Rear
    <3>2. Follows(g, r, s, f[i]) /\ f[i].sn > cs
      BY <1>1, <1>4, <2>1, <3>1 DEF Holding
    <3>3. Before(g.got, f[i].msgs)
      BY <1>3, <3>2 DEF Follows
    <3>4. Len(f) \in Nat /\ i <= Len(f)
      BY <2>1
    <3> QED
      BY <3>3, <3>4 DEF Nth
  <2>2. CASE i \notin 1 .. Len(f)
    <3>1. ~(i <= Len(f))
      BY <2>2
    <3>2. Nth(f, i) = << >>
      BY <3>1 DEF Nth
    <3> QED
      BY <3>2 DEF Before, Below
  <2> QED
    BY <2>1, <2>2
<1> QED
  BY <1>4, <1>5, <1>6, <1>7

LEMMA NotSending ==
  ASSUME NEW e, NEW c \in Whole, NEW d, NEW s, NEW s2, Answering(e, c, d, s, s2)
  PROVE  ~Sends(e, c, d)
<1>1. PICK k \in Nat, m \in Nat : m = c.sn_t /\ d.sn_t = m + k + 3
  <2>1. Resent(c, s) \in Seq(Held) /\ c.sn_t \in Nat
    <3>1. c.fifo_retr \in Seq(Held)
      BY Fields
    <3> QED
      BY <3>1, CountFields, RemoveConfirmedFacts DEF Resent
  <2>2. d.sn_t = c.sn_t + Len(Resent(c, s)) + 3 /\ Len(Resent(c, s)) \in Nat
    BY <2>1 DEF Answering, Repeats, Resent
  <2> QED
    BY <2>1, <2>2
<1>2. Sends(e, c, d) => d.sn_t = m + 1
  BY <1>1 DEF Sends
<1>3. m + k + 3 # m + 1
  OBVIOUS
<1> QED
  BY <1>1, <1>2, <1>3

LEMMA DueStill ==
  ASSUME NEW e \in Ends, NEW first, NEW clock, NEW c, NEW d, NEW g,
         NEW s, NEW s2, NEW r, NEW r2, Staged(e, first, clock, c, d, g, s, s2, r, r2)
  PROVE  \A i \in 1 .. Len(r) : Due(g, r2, i) => Due(g, r, i)
<1>1. Len(r) \in Nat /\ \A i \in 1 .. Len(r) : r2[i] = r[i]
  BY WhatIsOnItsWay
<1> SUFFICES ASSUME NEW i \in 1 .. Len(r), Due(g, r2, i) PROVE Due(g, r, i)
  OBVIOUS
<1>2. \A h \in 1 .. i - 1 : h \in 1 .. Len(r)
  BY <1>1
<1> QED
  BY <1>1, <1>2 DEF Due

LEMMA PeerFlows ==
  ASSUME NEW e \in Ends, NEW first, NEW clock, NEW c, NEW d, NEW g,
         NEW s, NEW s2, NEW r, NEW r2, Streaming(e, first, clock, c, d, g, s, s2, r, r2)
  PROVE  Flowing(g, d, r2)
<1>1. /\ Staged(e, first, clock, c, d, g, s, s2, r, r2) /\ Moves(e, c, d, s, s2, r, r2)
      /\ Flowing(g, c, r) /\ Stored(c)
      /\ c \in Whole /\ d \in Whole /\ g \in Whole /\ r \in Seq(Packets)
  BY DEF Streaming, Stream, Staged, Moves
<1>2. More(c, d)
  BY <1>1, MovesMore
<1>3. PICK l \in Nat : l = Len(r) /\ Len(r2) \in Nat
  BY <1>1, WhatIsOnItsWay
<1>4. /\ Wanted(g.got, c) /\ Before(g.got, c.fifo_send)
      /\ \A i \in 1 .. l :
           Carries(r[i].pdu) => Wanted(r[i].pdu.msgs, c) /\ Before(r[i].pdu.msgs, c.fifo_send)
      /\ \A i \in 1 .. l : Due(g, r, i) => Before(g.got, r[i].pdu.msgs)
      /\ \A i, j \in 1 .. l :
           i < j /\ Due(g, r, i) /\ Carries(r[j].pdu) => Before(r[i].pdu.msgs, r[j].pdu.msgs)
  BY <1>1, <1>3 DEF Flowing
<1>5. Wanted(g.got, d) /\ Before(g.got, d.fifo_send)
  <2>1. g.got \in Seq(Nat)
    BY <1>1, Fields
  <2> QED
    BY <1>1, <1>2, <1>4, <2>1, MoreBefore
<1>6. ASSUME NEW i \in 1 .. Len(r2), i \notin 1 .. l, Carries(r2[i].pdu)
      PROVE  /\ i > l
             /\ \/ /\ i = l + 1 /\ Sends(e, c, d) /\ r2[i].pdu = d.out[1].pdu
                \/ /\ Answering(e, c, d, s, s2) /\ i - l >= 2
                   /\ r2[i].pdu.msgs = Nth(Resent(c, s), (i - l) - 1)
  <2>1. i > l /\ Utters(e, c, d, s, s2, i - l, r2[i].pdu)
    BY <1>1, <1>3, <1>6, WhatIsOnItsWay DEF Extended
  <2>2. i - l = 1 => i = l + 1
    BY <1>3
  <2> QED
    BY <1>6, <2>1, <2>2 DEF Utters, Speech, Carries
<1>7. \A i \in 1 .. l : i \in 1 .. Len(r2) /\ r2[i] = r[i]
  BY <1>1, <1>3, WhatIsOnItsWay
\* What was due before.
<1>8. \A i \in 1 .. l : Due(g, r2, i) => Due(g, r, i)
  BY <1>1, <1>3, DueStill
<1>9. ASSUME NEW i \in 1 .. Len(r2), Carries(r2[i].pdu)
      PROVE  /\ Wanted(r2[i].pdu.msgs, d) /\ Before(r2[i].pdu.msgs, d.fifo_send)
             /\ Due(g, r2, i) => Before(g.got, r2[i].pdu.msgs)
  <2>1. CASE i \in 1 .. l
    <3>1. r[i].pdu.msgs \in Seq(Nat) /\ r2[i] = r[i]
      BY <1>1, <1>3, <1>7, <2>1, MessageFields
    <3> QED
      BY <1>1, <1>2, <1>4, <1>8, <1>9, <2>1, <3>1, MoreBefore
  <2>2. CASE i \notin 1 .. l /\ Sends(e, c, d) /\ r2[i].pdu = d.out[1].pdu
    <3>1. PICK v \in Seq(Nat) :
            /\ v = d.out[1].pdu.msgs /\ Wanted(v, d) /\ Before(v, d.fifo_send)
            /\ \A x : Below(x, c.fifo_send) => Below(x, v)
      BY <1>1, <2>2, WhatIsSent DEF Stored
    <3>2. Before(g.got, v)
      BY <1>4, <3>1 DEF Before
    <3> QED
      BY <2>2, <3>1, <3>2
  <2>3. CASE /\ i \notin 1 .. l /\ Answering(e, c, d, s, s2) /\ i - l >= 2
             /\ r2[i].pdu.msgs = Nth(Resent(c, s), (i - l) - 1)
    <3>1. PICK n \in Nat \ {0} : n = (i - l) - 1
      <4>1. i \in Nat /\ i - l >= 2
        BY <1>3, <2>3
      <4>2. (i - l) - 1 \in Nat \ {0}
        BY <4>1
      <4> QED
        BY <4>2
    <3> QED
      BY <2>3, <3>1, WhatIsResent
  <2> QED
    BY <1>6, <1>9, <2>1, <2>2, <2>3
<1>10. ASSUME NEW i \in 1 .. Len(r2), NEW j \in 1 .. Len(r2), i < j, Due(g, r2, i),
              Carries(r2[j].pdu)
       PROVE  Before(r2[i].pdu.msgs, r2[j].pdu.msgs)
  <2>1. Carries(r2[i].pdu)
    BY <1>10 DEF Due
  <2>2. CASE j \in 1 .. l
    <3>1. i \in 1 .. l
      BY <1>3, <1>10, <2>2
    <3> QED
      BY <1>4, <1>7, <1>8, <1>10, <2>2, <3>1
  <2>3. CASE j \notin 1 .. l /\ Sends(e, c, d) /\ r2[j].pdu = d.out[1].pdu /\ j = l + 1
    <3>1. i \in 1 .. l
      BY <1>3, <1>10, <2>3
    <3>2. PICK v \in Seq(Nat) :
            v = d.out[1].pdu.msgs /\ \A x : Below(x, c.fifo_send) => Below(x, v)
      BY <1>1, <2>3, WhatIsSent DEF Stored
    <3>3. Before(r[i].pdu.msgs, c.fifo_send)
      BY <1>4, <1>7, <2>1, <3>1
    <3> QED
      BY <1>7, <2>3, <3>1, <3>2, <3>3 DEF Before
  <2>4. CASE /\ j \notin 1 .. l /\ Answering(e, c, d, s, s2) /\ j - l >= 2
             /\ r2[j].pdu.msgs = Nth(Resent(c, s), (j - l) - 1)
    <3>1. i \notin 1 .. l
      BY <1>3, <1>8, <1>10, <2>4, WhatIsAnswered
    <3>2. /\ i > l
          /\ \/ Sends(e, c, d)
             \/ i - l >= 2 /\ r2[i].pdu.msgs = Nth(Resent(c, s), (i - l) - 1)
      BY <1>6, <2>1, <3>1
    <3>3. ~Sends(e, c, d)
      BY <1>1, <2>4, NotSending
    <3>4. PICK h \in Nat \ {0}, k \in Nat : h = (i - l) - 1 /\ k = (j - l) - 1 /\ h < k
      <4>1. i \in Nat /\ j \in Nat /\ i - l >= 2 /\ i < j
        BY <1>3, <1>10, <3>2, <3>3
      <4>2. (i - l) - 1 \in Nat \ {0} /\ (j - l) - 1 \in Nat /\ (i - l) - 1 < (j - l) - 1
        BY <4>1
      <4> QED
        BY <4>2
    <3> QED
      BY <2>4, <3>2, <3>3, <3>4, WhatIsResent
  <2> QED
    BY <1>6, <1>10, <2>2, <2>3, <2>4
<1> QED
  BY <1>5, <1>9, <1>10 DEF Flowing, Due

(***************************************************************************)
(* What is held comes after what was read.                                 *)
(***************************************************************************)
LEMMA WhoTakes ==
  ASSUME NEW e \in Ends, NEW first \in Nat, NEW clock \in Nat, NEW c, NEW d, NEW g,
         NEW s, NEW s2, NEW r, NEW r2, Staged(e, first, clock, c, d, g, s, s2, r, r2)
  PROVE  \/ Missed(c, d)
         \/ \E p : /\ Taking(c, d, g, s, s2, p)
                   /\ p.type \in Ordinary \/ Unheard(g, s) \/ c.state = "START"
<1>1. Moves(e, c, d, s, s2, r, r2) /\ AtNone(c)
  BY DEF Staged, Bond
<1>2. SUFFICES ASSUME ~Missed(c, d), NEW p, Taking(c, d, g, s, s2, p),
                      p.type \notin Ordinary, ~Unheard(g, s)
               PROVE  c.state = "START"
  BY MissedOrTaking
<1>3. p.type = "ConResp"
  BY <1>2 DEF Taking, Ordinary, NumberedPdus, Types, Unheard
<1>4. ~Idles(e, c, d) /\ ~Sends(e, c, d) /\ ~Connects(e, c, d)
  BY <1>1, <1>2 DEF Idles, Firm, Sends, Connects, AtNone, Missed
<1>5. Heeded(e, c, p, d)
  BY <1>1, <1>2, <1>4 DEF Moves, Acted, Taking
<1> QED
  BY <1>2, <1>3, <1>4, <1>5 DEF Heeded, Hears, Delivers, Requests, Repeats, Serves, Joins,
       Starting, Core, Missed

LEMMA ActorHolds ==
  ASSUME NEW e \in Ends, NEW first \in Nat, NEW clock \in Nat, NEW c, NEW d, NEW g,
         NEW s, NEW s2, NEW r, NEW r2, Streaming(e, first, clock, c, d, g, s, s2, r, r2)
  PROVE  Holding(d, g, s2, r2)
<1>1. /\ Staged(e, first, clock, c, d, g, s, s2, r, r2) /\ Holding(c, g, s, r)
      /\ Asking(c, s, r) /\ Blank(c, g, s) /\ Ahead(c, s) /\ Never(c, g, s, r) /\ Acked(c)
      /\ c \in Whole /\ d \in Whole /\ g \in Whole /\ s \in Seq(Packets) /\ r \in Seq(Packets)
  BY DEF Streaming, Stream, Staged, Moves, Bond
<1> SUFFICES ASSUME NEW i \in 1 .. Len(g.fifo_retr)
             PROVE  Follows(d, s2, r2, g.fifo_retr[i])
  BY DEF Holding
<1>2. PICK h : /\ h = g.fifo_retr[i] /\ Follows(c, s, r, h) /\ h.sn \in Nat
               /\ h.msgs \in Seq(Nat)
  BY <1>1, FifoFacts DEF Holding
<1>3. PICK m \in Nat, n \in Nat : m = c.sn_r /\ n = d.sn_r
  BY <1>1, CountFields
<1>4. h.sn >= m => Before(c.got, h.msgs)
  BY <1>2, <1>3 DEF Follows
<1>5. PICK off \in {0, 1} :
        /\ Less(s, s2, off)
        /\ \A k \in 1 .. Len(s2) : Due(d, s2, k) => Due(c, s, k + off)
  BY <1>1, WhatIsLeft
\* What is read.
<1>6. ASSUME NEW p, Reading(e, c, d, s, s2, p)
      PROVE  h.sn >= n => Before(d.got, h.msgs)
  <2>1. SUFFICES ASSUME h.sn >= n PROVE Before(d.got, h.msgs)
    OBVIOUS
  <2>2. p = Head(s).pdu /\ p.type \in {"Data", "RetrData"} /\ Taken(p, d) /\ p.sn = c.sn_r
    BY <1>1, <1>6, TailIsThinned DEF Reading, Delivers, Carries
  <2>3. Takes(s, s2, d)
    BY <1>6, <2>2 DEF Takes, Reading
  <2>4. n = m + 1
    BY <1>1, <1>3, <2>2, <2>3, TakesIsTaking DEF Taking
  <2>5. h.sn >= m /\ h.sn > m
    BY <1>2, <2>1, <2>4
  <2>6. Before(p.msgs, h.msgs)
    BY <1>2, <1>3, <1>6, <2>2, <2>5 DEF Follows, Reading
  <2>7. PICK u \in Seq(Nat), w \in Seq(Nat), v \in Seq(Nat) :
          u = c.got /\ w = p.msgs /\ v = d.got /\ Longer(u, w, Len(w), v)
    <3>1. c.got \in Seq(Nat) /\ d.got \in Seq(Nat)
      BY <1>1, Fields
    <3> QED
      BY <1>6, <3>1 DEF Reading
  <2> QED
    BY <1>4, <2>5, <2>6, <2>7, LongerInOrder
<1>7. ASSUME d.got = c.got PROVE h.sn >= n => Before(d.got, h.msgs)
  <2>1. CASE Missed(c, d)
    BY <1>3, <1>4, <1>7, <2>1 DEF Missed
  <2>2. CASE c.got = << >>
    BY <1>7, <2>2 DEF Before
  <2>3. ASSUME NEW p, Taking(c, d, g, s, s2, p), p.type \in Ordinary
        PROVE  h.sn >= n => Before(d.got, h.msgs)
    <3>1. p.sn \in Nat /\ p.sn >= m /\ n = p.sn + 1
      BY <1>1, <1>3, <2>3 DEF Taking, Ahead
    <3>2. h.sn >= n => h.sn >= m
      BY <1>2, <3>1
    <3> QED
      BY <1>4, <1>7, <3>2
  <2>4. Unheard(g, s) \/ c.state = "START" => c.got = << >>
    BY <1>1 DEF Blank
  <2> QED
    BY <1>1, <2>1, <2>2, <2>3, <2>4, WhoTakes
<1>8. ASSUME NEW k \in 1 .. Len(r2), r2[k].pdu.type = "RetrReq", h.sn > r2[k].pdu.cs
      PROVE  Before(d.got, h.msgs)
  <2>1. CASE k \in 1 .. Len(r) /\ r2[k] = r[k]
    <3>1. Before(c.got, h.msgs)
      BY <1>2, <1>8, <2>1 DEF Follows
    <3>2. "RetrReq" \in Kinds(r)
      BY <1>8, <2>1 DEF Kinds
    <3>3. ~Live(c)
      BY <1>1, <3>2 DEF Asking
    <3>4. d.got = c.got
      BY <1>1, <3>3, WhatIsRead DEF Reading
    <3> QED
      BY <3>1, <3>4
  <2>2. CASE Utters(e, c, d, s, s2, k - Len(r), r2[k].pdu)
    <3>1. r2[k].pdu.cs = c.cs_t /\ Requests(e, c, Head(s).pdu, d)
      BY <1>8, <2>2 DEF Utters, Speech
    <3>2. c.state \in {"UP", "RETRRUN"} /\ d.got = c.got
      BY <3>1 DEF Requests, Core
    <3>3. Took(c)
      BY <1>1, <3>2 DEF Never, Calm
    <3>4. c.cs_t \in Nat /\ c.cs_t + 1 < SnMod
      BY <1>1, CountFields DEF Acked
    <3>5. m = c.cs_t + 1
      BY <1>3, <3>3, <3>4, NoWrap DEF Took, Plus1
    <3>6. h.sn >= m
      BY <1>2, <1>8, <3>1, <3>4, <3>5
    <3> QED
      BY <1>4, <3>2, <3>6
  <2> QED
    BY <1>1, <2>1, <2>2, WhatIsOnItsWay DEF Extended
<1>9. ASSUME NEW k \in 1 .. Len(s2), Due(d, s2, k), h.sn > s2[k].pdu.sn
      PROVE  Before(s2[k].pdu.msgs, h.msgs)
  <2>1. k + off \in 1 .. Len(s) /\ s2[k] = s[k + off] /\ Due(c, s, k + off)
    BY <1>5, <1>9 DEF Less
  <2> QED
    BY <1>2, <1>9, <2>1 DEF Follows
<1>10. d.sn_r <= h.sn => Before(d.got, h.msgs)
  BY <1>1, <1>2, <1>3, <1>6, <1>7, WhatIsRead
<1>11. h.sn >= d.sn_r => Before(d.got, h.msgs)
  BY <1>2, <1>3, <1>10
<1> QED
  BY <1>2, <1>8, <1>9, <1>11 DEF Follows

LEMMA StillFollows ==
  ASSUME NEW e \in Ends, NEW first \in Nat, NEW clock \in Nat, NEW c, NEW d, NEW g,
         NEW s, NEW s2, NEW r, NEW r2, Streaming(e, first, clock, c, d, g, s, s2, r, r2),
         NEW j \in 1 .. Len(c.fifo_retr)
  PROVE  Follows(g, r2, s2, c.fifo_retr[j])
<1>1. /\ Staged(e, first, clock, c, d, g, s, s2, r, r2) /\ Holding(g, c, r, s) /\ Stored(c)
      /\ c \in Whole
  BY DEF Streaming, Stream, Staged, Moves
<1>2. PICK m \in Nat : m = c.sn_t
  BY <1>1, CountFields
<1>3. PICK h : /\ h = c.fifo_retr[j] /\ Follows(g, r, s, h) /\ h.sn \in Nat /\ h.sn < m
  BY <1>1, <1>2, FifoFacts DEF Holding, Stored
<1>4. PICK off \in {0, 1} : Less(s, s2, off)
  BY <1>1, WhatIsLeft
<1>5. PICK l \in Nat : l = Len(r) /\ Len(r2) \in Nat
  BY <1>1, WhatIsOnItsWay
<1>6. ASSUME NEW k \in 1 .. Len(r2), Due(g, r2, k), h.sn > r2[k].pdu.sn
      PROVE  Before(r2[k].pdu.msgs, h.msgs)
  <2>1. CASE k \in 1 .. l
    <3>1. r2[k] = r[k] /\ Due(g, r, k)
      BY <1>1, <1>5, <1>6, <2>1, WhatIsOnItsWay, DueStill
    <3> QED
      BY <1>3, <1>5, <1>6, <2>1, <3>1 DEF Follows
  <2>2. CASE k \notin 1 .. l
    <3>1. r2[k].pdu.type \in Speech
      BY <1>6 DEF Due, Carries, Speech
    <3>2. k > l /\ r2[k].pdu.sn = m + ((k - l) - 1)
      <4>1. Extended(e, c, d, s, s2, r, r2)
        BY <1>1, WhatIsOnItsWay
      <4> QED
        BY <1>2, <1>5, <2>2, <3>1, <4>1 DEF Extended
    <3>3. m + ((k - l) - 1) >= m /\ m + ((k - l) - 1) \in Nat
      BY <1>5, <3>2
    <3> QED
      BY <1>3, <1>6, <3>2, <3>3
  <2> QED
    BY <2>1, <2>2
<1>7. \A k \in 1 .. Len(s2) :
        s2[k].pdu.type = "RetrReq" /\ h.sn > s2[k].pdu.cs => Before(g.got, h.msgs)
  BY <1>3, <1>4 DEF Follows, Less
<1>8. h.sn >= g.sn_r => Before(g.got, h.msgs)
  BY <1>3 DEF Follows
<1> QED
  BY <1>3, <1>6, <1>7, <1>8 DEF Follows

\* The PDU that is sent and held.
LEMMA SentFollows ==
  ASSUME NEW e \in Ends, NEW first \in Nat, NEW clock \in Nat, NEW c, NEW d, NEW g,
         NEW s, NEW s2, NEW r, NEW r2, Streaming(e, first, clock, c, d, g, s, s2, r, r2),
         Sends(e, c, d), NEW h, h.sn = c.sn_t, h.msgs = d.out[1].pdu.msgs
  PROVE  Follows(g, r2, s2, h)
<1>1. /\ Staged(e, first, clock, c, d, g, s, s2, r, r2) /\ Flowing(g, c, r) /\ Stored(c)
      /\ c \in Whole /\ d \in Whole
  BY DEF Streaming, Stream, Staged, Moves
<1>2. PICK m \in Nat : m = c.sn_t
  BY <1>1, CountFields
<1>3. PICK l \in Nat : l = Len(r) /\ Len(r2) \in Nat
  BY <1>1, WhatIsOnItsWay
<1>4. PICK v \in Seq(Nat) :
        v = d.out[1].pdu.msgs /\ \A x : Below(x, c.fifo_send) => Below(x, v)
  BY <1>1, WhatIsSent DEF Stored
<1>5. Before(g.got, v)
  BY <1>1, <1>4 DEF Flowing, Before
<1>6. ASSUME NEW k \in 1 .. Len(r2), Due(g, r2, k), h.sn > r2[k].pdu.sn
      PROVE  Before(r2[k].pdu.msgs, h.msgs)
  <2>1. CASE k \in 1 .. l
    <3>1. r2[k] = r[k] /\ Due(g, r, k) /\ Carries(r[k].pdu)
      BY <1>1, <1>3, <1>6, <2>1, WhatIsOnItsWay, DueStill DEF Due
    <3>2. Before(r[k].pdu.msgs, c.fifo_send)
      BY <1>1, <1>3, <2>1, <3>1 DEF Flowing
    <3> QED
      BY <1>4, <3>1, <3>2 DEF Before
  <2>2. CASE k \notin 1 .. l
    <3>1. r2[k].pdu.type \in Speech
      BY <1>6 DEF Due, Carries, Speech
    <3>2. k > l /\ r2[k].pdu.sn = m + ((k - l) - 1)
      <4>1. Extended(e, c, d, s, s2, r, r2)
        BY <1>1, WhatIsOnItsWay
      <4> QED
        BY <1>2, <1>3, <2>2, <3>1, <4>1 DEF Extended
    <3>3. m + ((k - l) - 1) >= m /\ m + ((k - l) - 1) \in Nat
      BY <1>3, <3>2
    <3> QED
      BY <1>2, <1>6, <3>2, <3>3
  <2> QED
    BY <2>1, <2>2
<1> QED
  BY <1>4, <1>5, <1>6 DEF Follows

\* What is held once it has been sent again.
LEMMA ResentFollows ==
  ASSUME NEW e \in Ends, NEW first \in Nat, NEW clock \in Nat, NEW c, NEW d, NEW g,
         NEW s, NEW s2, NEW r, NEW r2, Streaming(e, first, clock, c, d, g, s, s2, r, r2),
         Answering(e, c, d, s, s2), NEW i \in Nat \ {0},
         NEW h, h.sn = c.sn_t + i, h.msgs = Nth(Resent(c, s), i)
  PROVE  Follows(g, r2, s2, h)
<1>1. /\ Staged(e, first, clock, c, d, g, s, s2, r, r2) /\ c \in Whole
  BY DEF Streaming, Stream, Staged, Moves
<1>2. PICK m \in Nat : m = c.sn_t
  BY <1>1, CountFields
<1>3. PICK l \in Nat : l = Len(r) /\ Len(r2) \in Nat
  BY <1>1, WhatIsOnItsWay
<1>4. Before(g.got, h.msgs)
  BY WhatIsResent
<1>5. ASSUME NEW k \in 1 .. Len(r2), Due(g, r2, k), h.sn > r2[k].pdu.sn
      PROVE  Before(r2[k].pdu.msgs, h.msgs)
  <2>1. Carries(r2[k].pdu)
    BY <1>5 DEF Due
  <2>2. k \notin 1 .. l
    BY <1>1, <1>3, <1>5, DueStill, WhatIsAnswered
  <2>3. r2[k].pdu.type \in Speech
    BY <2>1 DEF Carries, Speech
  <2>4. /\ k > l /\ r2[k].pdu.sn = m + ((k - l) - 1)
        /\ Utters(e, c, d, s, s2, k - l, r2[k].pdu)
    <3>1. Extended(e, c, d, s, s2, r, r2)
      BY <1>1, WhatIsOnItsWay
    <3> QED
      BY <1>2, <1>3, <2>2, <2>3, <3>1 DEF Extended
  <2>5. ~Sends(e, c, d)
    BY <1>1, NotSending
  <2>6. k - l >= 2 /\ r2[k].pdu.msgs = Nth(Resent(c, s), (k - l) - 1)
    BY <2>1, <2>3, <2>4, <2>5 DEF Utters, Carries
  <2>7. PICK n \in Nat \ {0} : n = (k - l) - 1
    <3>1. k \in Nat
      BY <1>3
    <3>2. (k - l) - 1 \in Nat \ {0}
      BY <2>6, <3>1
    <3> QED
      BY <3>2
  <2>8. n < i
    BY <1>2, <1>5, <2>4, <2>7
  <2> QED
    BY <2>6, <2>7, <2>8, WhatIsResent
<1> QED
  BY <1>4, <1>5 DEF Follows

LEMMA PeerHolds ==
  ASSUME NEW e \in Ends, NEW first \in Nat, NEW clock \in Nat, NEW c, NEW d, NEW g,
         NEW s, NEW s2, NEW r, NEW r2, Streaming(e, first, clock, c, d, g, s, s2, r, r2)
  PROVE  Holding(g, d, r2, s2)
<1>1. /\ Moves(e, c, d, s, s2, r, r2) /\ s \in Seq(Packets) /\ c \in Whole /\ d \in Whole
      /\ c.fifo_retr \in Seq(Held) /\ d.fifo_retr \in Seq(Held)
  BY FifoFacts DEF Streaming, Staged, Moves
<1> SUFFICES ASSUME NEW i \in 1 .. Len(d.fifo_retr)
             PROVE  Follows(g, r2, s2, d.fifo_retr[i])
  BY DEF Holding
<1>2. CASE Rear(c.fifo_retr, d.fifo_retr)
  <2>1. PICK j \in 1 .. Len(c.fifo_retr) : d.fifo_retr[i] = c.fifo_retr[j]
    BY <1>2 DEF Rear
  <2> QED
    BY <2>1, StillFollows
<1>3. CASE /\ Sends(e, c, d)
           /\ d.fifo_retr = Append(c.fifo_retr, [sn |-> c.sn_t, msgs |-> d.out[1].pdu.msgs])
  <2>1. PICK h : h = [sn |-> c.sn_t, msgs |-> d.out[1].pdu.msgs]
    OBVIOUS
  <2>2. h.sn = c.sn_t /\ h.msgs = d.out[1].pdu.msgs
    BY <2>1
  <2>3. h \in Held
    <3>1. Stored(c)
      BY DEF Streaming, Stream
    <3>2. d.out[1].pdu.msgs \in Seq(Nat)
      BY <1>1, <1>3, <3>1, WhatIsSent DEF Stored
    <3>3. Len(d.fifo_retr) = Len(c.fifo_retr) + 1 /\ d.fifo_retr[Len(c.fifo_retr) + 1] = h
      BY <1>1, <1>3, <2>1
    <3>4. Len(c.fifo_retr) + 1 \in 1 .. Len(d.fifo_retr)
      BY <1>1, <3>3
    <3> QED
      BY <1>1, <3>3, <3>4
  <2>4. \/ i \in 1 .. Len(c.fifo_retr) /\ d.fifo_retr[i] = c.fifo_retr[i]
        \/ d.fifo_retr[i] = h
    BY <1>1, <1>3, <2>1, <2>3, HeldAtTheEnd
  <2> QED
    BY <1>3, <2>2, <2>4, StillFollows, SentFollows
<1>4. CASE Answering(e, c, d, s, s2)
  <2>1. /\ d.fifo_retr[i].sn = c.sn_t + i
        /\ d.fifo_retr[i].msgs = Nth(Resent(c, s), i)
    BY <1>4 DEF Answering, Repeats, Resent
  <2>2. i \in Nat \ {0}
    BY <1>1
  <2> QED
    BY <1>4, <2>1, <2>2, ResentFollows
<1> QED
  BY <1>1, <1>2, <1>3, <1>4, WhatIsHeld DEF Answering

LEMMA MovesKeepStream ==
  ASSUME NEW e \in Ends, NEW first \in Nat, NEW clock \in Nat, NEW c, NEW d, NEW g,
         NEW s, NEW s2, NEW r, NEW r2, Streaming(e, first, clock, c, d, g, s, s2, r, r2)
  PROVE  Stream(d, g, s2, r2) /\ Stream(g, d, r2, s2)
<1>1. /\ Staged(e, first, clock, c, d, g, s, s2, r, r2) /\ Stored(c) /\ Stored(g)
  BY DEF Streaming, Stream
<1>2. Stored(d)
  BY <1>1, ActorStores
<1>3. Asking(d, s2, r2) /\ Asking(g, r2, s2) /\ Blank(d, g, s2) /\ Blank(g, d, r2)
  BY ActorAsks, PeerAsks, BothStayBlank
<1>4. Flowing(d, g, s2) /\ Flowing(g, d, r2)
  BY ActorFlows, PeerFlows
<1>5. Holding(d, g, s2, r2) /\ Holding(g, d, r2, s2)
  BY ActorHolds, PeerHolds
<1> QED
  BY <1>1, <1>2, <1>3, <1>4, <1>5 DEF Stream

(***************************************************************************)
(* Every step keeps the order.                                             *)
(***************************************************************************)
LEMMA StreamAlike ==
  ASSUME NEW c, NEW c2, NEW g, NEW s, NEW r, Alike(c, c2)
  PROVE  /\ Stream(c, g, s, r) => Stream(c2, g, s, r)
         /\ Stream(g, c, r, s) => Stream(g, c2, r, s)
<1>1. /\ c2.sn_r = c.sn_r /\ c2.got = c.got /\ c2.sn_t = c.sn_t /\ c2.state = c.state
      /\ c2.fifo_retr = c.fifo_retr /\ c2.fifo_send = c.fifo_send /\ c2.asked = c.asked
  BY DEF Alike, Core
<1>2. Live(c2) = Live(c) /\ \A t, i : Due(c2, t, i) = Due(c, t, i)
  BY <1>1 DEF Live, Due
<1>3. \A u : Wanted(u, c2) = Wanted(u, c)
  BY <1>1 DEF Wanted
<1>4. Stored(c) => Stored(c2)
  BY <1>1, <1>3 DEF Stored, Queued
<1>5. ASSUME Stream(c, g, s, r) PROVE Stream(c2, g, s, r)
  <2>1. Asking(c2, s, r) /\ Blank(c2, g, s)
    BY <1>1, <1>2, <1>5 DEF Stream, Asking, Blank
  <2>2. Flowing(c2, g, s)
    BY <1>1, <1>2, <1>5 DEF Stream, Flowing
  <2>3. Holding(c2, g, s, r)
    BY <1>1, <1>2, <1>5 DEF Stream, Holding, Follows
  <2> QED
    BY <1>5, <2>1, <2>2, <2>3 DEF Stream
<1>6. ASSUME Stream(g, c, r, s) PROVE Stream(g, c2, r, s)
  <2>1. Stored(c2) /\ Asking(g, r, s)
    BY <1>4, <1>6 DEF Stream
  <2>2. Blank(g, c2, r)
    BY <1>1, <1>6 DEF Stream, Blank, Unheard
  <2>3. Flowing(g, c2, r)
    BY <1>1, <1>3, <1>6 DEF Stream, Flowing
  <2>4. Holding(g, c2, r, s)
    BY <1>1, <1>6 DEF Stream, Holding
  <2> QED
    BY <2>1, <2>2, <2>3, <2>4 DEF Stream
<1> QED
  BY <1>5, <1>6

\* A PDU that is lost was due, and its messages are no more.
LEMMA StreamThinned ==
  ASSUME NEW c, NEW g, NEW s \in Seq(Packets), NEW s2 \in Seq(Packets), NEW r,
         Thinned(s, s2), Stream(c, g, s, r), Stream(g, c, r, s)
  PROVE  Stream(c, g, s2, r) /\ Stream(g, c, r, s2)
<1>1. PICK h \in [1 .. Len(s2) -> 1 .. Len(s)] :
        /\ \A i \in 1 .. Len(s2) : s2[i] = s[h[i]]
        /\ \A i, j \in 1 .. Len(s2) : i < j => h[i] < h[j]
  BY DEF Thinned
<1>2. Kinds(s2) \subseteq Kinds(s)
  BY ThinnedKinds
<1>3. \A i \in 1 .. Len(s2) : h[i] \in 1 .. Len(s)
  BY <1>1
<1>4. ASSUME NEW x, NEW i \in 1 .. Len(s2), Due(x, s2, i) PROVE Due(x, s, h[i])
  <2>1. Carries(s[h[i]].pdu)
    BY <1>1, <1>4 DEF Due
  <2>2. ASSUME NEW k \in 1 .. i - 1, s2[k].pdu.type = "RetrResp"
        PROVE  h[k] \in 1 .. h[i] - 1 /\ s[h[k]].pdu.type = "RetrResp"
    <3>1. k \in 1 .. Len(s2) /\ k < i
      BY <2>2
    <3>2. h[k] < h[i] /\ h[k] \in 1 .. Len(s) /\ h[i] \in 1 .. Len(s)
      BY <1>1, <1>3, <3>1
    <3>3. h[k] \in 1 .. h[i] - 1
      BY <3>2
    <3> QED
      BY <1>1, <2>2, <3>1, <3>3
  <2> QED
    BY <1>4, <2>1, <2>2 DEF Due
<1>5. \A type : Once(type, s) => Once(type, s2)
  <2>1. \A i, j \in 1 .. Len(s2) : h[i] = h[j] => i = j
    <3>1. SUFFICES ASSUME NEW i \in 1 .. Len(s2), NEW j \in 1 .. Len(s2), h[i] = h[j], i # j
                   PROVE  FALSE
      OBVIOUS
    <3>2. i < j \/ j < i
      BY <3>1
    <3>3. h[i] \in 1 .. Len(s) /\ h[j] \in 1 .. Len(s)
      BY <1>3
    <3>4. h[i] < h[j] \/ h[j] < h[i]
      BY <1>1, <3>2
    <3> QED
      BY <3>1, <3>3, <3>4
  <2> QED
    BY <1>1, <1>3, <2>1 DEF Once
<1>6. Stream(c, g, s2, r)
  <2>1. Stored(g) /\ Asking(c, s2, r)
    BY <1>2, <1>5 DEF Stream, Asking
  <2>2. Blank(c, g, s2)
    BY <1>2 DEF Stream, Blank, Unheard
  <2>3. Flowing(c, g, s2)
    <3>1. Flowing(c, g, s)
      BY DEF Stream
    <3>2. \A i \in 1 .. Len(s2) : Carries(s2[i].pdu) =>
            Wanted(s2[i].pdu.msgs, g) /\ Before(s2[i].pdu.msgs, g.fifo_send)
      BY <1>1, <1>3, <3>1 DEF Flowing
    <3>3. \A i \in 1 .. Len(s2) : Due(c, s2, i) => Before(c.got, s2[i].pdu.msgs)
      BY <1>1, <1>3, <1>4, <3>1 DEF Flowing
    <3>4. ASSUME NEW i \in 1 .. Len(s2), NEW j \in 1 .. Len(s2), i < j, Due(c, s2, i),
                 Carries(s2[j].pdu)
          PROVE  Before(s2[i].pdu.msgs, s2[j].pdu.msgs)
      <4>1. /\ h[i] \in 1 .. Len(s) /\ h[j] \in 1 .. Len(s) /\ h[i] < h[j]
            /\ Due(c, s, h[i]) /\ s2[i] = s[h[i]] /\ s2[j] = s[h[j]]
        BY <1>1, <1>3, <1>4, <3>4
      <4> QED
        BY <3>1, <3>4, <4>1 DEF Flowing
    <3> QED
      BY <3>1, <3>2, <3>3, <3>4 DEF Flowing
  <2>4. Holding(c, g, s2, r)
    <3>1. SUFFICES ASSUME NEW i \in 1 .. Len(g.fifo_retr)
                   PROVE  Follows(c, s2, r, g.fifo_retr[i])
      BY DEF Holding
    <3>2. PICK x : x = g.fifo_retr[i] /\ Follows(c, s, r, x)
      BY DEF Stream, Holding
    <3>3. \A k \in 1 .. Len(s2) :
            Due(c, s2, k) /\ x.sn > s2[k].pdu.sn => Before(s2[k].pdu.msgs, x.msgs)
      BY <1>1, <1>3, <1>4, <3>2 DEF Follows
    <3> QED
      BY <3>2, <3>3 DEF Follows
  <2> QED
    BY <2>1, <2>2, <2>3, <2>4 DEF Stream
<1>7. Stream(g, c, r, s2)
  <2>1. Asking(g, r, s2)
    BY <1>2, <1>5 DEF Stream, Asking
  <2>2. Holding(g, c, r, s2)
    BY <1>1, <1>3 DEF Stream, Holding, Follows
  <2> QED
    BY <2>1, <2>2 DEF Stream
<1> QED
  BY <1>6, <1>7

LEMMA MovingKeepsStream ==
  ASSUME SessionInv, BelowWrap, BondInv, StreamInv, NEW e \in Ends, NEW d, Moving(e, d)
  PROVE  StreamInv'
<1>1. PICK f \in Ends : f = Peer(e) /\ Peer(f) = e /\ Ends = {e, f} /\ f # e
  BY DEF Ends, Peer
<1>2. PICK c, g, s, r, s2, r2 : /\ c = con[e] /\ g = con[f] /\ s = net[e] /\ r = net[f]
                                /\ s2 = net'[e] /\ r2 = net'[f]
  OBVIOUS
<1>3. PICK first \in Nat, clock \in Nat : Staged(e, first, clock, c, d, g, s, s2, r, r2)
  BY <1>1, <1>2, MovingIsStaged
<1>4. Stream(c, g, s, r) /\ Stream(g, c, r, s)
  BY <1>1, <1>2 DEF StreamInv, StreamAt
<1>5. Stream(d, g, s2, r2) /\ Stream(g, d, r2, s2)
  BY <1>3, <1>4, MovesKeepStream DEF Streaming
<1>6. PICK d2 : d2 = [d EXCEPT !.out = << >>]
  OBVIOUS
<1>7. con'[e] = d2 /\ con'[f] = g
  BY <1>1, <1>2, <1>6 DEF Moving, SessionInv, TypeInv
<1>8. Alike(d, d2)
  <2>1. d \in Records
    BY <1>3 DEF Staged, Moves, Whole
  <2> QED
    BY <1>6, <2>1 DEF Records, Alike, Core
<1>9. Stream(d2, g, s2, r2) /\ Stream(g, d2, r2, s2)
  BY <1>5, <1>8, StreamAlike
<1>10. StreamAt(e)' /\ StreamAt(f)'
  BY <1>1, <1>2, <1>7, <1>9 DEF StreamAt
<1> QED
  BY <1>1, <1>10 DEF StreamInv

LEMMA StreamStays ==
  ASSUME SessionInv, BelowWrap, BondInv, StreamInv, Unbroken', [Next]_vars
  PROVE  StreamInv'
<1>1. CASE \E e \in Ends : \E d : Moving(e, d) /\ now' = now
  BY <1>1, MovingKeepsStream
<1>2. CASE \E e \in Ends : Drops(e) /\ now' = now
  <2>1. PICK e \in Ends, f \in Ends : Drops(e) /\ f = Peer(e) /\ Peer(f) = e /\ Ends = {e, f}
    BY <1>2 DEF Ends, Peer
  <2>2. net[e] \in Seq(Packets)
    BY AtRest
  <2>3. /\ Stream(con[e], con[f], net'[e], net[f])
        /\ Stream(con[f], con[e], net[f], net'[e])
    <3>1. /\ Stream(con[e], con[f], net[e], net[f])
          /\ Stream(con[f], con[e], net[f], net[e])
      BY <2>1 DEF StreamInv, StreamAt
    <3> QED
      BY <2>1, <2>2, <3>1, StreamThinned DEF Drops
  <2>4. con' = con /\ net'[f] = net[f]
    BY <2>1 DEF Drops
  <2>5. StreamAt(e)' /\ StreamAt(f)'
    BY <2>1, <2>3, <2>4 DEF StreamAt
  <2> QED
    BY <2>1, <2>5 DEF StreamInv
<1>3. CASE UNCHANGED <<con, net>>
  BY <1>3 DEF StreamInv, StreamAt
<1> QED
  BY <1>1, <1>2, <1>3, NextMoves

LEMMA StreamStarts == Init => StreamInv
<1> SUFFICES ASSUME Init, NEW e \in Ends PROVE StreamAt(e)
  BY DEF StreamInv
<1>1. PICK s \in Seq(Packets) : s = << >> /\ Len(s) = 0
  <2>1. << >> \in Seq(Packets) /\ Len(<< >>) = 0
    OBVIOUS
  <2> QED
    BY <2>1
<1>2. \A i : i \in 1 .. Len(s) => FALSE
  BY <1>1
<1>3. Kinds(s) = {}
  BY <1>2 DEF Kinds
<1>4. PICK c : /\ c = NoConnection /\ c.fifo_send = s /\ c.fifo_retr = s /\ c.got = s
  <2>1. /\ NoConnection.fifo_send = << >> /\ NoConnection.fifo_retr = << >>
        /\ NoConnection.got = << >>
    BY DEF NoConnection
  <2> QED
    BY <1>1, <2>1
<1>5. con[e] = c /\ con[Peer(e)] = c /\ net[e] = s /\ net[Peer(e)] = s
  BY <1>1, <1>4, ConstantFacts DEF Init
<1>6. Stored(c) /\ Asking(c, s, s) /\ Blank(c, c, s)
  BY <1>1, <1>2, <1>3, <1>4 DEF Stored, Queued, Rises, Asking, Once, Blank
<1>7. Flowing(c, c, s) /\ Holding(c, c, s, s)
  BY <1>2, <1>4 DEF Flowing, Wanted, Rises, Before, Holding
<1> QED
  BY <1>5, <1>6, <1>7 DEF StreamAt, Stream

LEMMA StreamInvariance == Spec /\ []Unbroken /\ []BelowWrap => []StreamInv
<1>1. SessionInv /\ BelowWrap /\ BondInv /\ StreamInv /\ Unbroken' /\ [Next]_vars => StreamInv'
  BY StreamStays
<1> QED
  BY <1>1, StreamStarts, SessionInvariance, BondInvariance, PTL DEF Spec

LEMMA StreamsAreInOrder ==
  ASSUME StreamInv
  PROVE  MessagesInOrder
<1>1. \A e \in Ends : Wanted(con[e].got, con[Peer(e)])
  BY DEF StreamInv, StreamAt, Stream, Flowing
<1> QED
  BY <1>1 DEF MessagesInOrder, InOrder, Wanted, Rises

(***************************************************************************)
(* The application is handed messages in the order in which the            *)
(* application of the peer asked sr_send for them, each at most once,      *)
(* whatever the network loses and however often a retransmission is asked  *)
(* for.  As long as no endpoint starts again and none runs out of numbers. *)
(***************************************************************************)
THEOREM MessagesOrdered == Spec /\ []Unbroken /\ []BelowWrap => []MessagesInOrder
BY StreamsAreInOrder, StreamInvariance, PTL

-----------------------------------------------------------------------------
(***************************************************************************)
(*                    PART VI: WHAT WAS PASSED WAS READ                    *)
(*                                                                         *)
(* As in part V; first is the number with which the peer g begins.         *)
(***************************************************************************)
\* From n to h, what is on its way belongs to a retransmission that ends with h.
Sequel(s, n, h) ==
  \A i \in 1 .. Len(s) :
    s[i].pdu.type \in Ordinary /\ n <= s[i].pdu.sn /\ s[i].pdu.sn <= h =>
      IF s[i].pdu.sn = h THEN s[i].pdu.type = "HB" ELSE s[i].pdu.type = "RetrData"

Announced(g, s, n) == \E h \in Nat : n <= h /\ h < g.sn_t /\ Sequel(s, n, h)

\* After a RetrResp nothing else comes until the heartbeat that ends it.
Repaired(c, g, s) ==
  /\ c.state = "RETRRUN" => Announced(g, s, c.sn_r)
  /\ \A k \in 1 .. Len(s) :
       s[k].pdu.type = "RetrResp" => Announced(g, s, s[k].pdu.sn + 1)

\* Who takes the number of a PDU that is held takes its messages.
Stands(first, s, held) ==
  /\ held.sn > first
  /\ \A k \in 1 .. Len(s) :
       /\ s[k].pdu.type \in Ordinary /\ s[k].pdu.sn = held.sn =>
            Carries(s[k].pdu) /\ s[k].pdu.msgs = held.msgs
       /\ s[k].pdu.type = "RetrResp" => held.sn > s[k].pdu.sn

Copied(first, g, s) == \A i \in 1 .. Len(g.fifo_retr) : Stands(first, s, g.fifo_retr[i])

Within(u, v) == \A i \in 1 .. Len(u) : \E j \in 1 .. Len(v) : v[j] = u[i]

Passed(c, g) ==
  \A i \in 1 .. Len(g.fifo_retr) :
    g.fifo_retr[i].sn < c.sn_r => Within(g.fifo_retr[i].msgs, c.got)

Trail(first, c, g, s) == Repaired(c, g, s) /\ Copied(first, g, s) /\ Passed(c, g)

TrailAt(e) == Trail(InitSn[Peer(e)], con[e], con[Peer(e)], net[e])

TrailInv == \A e \in Ends : TrailAt(e)

Tracked(e, first, clock, c, d, g, s, s2, r, r2) ==
  /\ Streaming(e, first, clock, c, d, g, s, s2, r, r2)
  /\ Trail(first, c, g, s) /\ Trail(InitSn[e], g, c, r)

(***************************************************************************)
(* The receiver.                                                           *)
(***************************************************************************)
\* A PDU that is taken brings its messages to the application, if it has any
\* and no retransmission runs.
LEMMA WhatIsPassed ==
  ASSUME NEW e \in Ends, NEW first \in Nat, NEW clock \in Nat, NEW c, NEW d, NEW g,
         NEW s, NEW s2, NEW r, NEW r2, Staged(e, first, clock, c, d, g, s, s2, r, r2),
         NEW p, Taking(c, d, g, s, s2, p), p.type \in Ordinary
  PROVE  /\ p.type = "RetrResp" \/ p.sn = c.sn_r
         /\ Carries(p) => \/ Reading(e, c, d, s, s2, p)
                          \/ p.type = "Data" /\ c.state = "RETRRUN"
<1>1. /\ Moves(e, c, d, s, s2, r, r2) /\ AtNone(c) /\ Ahead(c, s) /\ c \in Whole
      /\ s \in Seq(Packets)
  BY DEF Staged, Bond, Moves
<1>2. PICK m \in Nat : m = c.sn_r
  BY <1>1, CountFields
<1>3. /\ p.sn \in Nat /\ p.sn >= m /\ d.sn_r = p.sn + 1
      /\ 1 \in 1 .. Len(s) /\ p = s[1].pdu /\ p = Head(s).pdu /\ s # << >> /\ s2 = Tail(s)
  BY <1>1, <1>2 DEF Taking, Ahead
<1>4. ~Missed(c, d)
  <2>1. p.sn + 1 # m
    BY <1>3
  <2> QED
    BY <1>2, <1>3, <2>1 DEF Missed
<1>5. ~Idles(e, c, d) /\ ~Sends(e, c, d) /\ ~Connects(e, c, d) /\ ~Requests(e, c, p, d)
  BY <1>1, <1>4 DEF Idles, Firm, Sends, Connects, AtNone, Missed, Requests, Core
<1>6. Heeded(e, c, p, d)
  BY <1>1, <1>3, <1>5 DEF Moves, Acted
<1>7. ~Serves(e, c, p, d) /\ ~Joins(e, c, p, d)
  BY DEF Serves, Joins, Ordinary
<1>8. CASE Hears(e, c, p, d)
  BY <1>8 DEF Hears, Carries
<1>9. CASE Delivers(e, c, p, d)
  <2>1. p.sn = c.sn_r /\ Carries(p) /\ Live(c) /\ Longer(c.got, p.msgs, Len(p.msgs), d.got)
    BY <1>9 DEF Delivers, Carries, Live
  <2>2. Due(c, s, 1)
    BY <1>3, <2>1 DEF Due
  <2>3. p.msgs \in Seq(Nat)
    BY <1>1, <1>3, MessageFields
  <2> QED
    BY <1>3, <1>9, <2>1, <2>2, <2>3 DEF Reading
<1>10. CASE Repeats(e, c, p, d)
  <2>1. p.type = "RetrReq" /\ p.sn = c.sn_r
    BY <1>4, <1>10 DEF Repeats
  <2> QED
    BY <2>1 DEF Carries
<1> QED
  BY <1>5, <1>6, <1>7, <1>8, <1>9, <1>10 DEF Heeded

\* A retransmission runs.
LEMMA WhatRuns ==
  ASSUME NEW e \in Ends, NEW first \in Nat, NEW clock \in Nat, NEW c, NEW d, NEW g,
         NEW s, NEW s2, NEW r, NEW r2, Staged(e, first, clock, c, d, g, s, s2, r, r2),
         d.state = "RETRRUN"
  PROVE  \/ c.state = "RETRRUN" /\ d.sn_r = c.sn_r
         \/ \E p : /\ Taking(c, d, g, s, s2, p)
                   /\ \/ p.type = "RetrResp"
                      \/ c.state = "RETRRUN" /\ p.type \in {"Data", "RetrData"} /\ p.sn = c.sn_r
<1>1. Moves(e, c, d, s, s2, r, r2)
  BY DEF Staged
<1>2. CASE Idles(e, c, d) \/ Sends(e, c, d)
  BY <1>2 DEF Idles, Firm, Sends
<1>3. ~Connects(e, c, d)
  BY DEF Connects
<1>4. CASE s # << >> /\ s2 = Tail(s) /\ Heeded(e, c, Head(s).pdu, d) /\ ~Idles(e, c, d)
  <2>1. PICK p : p = Head(s).pdu
    OBVIOUS
  <2>2. Heeded(e, c, p, d) /\ ~Idles(e, c, d)
    BY <1>4, <2>1
  <2>3. ~Requests(e, c, p, d) /\ ~Serves(e, c, p, d) /\ ~Joins(e, c, p, d) /\ ~Repeats(e, c, p, d)
    BY DEF Requests, Serves, Joins, Repeats
  <2>4. Hears(e, c, p, d) \/ Delivers(e, c, p, d)
    BY <2>2, <2>3 DEF Heeded
  <2>5. /\ Taken(p, d) /\ p.type # "DiscReq"
        /\ \/ p.type = "RetrResp"
           \/ c.state = "RETRRUN" /\ p.type \in {"Data", "RetrData"} /\ p.sn = c.sn_r
    BY <2>4 DEF Hears, Delivers
  <2>6. Taking(c, d, g, s, s2, p)
    <3>1. Takes(s, s2, d)
      BY <1>4, <2>1, <2>5 DEF Takes
    <3> QED
      BY <2>1, <3>1, TakesIsTaking
  <2> QED
    BY <2>5, <2>6
<1> QED
  BY <1>1, <1>2, <1>3, <1>4 DEF Moves, Acted

LEMMA LessAnnounced ==
  ASSUME NEW g, NEW s, NEW s2, NEW off \in {0, 1}, Less(s, s2, off), NEW n, Announced(g, s, n)
  PROVE  Announced(g, s2, n)
BY DEF Announced, Sequel, Less

\* One more of what was announced has come.
LEMMA NextAnnounced ==
  ASSUME NEW g, NEW s \in Seq(Packets), NEW n \in Nat, Announced(g, s, n), 1 \in 1 .. Len(s),
         s[1].pdu.type \in {"Data", "RetrData"}, s[1].pdu.sn = n
  PROVE  s[1].pdu.type = "RetrData" /\ Announced(g, s, n + 1)
<1>1. PICK h \in Nat : n <= h /\ h < g.sn_t /\ Sequel(s, n, h)
  BY DEF Announced
<1>2. s[1].pdu.type \in Ordinary
  BY DEF Ordinary
<1>3. s[1].pdu.type = "RetrData" /\ n # h
  BY <1>1, <1>2 DEF Sequel
<1>4. n + 1 <= h
  BY <1>1, <1>3
<1>5. \A i \in 1 .. Len(s) : n + 1 <= s[i].pdu.sn => n <= s[i].pdu.sn
  BY PduFields
<1>6. Sequel(s, n + 1, h)
  BY <1>1, <1>5 DEF Sequel
<1> QED
  BY <1>1, <1>3, <1>4, <1>6 DEF Announced

LEMMA ActorTrails ==
  ASSUME NEW e \in Ends, NEW first \in Nat, NEW clock \in Nat, NEW c, NEW d, NEW g,
         NEW s, NEW s2, NEW r, NEW r2, Tracked(e, first, clock, c, d, g, s, s2, r, r2)
  PROVE  Trail(first, d, g, s2)
<1>1. /\ Staged(e, first, clock, c, d, g, s, s2, r, r2) /\ s \in Seq(Packets)
      /\ Repaired(c, g, s) /\ Copied(first, g, s) /\ Passed(c, g)
      /\ c \in Whole /\ d \in Whole /\ g \in Whole /\ Reach(first, c, g, s, r)
  BY DEF Tracked, Streaming, Staged, Trail, Moves, Bond
<1>2. PICK off \in {0, 1} : Less(s, s2, off)
  BY <1>1, WhatIsLeft
<1>3. PICK m \in Nat, n \in Nat : m = c.sn_r /\ n = d.sn_r
  BY <1>1, CountFields
<1>4. Repaired(d, g, s2)
  <2>1. \A k \in 1 .. Len(s2) :
          s2[k].pdu.type = "RetrResp" => Announced(g, s2, s2[k].pdu.sn + 1)
    <3> SUFFICES ASSUME NEW k \in 1 .. Len(s2), s2[k].pdu.type = "RetrResp"
                 PROVE  Announced(g, s2, s2[k].pdu.sn + 1)
      OBVIOUS
    <3>1. PICK n1 : n1 = s2[k].pdu.sn + 1
      OBVIOUS
    <3>2. k + off \in 1 .. Len(s) /\ s2[k] = s[k + off]
      BY <1>2 DEF Less
    <3>3. Announced(g, s, n1)
      BY <1>1, <3>1, <3>2 DEF Repaired
    <3> QED
      BY <1>2, <3>1, <3>3, LessAnnounced
  <2>2. SUFFICES ASSUME d.state = "RETRRUN" PROVE Announced(g, s2, d.sn_r)
    BY <2>1 DEF Repaired
  <2>3. CASE c.state = "RETRRUN" /\ d.sn_r = c.sn_r
    BY <1>1, <1>2, <2>3, LessAnnounced DEF Repaired
  <2>4. ASSUME NEW p, Taking(c, d, g, s, s2, p),
               \/ p.type = "RetrResp"
               \/ c.state = "RETRRUN" /\ p.type \in {"Data", "RetrData"} /\ p.sn = c.sn_r
        PROVE  Announced(g, s2, d.sn_r)
    <3>1. 1 \in 1 .. Len(s) /\ p = s[1].pdu /\ d.sn_r = p.sn + 1
      BY <2>4 DEF Taking
    <3>2. Announced(g, s, d.sn_r)
      <4>1. CASE p.type = "RetrResp"
        BY <1>1, <3>1, <4>1 DEF Repaired
      <4>2. CASE c.state = "RETRRUN" /\ p.type \in {"Data", "RetrData"} /\ p.sn = c.sn_r
        BY <1>1, <1>3, <3>1, <4>2, NextAnnounced DEF Repaired
      <4> QED
        BY <2>4, <4>1, <4>2
    <3> QED
      BY <1>2, <3>2, LessAnnounced
  <2> QED
    BY <1>1, <2>2, <2>3, <2>4, WhatRuns
<1>5. Copied(first, g, s2)
  <2> SUFFICES ASSUME NEW i \in 1 .. Len(g.fifo_retr) PROVE Stands(first, s2, g.fifo_retr[i])
    BY DEF Copied
  <2>1. PICK h : h = g.fifo_retr[i] /\ Stands(first, s, h)
    BY <1>1 DEF Copied
  <2>2. \A k \in 1 .. Len(s2) : k + off \in 1 .. Len(s) /\ s2[k] = s[k + off]
    BY <1>2 DEF Less
  <2> QED
    BY <2>1, <2>2 DEF Stands
<1>6. c.got \in Seq(Nat) /\ d.got \in Seq(Nat)
  BY <1>1, Fields
<1>7. ASSUME NEW p, Reading(e, c, d, s, s2, p)
      PROVE  Within(p.msgs, d.got) /\ \A v : Within(v, c.got) => Within(v, d.got)
  <2>1. PICK u \in Seq(Nat), w \in Seq(Nat), v \in Seq(Nat) :
          u = c.got /\ w = p.msgs /\ v = d.got /\ Longer(u, w, Len(w), v)
    BY <1>6, <1>7 DEF Reading
  <2>2. PICK k \in Nat, l \in Nat : k = Len(u) /\ l = Len(w)
    BY <2>1
  <2>3. /\ Len(v) = k + l /\ (\A j \in 1 .. k : v[j] = u[j])
        /\ \A j \in 1 .. l : v[k + j] = w[j]
    BY <2>1, <2>2 DEF Longer
  <2>4. /\ \A j \in 1 .. k : j \in 1 .. k + l
        /\ \A j \in 1 .. l : k + j \in 1 .. k + l
    BY <2>2
  <2>5. Within(w, v)
    BY <2>2, <2>3, <2>4 DEF Within
  <2>6. \A x : Within(x, u) => Within(x, v)
    BY <2>2, <2>3, <2>4 DEF Within
  <2> QED
    BY <2>1, <2>5, <2>6
<1>8. Passed(d, g)
  <2> SUFFICES ASSUME NEW i \in 1 .. Len(g.fifo_retr), g.fifo_retr[i].sn < d.sn_r
               PROVE  Within(g.fifo_retr[i].msgs, d.got)
    BY DEF Passed
  <2>1. PICK h : /\ h = g.fifo_retr[i] /\ h.sn \in Nat /\ h.sn < n /\ Stands(first, s, h)
                 /\ h.sn < m => Within(h.msgs, c.got)
    BY <1>1, <1>3, FifoFacts DEF Copied, Passed
  <2>2. CASE h.sn < m
    BY <1>1, <1>7, <2>1, <2>2, WhatIsRead
  <2>3. CASE ~(h.sn < m)
    <3>1. ~Missed(c, d)
      BY <1>3, <2>1, <2>3 DEF Missed
    <3>2. PICK p : Taking(c, d, g, s, s2, p)
      BY <1>1, <3>1, MissedOrTaking
    <3>3. /\ 1 \in 1 .. Len(s) /\ p = s[1].pdu /\ p.sn \in Nat /\ n = p.sn + 1
          /\ p.type \in Types /\ p.type # "DiscReq"
      BY <1>3, <3>2 DEF Taking, NumberedPdus
    <3>4. h.sn <= p.sn
      BY <2>1, <3>3
    <3>5. p.type \in Ordinary
      <4>1. p.type \in {"ConReq", "ConResp"} => p.sn = first
        BY <1>1, <3>3 DEF Reach, Reaches
      <4>2. h.sn > first
        BY <2>1 DEF Stands
      <4>3. p.type \notin {"ConReq", "ConResp"}
        BY <2>1, <3>3, <3>4, <4>1, <4>2
      <4> QED
        BY <3>3, <4>3 DEF Types, Ordinary
    <3>6. p.type # "RetrResp"
      <4>1. p.type = "RetrResp" => h.sn > p.sn
        BY <2>1, <3>3 DEF Stands
      <4> QED
        BY <2>1, <3>3, <3>4, <4>1
    <3>7. p.sn = c.sn_r
      BY <1>1, <3>2, <3>5, <3>6, WhatIsPassed
    <3>8. h.sn = p.sn
      BY <1>3, <2>1, <2>3, <3>3, <3>4, <3>7
    <3>9. Carries(p) /\ p.msgs = h.msgs
      BY <2>1, <3>3, <3>5, <3>8 DEF Stands
    <3>10. ~(p.type = "Data" /\ c.state = "RETRRUN")
      BY <1>1, <1>3, <3>3, <3>7, NextAnnounced DEF Repaired
    <3>11. Reading(e, c, d, s, s2, p)
      BY <1>1, <3>2, <3>5, <3>9, <3>10, WhatIsPassed
    <3> QED
      BY <1>7, <2>1, <3>9, <3>11
  <2> QED
    BY <2>2, <2>3
<1> QED
  BY <1>4, <1>5, <1>8 DEF Trail

(***************************************************************************)
(* The sender.                                                             *)
(***************************************************************************)
LEMMA WhatIsNew ==
  ASSUME NEW e \in Ends, NEW first, NEW clock, NEW c, NEW d, NEW g,
         NEW s, NEW s2, NEW r, NEW r2, Staged(e, first, clock, c, d, g, s, s2, r, r2)
  PROVE  \A i \in 1 .. Len(r2) :
           \/ /\ i \in 1 .. Len(r) /\ r2[i] = r[i]
              /\ r[i].pdu.type \in Ordinary => r[i].pdu.sn < c.sn_t
           \/ \E n \in 1 .. Len(d.out) :
                /\ i = Len(r) + n /\ r2[i] = d.out[n]
                /\ d.out[n].pdu.type \in Ordinary => d.out[n].pdu.sn = c.sn_t + (n - 1)
<1>1. /\ Moves(e, c, d, s, s2, r, r2) /\ r \in Seq(Packets) /\ Room(c)
      /\ Reach(InitSn[e], g, c, r, s)
  BY DEF Staged, Bond
<1>2. d.out \in Seq(Packets) /\ r2 = r \o d.out
  BY <1>1, Fields DEF Moves
<1>3. \A n \in 1 .. Len(d.out) :
        d.out[n].pdu.type \in Ordinary => d.out[n].pdu.sn = c.sn_t + (n - 1)
  BY <1>1, WhatIsSaid DEF Speaks, Ordinary
<1>4. \A i \in 1 .. Len(r) : r[i].pdu.type \in Ordinary => r[i].pdu.sn < c.sn_t
  BY <1>1 DEF Reach, Reaches, Ordinary
<1> SUFFICES ASSUME NEW i \in 1 .. Len(r2), ~(i \in 1 .. Len(r) /\ r2[i] = r[i])
             PROVE  \E n \in 1 .. Len(d.out) : i = Len(r) + n /\ r2[i] = d.out[n]
  BY <1>3, <1>4
<1>5. i > Len(r) /\ i - Len(r) \in 1 .. Len(d.out) /\ r2[i] = d.out[i - Len(r)]
  BY <1>1, <1>2, JoinedKinds
<1>6. Len(r) \in Nat /\ i \in Nat
  BY <1>1, WhatIsOnItsWay
<1>7. i = Len(r) + (i - Len(r))
  BY <1>6
<1> QED
  BY <1>5, <1>7

\* d has sent the k PDUs f again, from the number m on.
Replies(d, m, f, k) ==
  /\ Len(f) = k /\ d.sn_t = m + k + 3 /\ Len(d.fifo_retr) <= k + 1
  /\ \A i \in 1 .. Len(d.fifo_retr) :
       d.fifo_retr[i].sn = m + i /\ d.fifo_retr[i].msgs = Nth(f, i)
  /\ \A n \in 1 .. Len(d.out) : d.out[n].pdu.type \in Ordinary =>
       \/ n = 1 /\ d.out[n].pdu.type = "RetrResp"
       \/ /\ n \in 2 .. k + 2 /\ d.out[n].pdu.type = "RetrData"
          /\ d.out[n].pdu.msgs = Nth(f, n - 1)
       \/ n = k + 3 /\ d.out[n].pdu.type = "HB"

LEMMA WhatIsRepeated ==
  ASSUME NEW e, NEW c \in Whole, NEW d \in Whole, NEW s \in Seq(Packets), NEW s2,
         Answering(e, c, d, s, s2)
  PROVE  \E k \in Nat : Replies(d, c.sn_t, Resent(c, s), k)
<1>1. PICK f : f = Resent(c, s)
  OBVIOUS
<1>2. f \in Seq(Held) /\ c.sn_t \in Nat
  <2>1. c.fifo_retr \in Seq(Held)
    BY Fields
  <2> QED
    BY <1>1, <2>1, CountFields, RemoveConfirmedFacts DEF Resent
<1>3. PICK k \in Nat, m \in Nat : k = Len(f) /\ m = c.sn_t
  BY <1>2
<1>4. PICK p : p = Head(s).pdu /\ Repeats(e, c, p, d) /\ f = RemoveConfirmed(c.fifo_retr, p.cs)
  BY <1>1 DEF Answering, Resent
<1>5. /\ d.sn_t = m + k + 3
      /\ Len(d.fifo_retr) = IF k < RetrCap THEN k + 1 ELSE RetrCap
      /\ \A i \in 1 .. Len(d.fifo_retr) :
           d.fifo_retr[i].sn = m + i /\ d.fifo_retr[i].msgs = Nth(f, i)
  BY <1>3, <1>4 DEF Repeats
<1>6. Len(d.fifo_retr) <= k + 1
  <2>1. PICK b \in Nat : b = RetrCap
    BY ConstantFacts
  <2>2. Len(d.fifo_retr) = IF k < b THEN k + 1 ELSE b
    BY <1>5, <2>1
  <2>3. (IF k < b THEN k + 1 ELSE b) <= k + 1
    OBVIOUS
  <2> QED
    BY <2>2, <2>3
<1>7. ASSUME NEW n \in 1 .. Len(d.out), d.out[n].pdu.type \in Ordinary
      PROVE  \/ n = 1 /\ d.out[n].pdu.type = "RetrResp"
             \/ /\ n \in 2 .. k + 2 /\ d.out[n].pdu.type = "RetrData"
                /\ d.out[n].pdu.msgs = Nth(f, n - 1)
             \/ n = k + 3 /\ d.out[n].pdu.type = "HB"
  <2>1. d.out \notin Seq(Goodbyes(e))
    <3>1. SUFFICES ASSUME d.out \in Seq(Goodbyes(e)) PROVE FALSE
      OBVIOUS
    <3>2. d.out[n] \in Goodbyes(e)
      BY <3>1
    <3> QED
      BY <1>7, <3>2 DEF Goodbyes, Ordinary
  <2>2. Answers(e, c, d) /\ d.cs_r = p.cs
    BY <1>4, <2>1 DEF Repeats
  <2>3. Len(d.out) = k + 3
    <3>1. Len(d.out) = d.sn_t - c.sn_t
      BY <2>2 DEF Answers
    <3>2. (m + k + 3) - m = k + 3
      OBVIOUS
    <3> QED
      BY <1>3, <1>5, <3>1, <3>2
  <2>4. n = 1 \/ n \in 2 .. k + 2 \/ n = k + 3
    BY <2>3
  <2>5. CASE n = 1
    BY <2>2, <2>5 DEF Answers, Says
  <2>6. CASE n \in 2 .. k + 2
    <3>1. n \in 2 .. Len(d.out) - 1
      BY <2>3, <2>6
    <3> QED
      BY <1>4, <2>2, <2>6, <3>1 DEF Answers, Says
  <2>7. CASE n = k + 3
    BY <2>2, <2>3, <2>7 DEF Answers, Says
  <2> QED
    BY <2>4, <2>5, <2>6, <2>7
<1>8. Replies(d, m, f, k)
  BY <1>3, <1>5, <1>6, <1>7 DEF Replies
<1> QED
  BY <1>1, <1>3, <1>8

\* What is new on its way has a number that nothing had before.
LEMMA StillStands ==
  ASSUME NEW e \in Ends, NEW first, NEW clock, NEW c, NEW d, NEW g,
         NEW s, NEW s2, NEW r, NEW r2, Staged(e, first, clock, c, d, g, s, s2, r, r2),
         ~Answering(e, c, d, s, s2), NEW b, NEW h, h.sn \in Nat, h.sn < c.sn_t, Stands(b, r, h)
  PROVE  Stands(b, r2, h)
<1>1. PICK m \in Nat, x \in Nat : m = c.sn_t /\ x = h.sn /\ x < m
  BY CountFields DEF Staged, Moves
<1>2. Len(r) \in Nat /\ Extended(e, c, d, s, s2, r, r2)
  BY WhatIsOnItsWay
<1> SUFFICES ASSUME NEW i \in 1 .. Len(r2)
             PROVE  /\ r2[i].pdu.type \in Ordinary /\ r2[i].pdu.sn = x =>
                         Carries(r2[i].pdu) /\ r2[i].pdu.msgs = h.msgs
                    /\ r2[i].pdu.type = "RetrResp" => x > r2[i].pdu.sn
  BY <1>1 DEF Stands
<1>3. CASE i \in 1 .. Len(r) /\ r2[i] = r[i]
  BY <1>1, <1>3 DEF Stands
<1>4. CASE ~(i \in 1 .. Len(r) /\ r2[i] = r[i])
  <2>1. PICK n \in 1 .. Len(d.out) :
          /\ i = Len(r) + n /\ r2[i] = d.out[n]
          /\ d.out[n].pdu.type \in Ordinary => d.out[n].pdu.sn = m + (n - 1)
    BY <1>1, <1>4, WhatIsNew
  <2>2. n \in Nat /\ m + (n - 1) >= m
    BY <1>1
  <2>3. ~(r2[i].pdu.type \in Ordinary /\ r2[i].pdu.sn = x)
    BY <1>1, <2>1, <2>2
  <2>4. r2[i].pdu.type # "RetrResp"
    BY <1>2, <1>4 DEF Extended, Utters, Speech
  <2> QED
    BY <2>3, <2>4
<1> QED
  BY <1>3, <1>4

LEMMA SentStands ==
  ASSUME NEW e \in Ends, NEW first, NEW clock, NEW c, NEW d, NEW g,
         NEW s, NEW s2, NEW r, NEW r2, Staged(e, first, clock, c, d, g, s, s2, r, r2),
         Sends(e, c, d), NEW h, h.sn = c.sn_t, h.msgs = d.out[1].pdu.msgs
  PROVE  Stands(InitSn[e], r2, h)
<1>1. /\ c \in Whole /\ Reach(InitSn[e], g, c, r, s)
      /\ \A i \in 1 .. Len(r) : r[i].pdu.type \in Ordinary => r[i].pdu.sn < c.sn_t
  BY DEF Staged, Moves, Bond, Reach, Reaches, Ordinary
<1>2. PICK m \in Nat : m = c.sn_t
  BY <1>1, CountFields
<1>3. h.sn > InitSn[e]
  BY <1>1 DEF Reach, Sends, Open
<1>4. Len(d.out) = 1 /\ d.out[1].pdu.type = "Data"
  BY DEF Sends, Says
<1> SUFFICES ASSUME NEW i \in 1 .. Len(r2)
             PROVE  /\ r2[i].pdu.type \in Ordinary /\ r2[i].pdu.sn = m =>
                         Carries(r2[i].pdu) /\ r2[i].pdu.msgs = h.msgs
                    /\ r2[i].pdu.type = "RetrResp" => m > r2[i].pdu.sn
  BY <1>2, <1>3 DEF Stands
<1>5. CASE /\ i \in 1 .. Len(r) /\ r2[i] = r[i]
           /\ r[i].pdu.type \in Ordinary => r[i].pdu.sn < m
  <2>1. \A x : x < m => x # m /\ m > x
    BY <1>2
  <2> QED
    BY <1>5, <2>1 DEF Ordinary
<1>6. CASE \E n \in 1 .. Len(d.out) : r2[i] = d.out[n]
  BY <1>4, <1>6 DEF Carries
<1> QED
  BY <1>2, <1>5, <1>6, WhatIsNew

LEMMA ResentStands ==
  ASSUME NEW e \in Ends, NEW first, NEW clock, NEW c, NEW d, NEW g,
         NEW s, NEW s2, NEW r, NEW r2, Staged(e, first, clock, c, d, g, s, s2, r, r2),
         Answering(e, c, d, s, s2), NEW j \in 1 .. Len(d.fifo_retr)
  PROVE  Stands(InitSn[e], r2, d.fifo_retr[j])
<1>1. /\ c \in Whole /\ d \in Whole /\ s \in Seq(Packets) /\ Reach(InitSn[e], g, c, r, s)
  BY DEF Staged, Moves, Bond
<1>11. \A i \in 1 .. Len(r2) :
           \/ /\ i \in 1 .. Len(r) /\ r2[i] = r[i]
              /\ r[i].pdu.type \in Ordinary => r[i].pdu.sn < c.sn_t
           \/ \E n \in 1 .. Len(d.out) :
                /\ i = Len(r) + n /\ r2[i] = d.out[n]
                /\ d.out[n].pdu.type \in Ordinary => d.out[n].pdu.sn = c.sn_t + (n - 1)
  BY WhatIsNew
<1>2. PICK m \in Nat, b \in Nat : m = c.sn_t /\ b = InitSn[e]
  BY <1>1, CountFields, ConstantFacts DEF Numbers
<1>3. b < m
  BY <1>1, <1>2 DEF Reach, Answering, Repeats
<1>0. PICK f : f = Resent(c, s)
  OBVIOUS
<1>4. PICK k \in Nat :
        /\ Len(d.fifo_retr) <= k + 1
        /\ \A i \in 1 .. Len(d.fifo_retr) :
             d.fifo_retr[i].sn = m + i /\ d.fifo_retr[i].msgs = Nth(f, i)
        /\ \A n \in 1 .. Len(d.out) : d.out[n].pdu.type \in Ordinary =>
             \/ n = 1 /\ d.out[n].pdu.type = "RetrResp"
             \/ /\ n \in 2 .. k + 2 /\ d.out[n].pdu.type = "RetrData"
                /\ d.out[n].pdu.msgs = Nth(f, n - 1)
             \/ n = k + 3 /\ d.out[n].pdu.type = "HB"
  <2>1. PICK k \in Nat : Replies(d, c.sn_t, Resent(c, s), k)
    BY <1>1, WhatIsRepeated
  <2> QED
    BY <1>0, <1>2, <2>1 DEF Replies
<1>5. PICK h : h = d.fifo_retr[j] /\ h.sn = m + j /\ h.msgs = Nth(f, j)
  BY <1>4
<1>6. j \in Nat /\ j >= 1 /\ j <= k + 1
  <2>1. Len(d.fifo_retr) \in Nat
    BY <1>1, FifoFacts
  <2> QED
    BY <1>4, <2>1
<1>7. h.sn > b
  BY <1>2, <1>3, <1>5, <1>6
<1> SUFFICES ASSUME NEW i \in 1 .. Len(r2)
             PROVE  /\ r2[i].pdu.type \in Ordinary /\ r2[i].pdu.sn = m + j =>
                         Carries(r2[i].pdu) /\ r2[i].pdu.msgs = h.msgs
                    /\ r2[i].pdu.type = "RetrResp" => m + j > r2[i].pdu.sn
  BY <1>2, <1>5, <1>7 DEF Stands
<1>8. CASE /\ i \in 1 .. Len(r) /\ r2[i] = r[i]
           /\ r[i].pdu.type \in Ordinary => r[i].pdu.sn < m
  <2>1. r2[i].pdu.sn \in Nat
    BY <1>8, PduFields DEF Staged
  <2>2. r2[i].pdu.type \in Ordinary => r2[i].pdu.sn < m + j
    BY <1>2, <1>6, <1>8, <2>1
  <2>3. r2[i].pdu.type = "RetrResp" => r2[i].pdu.type \in Ordinary
    BY DEF Ordinary
  <2> QED
    BY <1>2, <1>6, <2>1, <2>2, <2>3
<1>9. CASE \E n \in 1 .. Len(d.out) :
             /\ r2[i] = d.out[n]
             /\ d.out[n].pdu.type \in Ordinary => d.out[n].pdu.sn = m + (n - 1)
  <2>1. PICK n \in 1 .. Len(d.out) :
             /\ r2[i] = d.out[n]
             /\ d.out[n].pdu.type \in Ordinary => d.out[n].pdu.sn = m + (n - 1)
    BY <1>9
  <2>2. n \in Nat /\ n >= 1
    OBVIOUS
  <2>3. SUFFICES ASSUME r2[i].pdu.type \in Ordinary
                 PROVE  /\ r2[i].pdu.sn = m + j => Carries(r2[i].pdu) /\ r2[i].pdu.msgs = h.msgs
                        /\ r2[i].pdu.type = "RetrResp" => m + j > r2[i].pdu.sn
    BY DEF Ordinary
  <2>4. r2[i].pdu.sn = m + (n - 1)
    BY <2>1, <2>3
  <2>5. CASE n = 1 /\ r2[i].pdu.type = "RetrResp"
    <3>1. r2[i].pdu.sn = m
      BY <2>4, <2>5
    <3>2. m + j > m /\ m # m + j
      BY <1>2, <1>6
    <3> QED
      BY <3>1, <3>2
  <2>6. CASE n \in 2 .. k + 2 /\ r2[i].pdu.type = "RetrData" /\ r2[i].pdu.msgs = Nth(f, n - 1)
    <3>1. m + (n - 1) = m + j => n - 1 = j
      BY <1>6, <2>2
    <3> QED
      BY <1>5, <2>4, <2>6, <3>1 DEF Carries
  <2>7. CASE n = k + 3 /\ r2[i].pdu.type = "HB"
    <3>1. m + (n - 1) # m + j
      BY <1>6, <2>7
    <3> QED
      BY <2>4, <2>7, <3>1
  <2> QED
    BY <1>4, <2>1, <2>3, <2>5, <2>6, <2>7
<1>10. \/ /\ i \in 1 .. Len(r) /\ r2[i] = r[i]
          /\ r[i].pdu.type \in Ordinary => r[i].pdu.sn < m
       \/ \E n \in 1 .. Len(d.out) :
            /\ r2[i] = d.out[n]
            /\ d.out[n].pdu.type \in Ordinary => d.out[n].pdu.sn = m + (n - 1)
  BY <1>2, <1>11
<1> QED
  BY <1>8, <1>9, <1>10

\* Case by case, what is held.
LEMMA PeerCopies ==
  ASSUME NEW e \in Ends, NEW first \in Nat, NEW clock \in Nat, NEW c, NEW d, NEW g,
         NEW s, NEW s2, NEW r, NEW r2, Tracked(e, first, clock, c, d, g, s, s2, r, r2)
  PROVE  Copied(InitSn[e], d, r2) /\ Passed(g, d)
<1>1. /\ Staged(e, first, clock, c, d, g, s, s2, r, r2)
      /\ Moves(e, c, d, s, s2, r, r2) /\ s \in Seq(Packets) /\ c \in Whole /\ d \in Whole
      /\ g \in Whole /\ Stored(c) /\ Copied(InitSn[e], c, r) /\ Passed(g, c)
      /\ Reach(InitSn[e], g, c, r, s)
      /\ c.fifo_retr \in Seq(Held) /\ d.fifo_retr \in Seq(Held)
  BY FifoFacts DEF Tracked, Streaming, Stream, Staged, Trail, Moves, Bond
<1>2. PICK m \in Nat, n \in Nat : m = c.sn_t /\ n = g.sn_r /\ n <= m
  BY <1>1, CountFields DEF Reach
<1> SUFFICES ASSUME NEW i \in 1 .. Len(d.fifo_retr)
             PROVE  /\ Stands(InitSn[e], r2, d.fifo_retr[i])
                    /\ d.fifo_retr[i].sn < n => Within(d.fifo_retr[i].msgs, g.got)
  BY <1>2 DEF Copied, Passed
<1>3. CASE Answering(e, c, d, s, s2)
  <2>1. d.fifo_retr[i].sn = m + i /\ i \in Nat
    BY <1>1, <1>2, <1>3 DEF Answering, Repeats
  <2>2. ~(d.fifo_retr[i].sn < n)
    BY <1>2, <2>1
  <2> QED
    BY <1>1, <1>3, <2>2, ResentStands
<1>4. ASSUME NEW j \in 1 .. Len(c.fifo_retr), d.fifo_retr[i] = c.fifo_retr[j],
             ~Answering(e, c, d, s, s2)
      PROVE  /\ Stands(InitSn[e], r2, d.fifo_retr[i])
             /\ d.fifo_retr[i].sn < n => Within(d.fifo_retr[i].msgs, g.got)
  <2>1. PICK h : /\ h = c.fifo_retr[j] /\ h.sn \in Nat /\ h.sn < m /\ Stands(InitSn[e], r, h)
                 /\ h.sn < n => Within(h.msgs, g.got)
    BY <1>1, <1>2, FifoFacts DEF Copied, Passed, Stored
  <2>2. Stands(InitSn[e], r2, h)
    BY <1>1, <1>2, <1>4, <2>1, StillStands
  <2> QED
    BY <1>4, <2>1, <2>2
<1>5. CASE Rear(c.fifo_retr, d.fifo_retr) /\ ~Answering(e, c, d, s, s2)
  <2>1. PICK j \in 1 .. Len(c.fifo_retr) : d.fifo_retr[i] = c.fifo_retr[j]
    BY <1>5 DEF Rear
  <2> QED
    BY <1>4, <1>5, <2>1
<1>6. CASE /\ Sends(e, c, d) /\ ~Answering(e, c, d, s, s2)
           /\ d.fifo_retr = Append(c.fifo_retr, [sn |-> c.sn_t, msgs |-> d.out[1].pdu.msgs])
  <2>1. PICK h : h = [sn |-> c.sn_t, msgs |-> d.out[1].pdu.msgs]
    OBVIOUS
  <2>2. h.sn = c.sn_t /\ h.msgs = d.out[1].pdu.msgs
    BY <2>1
  <2>3. h \in Held
    <3>1. Len(d.fifo_retr) = Len(c.fifo_retr) + 1 /\ d.fifo_retr[Len(c.fifo_retr) + 1] = h
      <4>1. d.out[1].pdu.msgs \in Seq(Nat)
        BY <1>1, <1>6, WhatIsSent DEF Stored
      <4> QED
        BY <1>1, <1>6, <2>1, <4>1
    <3>2. Len(c.fifo_retr) + 1 \in 1 .. Len(d.fifo_retr)
      BY <1>1, <3>1
    <3> QED
      BY <1>1, <3>1, <3>2
  <2>4. \/ i \in 1 .. Len(c.fifo_retr) /\ d.fifo_retr[i] = c.fifo_retr[i]
        \/ d.fifo_retr[i] = h
    BY <1>1, <1>6, <2>1, <2>3, HeldAtTheEnd
  <2>5. CASE d.fifo_retr[i] = h
    <3>1. Stands(InitSn[e], r2, h)
      BY <1>1, <1>6, <2>2, SentStands
    <3>2. ~(h.sn < n)
      BY <1>2, <2>2
    <3> QED
      BY <2>5, <3>1, <3>2
  <2> QED
    BY <1>4, <1>6, <2>4, <2>5
<1> QED
  BY <1>1, <1>3, <1>5, <1>6, WhatIsHeld DEF Answering

\* What was announced stays so, whatever is said.
LEMMA StillAnnounced ==
  ASSUME NEW e \in Ends, NEW first \in Nat, NEW clock \in Nat, NEW c, NEW d, NEW g,
         NEW s, NEW s2, NEW r, NEW r2, Staged(e, first, clock, c, d, g, s, s2, r, r2),
         ~Serving(e, c, s, d), NEW n, Announced(c, r, n)
  PROVE  Announced(d, r2, n)
<1>1. Moves(e, c, d, s, s2, r, r2) /\ AtNone(c) /\ c \in Whole /\ d \in Whole
  BY DEF Staged, Bond, Moves
<1>2. PICK m \in Nat, l \in Nat : m = c.sn_t /\ l = d.sn_t
  BY <1>1, CountFields
<1>3. PICK h \in Nat : n <= h /\ h < m /\ Sequel(r, n, h)
  BY <1>2 DEF Announced
<1>4. m <= l
  <2>1. InitSn[e] + 1 < SnMod
    BY ConstantFacts DEF Staged, Numbers
  <2>2. m <= l \/ Connects(e, c, d)
    BY <1>1, <1>2, <2>1, WhatIsCounted
  <2>3. Connects(e, c, d) => m = 0
    BY <1>1, <1>2 DEF Connects, AtNone
  <2> QED
    BY <1>3, <2>2, <2>3
<1>5. Sequel(r2, n, h)
  <2>1. SUFFICES ASSUME NEW i \in 1 .. Len(r2), r2[i].pdu.type \in Ordinary,
                        n <= r2[i].pdu.sn, r2[i].pdu.sn <= h
                 PROVE  IF r2[i].pdu.sn = h THEN r2[i].pdu.type = "HB"
                        ELSE r2[i].pdu.type = "RetrData"
    BY DEF Sequel
  <2>2. CASE i \in 1 .. Len(r) /\ r2[i] = r[i]
    BY <1>3, <2>1, <2>2 DEF Sequel
  <2>3. CASE ~(i \in 1 .. Len(r) /\ r2[i] = r[i])
    <3>1. PICK k \in 1 .. Len(d.out) :
            /\ r2[i] = d.out[k]
            /\ d.out[k].pdu.type \in Ordinary => d.out[k].pdu.sn = m + (k - 1)
      <4>1. \E k \in 1 .. Len(d.out) :
              /\ i = Len(r) + k /\ r2[i] = d.out[k]
              /\ d.out[k].pdu.type \in Ordinary => d.out[k].pdu.sn = c.sn_t + (k - 1)
        BY <2>3, WhatIsNew, SMTT(30)
      <4> QED
        BY <1>2, <4>1
    <3>2. r2[i].pdu.sn = m + (k - 1) /\ m + (k - 1) >= m /\ m + (k - 1) \in Nat
      BY <2>1, <3>1
    <3> QED
      BY <1>3, <2>1, <3>2
  <2> QED
    BY <2>2, <2>3
<1> QED
  BY <1>2, <1>3, <1>4, <1>5 DEF Announced

LEMMA AnswerAnnounced ==
  ASSUME NEW e \in Ends, NEW first \in Nat, NEW clock \in Nat, NEW c, NEW d, NEW g,
         NEW s, NEW s2, NEW r, NEW r2, Staged(e, first, clock, c, d, g, s, s2, r, r2),
         Answering(e, c, d, s, s2)
  PROVE  Announced(d, r2, c.sn_t + 1)
<1>1. s \in Seq(Packets) /\ r \in Seq(Packets) /\ c \in Whole /\ d \in Whole
  BY DEF Staged, Moves
<1>2. PICK m \in Nat : m = c.sn_t
  BY <1>1, CountFields
<1>3. PICK k \in Nat : Replies(d, m, Resent(c, s), k)
  BY <1>1, <1>2, WhatIsRepeated
<1>4. PICK h \in Nat : h = m + k + 2 /\ m + 1 <= h /\ h < d.sn_t
  <2>1. d.sn_t = m + k + 3
    BY <1>3 DEF Replies
  <2>2. m + k + 2 \in Nat /\ m + 1 <= m + k + 2 /\ m + k + 2 < m + k + 3
    OBVIOUS
  <2> QED
    BY <2>1, <2>2
<1>5. Sequel(r2, m + 1, h)
  <2>1. SUFFICES ASSUME NEW i \in 1 .. Len(r2), r2[i].pdu.type \in Ordinary,
                        m + 1 <= r2[i].pdu.sn, r2[i].pdu.sn <= h
                 PROVE  IF r2[i].pdu.sn = h THEN r2[i].pdu.type = "HB"
                        ELSE r2[i].pdu.type = "RetrData"
    BY DEF Sequel
  <2>2. \/ /\ i \in 1 .. Len(r) /\ r2[i] = r[i]
           /\ r[i].pdu.type \in Ordinary => r[i].pdu.sn < m
        \/ \E n \in 1 .. Len(d.out) :
             /\ r2[i] = d.out[n]
             /\ d.out[n].pdu.type \in Ordinary => d.out[n].pdu.sn = m + (n - 1)
    <3>1. \/ /\ i \in 1 .. Len(r) /\ r2[i] = r[i]
             /\ r[i].pdu.type \in Ordinary => r[i].pdu.sn < c.sn_t
          \/ \E n \in 1 .. Len(d.out) :
               /\ i = Len(r) + n /\ r2[i] = d.out[n]
               /\ d.out[n].pdu.type \in Ordinary => d.out[n].pdu.sn = c.sn_t + (n - 1)
      BY WhatIsNew, SMTT(30)
    <3> QED
      BY <1>2, <3>1
  <2>3. ~(i \in 1 .. Len(r) /\ r2[i] = r[i] /\ r[i].pdu.sn < m)
    <3>1. i \in 1 .. Len(r) => r[i].pdu.sn \in Nat
      BY <1>1, PduFields
    <3> QED
      BY <2>1, <3>1
  <2>4. PICK n \in 1 .. Len(d.out) : r2[i] = d.out[n] /\ r2[i].pdu.sn = m + (n - 1)
    BY <2>1, <2>2, <2>3
  <2>5. \/ n = 1 /\ r2[i].pdu.type = "RetrResp"
        \/ n \in 2 .. k + 2 /\ r2[i].pdu.type = "RetrData"
        \/ n = k + 3 /\ r2[i].pdu.type = "HB"
    BY <1>3, <2>1, <2>4 DEF Replies
  <2>6. CASE n = 1
    BY <2>1, <2>4, <2>6
  <2>7. CASE n \in 2 .. k + 2 /\ r2[i].pdu.type = "RetrData"
    <3>1. m + (n - 1) # m + k + 2
      BY <2>7
    <3> QED
      BY <1>4, <2>4, <2>7, <3>1
  <2>8. CASE n = k + 3 /\ r2[i].pdu.type = "HB"
    <3>1. m + (n - 1) = m + k + 2
      BY <2>8
    <3> QED
      BY <1>4, <2>4, <2>8, <3>1
  <2> QED
    BY <2>5, <2>6, <2>7, <2>8
<1> QED
  BY <1>2, <1>4, <1>5 DEF Announced

LEMMA PeerTrails ==
  ASSUME NEW e \in Ends, NEW first \in Nat, NEW clock \in Nat, NEW c, NEW d, NEW g,
         NEW s, NEW s2, NEW r, NEW r2, Tracked(e, first, clock, c, d, g, s, s2, r, r2)
  PROVE  Trail(InitSn[e], g, d, r2)
<1>1. /\ Staged(e, first, clock, c, d, g, s, s2, r, r2) /\ Repaired(g, c, r)
      /\ Opens(g, c, r, s)
  BY DEF Tracked, Streaming, Staged, Agreed, Trail
<1>2. Serving(e, c, s, d) => Kinds(r) \subseteq Opening /\ g.state \in Calm
  <2>1. Serving(e, c, s, d) => "ConReq" \in Kinds(s)
    BY <1>1, TailIsThinned DEF Serving, Serves, Staged
  <2>2. Serving(e, c, s, d) => g.state \in Calm
    BY <1>1, <2>1 DEF Opens, Fresh
  <2> QED
    BY <1>1, <2>2, OnlyOpening
<1>3. ASSUME g.state = "RETRRUN" PROVE Announced(d, r2, g.sn_r)
  <2>1. ~Serving(e, c, s, d)
    BY <1>2, <1>3 DEF Calm
  <2>2. Announced(c, r, g.sn_r)
    BY <1>1, <1>3 DEF Repaired
  <2> QED
    BY <1>1, <2>1, <2>2, StillAnnounced
<1>4. ASSUME NEW k \in 1 .. Len(r2), r2[k].pdu.type = "RetrResp"
      PROVE  Announced(d, r2, r2[k].pdu.sn + 1)
  <2>1. CASE k \in 1 .. Len(r) /\ r2[k] = r[k]
    <3>1. ~Serving(e, c, s, d)
      BY <1>2, <1>4, <2>1 DEF Kinds, Opening
    <3>2. PICK n : n = r[k].pdu.sn + 1 /\ Announced(c, r, n)
      BY <1>1, <1>4, <2>1 DEF Repaired
    <3> QED
      BY <1>1, <2>1, <3>1, <3>2, StillAnnounced
  <2>2. CASE ~(k \in 1 .. Len(r) /\ r2[k] = r[k])
    <3>1. Extended(e, c, d, s, s2, r, r2)
      BY <1>1, WhatIsOnItsWay
    <3>2. /\ Utters(e, c, d, s, s2, k - Len(r), r2[k].pdu)
          /\ r2[k].pdu.sn = c.sn_t + ((k - Len(r)) - 1)
      BY <1>4, <2>2, <3>1 DEF Extended, Speech
    <3>3. k - Len(r) = 1 /\ Answering(e, c, d, s, s2)
      BY <1>4, <3>2 DEF Utters, Speech
    <3>4. c.sn_t \in Nat
      BY <1>1, CountFields DEF Staged, Moves
    <3>5. r2[k].pdu.sn = c.sn_t
      BY <3>2, <3>3, <3>4
    <3> QED
      BY <1>1, <3>3, <3>5, AnswerAnnounced
  <2> QED
    BY <2>1, <2>2
<1>5. Repaired(g, d, r2)
  BY <1>3, <1>4 DEF Repaired
<1> QED
  BY <1>5, PeerCopies DEF Trail

(***************************************************************************)
(* Every step keeps it.                                                    *)
(***************************************************************************)
LEMMA TrailAlike ==
  ASSUME NEW first, NEW c, NEW c2, NEW g, NEW s, Alike(c, c2)
  PROVE  /\ Trail(first, c, g, s) => Trail(first, c2, g, s)
         /\ Trail(first, g, c, s) => Trail(first, g, c2, s)
<1>1. /\ c2.sn_r = c.sn_r /\ c2.got = c.got /\ c2.sn_t = c.sn_t /\ c2.state = c.state
      /\ c2.fifo_retr = c.fifo_retr
  BY DEF Alike, Core
<1>2. \A n : Announced(c, s, n) => Announced(c2, s, n)
  BY <1>1 DEF Announced
<1>3. Repaired(c, g, s) => Repaired(c2, g, s)
  BY <1>1 DEF Repaired
<1>4. Passed(c, g) => Passed(c2, g)
  BY <1>1 DEF Passed
<1>5. Repaired(g, c, s) => Repaired(g, c2, s)
  BY <1>2 DEF Repaired
<1>6. (Copied(first, c, s) => Copied(first, c2, s)) /\ (Passed(g, c) => Passed(g, c2))
  BY <1>1 DEF Copied, Passed
<1> QED
  BY <1>3, <1>4, <1>5, <1>6 DEF Trail

LEMMA TrailThinned ==
  ASSUME NEW first, NEW c, NEW g, NEW s, NEW s2, Thinned(s, s2), Trail(first, c, g, s)
  PROVE  Trail(first, c, g, s2)
<1>1. PICK h \in [1 .. Len(s2) -> 1 .. Len(s)] : \A i \in 1 .. Len(s2) : s2[i] = s[h[i]]
  BY DEF Thinned
<1>2. \A i \in 1 .. Len(s2) : \E j \in 1 .. Len(s) : s2[i] = s[j]
  BY <1>1
<1>3. \A n : Announced(g, s, n) => Announced(g, s2, n)
  <2>1. \A n, k : Sequel(s, n, k) => Sequel(s2, n, k)
    BY <1>2 DEF Sequel
  <2> QED
    BY <2>1 DEF Announced
<1>4. Repaired(c, g, s2)
  BY <1>2, <1>3 DEF Trail, Repaired
<1>5. \A held : Stands(first, s, held) => Stands(first, s2, held)
  BY <1>2 DEF Stands
<1>6. Copied(first, g, s2)
  BY <1>5 DEF Trail, Copied
<1> QED
  BY <1>4, <1>6 DEF Trail

LEMMA MovingKeepsTrail ==
  ASSUME SessionInv, BelowWrap, BondInv, StreamInv, TrailInv, NEW e \in Ends, NEW d,
         Moving(e, d)
  PROVE  TrailInv'
<1>1. PICK f \in Ends : f = Peer(e) /\ Peer(f) = e /\ Ends = {e, f} /\ f # e
  BY DEF Ends, Peer
<1>2. PICK c, g, s, r, s2, r2 : /\ c = con[e] /\ g = con[f] /\ s = net[e] /\ r = net[f]
                                /\ s2 = net'[e] /\ r2 = net'[f]
  OBVIOUS
<1>3. PICK first \in Nat, clock \in Nat :
        first = InitSn[f] /\ Staged(e, first, clock, c, d, g, s, s2, r, r2)
  BY <1>1, <1>2, MovingIsStaged
<1>4. Stream(c, g, s, r) /\ Stream(g, c, r, s)
  BY <1>1, <1>2 DEF StreamInv, StreamAt
<1>5. Trail(first, c, g, s) /\ Trail(InitSn[e], g, c, r)
  BY <1>1, <1>2, <1>3 DEF TrailInv, TrailAt
<1>6. Trail(first, d, g, s2) /\ Trail(InitSn[e], g, d, r2)
  BY <1>3, <1>4, <1>5, ActorTrails, PeerTrails DEF Tracked, Streaming
<1>7. PICK d2 : d2 = [d EXCEPT !.out = << >>]
  OBVIOUS
<1>8. con'[e] = d2 /\ con'[f] = g
  BY <1>1, <1>2, <1>7 DEF Moving, SessionInv, TypeInv
<1>9. Alike(d, d2)
  <2>1. d \in Records
    BY <1>3 DEF Staged, Moves, Whole
  <2> QED
    BY <1>7, <2>1 DEF Records, Alike, Core
<1>10. Trail(first, d2, g, s2) /\ Trail(InitSn[e], g, d2, r2)
  BY <1>6, <1>9, TrailAlike
<1>11. TrailAt(e)' /\ TrailAt(f)'
  BY <1>1, <1>2, <1>3, <1>8, <1>10 DEF TrailAt
<1> QED
  BY <1>1, <1>11 DEF TrailInv

LEMMA TrailStays ==
  ASSUME SessionInv, BelowWrap, BondInv, StreamInv, TrailInv, Unbroken', [Next]_vars
  PROVE  TrailInv'
<1>1. CASE \E e \in Ends : \E d : Moving(e, d) /\ now' = now
  BY <1>1, MovingKeepsTrail
<1>2. CASE \E e \in Ends : Drops(e) /\ now' = now
  <2>1. PICK e \in Ends, f \in Ends : Drops(e) /\ f = Peer(e) /\ Peer(f) = e /\ Ends = {e, f}
    BY <1>2 DEF Ends, Peer
  <2>2. /\ Trail(InitSn[f], con[e], con[f], net'[e])
        /\ Trail(InitSn[e], con[f], con[e], net[f])
    BY <2>1, TrailThinned DEF TrailInv, TrailAt, Drops
  <2>3. con' = con /\ net'[f] = net[f]
    BY <2>1 DEF Drops
  <2>4. TrailAt(e)' /\ TrailAt(f)'
    BY <2>1, <2>2, <2>3 DEF TrailAt
  <2> QED
    BY <2>1, <2>4 DEF TrailInv
<1>3. CASE UNCHANGED <<con, net>>
  BY <1>3 DEF TrailInv, TrailAt
<1> QED
  BY <1>1, <1>2, <1>3, NextMoves

LEMMA TrailStarts == Init => TrailInv
<1> SUFFICES ASSUME Init, NEW e \in Ends PROVE TrailAt(e)
  BY DEF TrailInv
<1>1. \A i : i \in 1 .. Len(<< >>) => FALSE
  OBVIOUS
<1>2. NoConnection.state = "NONE" /\ NoConnection.fifo_retr = << >>
  BY DEF NoConnection
<1>3. con[e] = NoConnection /\ con[Peer(e)] = NoConnection /\ net[e] = << >>
  BY ConstantFacts DEF Init
<1> QED
  BY <1>1, <1>2, <1>3 DEF TrailAt, Trail, Repaired, Copied, Passed

LEMMA TrailInvariance == Spec /\ []Unbroken /\ []BelowWrap => []TrailInv
<1>1. SessionInv /\ BelowWrap /\ BondInv /\ StreamInv /\ TrailInv /\ Unbroken' /\ [Next]_vars
        => TrailInv'
  BY TrailStays
<1> QED
  BY <1>1, TrailStarts, SessionInvariance, BondInvariance, StreamInvariance, PTL DEF Spec

LEMMA TrailsAreRead ==
  ASSUME TypeInv, TrailInv
  PROVE  PassedIsDelivered
<1> SUFFICES ASSUME NEW e \in Ends, NEW i \in DOMAIN con[e].fifo_retr,
                    con[e].fifo_retr[i].sn < con[Peer(e)].sn_r,
                    NEW m \in Range(con[e].fifo_retr[i].msgs)
             PROVE  m \in Range(con[Peer(e)].got)
  BY DEF PassedIsDelivered
<1>1. PICK f \in Ends : f = Peer(e) /\ Peer(f) = e
  BY DEF Ends, Peer
<1>2. PICK c \in Whole, g \in Whole : c = con[f] /\ g = con[e] /\ Passed(c, g)
  <2>1. con[f] \in Whole /\ con[e] \in Whole
    BY DEF TypeInv
  <2> QED
    BY <1>1, <2>1 DEF TrailInv, TrailAt, Trail
<1>3. PICK v \in Seq(Nat) : v = g.fifo_retr[i].msgs /\ i \in 1 .. Len(g.fifo_retr)
  <2>1. /\ i \in DOMAIN g.fifo_retr /\ g.fifo_retr \in Seq(Held)
        /\ \A k \in 1 .. Len(g.fifo_retr) : g.fifo_retr[k].msgs \in Seq(Nat)
    BY <1>2, FifoFacts
  <2>2. i \in 1 .. Len(g.fifo_retr)
    BY <2>1
  <2> QED
    BY <2>1, <2>2
<1>4. Within(v, c.got) /\ c.got \in Seq(Nat)
  BY <1>1, <1>2, <1>3, Fields DEF Passed
<1>5. PICK k \in 1 .. Len(v) : m = v[k]
  BY <1>2, <1>3 DEF Range
<1>6. PICK j \in 1 .. Len(c.got) : c.got[j] = m
  BY <1>4, <1>5 DEF Within
<1> QED
  BY <1>1, <1>2, <1>4, <1>6 DEF Range

(***************************************************************************)
(* A PDU in fifo_retr whose number the peer has passed was handed to the   *)
(* peer's application: retransmission never skips over a message that the  *)
(* sender still holds.  As long as no endpoint starts again and none runs  *)
(* out of numbers.                                                         *)
(***************************************************************************)
THEOREM PassedDelivered == Spec /\ []Unbroken /\ []BelowWrap => []PassedIsDelivered
<1>1. SessionInv /\ TrailInv => PassedIsDelivered
  BY TrailsAreRead DEF SessionInv
<1> QED
  BY <1>1, SessionInvariance, TrailInvariance, PTL
=============================================================================
