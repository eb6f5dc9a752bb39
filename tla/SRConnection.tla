----------------------------- MODULE SRConnection -----------------------------
(***************************************************************************)
(* The safety and retransmission layer (rasta_new.c) of two endpoints that *)
(* hold one connection with each other: handshake, data, retransmission,   *)
(* disconnection and the expiry of a silent connection.                    *)
(*                                                                         *)
(* All of an endpoint runs in one event loop (start_event_loop); a handler *)
(* is one step.  The state of an endpoint is a record c; handlers that go  *)
(* on after closing the connection are compositions of operators on it.    *)
(* The application takes a message in its on_receive callback, as the      *)
(* programs in examples/ do, so fifo_app_msg is empty between two steps;   *)
(* there and when the state changes it may send or disconnect, as they do, *)
(* in the middle of the handler.  An endpoint may stop and start again.    *)
(*                                                                         *)
(* Below is the redundancy layer: PDUs arrive in order and at most once    *)
(* (RedundancyChannelProofs), and none arrives after one that never does.  *)
(* PDUs are lost one by one only when the receiver's fifo_recv is full.    *)
(* What follows from a channel's removal is modelled: see Arrive.          *)
(*                                                                         *)
(* All PDUs are genuine: checksum, sender, receiver and version are right. *)
(***************************************************************************)
EXTENDS Integers, Sequences, SequencesExt

CONSTANTS Callers,      \* the endpoints whose application calls sr_connect
          Reacts,       \* Reacts[e]: what the application of e does in callbacks
          InitSn,       \* InitSn[e]: RASTA_INITIAL_SEQ of e
          Boot,         \* Boot[e]: how long the host of e had been up at time 0
          TMax,         \* t_max
          MaxPacket,    \* max_packet
          SnRange,      \* 10 * send_max
          RetrCap,      \* MAX_QUEUE_SIZE
          RecvCap,      \* n_deferqueue_size, the capacity of fifo_recv
          SnMod,        \* 2^32
          MaxTime,      \* bound: how far the time goes
          MaxMsg,       \* bound: messages each application sends
          MaxPdus,      \* bound: PDUs after which an endpoint takes no step
          MaxDrops,     \* bound: PDUs that find a fifo_recv full
          MaxStops      \* bound: how often endpoints stop and start again

Ends == {"a", "b"}
Peer(e) == IF e = "a" THEN "b" ELSE "a"

ASSUME CallersAssumption ==
  Callers \subseteq Ends /\ Reacts \in [Ends -> SUBSET {"send", "disconnect"}]
ASSUME NumbersAssumption ==
  /\ SnMod \in Nat \ {0} /\ InitSn \in [Ends -> 0 .. SnMod - 1]
  /\ Boot \in [Ends -> Nat]
  /\ {TMax, MaxPacket, RetrCap, RecvCap} \subseteq Nat \ {0}
  /\ {SnRange, MaxTime, MaxMsg, MaxPdus, MaxDrops, MaxStops} \subseteq Nat
\* 10 against 2^32: one retransmission never takes the numbers once around.
ASSUME RetrCapAssumption == RetrCap + 3 < SnMod

VARIABLES
  con,      \* con[e]: the endpoint e
  net,      \* net[e]: PDUs on their way to e or in its fifo_recv, in order
  now,      \* the time
  drops,    \* how many PDUs found a fifo_recv full
  stops     \* how often an endpoint has stopped

vars == <<con, net, now, drops, stops>>

(***************************************************************************)
(* "NONE" stands for a peer that is not in the list of connections.  DOWN  *)
(* is left out: only a connection not yet in the list is in that state.    *)
(***************************************************************************)
States == {"NONE", "CLOSED", "START", "UP", "RETRREQ", "RETRRUN"}
Open   == {"START", "UP", "RETRREQ", "RETRRUN"}

(***************************************************************************)
(* The record of an endpoint: the fields of rasta_connection, and          *)
(*   armed    the expiry timer runs: it is in the event list, hb_locked=0  *)
(*   hb_call  when send_heartbeat_event was last rescheduled               *)
(*   ti_call  when timeout_event was last rescheduled                      *)
(*   channel  there is a redundancy channel for the peer, with             *)
(*   tx, rx   its seq_tx and seq_rx                                        *)
(*   out      the PDUs sent so far in the current step                     *)
(*   quit     history: the application has called sr_disconnect, and no    *)
(*            handshake has begun since                                    *)
(*   asked    history: messages the application has passed to sr_send      *)
(*   got      history: messages the application has received               *)
(***************************************************************************)
NoConnection ==
  [state |-> "NONE", role |-> "client",
   sn_t |-> 0, sn_r |-> 0, cs_t |-> 0, cs_r |-> 0, ts_r |-> 0, cts_r |-> 0,
   fifo_send |-> << >>, fifo_retr |-> << >>,
   armed |-> FALSE, hb_call |-> 0, ti_call |-> 0,
   channel |-> FALSE, tx |-> 0, rx |-> 0,
   out |-> << >>, quit |-> FALSE, asked |-> 0, got |-> << >>]

Init ==
  /\ con = [e \in Ends |-> NoConnection]
  /\ net = [e \in Ends |-> << >>]
  /\ now = 0
  /\ drops = 0
  /\ stops = 0

-----------------------------------------------------------------------------
(***************************************************************************)
(* Numbers are uint32_t.  Clocks count from the boot of the host.          *)
(***************************************************************************)
Plus1(n) == (n + 1) % SnMod
Minus(m, n) == (m - n) % SnMod

Clock(e) == Boot[e] + now

(***************************************************************************)
(* The checks of a received PDU p.                                         *)
(***************************************************************************)
SnRangeValid(c, p) ==
  \/ p.type \in {"ConReq", "ConResp", "RetrResp"}
  \/ p.sn >= c.sn_r /\ Minus(p.sn, c.sn_r) <= SnRange

CsValidNoLowerBound(c, p) ==                                      \* mutant
  p.type \notin {"ConReq", "ConResp"} => p.cs < c.sn_t

CsValid(c, p) ==
  CASE p.type = "ConReq"  -> p.cs = 0
    [] p.type = "ConResp" -> p.cs = Minus(c.sn_t, 1)
    [] OTHER -> /\ p.cs >= c.cs_r
                /\ Minus(p.cs, c.cs_r) < Minus(c.sn_t, c.cs_r)

SnInSeq(c, p) ==
  \/ p.type \in {"ConReq", "ConResp", "RetrResp", "DiscReq"}
  \/ p.sn = c.sn_r

CtsInSeq(c, p) ==
  p.type \in {"HB", "Data", "RetrData"} =>
    p.cts >= c.cts_r /\ p.cts - c.cts_r < TMax

CheckPacket(c, p) ==
  SnRangeValid(c, p) /\ CsValid(c, p) /\ SnInSeq(c, p) /\ CtsInSeq(c, p)

-----------------------------------------------------------------------------
(***************************************************************************)
(* Sending.  redundancy_mux_send does nothing when there is no channel.    *)
(***************************************************************************)
Pdu(e, c, type, cts, msgs) ==
  [type |-> type, sn |-> c.sn_t, cs |-> c.cs_t, ts |-> Clock(e), cts |-> cts,
   msgs |-> msgs]

MuxSend(c, p) ==
  IF c.channel
  THEN [c EXCEPT !.out = Append(@, [seq |-> c.tx, pdu |-> p]), !.tx = @ + 1]
  ELSE c

SendPdu(e, c, type, cts, msgs) ==
  [MuxSend(c, Pdu(e, c, type, cts, msgs)) EXCEPT !.sn_t = Plus1(@)]

SendHeartbeat(e, c) ==
  [SendPdu(e, c, "HB", c.ts_r, << >>) EXCEPT !.hb_call = now]

SendRetrReq(e, c)  == SendPdu(e, c, "RetrReq", c.ts_r, << >>)
SendRetrResp(e, c) == SendPdu(e, c, "RetrResp", c.ts_r, << >>)

SendDiscReq(e, c) == MuxSend(c, Pdu(e, c, "DiscReq", c.ts_r, << >>))

(***************************************************************************)
(* redundancy_mux_remove_channel: what arrives from now on meets a new     *)
(* channel.                                                                *)
(***************************************************************************)
RemoveChannel(c) == [c EXCEPT !.channel = FALSE, !.tx = 0, !.rx = 0]

CloseConnectionNoReset(e, c) ==                                   \* mutant
  RemoveChannel(IF c.state \in Open THEN SendDiscReq(e, c) ELSE c)

CloseConnectionKeepsChannel(e, c) ==                              \* mutant
  [(IF c.state \in Open THEN SendDiscReq(e, c) ELSE c)
     EXCEPT !.state = "CLOSED", !.armed = FALSE]

CloseConnection(e, c) ==
  RemoveChannel([(IF c.state \in Open THEN SendDiscReq(e, c) ELSE c)
                   EXCEPT !.state = "CLOSED", !.armed = FALSE])

(***************************************************************************)
(* fifo_pop until the number cs_r is found: everything, when it is not     *)
(* there.                                                                  *)
(***************************************************************************)
RemoveConfirmed(fifo, cs) ==
  IF \E i \in DOMAIN fifo : fifo[i].sn = cs
  THEN SubSeq(fifo, 1 + CHOOSE i \in DOMAIN fifo :
                          /\ fifo[i].sn = cs
                          /\ \A j \in 1 .. i - 1 : fifo[j].sn # cs,
              Len(fifo))
  ELSE << >>

(***************************************************************************)
(* fifo_push: what does not fit is dropped.                                *)
(***************************************************************************)
Push(fifo, elem, cap) == IF Len(fifo) < cap THEN Append(fifo, elem) ELSE fifo

(***************************************************************************)
(* sr_retransmit_data.  Its loop runs once too often: the last RetrData is *)
(* made from an element of `packets' nobody has written.  Here it decodes  *)
(* to no messages.  When it crashes the program, or fails to decode (which *)
(* leaves rastamodule_lasterror set, so that nothing this endpoint encodes *)
(* is valid again), the peer sees what it also sees when the PDUs from     *)
(* there on never arrive.                                                  *)
(***************************************************************************)
RetrData(e, c, sn, msgs) == [Pdu(e, c, "RetrData", c.cts_r, msgs) EXCEPT !.sn = sn]

Retransmit(e, c) ==
  LET n == Len(c.fifo_retr)
      msgs(i) == IF i <= n THEN c.fifo_retr[i].msgs ELSE << >>
      sn(i) == (c.sn_t + (i - 1)) % SnMod
      data(i) == RetrData(e, c, sn(i), msgs(i))
      kept == IF n < RetrCap THEN n + 1 ELSE RetrCap
      sent == [i \in 1 .. n + 1 |-> [seq |-> c.tx + (i - 1), pdu |-> data(i)]]
      d == [c EXCEPT !.sn_t = sn(n + 2),
                     !.fifo_retr = [i \in 1 .. kept |->
                                      [sn |-> sn(i), msgs |-> msgs(i)]]]
  IN SendHeartbeat(e, IF c.channel
                      THEN [d EXCEPT !.out = @ \o sent, !.tx = @ + n + 1]
                      ELSE d)

-----------------------------------------------------------------------------
(***************************************************************************)
(* What the application does to its connection: sr_send of n messages, or  *)
(* sr_disconnect.                                                          *)
(***************************************************************************)
Sent(e, c, n) ==
  LET room == 2 * MaxPacket - Len(c.fifo_send)
      fit == IF n < room THEN n ELSE room
  IN CASE c.state = "UP" ->
            [c EXCEPT !.asked = @ + n,
                      !.fifo_send = @ \o [i \in 1 .. fit |-> c.asked + i]]
       [] c.state \in {"START", "RETRREQ", "RETRRUN"} ->
            [SendDiscReq(e, c) EXCEPT !.state = "CLOSED"]
       [] OTHER -> c

Disconnected(e, c) == [CloseConnection(e, c) EXCEPT !.quit = TRUE]

(***************************************************************************)
(* fire_on_receive and fire_on_connection_state_change call the            *)
(* application, which may call back: the records the handler may find then.*)
(***************************************************************************)
Notified(e, c) ==
  {c} \cup (IF "send" \in Reacts[e] /\ c.asked < MaxMsg THEN {Sent(e, c, 1)} ELSE {})
      \cup (IF "disconnect" \in Reacts[e] THEN {Disconnected(e, c)} ELSE {})

-----------------------------------------------------------------------------
(***************************************************************************)
(* Reception.  A PDU that arrives when there is no channel creates one; a  *)
(* new channel only takes the number 0 first.                              *)
(***************************************************************************)
Accepts(c, seq) == seq = c.rx \/ (c.rx > 0 /\ seq > c.rx)

Arrive(e) ==
  LET c == [con[e] EXCEPT !.channel = TRUE]
  IN IF Accepts(c, Head(net[e]).seq)
     THEN [c EXCEPT !.rx = Head(net[e]).seq + 1] ELSE c

(***************************************************************************)
(* The end of a step of e: the PDUs it has sent are on their way.  Answer  *)
(* ends the reception of the first PDU of net[e].                          *)
(***************************************************************************)
Emit(e, c) ==
  /\ con' = [con EXCEPT ![e] = [c EXCEPT !.out = << >>]]
  /\ net' = [net EXCEPT ![Peer(e)] = @ \o c.out]
  /\ UNCHANGED <<now, drops, stops>>

Answer(e, c) ==
  /\ con' = [con EXCEPT ![e] = [c EXCEPT !.out = << >>]]
  /\ net' = [net EXCEPT ![e] = Tail(@), ![Peer(e)] = @ \o c.out]
  /\ UNCHANGED <<now, drops, stops>>

(***************************************************************************)
(* What a PDU in sequence changes, whatever it is; the messages of a PDU   *)
(* given to the application one by one; init_and_start_connection_events,  *)
(* which makes an expiry timer of send_heartbeat_event and never arms      *)
(* timeout_event.                                                          *)
(***************************************************************************)
Take(c, p) == [c EXCEPT !.sn_r = Plus1(p.sn), !.cs_t = p.sn, !.ts_r = p.ts]

Read(c, m) == [c EXCEPT !.got = Append(@, m)]

UpdateTI(c) == [c EXCEPT !.ti_call = now]

AddAppMessages(e, c, p) ==
  LET Handed(f, m) == {UpdateTI(d) : d \in Notified(e, Read(f, m))}
      found[i \in 0 .. Len(p.msgs)] ==
        IF i = 0 THEN {c} ELSE UNION {Handed(f, p.msgs[i]) : f \in found[i - 1]}
  IN  found[Len(p.msgs)]

StartEventsHbLocked(c) ==                                         \* mutant
  [c EXCEPT !.hb_call = now, !.ti_call = now]

StartEvents(c) ==
  [c EXCEPT !.armed = TRUE, !.hb_call = now, !.ti_call = now]

ConfirmKeepsFifo(c, p) == [c EXCEPT !.cs_r = p.cs]                \* mutant

Confirm(c, p) ==
  [c EXCEPT !.cs_r = p.cs, !.fifo_retr = RemoveConfirmed(@, p.cs)]

(***************************************************************************)
(* handle_conreq.  A new connection, or one that was closed, starts afresh *)
(* as a server; any other one is closed.                                   *)
(***************************************************************************)
HandleConReq(e, c, p) ==
  \/ /\ c.state \in {"NONE", "CLOSED"}
     /\ LET new == [Take(c, p) EXCEPT
                      !.state = "START", !.role = "server",
                      !.sn_t = InitSn[e], !.cs_r = Minus(InitSn[e], 1),
                      !.cts_r = p.cts, !.armed = FALSE,
                      !.fifo_send = << >>, !.fifo_retr = << >>, !.quit = FALSE]
        IN \E d \in Notified(e, [new EXCEPT !.sn_t = Plus1(@)]) :
             Answer(e, MuxSend(d, Pdu(e, new, "ConResp", p.cts, << >>)))
  \/ /\ c.state \in Open
     /\ Answer(e, CloseConnection(e, c))

HandleConResp(e, c, p) ==
  \/ /\ ~CheckPacket(c, p)
     /\ Answer(e, CloseConnection(e, c))
  \/ /\ CheckPacket(c, p)
     /\ c.state = "START" /\ c.role = "client"
     /\ LET up == SendHeartbeat(e, [Take(c, p) EXCEPT !.cs_r = p.cs])
        IN \E d \in Notified(e, [up EXCEPT !.state = "UP"]) : Answer(e, StartEvents(d))
  \/ /\ CheckPacket(c, p)
     /\ c.state \in Open /\ ~(c.state = "START" /\ c.role = "client")
     /\ Answer(e, CloseConnection(e, c))
  \/ /\ CheckPacket(c, p)
     /\ c.state = "CLOSED"
     /\ Answer(e, c)

HandleDiscReq(e, c, p) ==
  Answer(e, RemoveChannel([c EXCEPT !.state = "CLOSED", !.armed = FALSE]))

(***************************************************************************)
(* handle_hb.  In START the handler goes on after it has closed the        *)
(* connection of a client, or for a heartbeat that is out of sequence.     *)
(***************************************************************************)
HandleHbInStart(e, c, p) ==
  LET d == IF c.role = "client" \/ ~SnInSeq(c, p)
           THEN CloseConnection(e, c) ELSE c
  IN IF CtsInSeq(c, p)
     THEN \E up \in Notified(e, [Take(d, p) EXCEPT !.cs_r = p.cs, !.state = "UP"]) :
            Answer(e, StartEvents(up))
     ELSE Answer(e, CloseConnection(e, d))

HandleHb(e, c, p) ==
  \/ /\ c.state = "START"
     /\ HandleHbInStart(e, c, p)
  \/ /\ c.state \in {"UP", "RETRRUN"}
     /\ SnInSeq(c, p) /\ CtsInSeq(c, p)
     /\ Answer(e, [UpdateTI(Take(c, p)) EXCEPT
                     !.cs_r = Minus(c.sn_t, 1), !.cts_r = p.cts, !.state = "UP"])
  \/ /\ c.state \in {"UP", "RETRRUN"}
     /\ SnInSeq(c, p) /\ ~CtsInSeq(c, p)
     /\ Answer(e, CloseConnection(e, c))
  \/ /\ c.state \in {"UP", "RETRRUN"}
     /\ ~SnInSeq(c, p)
     /\ Answer(e, [c EXCEPT !.state = "RETRREQ"])
  \/ /\ c.state \in {"RETRREQ", "CLOSED"}
     /\ Answer(e, c)

HandleData(e, c, p) ==
  \/ /\ c.state = "START"
     /\ Answer(e, CloseConnection(e, c))
  \/ /\ c.state = "UP"
     /\ SnInSeq(c, p) /\ CtsInSeq(c, p)
     /\ \E d \in AddAppMessages(e, c, p) :
          Answer(e, [Confirm(Take(d, p), p) EXCEPT !.cts_r = p.cts])
  \/ /\ c.state = "RETRRUN"
     /\ SnInSeq(c, p) /\ CtsInSeq(c, p)
     /\ Answer(e, Take(c, p))
  \/ /\ c.state \in {"UP", "RETRRUN"}
     /\ SnInSeq(c, p) /\ ~CtsInSeq(c, p)
     /\ Answer(e, CloseConnection(e, c))
  \/ /\ c.state \in {"UP", "RETRRUN"}
     /\ ~SnInSeq(c, p)
     /\ Answer(e, [SendRetrReq(e, c) EXCEPT !.state = "RETRREQ"])
  \/ /\ c.state \in {"RETRREQ", "CLOSED"}
     /\ Answer(e, c)

(***************************************************************************)
(* handle_retrreq, in every state.  In RETRRUN it goes on after closing.   *)
(***************************************************************************)
HandleRetrReq(e, c, p) ==
  \/ /\ SnInSeq(c, p)
     /\ LET d == IF c.state = "RETRRUN" THEN CloseConnection(e, c) ELSE c
        IN Answer(e, Retransmit(e, SendRetrResp(e, Confirm(Take(d, p), p))))
  \/ /\ ~SnInSeq(c, p)
     /\ Answer(e, [Retransmit(e, SendRetrResp(e, Confirm(c, p)))
                     EXCEPT !.state = "RETRREQ"])

HandleRetrRespAnyState(e, c, p) ==                                \* mutant
  Answer(e, [Take(c, p) EXCEPT !.state = "RETRRUN",
                               !.cs_r = Minus(c.sn_t, 1), !.cts_r = p.cts])

HandleRetrRespKeepsCs(e, c, p) ==                                 \* mutant
  Answer(e, IF c.state = "RETRREQ"
            THEN [c EXCEPT !.state = "RETRRUN", !.sn_r = Plus1(p.sn),
                           !.ts_r = p.ts, !.cs_r = Minus(c.sn_t, 1),
                           !.cts_r = p.cts]
            ELSE CloseConnection(e, c))

HandleRetrResp(e, c, p) ==
  \/ /\ c.state = "RETRREQ"
     /\ Answer(e, [Take(c, p) EXCEPT
                     !.state = "RETRRUN",
                     !.cs_r = Minus(c.sn_t, 1), !.cts_r = p.cts])
  \/ /\ c.state # "RETRREQ"
     /\ Answer(e, CloseConnection(e, c))

HandleRetrDataNotQueued(e, c, p) ==                               \* mutant
  Answer(e, IF c.state = "RETRRUN" /\ SnInSeq(c, p) THEN Take(c, p) ELSE c)

HandleRetrData(e, c, p) ==
  \/ /\ c.state = "UP"
     /\ Answer(e, CloseConnection(e, c))
  \/ /\ c.state = "RETRRUN"
     /\ SnInSeq(c, p) /\ CtsInSeq(c, p)
     /\ \E d \in AddAppMessages(e, c, p) : Answer(e, [Take(d, p) EXCEPT !.cs_r = p.cs])
  \/ /\ c.state = "RETRRUN"
     /\ SnInSeq(c, p) /\ ~CtsInSeq(c, p)
     /\ Answer(e, CloseConnection(e, c))
  \/ /\ c.state = "RETRRUN"
     /\ ~SnInSeq(c, p)
     /\ Answer(e, [SendRetrReq(e, c) EXCEPT !.state = "RETRREQ"])
  \/ /\ c.state \in {"START", "RETRREQ", "CLOSED"}
     /\ Answer(e, c)

-----------------------------------------------------------------------------
(***************************************************************************)
(* on_readable_event.  A PDU the checks reject changes nothing but an      *)
(* error counter.                                                          *)
(***************************************************************************)
Process(e, c, p) ==
  \/ p.type = "ConReq" /\ HandleConReq(e, c, p)
  \/ /\ p.type # "ConReq" /\ c.state = "NONE"
     /\ Answer(e, c)
  \/ /\ p.type = "ConResp" /\ c.state # "NONE"
     /\ HandleConResp(e, c, p)
  \/ /\ p.type \notin {"ConReq", "ConResp"} /\ c.state # "NONE"
     /\ ~(SnRangeValid(c, p) /\ CsValid(c, p))
     /\ Answer(e, c)
  \/ /\ p.type \notin {"ConReq", "ConResp"} /\ c.state # "NONE"
     /\ SnRangeValid(c, p) /\ CsValid(c, p)
     /\ \/ p.type = "RetrData" /\ HandleRetrData(e, c, p)
        \/ p.type = "Data"     /\ HandleData(e, c, p)
        \/ p.type = "RetrReq"  /\ HandleRetrReq(e, c, p)
        \/ p.type = "RetrResp" /\ HandleRetrResp(e, c, p)
        \/ p.type = "DiscReq"  /\ HandleDiscReq(e, c, p)
        \/ p.type = "HB"       /\ HandleHb(e, c, p)

Receive(e) ==
  /\ net[e] # << >> /\ con[e].tx < MaxPdus
  /\ IF Accepts([con[e] EXCEPT !.channel = TRUE], Head(net[e]).seq)
     THEN Process(e, Arrive(e), Head(net[e]).pdu)
     ELSE Answer(e, Arrive(e))

(***************************************************************************)
(* A PDU arrives while RecvCap others fill fifo_recv: it is dropped, and   *)
(* the redundancy channel goes on with the next one.                       *)
(***************************************************************************)
Overflow(e) ==
  /\ drops < MaxDrops
  /\ Len(net[e]) > RecvCap
  /\ Accepts(con[e], net[e][1].seq)
  /\ \A i \in 1 .. RecvCap : net[e][i].seq < net[e][i + 1].seq
  /\ net' = [net EXCEPT ![e] = RemoveAt(@, RecvCap + 1)]
  /\ drops' = drops + 1
  /\ UNCHANGED <<con, now, stops>>

-----------------------------------------------------------------------------
(***************************************************************************)
(* sr_connect, which does nothing for a peer that is in the list already.  *)
(* (sn_r, cs_r and ts_r are not initialized; ConResp is the first PDU that *)
(* gets here and sets them.)                                               *)
(***************************************************************************)
Connect(e) ==
  /\ e \in Callers
  /\ con[e].state = "NONE"
  /\ LET c == [con[e] EXCEPT !.channel = TRUE, !.role = "client",
                             !.sn_t = InitSn[e], !.cs_t = 0]
         d == SendPdu(e, c, "ConReq", 0, << >>)
     IN Emit(e, [d EXCEPT !.state = "START", !.cts_r = Clock(e)])

(***************************************************************************)
(* sr_send of n messages.  In CLOSED it changes nothing.                   *)
(***************************************************************************)
SrSendNoLimit(e, n) ==                                            \* mutant
  LET c == con[e]
  IN /\ c.state = "UP" /\ c.asked + n <= MaxMsg
     /\ Emit(e, [c EXCEPT
                   !.asked = @ + n,
                   !.fifo_send = @ \o [i \in 1 .. n |-> c.asked + i]])

SrSend(e, n) ==
  /\ \/ con[e].state = "UP" /\ con[e].asked + n <= MaxMsg
     \/ con[e].state \in {"START", "RETRREQ", "RETRRUN"} /\ con[e].tx < MaxPdus
  /\ Emit(e, Sent(e, con[e], n))

Disconnect(e) ==
  /\ con[e].state # "NONE"
  /\ Emit(e, Disconnected(e, con[e]))

(***************************************************************************)
(* data_send_event: one Data PDU of at most max_packet messages, in every  *)
(* state but CLOSED.                                                       *)
(***************************************************************************)
DataSendSameNumber(e) ==                                          \* mutant
  LET c == con[e]
      msgs == <<Head(c.fifo_send)>>
      d == [c EXCEPT !.fifo_send = Tail(@),
                     !.fifo_retr = Append(@, [sn |-> c.sn_t, msgs |-> msgs])]
  IN /\ c.state \in Open /\ c.fifo_send # << >>
     /\ Len(c.fifo_retr) <= MaxPacket /\ c.tx < MaxPdus
     /\ Emit(e, MuxSend(d, Pdu(e, c, "Data", c.ts_r, msgs)))

DataSend(e) ==
  LET c == con[e]
      k == IF Len(c.fifo_send) < MaxPacket THEN Len(c.fifo_send)
                                           ELSE MaxPacket
      msgs == SubSeq(c.fifo_send, 1, k)
      d == [c EXCEPT !.fifo_send = SubSeq(@, k + 1, Len(@)),
                     !.fifo_retr = Push(@, [sn |-> c.sn_t, msgs |-> msgs],
                                        RetrCap)]
  IN /\ c.state \in Open
     /\ Len(c.fifo_retr) <= MaxPacket
     /\ k > 0 /\ c.tx < MaxPdus
     /\ Emit(e, [SendPdu(e, d, "Data", c.ts_r, msgs) EXCEPT !.hb_call = now])

(***************************************************************************)
(* The event that heartbeat_send_event should have been: t_max after the   *)
(* last PDU that rescheduled it, event_connection_expired runs.            *)
(***************************************************************************)
Expire(e) ==
  LET c == con[e]
  IN /\ c.armed /\ now - c.hb_call >= TMax
     /\ IF c.state \in {"UP", "RETRREQ", "RETRRUN"}
        THEN Emit(e, CloseConnection(e, c))
        ELSE Emit(e, [c EXCEPT !.armed = FALSE])

(***************************************************************************)
(* sr_cleanup frees the connections without a DiscReq and closes the       *)
(* multiplexer, as the end of the program does; another sr_init_handle     *)
(* starts with no connection and the same numbers.  PDUs under way stay so,*)
(* those in fifo_recv are gone.                                            *)
(***************************************************************************)
Cleaned(c) == [NoConnection EXCEPT !.asked = c.asked, !.got = c.got]

Restart(e) ==
  /\ stops < MaxStops /\ con[e].state # "NONE"
  /\ stops' = stops + 1
  /\ con' = [con EXCEPT ![e] = Cleaned(@)]
  /\ \E k \in 0 .. RecvCap :
       /\ k <= Len(net[e])
       /\ net' = [net EXCEPT ![e] = SubSeq(@, k + 1, Len(@))]
  /\ UNCHANGED <<now, drops>>

Tick ==
  /\ now < MaxTime
  /\ now' = now + 1
  /\ UNCHANGED <<con, net, drops, stops>>

Next ==
  \/ \E e \in Ends :
       \/ Connect(e) \/ Disconnect(e) \/ \E n \in 1 .. MaxPacket : SrSend(e, n)
       \/ Receive(e) \/ Overflow(e) \/ DataSend(e) \/ Expire(e)
       \/ Restart(e)
  \/ Tick

Spec == Init /\ [][Next]_vars

-----------------------------------------------------------------------------
Types == {"ConReq", "ConResp", "HB", "Data", "RetrReq", "RetrResp",
          "RetrData", "DiscReq"}

Pdus == [type : Types, sn : Nat, cs : Nat, ts : Nat, cts : Nat,
         msgs : Seq(Nat)]

TypeOK ==
  /\ con \in [Ends ->
       [state : States, role : {"client", "server"},
        sn_t : Nat, sn_r : Nat, cs_t : Nat, cs_r : Nat, ts_r : Nat,
        cts_r : Nat, fifo_send : Seq(Nat),
        fifo_retr : Seq([sn : Nat, msgs : Seq(Nat)]),
        armed : BOOLEAN, hb_call : Nat, ti_call : Nat, channel : BOOLEAN,
        tx : Nat, rx : Nat, out : {<< >>}, quit : BOOLEAN, asked : Nat,
        got : Seq(Nat)]]
  /\ net \in [Ends -> Seq([seq : Nat, pdu : Pdus])]
  /\ now \in 0 .. MaxTime
  /\ drops \in 0 .. MaxDrops
  /\ stops \in 0 .. MaxStops
  /\ \A e \in Ends : /\ Len(con[e].fifo_send) <= 2 * MaxPacket
                     /\ Len(con[e].fifo_retr) <= RetrCap

Connected(e) == con[e].state \in {"UP", "RETRREQ", "RETRRUN"}

(***************************************************************************)
(* The application sees the messages of the other one in the order they    *)
(* were sent and none of them twice, whatever was lost and retransmitted   *)
(* in between and however often they reconnect.                            *)
(***************************************************************************)
InOrder(e) ==
  LET got == con[e].got
  IN /\ \A i, j \in 1 .. Len(got) : i < j => got[i] < got[j]
     /\ \A i \in 1 .. Len(got) : got[i] \in 1 .. con[Peer(e)].asked

MessagesInOrder == \A e \in Ends : InOrder(e)

(***************************************************************************)
(* Two connected endpoints agree on the numbers: neither expects one that  *)
(* the other has not reached, what it will confirm is the number before    *)
(* the one it expects, and none takes a number of its own for confirmed    *)
(* that it has not used.                                                   *)
(***************************************************************************)
NumbersAgree ==
  \A e \in Ends : Connected(e) /\ Connected(Peer(e)) =>
    /\ con[e].sn_r <= con[Peer(e)].sn_t
    /\ con[e].cs_t + 1 = con[e].sn_r
    /\ con[e].cs_r < con[e].sn_t

(***************************************************************************)
(* What waits in fifo_retr has been sent and is in the order it was sent:  *)
(* sr_remove_confirmed_messages, which stops at one number, relies on it.  *)
(***************************************************************************)
RetrInOrder ==
  \A e \in Ends : LET fifo == con[e].fifo_retr IN
    /\ \A i, j \in 1 .. Len(fifo) : i < j => fifo[i].sn < fifo[j].sn
    /\ \A i \in 1 .. Len(fifo) : fifo[i].sn < con[e].sn_t

(***************************************************************************)
(* A PDU in fifo_retr whose number the peer has passed was handed to the   *)
(* peer's application: retransmission never skips over a message that the  *)
(* sender still holds.                                                     *)
(***************************************************************************)
PassedIsDelivered ==
  \A e \in Ends : Connected(e) /\ Connected(Peer(e)) =>
    \A i \in DOMAIN con[e].fifo_retr :
      con[e].fifo_retr[i].sn < con[Peer(e)].sn_r =>
        \A m \in Range(con[e].fifo_retr[i].msgs) :
          m \in Range(con[Peer(e)].got)

(***************************************************************************)
(* An open connection has its redundancy channel, however it was closed,   *)
(* reopened or revived: none goes on sending into nothing.                 *)
(***************************************************************************)
ChannelWhileOpen ==
  \A e \in Ends : con[e].state \in Open => con[e].channel

(***************************************************************************)
(* A connection its application has disconnected stays closed until a new  *)
(* handshake begins, whatever is still on its way, and although            *)
(* sr_disconnect may be called in the middle of a handler that goes on.    *)
(***************************************************************************)
StaysClosed ==
  \A e \in Ends : con[e].quit => con[e].state = "CLOSED"

(***************************************************************************)
(* The handshake starts the expiry timer, and whatever stops it ends the   *)
(* connection as well: none that was established outlives its timer.       *)
(***************************************************************************)
KeepsWatch ==
  [][\A e \in Ends :
       /\ Connected(e)'
       /\ con[e].state = "START" \/ (Connected(e) /\ con[e].armed)
       => con'[e].armed]_vars

(***************************************************************************)
(* UP is reached from START by the handshake and from RETRRUN by the       *)
(* heartbeat that ends a retransmission, RETRRUN only from RETRREQ (the    *)
(* comments of rasta_sr_state).  The last pair is not in the comments: a   *)
(* RetrReq still on its way revives a connection that sr_send has closed.  *)
(***************************************************************************)
Legal == { <<"NONE", "START">>, <<"CLOSED", "START">>, <<"START", "UP">>,
           <<"UP", "RETRREQ">>, <<"RETRREQ", "RETRRUN">>,
           <<"RETRRUN", "UP">>, <<"RETRRUN", "RETRREQ">>,
           <<"CLOSED", "RETRREQ">> }

Lifecycle ==
  [][\A e \in Ends : LET s == con[e].state
                         t == con'[e].state
                     IN s = t \/ t \in {"CLOSED", "NONE"} \/ <<s, t>> \in Legal]_vars

(***************************************************************************)
(* As long as a connection lives, what it expects, holds for confirmed and *)
(* has seen of both clocks only goes forward: no late or retransmitted PDU *)
(* takes it back.                                                          *)
(***************************************************************************)
NeverBack ==
  [][\A e \in Ends : Connected(e) /\ con'[e].state # "NONE" =>
       /\ con'[e].sn_r >= con[e].sn_r
       /\ con'[e].cs_r >= con[e].cs_r
       /\ con'[e].ts_r >= con[e].ts_r
       /\ con'[e].cts_r >= con[e].cts_r]_vars

-----------------------------------------------------------------------------
(***************************************************************************)
(* sr_remove_confirmed_messages removes a PDU only when "SN_PDU <= CS_R".  *)
(***************************************************************************)
OnlyConfirmedRemoved ==
  [][\A e \in Ends : Connected(e) /\ con'[e].state = con[e].state =>
       \A i \in DOMAIN con[e].fifo_retr :
         LET p == con[e].fifo_retr[i]
         IN \/ p.sn <= con'[e].cs_r
            \/ \E j \in DOMAIN con'[e].fifo_retr :
                 con'[e].fifo_retr[j].msgs = p.msgs]_vars

(***************************************************************************)
(* A connection expires only when no PDU that updateTI counts has arrived  *)
(* for t_max ("the event watching the connection timeout").                *)
(***************************************************************************)
ExpiresWhenSilent ==
  [][\A e \in Ends : Expire(e) /\ Connected(e) =>
       now - con[e].ti_call >= TMax]_vars

(***************************************************************************)
(* A server that waits for the heartbeat and gets the one it expects, less *)
(* than t_max after it has sent its ConResp, has a connection.             *)
(***************************************************************************)
HandshakeInTime ==
  [][\A e \in Ends :
       /\ con[e].state = "START" /\ con[e].role = "server"
       /\ Receive(e)
       /\ Head(net[e]).pdu.type = "HB"
       /\ Head(net[e]).pdu.sn = con[e].sn_r
       /\ Clock(e) - Head(net[e]).pdu.cts < TMax
       => con'[e].state = "UP"]_vars
=============================================================================
