-------------------------- MODULE RedundancyChannel --------------------------
(***************************************************************************)
(* One direction of a redundancy channel: the peer numbers PDUs and sends  *)
(* each one on every transport channel (redundancy_mux_send); this end     *)
(* receives the copies, restores the order and hands every PDU up once     *)
(* (rasta_red_f_receive, redundancy_mux_try_retrieve_all).                 *)
(*                                                                         *)
(* A PDU is its sequence number.  The transport channels are UDP: a copy   *)
(* may be lost, delayed, overtaken and received more than once.  A copy    *)
(* with a bad checksum is ignored by rasta_red_f_receive: for this module  *)
(* it is a lost one.                                                       *)
(*                                                                         *)
(* The diagnostics of the transport channels (received packets, drift) are *)
(* written here but never read by the reception; they are left out.        *)
(***************************************************************************)
EXTENDS DeferQueue, Sequences

CONSTANTS Transports,     \* the transport channels of the redundancy channel
          WindowFactor,   \* the literal 10 of rasta_red_f_receive
          Garbage,        \* what slots just allocated by malloc may hold
          MaxSeq          \* bound: PDUs the peer sends (2^32 at most: the
                          \* number has 32 bits on the wire, 64 at both ends)

ASSUME WindowAssumption == WindowFactor \in Nat \ {0}
ASSUME GarbageAssumption == Garbage \subseteq Nat /\ Garbage # {}
ASSUME MaxSeqAssumption == MaxSeq \in Nat

VARIABLES
  peer_tx,      \* seq_tx of the peer
  wire,         \* wire[t]: the PDUs with a copy in flight on t
  seq_tx,       \* seq_tx of this end, as far as it is tested: 0 or not
  seq_rx,       \* the next PDU expected
  defer_q,      \* PDUs received ahead of seq_rx
  fifo_recv,    \* PDUs waiting for the upper layer, at most NDefer
  delivered,    \* history: PDUs the upper layer has retrieved
  dropped       \* history: PDUs that found fifo_recv full

vars == <<peer_tx, wire, seq_tx, seq_rx, defer_q, fifo_recv, delivered,
          dropped>>

Seqs == 0 .. MaxSeq - 1

Init ==
  /\ peer_tx = 0
  /\ wire = [t \in Transports |-> {}]
  /\ seq_tx = 0
  /\ seq_rx = 0
  /\ defer_q \in [elements : [Slots -> Garbage], count : {0}]
  /\ fifo_recv = << >>
  /\ delivered = << >>
  /\ dropped = {}

-----------------------------------------------------------------------------
(***************************************************************************)
(* The peer sends a PDU on every transport channel.                        *)
(***************************************************************************)
Send ==
  /\ peer_tx < MaxSeq
  /\ peer_tx' = peer_tx + 1
  /\ wire' = [t \in Transports |-> wire[t] \cup {peer_tx}]
  /\ UNCHANGED <<seq_tx, seq_rx, defer_q, fifo_recv, delivered, dropped>>

(***************************************************************************)
(* A copy in flight disappears.                                            *)
(***************************************************************************)
Lose(t, s) ==
  /\ s \in wire[t]
  /\ wire' = [wire EXCEPT ![t] = @ \ {s}]
  /\ UNCHANGED <<peer_tx, seq_tx, seq_rx, defer_q, fifo_recv, delivered,
                 dropped>>

(***************************************************************************)
(* This end sends something of its own.                                    *)
(***************************************************************************)
SendOwn ==
  /\ seq_tx = 0
  /\ seq_tx' = 1
  /\ UNCHANGED <<peer_tx, wire, seq_rx, defer_q, fifo_recv, delivered,
                 dropped>>

-----------------------------------------------------------------------------
(***************************************************************************)
(* rasta_red_f_receive, by the case a PDU s falls into.                    *)
(***************************************************************************)
FirstIsNotZero(s) == seq_rx = 0 /\ seq_tx = 0 /\ s # 0

InWindow(s) == seq_rx < s /\ s <= seq_rx + WindowFactor * NDefer

(***************************************************************************)
(* fifo_push of first..next-1, one after the other: what does not fit is   *)
(* dropped without a trace.                                                *)
(***************************************************************************)
FifoFits(fifo, first, next) ==
  IF Len(fifo) + (next - first) <= NDefer THEN next
  ELSE first + (NDefer - Len(fifo))

FifoPushFirstOnly(fifo, first, next) ==                           \* mutant
  IF Len(fifo) < NDefer THEN Append(fifo, first) ELSE fifo

FifoPush(fifo, first, next) ==
  [i \in 1 .. Len(fifo) + (FifoFits(fifo, first, next) - first) |->
     IF i <= Len(fifo) THEN fifo[i] ELSE first + (i - Len(fifo) - 1)]

(***************************************************************************)
(* The expected PDU goes to the upper layer, and deliverDeferQueue sends   *)
(* the run of deferred PDUs that follows it after it, up to the first      *)
(* number the queue does not contain.                                      *)
(***************************************************************************)
AcceptLate(s) ==                                                  \* mutant
  /\ s <= seq_rx
  /\ seq_rx' = seq_rx + 1
  /\ fifo_recv' = FifoPush(fifo_recv, s, s + 1)
  /\ UNCHANGED <<defer_q, dropped>>

Accept(s) ==
  /\ ~FirstIsNotZero(s)
  /\ s = seq_rx
  /\ \E next \in s + 1 .. s + 1 + NDefer :
       /\ \A k \in s + 1 .. next - 1 : Contains(defer_q, k)
       /\ ~Contains(defer_q, next)
       /\ seq_rx' = next
       /\ defer_q' = RemoveRun(defer_q, s + 1, next)
       /\ fifo_recv' = FifoPush(fifo_recv, s, next)
       /\ dropped' = dropped \cup (FifoFits(fifo_recv, s, next) .. next - 1)

(***************************************************************************)
(* A PDU ahead of the expected one waits in the defer queue.               *)
(***************************************************************************)
DeferTwice(s) ==                                                  \* mutant
  /\ ~FirstIsNotZero(s) /\ InWindow(s) /\ ~IsFull(defer_q)
  /\ defer_q' = Add(defer_q, s)
  /\ UNCHANGED <<seq_rx, fifo_recv, dropped>>

Defer(s) ==
  /\ ~FirstIsNotZero(s)
  /\ InWindow(s)
  /\ ~Contains(defer_q, s)
  /\ ~IsFull(defer_q)
  /\ defer_q' = Add(defer_q, s)
  /\ UNCHANGED <<seq_rx, fifo_recv, dropped>>

(***************************************************************************)
(* Everything else is discarded.                                           *)
(***************************************************************************)
Discard(s) ==
  /\ \/ FirstIsNotZero(s)
     \/ s < seq_rx
     \/ InWindow(s) /\ (Contains(defer_q, s) \/ IsFull(defer_q))
     \/ s > seq_rx + WindowFactor * NDefer
  /\ UNCHANGED <<seq_rx, defer_q, fifo_recv, dropped>>

(***************************************************************************)
(* A copy is received.  It stays in `wire': UDP may duplicate it.          *)
(***************************************************************************)
Receive(t, s) ==
  /\ s \in wire[t]
  /\ Accept(s) \/ Defer(s) \/ Discard(s)
  /\ UNCHANGED <<peer_tx, wire, seq_tx, delivered>>

(***************************************************************************)
(* on_readable_event retrieves the oldest PDU.                             *)
(***************************************************************************)
RetrieveNewest ==                                                 \* mutant
  /\ fifo_recv # << >>
  /\ delivered' = Append(delivered, fifo_recv[Len(fifo_recv)])
  /\ fifo_recv' = SubSeq(fifo_recv, 1, Len(fifo_recv) - 1)
  /\ UNCHANGED <<peer_tx, wire, seq_tx, seq_rx, defer_q, dropped>>

RetrieveLeavesLast ==                                             \* mutant
  /\ Len(fifo_recv) > 1
  /\ delivered' = Append(delivered, Head(fifo_recv))
  /\ fifo_recv' = Tail(fifo_recv)
  /\ UNCHANGED <<peer_tx, wire, seq_tx, seq_rx, defer_q, dropped>>

Retrieve ==
  /\ fifo_recv # << >>
  /\ delivered' = Append(delivered, Head(fifo_recv))
  /\ fifo_recv' = Tail(fifo_recv)
  /\ UNCHANGED <<peer_tx, wire, seq_tx, seq_rx, defer_q, dropped>>

(***************************************************************************)
(* channel_timeout_event returns at once while mux->is_open is 0, which is *)
(* what every redundancy_mux_init leaves there and nothing ever changes.   *)
(***************************************************************************)
ChannelTimeout == UNCHANGED vars

Next ==
  \/ Send
  \/ SendOwn
  \/ \E t \in Transports, s \in Seqs : Lose(t, s) \/ Receive(t, s)
  \/ Retrieve
  \/ ChannelTimeout

Spec == Init /\ [][Next]_vars

(***************************************************************************)
(* The event loop keeps calling both timed events; the network owes        *)
(* nothing.                                                                *)
(***************************************************************************)
FairSpec == Spec /\ WF_vars(Retrieve) /\ WF_vars(ChannelTimeout)

-----------------------------------------------------------------------------
TypeOK ==
  /\ peer_tx \in 0 .. MaxSeq
  /\ wire \in [Transports -> SUBSET Seqs]
  /\ seq_tx \in {0, 1}
  /\ seq_rx \in Nat
  /\ defer_q \in [elements : [Slots -> Nat], count : 0 .. NDefer]
  /\ fifo_recv \in Seq(Nat)
  /\ delivered \in Seq(Nat)
  /\ dropped \subseteq Nat

Values(seq) == {seq[i] : i \in 1 .. Len(seq)}

Increasing(seq) == \A i, j \in 1 .. Len(seq) : i < j => seq[i] < seq[j]

(***************************************************************************)
(* The upper layer sees no PDU twice and none before an earlier one,       *)
(* counting those that still wait in fifo_recv, whatever the transport     *)
(* channels do; and it sees only PDUs that were sent.                      *)
(***************************************************************************)
DeliveredInOrder ==
  /\ Increasing(delivered)
  /\ Increasing(fifo_recv)
  /\ \A s \in Values(delivered), r \in Values(fifo_recv) : s < r
  /\ Values(delivered) \cup Values(fifo_recv) \subseteq 0 .. peer_tx - 1

(***************************************************************************)
(* A PDU below seq_rx is never accepted again, so each of them must have   *)
(* been handed up, or counted as dropped by the full fifo_recv: nothing    *)
(* gets lost in the defer queue or between it and the fifo.                *)
(***************************************************************************)
NothingSkipped ==
  0 .. seq_rx - 1 = Values(delivered) \cup Values(fifo_recv) \cup dropped

(***************************************************************************)
(* find_index also scans slots out of use.  Where it matters, from seq_rx  *)
(* on, what deferqueue_contains finds is in the queue: no stale slot makes *)
(* the channel discard a PDU it does not have, or deliver one again.       *)
(***************************************************************************)
LookupExact ==
  \A s \in Seqs : s >= seq_rx /\ s > 0 /\ Contains(defer_q, s)
                    => s \in Live(defer_q)

(***************************************************************************)
(* A deferred PDU is ahead of the expected one and held once: no PDU that  *)
(* could have been delivered stays behind in the queue.                    *)
(***************************************************************************)
DeferredAhead ==
  /\ Live(defer_q) \subseteq seq_rx + 1 .. peer_tx - 1
  /\ \A i, j \in 1 .. defer_q.count :
       defer_q.elements[i] = defer_q.elements[j] => i = j

(***************************************************************************)
(* A PDU leaves the defer queue only when seq_rx passes it (and then it is *)
(* accounted for by NothingSkipped); seq_rx never goes back.               *)
(***************************************************************************)
LeavesDelivered ==
  [][ /\ seq_rx' >= seq_rx
      /\ \A s \in Live(defer_q) : s \in Live(defer_q') \/ s < seq_rx' ]_vars

(***************************************************************************)
(* A PDU the channel has passed reaches the upper layer in the end, unless *)
(* a full fifo_recv has dropped it: the polling of on_readable_event is    *)
(* all it takes, also for those that were deferred.                        *)
(***************************************************************************)
HandedUp ==
  \A s \in Seqs : s < seq_rx ~> s \in Values(delivered) \cup dropped

(***************************************************************************)
(* Refinement: the channel delivers in order, at most once, what was sent. *)
(***************************************************************************)
Abstract == INSTANCE InOrderDelivery WITH sent <- peer_tx, got <- delivered

ImplementsInOrderDelivery == Abstract!Spec

(***************************************************************************)
(* A PDU in the defer queue does not wait for ever for one that was lost   *)
(* on all transport channels: after T_SEQ the channel goes on without it   *)
(* (channel_timeout_event: "timeout, send to next layer").                 *)
(***************************************************************************)
DeferredIsReleased ==
  \A s \in Seqs : s \in Live(defer_q) ~> s \notin Live(defer_q)
=============================================================================
