----------------------------- MODULE RedundancyMux -----------------------------
(***************************************************************************)
(* The redundancy multiplexer of one entity (rasta_red_multiplexer.c): the *)
(* array of redundancy channels to its peers, found by the peer's RaSTA id *)
(* and changed by reception, by sr_connect and by closing a connection.    *)
(*                                                                         *)
(* A channel finds its peer's transport addresses in the arguments of      *)
(* sr_connect, or learns them from the PDUs it receives.  Reception into a *)
(* channel is that of RedundancyChannel with its queue as a set, which is  *)
(* what the proofs there justify.                                          *)
(*                                                                         *)
(* Every PDU a peer may send can be received at any time, on any socket,   *)
(* any number of times, or never.  So nothing need be known of the peer:   *)
(* when it restarts it numbers from 0 again, and its PDUs are to the       *)
(* multiplexer what late copies of earlier ones are.  All are genuine.     *)
(***************************************************************************)
EXTENDS Integers, Sequences, FiniteSets, SequencesExt

CONSTANTS Peers,      \* RaSTA ids of the peers
          Ports,      \* 1 .. port_count: sockets here, and addresses of a peer
          NDefer,     \* n_deferqueue_size
          MaxSeq      \* bound: PDUs a peer sends

ASSUME MuxAssumption ==
  /\ IsFiniteSet(Peers) /\ "unset" \notin Peers
  /\ {NDefer, MaxSeq} \subseteq Nat \ {0}
  /\ IsFiniteSet(Ports) /\ Ports # {} /\ Ports = 1 .. Cardinality(Ports)

VARIABLES
  chans,    \* connected_channels, as long as channel_count
  known,    \* the peers in the list of connections
  preset,   \* the peer whose addresses the configuration gave, or "none"
  clash,    \* history: an id was set on, or a channel added beside, another
  undef     \* something was read that nobody has written

vars == <<chans, known, preset, clash, undef>>

Addresses(p) == {<<p, i>> : i \in Ports}

(***************************************************************************)
(* rasta_red_init.  The fields besides those of the code: `tx' tells only  *)
(* whether seq_tx is still 0, `last' is the number last handed up.         *)
(***************************************************************************)
NewChannel(id, addrs) ==
  [id |-> id, addrs |-> addrs, tx |-> FALSE, rx |-> 0, defer_q |-> {},
   fifo_recv |-> << >>, last |-> -1]

\* A slot of the array nobody has written.
Unwritten == [NewChannel("unset", << >>) EXCEPT !.last = -2]

(***************************************************************************)
(* redundancy_mux_init_, which the RaSTA handle uses, opens the sockets    *)
(* only; redundancy_mux_init makes a channel of what the configuration     *)
(* lists, whose id redundancy_mux_set_config_id is to set.                 *)
(***************************************************************************)
InitEmpty == chans = << >> /\ preset = "none"
InitPreset ==
  \E p \in Peers : /\ chans = <<NewChannel("unset", [i \in Ports |-> <<p, i>>])>>
                   /\ preset = p

Init ==
  /\ InitEmpty \/ InitPreset
  /\ known = {}
  /\ clash = FALSE
  /\ undef = FALSE

Has(id) == \E i \in DOMAIN chans : chans[i].id = id

\* redundancy_mux_get_channel: the first channel with the id.
GetChannel(id) ==
  CHOOSE i \in DOMAIN chans :
    chans[i].id = id /\ \A j \in 1 .. i - 1 : chans[j].id # id

-----------------------------------------------------------------------------
(***************************************************************************)
(* Reception.  receive_packet looks for the sender's channel, adds the     *)
(* address to it while it knows fewer than there are ports, or makes a new *)
(* channel, and gives the PDU to rasta_red_f_receive.                      *)
(***************************************************************************)
DiscoverTwice(c, addr) ==                                         \* mutant
  IF Len(c.addrs) < Cardinality(Ports) THEN [c EXCEPT !.addrs = Append(@, addr)] ELSE c

DiscoverAlways(c, addr) ==                                        \* mutant
  IF addr \notin Range(c.addrs) \/ Len(c.addrs) >= Cardinality(Ports)
  THEN [c EXCEPT !.addrs = Append(@, addr)] ELSE c

Discover(c, addr) ==
  IF Len(c.addrs) < Cardinality(Ports) /\ addr \notin Range(c.addrs)
  THEN [c EXCEPT !.addrs = Append(@, addr)] ELSE c

\* deliverDeferQueue stops at the first PDU that is not deferred.
NextMissing(c) ==
  CHOOSE n \in c.rx + 1 .. c.rx + 1 + NDefer :
    n \notin c.defer_q /\ c.rx + 1 .. n - 1 \subseteq c.defer_q

\* The expected PDU and those deferred behind it go up, as far as they fit.
FReceiveEarly(c, seq) ==                                          \* mutant
  IF seq < c.rx \/ Len(c.fifo_recv) = NDefer THEN c
  ELSE [c EXCEPT !.rx = @ + 1, !.fifo_recv = Append(@, seq)]

FReceive(c, seq) ==
  LET next == NextMissing(c)
      fits == Min({next, c.rx + NDefer - Len(c.fifo_recv)})
      unheard == c.rx = 0 /\ ~c.tx
  IN CASE unheard /\ seq # 0 -> c
       [] seq = c.rx ->
            [c EXCEPT !.rx = next,
                      !.defer_q = @ \ (c.rx .. next),
                      !.fifo_recv = @ \o [k \in 1 .. fits - c.rx |-> c.rx + k - 1]]
       [] ~unheard /\ seq \in c.rx + 1 .. c.rx + 10 * NDefer ->
            IF Cardinality(c.defer_q) = NDefer THEN c ELSE [c EXCEPT !.defer_q = @ \cup {seq}]
       [] OTHER -> c

ReceivePacket(p, seq, port) ==
  /\ LET addr == <<p, port>>
     IN chans' =
          IF Has(p)
          THEN [chans EXCEPT ![GetChannel(p)] = FReceive(Discover(@, addr), seq)]
          ELSE Append(chans, FReceive(NewChannel(p, <<addr>>), seq))
  /\ UNCHANGED <<known, preset, clash, undef>>

(***************************************************************************)
(* channel_receive_event, the handler of a readable socket.  The window of *)
(* diagnosis it closes first, for every channel, it resets in a copy.      *)
(***************************************************************************)
ReceiveEvent(p, seq, port) == ReceivePacket(p, seq, port)

(***************************************************************************)
(* redundancy_mux_try_retrieve_all, called by on_readable_event: the first *)
(* channel with a PDU is found by its index, then looked up by its id.     *)
(* The caller handles a PDU whether or not the lookup wrote one.  What it  *)
(* retrieves may put the peer into the list of connections.                *)
(***************************************************************************)
RetrieveFrom(c) ==
  [c EXCEPT !.fifo_recv = Tail(@), !.last = Head(c.fifo_recv)]

TryRetrieveAll ==
  \E i \in DOMAIN chans :
    /\ chans[i].fifo_recv # << >>
    /\ \A j \in 1 .. i - 1 : chans[j].fifo_recv = << >>
    /\ LET c == GetChannel(chans[i].id)
       IN IF chans[c].fifo_recv = << >>
          THEN undef' = TRUE /\ UNCHANGED <<chans, known>>
          ELSE /\ chans' = [chans EXCEPT ![c] = RetrieveFrom(@)]
               /\ known' \in {known, known \cup ({chans[i].id} \ {"unset"})}
               /\ UNCHANGED undef
    /\ UNCHANGED <<preset, clash>>

(***************************************************************************)
(* redundancy_mux_send, to a peer there is a channel for.                  *)
(***************************************************************************)
MuxSend(p) ==
  /\ Has(p)
  /\ chans' = [chans EXCEPT ![GetChannel(p)].tx = TRUE]
  /\ UNCHANGED <<known, preset, clash, undef>>

-----------------------------------------------------------------------------
(***************************************************************************)
(* sr_connect to a peer that is not in the list: redundancy_mux_add_channel*)
(* and redundancy_mux_set_config_id, which gives channel 0 the id; then it *)
(* sends the ConReq.                                                       *)
(***************************************************************************)
AddChannel(p) == Append(chans, NewChannel(p, [i \in Ports |-> <<p, i>>]))

SetConfigId(cs, p) == IF cs = << >> THEN cs ELSE [cs EXCEPT ![1].id = p]

SrConnect(p) ==
  /\ p \notin known /\ preset = "none"
  /\ chans' = [SetConfigId(AddChannel(p), p) EXCEPT ![1].tx = TRUE]
  /\ known' = known \cup {p}
  /\ clash' = (clash \/ chans # << >>)
  /\ UNCHANGED <<preset, undef>>

\* What a client of redundancy_mux_init does instead, as in mux_stresstest.
ConfigId(p) ==
  /\ p = preset /\ p \notin known
  /\ chans' = SetConfigId(chans, p)
  /\ known' = known \cup {p}
  /\ clash' = (clash \/ (chans # << >> /\ (chans[1].id # "unset" \/ Has(p))))
  /\ UNCHANGED <<preset, undef>>

(***************************************************************************)
(* redundancy_mux_remove_channel: channels with other ids are copied, the  *)
(* count goes down by one.                                                 *)
(***************************************************************************)
CopyOthers(id) ==
  LET copied[i \in 0 .. Len(chans)] ==
        IF i = 0 THEN << >>
        ELSE IF chans[i].id = id THEN copied[i - 1]
        ELSE Append(copied[i - 1], chans[i])
  IN copied[Len(chans)]

RemoveChannelKeepsCount(id) == CopyOthers(id) \o <<Unwritten>>     \* mutant

RemoveChannelLast(id) == Front(chans)                             \* mutant

RemoveChannel(id) ==
  LET left == CopyOthers(id)
  IN [i \in 1 .. Len(chans) - 1 |-> IF i <= Len(left) THEN left[i] ELSE Unwritten]

Close(p) ==
  /\ Has(p)
  /\ chans' = RemoveChannel(p)
  /\ undef' = (undef \/ Unwritten \in Range(chans'))
  /\ UNCHANGED <<known, preset, clash>>

Next ==
  /\ ~undef
  /\ \/ \E p \in Peers : MuxSend(p) \/ Close(p) \/ SrConnect(p) \/ ConfigId(p)
     \/ \E p \in Peers, seq \in 0 .. MaxSeq - 1, port \in Ports : ReceiveEvent(p, seq, port)
     \/ TryRetrieveAll

Spec == Init /\ [][Next]_vars

-----------------------------------------------------------------------------
Ids == Peers \cup {"unset"}
Seqs == 0 .. MaxSeq - 1
IsChannel(c) ==
  /\ c.id \in Ids /\ c.tx \in BOOLEAN /\ c.rx \in 0 .. MaxSeq
  /\ c.addrs \in Seq(Peers \X Ports) /\ Len(c.addrs) <= Cardinality(Ports)
  /\ c.defer_q \subseteq Seqs /\ Cardinality(c.defer_q) <= NDefer
  /\ c.fifo_recv \in Seq(Seqs) /\ Len(c.fifo_recv) <= NDefer
  /\ c.last \in -2 .. MaxSeq - 1

TypeOK ==
  /\ \A i \in DOMAIN chans : IsChannel(chans[i])
  /\ known \subseteq Peers /\ preset \in Peers \cup {"none"}
  /\ clash \in BOOLEAN /\ undef \in BOOLEAN

(***************************************************************************)
(* A PDU for a peer is sent to addresses of that peer, each of them once,  *)
(* whichever way the channel came to know them: as long as no id was set   *)
(* on the channel of somebody else.                                        *)
(***************************************************************************)
SentToReceiver ==
  \A p \in Peers :
    Has(p) => LET addrs == chans[GetChannel(p)].addrs
              IN IsInjective(addrs) /\ Range(addrs) \subseteq Addresses(p)
RoutedRight == ~clash => SentToReceiver

(***************************************************************************)
(* A peer has one channel, known or not, restarted or not, and nothing     *)
(* unwritten is ever read, under the same condition.                       *)
(***************************************************************************)
OneChannelPerPeer ==
  ~clash => ~undef /\ \A i, j \in DOMAIN chans : chans[i].id = chans[j].id => i = j

(***************************************************************************)
(* In the life of a channel the numbers handed up only increase, although  *)
(* copies arrive on several sockets and the peer may start over; what is   *)
(* deferred is ahead of what was passed.                                   *)
(***************************************************************************)
HandedInOrder ==
  \A i \in DOMAIN chans :
    LET c == chans[i]
    IN /\ \A k \in DOMAIN c.fifo_recv :
            /\ c.last < c.fifo_recv[k] /\ c.fifo_recv[k] < c.rx
            /\ \A m \in k + 1 .. Len(c.fifo_recv) : c.fifo_recv[k] < c.fifo_recv[m]
       /\ \A d \in c.defer_q : d > c.rx

(***************************************************************************)
(* Peers do not disturb each other: what is received from, sent to or      *)
(* closed for one leaves the channel of every other as it is, although all *)
(* share one array that is reallocated, compacted and searched.            *)
(***************************************************************************)
ChannelOf(p) == IF Has(p) THEN chans[GetChannel(p)] ELSE Unwritten

Isolation ==
  [][ \A p \in Peers :
        /\ ~clash
        /\ MuxSend(p) \/ Close(p) \/ \E seq \in Seqs, port \in Ports : ReceiveEvent(p, seq, port)
        => \A r \in Peers \ {p} : ChannelOf(r)' = ChannelOf(r) ]_vars
=============================================================================
