------------------------- MODULE RedundancyMuxProofs -------------------------
(***************************************************************************)
(* Proofs about RedundancyMux: for every set of peers, number of ports,    *)
(* defer queue size and number of PDUs a peer sends.                       *)
(***************************************************************************)
EXTENDS RedundancyMux, SequenceTheorems, FiniteSetTheorems, SetInduction

Channels ==
  [id : Ids, addrs : Seq(Peers \X Ports), tx : BOOLEAN, rx : 0 .. MaxSeq,
   defer_q : SUBSET Seqs, fifo_recv : Seq(Seqs), last : -2 .. MaxSeq - 1]

Fits(c) ==
  /\ Len(c.addrs) <= Cardinality(Ports)
  /\ Cardinality(c.defer_q) <= NDefer
  /\ Len(c.fifo_recv) <= NDefer

(***************************************************************************)
(* One channel hands up increasing numbers: HandedInOrder for it, and also *)
(* what was handed up was expected before.                                 *)
(***************************************************************************)
Increasing(c) ==
  /\ c.last < c.rx
  /\ \A k \in DOMAIN c.fifo_recv :
       /\ c.last < c.fifo_recv[k] /\ c.fifo_recv[k] < c.rx
       /\ \A m \in k + 1 .. Len(c.fifo_recv) : c.fifo_recv[k] < c.fifo_recv[m]
  /\ \A d \in c.defer_q : d > c.rx

Sound(c) == c \in Channels /\ Fits(c) /\ Increasing(c) /\ IsInjective(c.addrs)

(***************************************************************************)
(* The addresses of a channel are those of its peer: of the one it was     *)
(* configured for, as long as it has no id.                                *)
(***************************************************************************)
Owner(c)    == IF c.id = "unset" THEN preset ELSE c.id
OwnAddrs(c) == Range(c.addrs) \subseteq Addresses(Owner(c))
DistinctIds == \A i, j \in DOMAIN chans : chans[i].id = chans[j].id => i = j

(***************************************************************************)
(* The inductive invariant: every channel is sound, whatever happens; as   *)
(* long as no id was set on somebody else's channel, every slot of the     *)
(* array has been written, ids are distinct and addresses are the owner's. *)
(***************************************************************************)
IInv ==
  /\ chans \in Seq(Channels)
  /\ \A i \in DOMAIN chans : Sound(chans[i])
  /\ known \subseteq Peers /\ preset \in Peers \cup {"none"}
  /\ clash \in BOOLEAN /\ undef \in BOOLEAN
  /\ ~clash => /\ ~undef
               /\ DistinctIds
               /\ \A i \in DOMAIN chans : OwnAddrs(chans[i]) /\ chans[i].last # -2

-----------------------------------------------------------------------------
(***************************************************************************)
(* The constants are numbers; the ports and the PDUs of a peer are finite. *)
(***************************************************************************)
LEMMA ConstantFacts ==
  /\ NDefer \in Nat \ {0} /\ MaxSeq \in Nat \ {0}
  /\ Cardinality(Ports) \in Nat \ {0} /\ Ports = 1 .. Cardinality(Ports)
  /\ IsFiniteSet(Seqs) /\ Seqs \subseteq Nat
<1>1. {NDefer, MaxSeq} \subseteq Nat \ {0}
  BY MuxAssumption
<1>2. NDefer \in Nat \ {0} /\ MaxSeq \in Nat \ {0}
  BY <1>1
<1>3. Cardinality(Ports) \in Nat /\ Cardinality(Ports) # 0
  BY MuxAssumption, FS_CardinalityType, FS_EmptySet
<1>4. IsFiniteSet(Seqs) /\ Seqs \subseteq Nat
  BY <1>2, FS_Interval DEF Seqs
<1> QED
  BY <1>2, <1>3, <1>4, MuxAssumption

(***************************************************************************)
(* deliverDeferQueue finds where to stop: a full queue cannot hold all the *)
(* NDefer + 1 numbers after the one it expects.                            *)
(***************************************************************************)
LEMMA NextMissingFacts ==
  ASSUME NEW c, Sound(c)
  PROVE  /\ NextMissing(c) \in c.rx + 1 .. c.rx + 1 + NDefer
         /\ NextMissing(c) \notin c.defer_q
         /\ c.rx + 1 .. NextMissing(c) - 1 \subseteq c.defer_q
<1> DEFINE Ahead == c.rx + 1 .. c.rx + 1 + NDefer
           Missing == Ahead \ c.defer_q
<1>1. c.rx \in Nat /\ NDefer \in Nat /\ c.defer_q \subseteq Seqs
  BY ConstantFacts DEF Sound, Channels
<1>2. IsFiniteSet(c.defer_q) /\ Cardinality(c.defer_q) <= NDefer
  BY <1>1, ConstantFacts, FS_Subset DEF Sound, Fits
<1>3. Cardinality(Ahead) = NDefer + 1
  <2>1. PICK a \in Int, b \in Int : a = c.rx + 1 /\ b = c.rx + 1 + NDefer
    BY <1>1
  <2>2. Cardinality(a .. b) = IF a > b THEN 0 ELSE b - a + 1
    BY FS_Interval
  <2> QED
    BY <1>1, <2>1, <2>2
<1>4. Missing # {}
  <2>1. SUFFICES ASSUME Ahead \subseteq c.defer_q PROVE FALSE
    OBVIOUS
  <2>2. Cardinality(Ahead) <= Cardinality(c.defer_q)
    BY <1>2, <2>1, FS_Subset
  <2>3. Cardinality(c.defer_q) \in Nat
    BY <1>2, FS_CardinalityType
  <2> QED
    BY <1>1, <1>2, <1>3, <2>2, <2>3
<1>5. PICK n \in Missing : \A m \in Missing : n <= m
  <2>1. Missing \in SUBSET Nat
    BY <1>1
  <2> HIDE DEF Missing
  <2> QED
    BY <1>4, <2>1, LeastElement
<1>6. c.rx + 1 .. n - 1 \subseteq c.defer_q
  BY <1>1, <1>5
<1> QED
  BY <1>5, <1>6 DEF NextMissing

(***************************************************************************)
(* rasta_red_f_receive keeps a channel sound, whatever number arrives, and *)
(* touches neither the id nor the addresses nor what was handed up.        *)
(***************************************************************************)
LEMMA FReceiveFacts ==
  ASSUME NEW c, Sound(c), NEW seq \in Seqs
  PROVE  /\ Sound(FReceive(c, seq))
         /\ FReceive(c, seq).id = c.id
         /\ FReceive(c, seq).addrs = c.addrs
         /\ FReceive(c, seq).last = c.last
<1> DEFINE next == NextMissing(c)
           fits == Min({next, c.rx + NDefer - Len(c.fifo_recv)})
           d == FReceive(c, seq)
<1>1. /\ c \in Channels /\ c.rx \in 0 .. MaxSeq /\ c.defer_q \subseteq Seqs
      /\ c.fifo_recv \in Seq(Seqs) /\ Len(c.fifo_recv) \in 0 .. NDefer
      /\ Cardinality(c.defer_q) <= NDefer /\ c.last \in -2 .. MaxSeq - 1
      /\ Increasing(c) /\ seq \in 0 .. MaxSeq - 1
  BY DEF Sound, Channels, Fits, Seqs
<1>2. NDefer \in Nat \ {0} /\ MaxSeq \in Nat \ {0}
  BY ConstantFacts
<1>3. IsFiniteSet(c.defer_q) /\ Cardinality(c.defer_q) \in Nat
  BY <1>1, ConstantFacts, FS_Subset, FS_CardinalityType
<1>4. CASE d = c
  BY <1>4
<1>5. CASE /\ seq = c.rx
           /\ d = [c EXCEPT !.rx = next,
                      !.defer_q = @ \ (c.rx .. next),
                      !.fifo_recv = @ \o [k \in 1 .. fits - c.rx |-> c.rx + k - 1]]
  <2>1. /\ next \in c.rx + 1 .. c.rx + 1 + NDefer
        /\ next \notin c.defer_q
        /\ c.rx + 1 .. next - 1 \subseteq c.defer_q
    BY NextMissingFacts
  <2>2. next \in 1 .. MaxSeq
    <3>1. CASE next = c.rx + 1
      BY <1>1, <1>2, <1>5, <3>1
    <3>2. CASE next > c.rx + 1
      <4>1. next - 1 \in c.rx + 1 .. next - 1
        BY <1>1, <1>2, <2>1, <3>2
      <4>2. next - 1 \in 0 .. MaxSeq - 1
        BY <1>1, <2>1, <4>1 DEF Seqs
      <4> QED
        BY <1>1, <1>2, <2>1, <4>2
    <3> QED
      BY <1>1, <1>2, <2>1, <3>1, <3>2
  <2>3. fits \in c.rx .. next /\ fits <= c.rx + NDefer - Len(c.fifo_recv)
    <3>1. PICK n \in Int : n = next
      BY <2>2
    <3>2. PICK m \in Int : m = c.rx + NDefer - Len(c.fifo_recv)
      BY <1>1, <1>2
    <3>3. Min({n, m}) \in {n, m} /\ Min({n, m}) <= n /\ Min({n, m}) <= m
      <4>1. \E x \in {n, m} : \A y \in {n, m} : x <= y
        BY <3>1, <3>2
      <4> QED
        BY <4>1 DEF Min
    <3>4. n >= c.rx /\ m >= c.rx
      BY <1>1, <1>2, <2>1, <3>1, <3>2
    <3> QED
      BY <1>1, <3>1, <3>2, <3>3, <3>4
  <2> HIDE DEF fits, next
  <2> DEFINE up == [k \in 1 .. fits - c.rx |-> c.rx + k - 1]
  <2>4. /\ fits - c.rx \in Nat
        /\ \A k \in 1 .. fits - c.rx : c.rx + k - 1 \in c.rx .. next - 1
        /\ c.rx .. next - 1 \subseteq Seqs
    BY <1>1, <1>2, <2>2, <2>3 DEF Seqs
  <2>5. up \in Seq(Seqs) /\ Len(up) = fits - c.rx
    BY <2>4
  <2>6. /\ \A k \in DOMAIN up : up[k] = c.rx + k - 1 /\ up[k] \in c.rx .. next - 1
        /\ DOMAIN up = 1 .. Len(up)
    BY <2>4, <2>5
  <2> HIDE DEF up
  <2> DEFINE fifo == c.fifo_recv \o up
  <2>7. /\ fifo \in Seq(Seqs) /\ Len(fifo) = Len(c.fifo_recv) + Len(up)
        /\ \A k \in 1 .. Len(c.fifo_recv) : fifo[k] = c.fifo_recv[k]
        /\ \A k \in Len(c.fifo_recv) + 1 .. Len(fifo) :
             fifo[k] = up[k - Len(c.fifo_recv)]
             /\ k - Len(c.fifo_recv) \in DOMAIN up
    BY <1>1, <2>5, <2>6
  <2> HIDE DEF fifo
  <2>8. Len(fifo) <= NDefer
    BY <1>1, <1>2, <2>2, <2>3, <2>5, <2>7
  <2>9. c.defer_q \ (c.rx .. next) \subseteq Seqs
        /\ Cardinality(c.defer_q \ (c.rx .. next)) <= NDefer
    <3>1. Cardinality(c.defer_q \ (c.rx .. next)) <= Cardinality(c.defer_q)
          /\ Cardinality(c.defer_q \ (c.rx .. next)) \in Nat
      BY <1>3, FS_Subset, FS_CardinalityType
    <3> QED
      BY <1>1, <1>2, <1>3, <3>1
  <2>10. d = [c EXCEPT !.rx = next, !.defer_q = c.defer_q \ (c.rx .. next),
                       !.fifo_recv = fifo]
    BY <1>5 DEF fifo, up
  <2>11. /\ d \in Channels
         /\ d.rx = next /\ d.defer_q = c.defer_q \ (c.rx .. next)
         /\ d.fifo_recv = fifo /\ d.last = c.last /\ d.id = c.id
         /\ d.addrs = c.addrs
    <3>1. next \in 0 .. MaxSeq
      BY <1>2, <2>2
    <3> QED
      BY <1>1, <2>7, <2>9, <2>10, <3>1 DEF Channels
  <2>12. Increasing(d)
    <3>1. d.last < d.rx
      BY <1>1, <2>1, <2>11 DEF Increasing
    <3>2. \A x \in d.defer_q : x > d.rx
      BY <1>1, <2>1, <2>2, <2>11 DEF Increasing, Seqs
    <3>3. ASSUME NEW k \in DOMAIN d.fifo_recv
          PROVE  /\ d.last < d.fifo_recv[k] /\ d.fifo_recv[k] < d.rx
                 /\ \A m \in k + 1 .. Len(d.fifo_recv) : d.fifo_recv[k] < d.fifo_recv[m]
      <4>1. k \in 1 .. Len(fifo) /\ Len(fifo) \in Nat /\ Len(c.fifo_recv) \in Nat
        BY <1>1, <2>7, <2>11
      <4>2. CASE k \in 1 .. Len(c.fifo_recv)
        <5>1. /\ fifo[k] = c.fifo_recv[k] /\ c.last < fifo[k] /\ fifo[k] < c.rx
              /\ fifo[k] \in Int
          <6>1. k \in DOMAIN c.fifo_recv /\ c.fifo_recv[k] \in Seqs
            BY <1>1, <4>2
          <6>2. fifo[k] = c.fifo_recv[k]
            BY <2>7, <4>2
          <6>3. c.last < c.fifo_recv[k] /\ c.fifo_recv[k] < c.rx
            BY <1>1, <6>1 DEF Increasing
          <6> QED
            BY <1>2, <6>1, <6>2, <6>3 DEF Seqs
        <5>2. ASSUME NEW m \in k + 1 .. Len(fifo) PROVE fifo[k] < fifo[m]
          <6>1. CASE m <= Len(c.fifo_recv)
            <7>1. m \in k + 1 .. Len(c.fifo_recv) /\ m \in 1 .. Len(c.fifo_recv)
              BY <4>1, <4>2, <6>1
            <7> QED
              BY <1>1, <2>7, <4>2, <5>1, <7>1 DEF Increasing
          <6>2. CASE m > Len(c.fifo_recv)
            <7>1. m \in Len(c.fifo_recv) + 1 .. Len(fifo)
              BY <4>1, <4>2, <6>2
            <7>2. fifo[m] \in c.rx .. next - 1
              BY <2>6, <2>7, <7>1
            <7> QED
              BY <1>1, <5>1, <7>2
          <6> QED
            BY <4>1, <4>2, <6>1, <6>2
        <5> QED
          BY <1>1, <2>1, <2>11, <5>1, <5>2
      <4>3. CASE k \in Len(c.fifo_recv) + 1 .. Len(fifo)
        <5>1. /\ fifo[k] = up[k - Len(c.fifo_recv)]
              /\ fifo[k] = c.rx + (k - Len(c.fifo_recv)) - 1
              /\ fifo[k] \in c.rx .. next - 1
          BY <2>6, <2>7, <4>3
        <5>2. ASSUME NEW m \in k + 1 .. Len(fifo) PROVE fifo[k] < fifo[m]
          <6>1. m \in Len(c.fifo_recv) + 1 .. Len(fifo)
            BY <4>1, <4>3
          <6>2. fifo[m] = c.rx + (m - Len(c.fifo_recv)) - 1
            BY <2>6, <2>7, <6>1
          <6> QED
            BY <1>1, <4>1, <5>1, <6>1, <6>2
        <5> QED
          BY <1>1, <2>2, <2>11, <5>1, <5>2 DEF Increasing
      <4> QED
        BY <4>1, <4>2, <4>3
    <3> QED
      BY <3>1, <3>2, <3>3 DEF Increasing
  <2>13. Fits(d) /\ IsInjective(d.addrs)
    BY <2>8, <2>9, <2>11 DEF Sound, Fits
  <2> QED
    BY <2>11, <2>12, <2>13 DEF Sound
<1>6. CASE /\ seq > c.rx /\ Cardinality(c.defer_q) # NDefer
           /\ d = [c EXCEPT !.defer_q = @ \cup {seq}]
  <2>1. Cardinality(c.defer_q \cup {seq}) <= NDefer
    <3>1. Cardinality(c.defer_q \cup {seq})
            \in {Cardinality(c.defer_q), Cardinality(c.defer_q) + 1}
      BY <1>3, FS_AddElement
    <3> QED
      BY <1>1, <1>2, <1>3, <1>6, <3>1
  <2>2. /\ d \in Channels
        /\ d.rx = c.rx /\ d.defer_q = c.defer_q \cup {seq}
        /\ d.fifo_recv = c.fifo_recv /\ d.last = c.last /\ d.id = c.id
        /\ d.addrs = c.addrs
    BY <1>1, <1>6 DEF Channels
  <2> QED
    BY <1>1, <1>6, <2>1, <2>2 DEF Sound, Fits, Increasing
<1>7. d = c \/ /\ seq = c.rx
               /\ d = [c EXCEPT !.rx = next,
                      !.defer_q = @ \ (c.rx .. next),
                      !.fifo_recv = @ \o [k \in 1 .. fits - c.rx |-> c.rx + k - 1]]
            \/ /\ seq > c.rx /\ Cardinality(c.defer_q) # NDefer
               /\ d = [c EXCEPT !.defer_q = @ \cup {seq}]
  BY <1>1, <1>2 DEF FReceive
<1> QED
  BY <1>4, <1>5, <1>6, <1>7

(***************************************************************************)
(* receive_packet adds an address once, and only while there is room.      *)
(***************************************************************************)
LEMMA DiscoverFacts ==
  ASSUME NEW c, Sound(c), NEW addr \in Peers \X Ports
  PROVE  /\ Sound(Discover(c, addr))
         /\ Discover(c, addr).id = c.id
         /\ Discover(c, addr).last = c.last
         /\ Range(Discover(c, addr).addrs) \subseteq Range(c.addrs) \cup {addr}
<1> DEFINE d == Discover(c, addr)
<1>1. /\ c \in Channels /\ c.addrs \in Seq(Peers \X Ports) /\ IsInjective(c.addrs)
      /\ Len(c.addrs) \in Nat
  BY DEF Sound, Channels
<1>2. CASE d = c
  BY <1>2
<1>3. CASE /\ Len(c.addrs) < Cardinality(Ports) /\ addr \notin Range(c.addrs)
           /\ d = [c EXCEPT !.addrs = Append(@, addr)]
  <2>1. PICK addrs : addrs = Append(c.addrs, addr)
    OBVIOUS
  <2>2. /\ addrs \in Seq(Peers \X Ports) /\ Len(addrs) = Len(c.addrs) + 1
        /\ \A i \in 1 .. Len(c.addrs) : addrs[i] = c.addrs[i]
        /\ addrs[Len(c.addrs) + 1] = addr
        /\ DOMAIN addrs = 1 .. Len(c.addrs) + 1 /\ DOMAIN c.addrs = 1 .. Len(c.addrs)
    BY <1>1, <2>1
  <2>3. /\ d \in Channels /\ d.addrs = addrs /\ d.id = c.id /\ d.last = c.last
        /\ d.rx = c.rx /\ d.defer_q = c.defer_q /\ d.fifo_recv = c.fifo_recv
    BY <1>1, <1>3, <2>1, <2>2 DEF Channels
  <2>4. \A i \in 1 .. Len(c.addrs) : c.addrs[i] \in Range(c.addrs)
    BY <2>2 DEF Range
  <2>5. IsInjective(addrs)
    <3>1. \A i, j \in 1 .. Len(c.addrs) : c.addrs[i] = c.addrs[j] => i = j
      BY <1>1, <2>2 DEF IsInjective
    <3>2. \A i \in 1 .. Len(c.addrs) : addrs[i] # addr
      BY <1>3, <2>2, <2>4
    <3>3. \A i \in DOMAIN addrs : i \in 1 .. Len(c.addrs) \/ i = Len(c.addrs) + 1
      BY <1>1, <2>2
    <3>4. \A i, j \in DOMAIN addrs : addrs[i] = addrs[j] => i = j
      BY <2>2, <3>1, <3>2, <3>3
    <3> QED
      BY <3>4 DEF IsInjective
  <2>6. Range(addrs) \subseteq Range(c.addrs) \cup {addr}
    BY <1>1, <2>2, <2>4 DEF Range
  <2>7. Fits(d) /\ Increasing(d)
    BY <1>1, <1>3, <2>2, <2>3, ConstantFacts DEF Sound, Fits, Increasing
  <2> QED
    BY <2>3, <2>5, <2>6, <2>7 DEF Sound
<1> QED
  BY <1>2, <1>3 DEF Discover

(***************************************************************************)
(* rasta_red_init makes a sound channel of distinct addresses.             *)
(***************************************************************************)
LEMMA NewChannelFacts ==
  ASSUME NEW id \in Ids, NEW addrs \in Seq(Peers \X Ports),
         Len(addrs) <= Cardinality(Ports), IsInjective(addrs)
  PROVE  Sound(NewChannel(id, addrs))
<1> DEFINE c == NewChannel(id, addrs)
<1>1. c \in Channels
  BY ConstantFacts DEF NewChannel, Channels
<1>2. Fits(c)
  BY ConstantFacts, FS_EmptySet DEF NewChannel, Fits
<1>3. Increasing(c)
  BY DEF NewChannel, Increasing
<1> QED
  BY <1>1, <1>2, <1>3 DEF Sound, NewChannel

(***************************************************************************)
(* A slot nobody has written stands for a channel that is sound but for    *)
(* its last number, which tells it from those that were.                   *)
(***************************************************************************)
LEMMA UnwrittenFacts == Sound(Unwritten) /\ Unwritten.last = -2
<1>1. Unwritten = [NewChannel("unset", << >>) EXCEPT !.last = -2]
  BY DEF Unwritten
<1>2. Sound(NewChannel("unset", << >>))
  <2>1. PICK addrs \in Seq(Peers \X Ports) : addrs = << >>
    <3>1. \A S : << >> \in Seq(S)
      OBVIOUS
    <3> QED
      BY <3>1
  <2>2. Len(addrs) <= Cardinality(Ports) /\ IsInjective(addrs)
    BY <2>1, ConstantFacts DEF IsInjective
  <2> QED
    BY <2>1, <2>2, NewChannelFacts DEF Ids
<1>3. PICK c : c = NewChannel("unset", << >>)
  OBVIOUS
<1>4. PICK d : d = [c EXCEPT !.last = -2]
  OBVIOUS
<1>5. /\ d \in Channels /\ d.last = -2 /\ d.addrs = c.addrs /\ d.rx = 0
      /\ d.defer_q = c.defer_q /\ d.fifo_recv = << >> /\ c.rx = 0
  <2>1. -2 \in -2 .. MaxSeq - 1
    BY ConstantFacts
  <2>2. c \in Channels /\ c.rx = 0 /\ c.fifo_recv = << >>
    BY <1>2, <1>3 DEF Sound, NewChannel
  <2> QED
    BY <1>4, <2>1, <2>2 DEF Channels
<1>6. Increasing(d) /\ Fits(d) /\ IsInjective(d.addrs)
  BY <1>2, <1>3, <1>5, ConstantFacts DEF Sound, Fits, Increasing
<1> QED
  BY <1>1, <1>3, <1>4, <1>5, <1>6 DEF Sound

(***************************************************************************)
(* The addresses a channel is made of: that of a received PDU, or one of   *)
(* the peer for every port.                                                *)
(***************************************************************************)
LEMMA AddressFacts ==
  ASSUME NEW p \in Peers
  PROVE  /\ \A port \in Ports :
              /\ <<p, port>> \in Peers \X Ports
              /\ <<p, port>> \in Addresses(p)
              /\ <<<<p, port>>>> \in Seq(Peers \X Ports)
              /\ Len(<<<<p, port>>>>) <= Cardinality(Ports)
              /\ IsInjective(<<<<p, port>>>>)
              /\ Range(<<<<p, port>>>>) \subseteq Addresses(p)
         /\ [i \in Ports |-> <<p, i>>] \in Seq(Peers \X Ports)
         /\ Len([i \in Ports |-> <<p, i>>]) <= Cardinality(Ports)
         /\ IsInjective([i \in Ports |-> <<p, i>>])
         /\ Range([i \in Ports |-> <<p, i>>]) \subseteq Addresses(p)
<1>1. ASSUME NEW port \in Ports
      PROVE  /\ <<p, port>> \in Peers \X Ports
             /\ <<p, port>> \in Addresses(p)
             /\ <<<<p, port>>>> \in Seq(Peers \X Ports)
             /\ Len(<<<<p, port>>>>) <= Cardinality(Ports)
             /\ IsInjective(<<<<p, port>>>>)
             /\ Range(<<<<p, port>>>>) \subseteq Addresses(p)
  BY ConstantFacts DEF Addresses, IsInjective, Range
<1>2. PICK n \in Nat \ {0} : n = Cardinality(Ports) /\ Ports = 1 .. n
  BY ConstantFacts
<1>3. PICK a : a = [i \in 1 .. n |-> <<p, i>>]
  OBVIOUS
<1>4. a \in Seq(Peers \X Ports) /\ Len(a) = n
  <2>1. \A i \in 1 .. n : <<p, i>> \in Peers \X Ports
    BY <1>2
  <2>2. PICK S : S = Peers \X Ports
    OBVIOUS
  <2>3. a \in [1 .. n -> S]
    BY <1>3, <2>1, <2>2
  <2> QED
    BY <2>2, <2>3
<1>5. IsInjective(a) /\ Range(a) \subseteq Addresses(p)
  BY <1>2, <1>3 DEF IsInjective, Range, Addresses
<1>6. a = [i \in Ports |-> <<p, i>>]
  BY <1>2, <1>3
<1>7. Len(a) <= Cardinality(Ports)
  <2>1. Len(a) = n /\ n <= n
    BY <1>4
  <2> QED
    BY <1>2, <2>1
<1> HIDE DEF Addresses
<1> QED
  BY <1>1, <1>4, <1>5, <1>6, <1>7

(***************************************************************************)
(* redundancy_try_mux_retrieve hands up the first PDU, which is newer than *)
(* all before and older than all that wait.                                *)
(***************************************************************************)
LEMMA RetrieveFacts ==
  ASSUME NEW c, Sound(c), c.fifo_recv # << >>
  PROVE  /\ Sound(RetrieveFrom(c))
         /\ RetrieveFrom(c).id = c.id
         /\ RetrieveFrom(c).addrs = c.addrs
         /\ RetrieveFrom(c).last # -2
<1> DEFINE d == RetrieveFrom(c)
           fifo == c.fifo_recv
<1>1. /\ c \in Channels /\ fifo \in Seq(Seqs) /\ Len(fifo) \in Nat \ {0}
      /\ DOMAIN fifo = 1 .. Len(fifo) /\ Increasing(c)
  BY DEF Sound, Channels
<1>2. /\ Head(fifo) = fifo[1] /\ fifo[1] \in Seqs
      /\ Tail(fifo) \in Seq(Seqs) /\ Len(Tail(fifo)) = Len(fifo) - 1
      /\ \A k \in 1 .. Len(fifo) - 1 : Tail(fifo)[k] = fifo[k + 1]
  BY <1>1
<1>3. PICK rest \in Seq(Seqs) : rest = Tail(fifo)
  BY <1>2
<1>9. fifo[1] \in -2 .. MaxSeq - 1
  BY <1>2, ConstantFacts DEF Seqs
<1>4. /\ d \in Channels /\ d.fifo_recv = rest /\ d.last = fifo[1] /\ d.rx = c.rx
      /\ d.defer_q = c.defer_q /\ d.id = c.id /\ d.addrs = c.addrs
  BY <1>1, <1>2, <1>3, <1>9 DEF RetrieveFrom, Channels
<1>5. \A k \in DOMAIN rest : /\ rest[k] = fifo[k + 1] /\ k + 1 \in 2 .. Len(fifo)
                             /\ rest[k] \in Seqs
  BY <1>1, <1>2, <1>3
<1>6. Increasing(d)
  <2>1. d.last < d.rx
    BY <1>1, <1>4 DEF Increasing
  <2>2. \A x \in d.defer_q : x > d.rx
    BY <1>1, <1>4 DEF Increasing
  <2>3. ASSUME NEW k \in DOMAIN rest
        PROVE  /\ d.last < rest[k] /\ rest[k] < d.rx
               /\ \A m \in k + 1 .. Len(rest) : rest[k] < rest[m]
    <3>1. k + 1 \in 1 + 1 .. Len(fifo) /\ k + 1 \in DOMAIN fifo /\ 1 \in DOMAIN fifo
      BY <1>1, <1>5
    <3>2. fifo[1] < fifo[k + 1] /\ fifo[k + 1] < c.rx
      BY <1>1, <3>1 DEF Increasing
    <3>3. ASSUME NEW m \in k + 1 .. Len(rest) PROVE rest[k] < rest[m]
      <4>1. m \in DOMAIN rest /\ m + 1 \in (k + 1) + 1 .. Len(fifo)
        BY <1>1, <1>2, <1>3
      <4>2. fifo[k + 1] < fifo[m + 1]
        BY <1>1, <3>1, <4>1 DEF Increasing
      <4> QED
        BY <1>5, <4>1, <4>2
    <3> QED
      BY <1>4, <1>5, <3>2, <3>3
  <2> QED
    BY <1>4, <2>1, <2>2, <2>3 DEF Increasing
<1>7. Fits(d) /\ IsInjective(d.addrs)
  BY <1>1, <1>2, <1>3, <1>4, ConstantFacts DEF Sound, Fits
<1>8. d.last # -2
  BY <1>2, <1>4, ConstantFacts DEF Seqs
<1> QED
  BY <1>4, <1>6, <1>7, <1>8 DEF Sound

-----------------------------------------------------------------------------
(***************************************************************************)
(* redundancy_mux_get_channel finds a channel when there is one.           *)
(***************************************************************************)
LEMMA GetChannelFacts ==
  ASSUME chans \in Seq(Channels), NEW id, Has(id)
  PROVE  GetChannel(id) \in DOMAIN chans /\ chans[GetChannel(id)].id = id
<1> DEFINE At == {i \in DOMAIN chans : chans[i].id = id}
<1>1. At \in SUBSET Nat /\ At # {} /\ \A i \in At : i >= 1
  BY DEF Has
<1>2. PICK i \in At : \A j \in At : i <= j
  BY <1>1, LeastElement
<1>3. \A j \in 1 .. i - 1 : chans[j].id # id
  BY <1>1, <1>2
<1> QED
  BY <1>2, <1>3 DEF GetChannel

(***************************************************************************)
(* The loop of redundancy_mux_remove_channel.  It copies channels of the   *)
(* array; when the ids are distinct it leaves out exactly one.             *)
(***************************************************************************)
LEMMA CopyOthersFacts ==
  ASSUME chans \in Seq(Channels), NEW id
  PROVE  /\ CopyOthers(id) \in Seq(Channels)
         /\ \A j \in 1 .. Len(CopyOthers(id)) :
              \E k \in DOMAIN chans : CopyOthers(id)[j] = chans[k]
         /\ \A x \in DOMAIN chans : DistinctIds /\ chans[x].id = id =>
              /\ Len(CopyOthers(id)) = Len(chans) - 1
              /\ \A j \in 1 .. Len(chans) - 1 :
                   CopyOthers(id)[j] = chans[IF j < x THEN j ELSE j + 1]
<1>1. PICK n \in Nat : /\ n = Len(chans) /\ DOMAIN chans = 1 .. n
                       /\ \A i \in 1 .. n : chans[i] \in Channels
  OBVIOUS
<1> DEFINE Round(i, s) == IF chans[i].id = id THEN s ELSE Append(s, chans[i])
           IsRun(f) == f = [i \in 0 .. n |-> IF i = 0 THEN << >> ELSE Round(i, f[i - 1])]
           copied == CHOOSE f : IsRun(f)
<1>2. CopyOthers(id) = copied[n]
  BY <1>1 DEF CopyOthers
<1>3. \A i \in 1 .. n, s \in Seq(Channels) : Round(i, s) \in Seq(Channels)
  BY <1>1
<1>4. PICK T, nil : T = Seq(Channels) /\ nil = << >> /\ nil \in T
  <2>1. << >> \in Seq(Channels)
    OBVIOUS
  <2> QED
    BY <2>1
<1> HIDE DEF Round
<1>5. IsRun(copied)
  <2>1. PICK step : step = [x \in (1 .. n) \X T |-> Round(x[1], x[2])]
    OBVIOUS
  <2>2. \A i \in 1 .. n, s \in T : step[<<i, s>>] = Round(i, s) /\ Round(i, s) \in T
    BY <1>3, <1>4, <2>1
  <2>3. step \in [(1 .. n) \X T -> T]
    BY <2>1, <2>2
  <2>4. PICK run \in [0 .. n -> T] :
          run[0] = nil /\ \A i \in 1 .. n : run[i] = step[<<i, run[i - 1]>>]
    <3>1. nil \in T
      BY <1>4
    <3>2. PICK run : IsLoop(run, T, n, nil, step)
      BY <2>3, <3>1, LoopHasRun
    <3> QED
      BY <3>2 DEF IsLoop
  <2>5. ASSUME NEW i \in 1 .. n PROVE run[i] = Round(i, run[i - 1])
    <3>1. i - 1 \in 0 .. n
      OBVIOUS
    <3> QED
      BY <2>2, <2>4, <3>1
  <2>6. run = [i \in 0 .. n |-> IF i = 0 THEN nil ELSE Round(i, run[i - 1])]
    <3>1. \A i \in 0 .. n : run[i] = IF i = 0 THEN nil ELSE Round(i, run[i - 1])
      BY <2>4, <2>5
    <3> QED
      BY <3>1
  <2>7. IsRun(run)
    BY <1>4, <2>6
  <2> HIDE DEF IsRun
  <2> QED
    BY <2>7
<1>6. copied = [i \in 0 .. n |-> IF i = 0 THEN nil ELSE Round(i, copied[i - 1])]
  BY <1>4, <1>5
<1> HIDE DEF copied
<1>7. copied[0] = nil /\ \A i \in 1 .. n : copied[i] = Round(i, copied[i - 1])
  BY <1>6
<1>8. /\ copied[n] \in Seq(Channels)
      /\ \A j \in 1 .. Len(copied[n]) : \E k \in DOMAIN chans : copied[n][j] = chans[k]
  <2> DEFINE Good(s) == /\ s \in Seq(Channels)
                        /\ \A j \in 1 .. Len(s) : \E k \in DOMAIN chans : s[j] = chans[k]
             S == {i \in 0 .. n : Good(copied[i])}
  <2>1. 0 \in S
    <3>1. Good(nil)
      BY <1>4
    <3> QED
      BY SMTT(60), <1>1, <1>7, <3>1
  <2>2. ASSUME NEW i \in 0 .. n - 1, i \in S PROVE i + 1 \in S
    <3>1. PICK s : s = copied[i]
      OBVIOUS
    <3>2. Good(s) /\ Len(s) \in Nat /\ i + 1 \in 1 .. n /\ chans[i + 1] \in Channels
      BY <1>1, <2>2, <3>1
    <3>3. copied[i + 1] = Round(i + 1, s)
      BY <1>1, <1>7, <3>1, <3>2
    <3>4. Good(Append(s, chans[i + 1]))
      BY <1>1, <3>2
    <3>5. Good(Round(i + 1, s))
      BY <3>2, <3>4 DEF Round
    <3> QED
      BY <3>2, <3>3, <3>5
  <2> HIDE DEF S
  <2>3. 0 .. n \subseteq S
    BY <1>1, <2>1, <2>2, InductionUpTo
  <2> QED
    BY <1>1, <2>3 DEF S
<1>9. ASSUME NEW x \in DOMAIN chans, DistinctIds, chans[x].id = id
      PROVE  /\ Len(copied[n]) = n - 1
             /\ \A j \in 1 .. n - 1 : copied[n][j] = chans[IF j < x THEN j ELSE j + 1]
  <2> DEFINE Exact(i, s) ==
               /\ s \in Seq(Channels)
               /\ Len(s) = (IF i < x THEN i ELSE i - 1)
               /\ \A j \in 1 .. Len(s) : s[j] = chans[IF j < x THEN j ELSE j + 1]
             S == {i \in 0 .. n : Exact(i, copied[i])}
  <2>1. 0 \in S
    <3>1. Exact(0, nil)
      BY <1>4
    <3> QED
      BY <1>1, <1>7, <3>1
  <2>2. ASSUME NEW i \in 0 .. n - 1, i \in S PROVE i + 1 \in S
    <3>1. PICK s : s = copied[i]
      OBVIOUS
    <3>2. Exact(i, s) /\ Len(s) \in Nat /\ i + 1 \in 1 .. n /\ chans[i + 1] \in Channels
      BY <1>1, <2>2, <3>1
    <3>3. copied[i + 1] = Round(i + 1, s)
      BY <1>1, <1>7, <3>1, <3>2
    <3>4. chans[i + 1].id = id <=> i + 1 = x
      BY <1>1, <1>9, <3>2 DEF DistinctIds
    <3>5. CASE i + 1 = x
      BY <1>1, <3>2, <3>3, <3>4, <3>5 DEF Round
    <3>6. CASE i + 1 # x
      <4>1. PICK t : t = Append(s, chans[i + 1])
        OBVIOUS
      <4>2. /\ t \in Seq(Channels) /\ Len(t) = Len(s) + 1
            /\ t[Len(s) + 1] = chans[i + 1]
            /\ \A j \in 1 .. Len(s) : t[j] = s[j]
        BY <3>2, <4>1
      <4>3. Len(t) = (IF i + 1 < x THEN i + 1 ELSE i)
        BY <1>1, <3>2, <3>6, <4>2
      <4>4. ASSUME NEW j \in 1 .. Len(t)
            PROVE  t[j] = chans[IF j < x THEN j ELSE j + 1]
        <5>1. CASE j \in 1 .. Len(s)
          BY <3>2, <4>2, <5>1
        <5>2. CASE j = Len(s) + 1
          BY <1>1, <3>2, <3>6, <4>2, <5>2
        <5> QED
          BY <3>2, <4>2, <5>1, <5>2
      <4>5. Exact(i + 1, t)
        BY <3>2, <4>2, <4>3, <4>4
      <4>6. copied[i + 1] = t
        BY <3>3, <3>4, <3>6, <4>1 DEF Round
      <4> QED
        BY <3>2, <4>5, <4>6
    <3> QED
      BY <3>5, <3>6
  <2> HIDE DEF S
  <2>3. 0 .. n \subseteq S
    BY <1>1, <2>1, <2>2, InductionUpTo
  <2>4. n \in S
    BY <1>1, <2>3
  <2> QED
    BY <1>1, <2>4 DEF S
<1> QED
  BY <1>1, <1>2, <1>8, <1>9

(***************************************************************************)
(* redundancy_mux_remove_channel of a peer that has a channel.  Whatever   *)
(* the ids are, the array holds old channels and unwritten slots; when     *)
(* they are distinct it is the old array without that channel.             *)
(***************************************************************************)
LEMMA RemoveChannelFacts ==
  ASSUME chans \in Seq(Channels), NEW id, Has(id)
  PROVE  /\ RemoveChannel(id) \in Seq(Channels)
         /\ Len(RemoveChannel(id)) = Len(chans) - 1
         /\ \A j \in 1 .. Len(chans) - 1 :
              \/ RemoveChannel(id)[j] = Unwritten
              \/ \E k \in DOMAIN chans : RemoveChannel(id)[j] = chans[k]
         /\ \A x \in DOMAIN chans : DistinctIds /\ chans[x].id = id =>
              \A j \in 1 .. Len(chans) - 1 :
                RemoveChannel(id)[j] = chans[IF j < x THEN j ELSE j + 1]
<1>1. PICK n \in Nat \ {0} : n = Len(chans) /\ DOMAIN chans = 1 .. n
  BY DEF Has
<1>2. PICK left \in Seq(Channels) : left = CopyOthers(id)
  BY CopyOthersFacts
<1>3. PICK r : r = [i \in 1 .. n - 1 |-> IF i <= Len(left) THEN left[i] ELSE Unwritten]
  OBVIOUS
<1>4. r = RemoveChannel(id)
  BY <1>1, <1>2, <1>3 DEF RemoveChannel
<1>5. ASSUME NEW j \in 1 .. n - 1
      PROVE  r[j] = Unwritten \/ \E k \in DOMAIN chans : r[j] = chans[k]
  <2>1. CASE j <= Len(left)
    <3>1. j \in 1 .. Len(left)
      BY <2>1
    <3> QED
      BY <1>2, <1>3, <3>1, CopyOthersFacts
  <2>2. CASE ~(j <= Len(left))
    BY <1>3, <2>2
  <2> QED
    BY <2>1, <2>2
<1>6. r \in Seq(Channels) /\ Len(r) = n - 1
  <2>1. Unwritten \in Channels
    BY UnwrittenFacts DEF Sound
  <2>2. \A j \in 1 .. n - 1 : r[j] \in Channels
    BY <1>1, <1>5, <2>1
  <2>3. r \in [1 .. n - 1 -> Channels] /\ n - 1 \in Nat
    BY <1>3, <2>2
  <2> QED
    BY <2>3
<1>7. ASSUME NEW x \in DOMAIN chans, DistinctIds, chans[x].id = id,
             NEW j \in 1 .. n - 1
      PROVE  r[j] = chans[IF j < x THEN j ELSE j + 1]
  <2>1. /\ Len(left) = n - 1
        /\ left[j] = chans[IF j < x THEN j ELSE j + 1]
    BY <1>1, <1>2, <1>7, CopyOthersFacts
  <2> QED
    BY <1>3, <2>1
<1> QED
  BY <1>1, <1>4, <1>5, <1>6, <1>7

-----------------------------------------------------------------------------
(***************************************************************************)
(* A step that replaces one channel by a sound one, with the same id and   *)
(* no address that is not the owner's, keeps the invariant.                *)
(***************************************************************************)
LEMMA UpdateKeepsIInv ==
  ASSUME IInv, NEW g \in DOMAIN chans, NEW d, Sound(d), d.id = chans[g].id,
         ~clash => OwnAddrs(d) /\ d.last # -2,
         chans' = [chans EXCEPT ![g] = d],
         known' \subseteq Peers, UNCHANGED <<preset, clash, undef>>
  PROVE  IInv'
<1>1. PICK n \in Nat : n = Len(chans) /\ DOMAIN chans = 1 .. n
  BY DEF IInv
<1>2. d \in Channels
  BY DEF Sound
<1>3. /\ chans' \in Seq(Channels) /\ DOMAIN chans' = DOMAIN chans
      /\ chans'[g] = d /\ \A i \in DOMAIN chans : i # g => chans'[i] = chans[i]
  BY <1>2 DEF IInv
<1>4. \A i \in DOMAIN chans' : Sound(chans'[i])
  BY <1>3 DEF IInv
<1>5. ASSUME ~clash'
      PROVE  /\ ~undef' /\ DistinctIds'
             /\ \A i \in DOMAIN chans' : OwnAddrs(chans[i])' /\ chans'[i].last # -2
  <2>1. /\ ~clash /\ ~undef /\ DistinctIds
        /\ \A i \in DOMAIN chans : OwnAddrs(chans[i]) /\ chans[i].last # -2
    BY <1>5 DEF IInv
  <2>2. DistinctIds'
    BY <1>3, <2>1 DEF DistinctIds
  <2>3. \A i \in DOMAIN chans' : OwnAddrs(chans[i])' /\ chans'[i].last # -2
    BY <1>3, <2>1 DEF OwnAddrs, Owner
  <2> QED
    BY <2>1, <2>2, <2>3
<1> QED
  BY <1>3, <1>4, <1>5 DEF IInv

(***************************************************************************)
(* A step that adds a sound channel at the end, for a peer without one     *)
(* and with that peer's addresses, keeps the invariant.                    *)
(***************************************************************************)
LEMMA AppendKeepsIInv ==
  ASSUME IInv, NEW d, Sound(d), d.id \in Peers, ~Has(d.id),
         Range(d.addrs) \subseteq Addresses(d.id), d.last # -2,
         chans' = Append(chans, d),
         known' \subseteq Peers, UNCHANGED <<preset, clash, undef>>
  PROVE  IInv'
<1>1. PICK n \in Nat : n = Len(chans) /\ DOMAIN chans = 1 .. n
  BY DEF IInv
<1>2. d \in Channels
  BY DEF Sound
<1>3. /\ chans' \in Seq(Channels) /\ DOMAIN chans' = 1 .. n + 1
      /\ chans'[n + 1] = d /\ \A i \in 1 .. n : chans'[i] = chans[i]
  BY <1>1, <1>2 DEF IInv
<1>4. \A i \in 1 .. n + 1 : i \in 1 .. n \/ i = n + 1
  OBVIOUS
<1>5. \A i \in DOMAIN chans' : Sound(chans'[i])
  BY <1>1, <1>3, <1>4 DEF IInv
<1>6. ASSUME ~clash'
      PROVE  /\ ~undef' /\ DistinctIds'
             /\ \A i \in DOMAIN chans' : OwnAddrs(chans[i])' /\ chans'[i].last # -2
  <2>1. /\ ~clash /\ ~undef /\ DistinctIds
        /\ \A i \in DOMAIN chans : OwnAddrs(chans[i]) /\ chans[i].last # -2
    BY <1>6 DEF IInv
  <2>2. \A i \in 1 .. n : chans[i].id # d.id
    BY <1>1 DEF Has
  <2>3. DistinctIds'
    BY <1>1, <1>3, <1>4, <2>1, <2>2 DEF DistinctIds
  <2>4. d.id # "unset"
    BY MuxAssumption
  <2>5. \A i \in DOMAIN chans' : OwnAddrs(chans[i])' /\ chans'[i].last # -2
    BY <1>1, <1>3, <1>4, <2>1, <2>4 DEF OwnAddrs, Owner
  <2> QED
    BY <2>1, <2>3, <2>5
<1> QED
  BY <1>3, <1>5, <1>6 DEF IInv

(***************************************************************************)
(* The array is empty at first, or holds the channel the configuration     *)
(* gives.                                                                  *)
(***************************************************************************)
LEMMA InitIInv == Init => IInv
<1> SUFFICES ASSUME Init PROVE IInv
  OBVIOUS
<1>1. CASE InitEmpty
  <2>1. << >> \in Seq(Channels) /\ DOMAIN << >> = {}
    OBVIOUS
  <2>2. chans = << >> /\ preset = "none"
    BY <1>1 DEF InitEmpty
  <2> QED
    BY <2>1, <2>2 DEF Init, IInv, DistinctIds
<1>2. CASE InitPreset
  <2>1. PICK p \in Peers : /\ chans = <<NewChannel("unset", [i \in Ports |-> <<p, i>>])>>
                           /\ preset = p
    BY <1>2 DEF InitPreset
  <2>2. PICK addrs : addrs = [i \in Ports |-> <<p, i>>]
    OBVIOUS
  <2>3. /\ addrs \in Seq(Peers \X Ports) /\ Len(addrs) <= Cardinality(Ports)
        /\ IsInjective(addrs) /\ Range(addrs) \subseteq Addresses(p)
    BY <2>2, AddressFacts
  <2>4. PICK c : c = NewChannel("unset", addrs)
    OBVIOUS
  <2>5. Sound(c)
    BY <2>3, <2>4, NewChannelFacts DEF Ids
  <2>6. c.id = "unset" /\ c.addrs = addrs /\ c.last = -1
    BY <2>4 DEF NewChannel
  <2>7. chans = <<c>> /\ preset = p
    BY <2>1, <2>2, <2>4
  <2>8. chans \in Seq(Channels) /\ DOMAIN chans = {1} /\ chans[1] = c
    BY <2>5, <2>7 DEF Sound
  <2>9. OwnAddrs(c) /\ c.last # -2
    BY <2>3, <2>6, <2>7 DEF OwnAddrs, Owner
  <2> QED
    BY <2>5, <2>7, <2>8, <2>9 DEF Init, IInv, DistinctIds
<1> QED
  BY <1>1, <1>2 DEF Init

(***************************************************************************)
(* redundancy_mux_send marks the channel of the peer as used.              *)
(***************************************************************************)
LEMMA MuxSendIInv ==
  ASSUME IInv, NEW p \in Peers, MuxSend(p) PROVE IInv'
<1>1. PICK g \in DOMAIN chans : g = GetChannel(p) /\ chans[g].id = p
  BY GetChannelFacts DEF MuxSend, IInv
<1>2. PICK d : d = [chans[g] EXCEPT !.tx = TRUE]
  OBVIOUS
<1>3. Sound(chans[g]) /\ chans[g] \in Channels
  BY DEF IInv, Sound
<1>4. /\ d \in Channels /\ d.id = chans[g].id /\ d.addrs = chans[g].addrs
      /\ d.rx = chans[g].rx /\ d.defer_q = chans[g].defer_q
      /\ d.fifo_recv = chans[g].fifo_recv /\ d.last = chans[g].last
  BY <1>2, <1>3 DEF Channels
<1>5. Sound(d)
  BY <1>3, <1>4 DEF Sound, Fits, Increasing
<1>6. ~clash => OwnAddrs(d) /\ d.last # -2
  BY <1>4 DEF IInv, OwnAddrs, Owner
<1>7. chans' = [chans EXCEPT ![g] = d]
  BY <1>1, <1>2 DEF MuxSend
<1> QED
  BY <1>1, <1>4, <1>5, <1>6, <1>7, UpdateKeepsIInv DEF MuxSend, IInv

(***************************************************************************)
(* A PDU finds the channel of its sender or makes one.                     *)
(***************************************************************************)
LEMMA ReceiveIInv ==
  ASSUME IInv, NEW p \in Peers, NEW seq \in Seqs, NEW port \in Ports,
         ReceivePacket(p, seq, port)
  PROVE  IInv'
<1> DEFINE addr == <<p, port>>
<1>1. addr \in Peers \X Ports /\ addr \in Addresses(p)
  BY AddressFacts
<1>2. CASE Has(p)
  <2>1. PICK g \in DOMAIN chans : g = GetChannel(p) /\ chans[g].id = p
    BY <1>2, GetChannelFacts DEF IInv
  <2>2. PICK c : c = Discover(chans[g], addr)
    OBVIOUS
  <2>3. PICK d : d = FReceive(c, seq)
    OBVIOUS
  <2>4. Sound(chans[g])
    BY DEF IInv
  <2>5. /\ Sound(c) /\ c.id = p /\ c.last = chans[g].last
        /\ Range(c.addrs) \subseteq Range(chans[g].addrs) \cup {addr}
    BY <1>1, <2>1, <2>2, <2>4, DiscoverFacts
  <2>6. Sound(d) /\ d.id = c.id /\ d.addrs = c.addrs /\ d.last = c.last
    BY <2>3, <2>5, FReceiveFacts
  <2>7. ~clash => OwnAddrs(d) /\ d.last # -2
    BY <1>1, <2>1, <2>5, <2>6, MuxAssumption DEF IInv, OwnAddrs, Owner
  <2>8. chans' = [chans EXCEPT ![g] = d]
    BY <1>2, <2>1, <2>2, <2>3 DEF ReceivePacket
  <2> QED
    BY <2>1, <2>5, <2>6, <2>7, <2>8, UpdateKeepsIInv DEF ReceivePacket, IInv
<1>3. CASE ~Has(p)
  <2>1. PICK c : c = NewChannel(p, <<addr>>)
    OBVIOUS
  <2>2. PICK d : d = FReceive(c, seq)
    OBVIOUS
  <2>3. PICK addrs : addrs = <<addr>>
    OBVIOUS
  <2>4. /\ addrs \in Seq(Peers \X Ports) /\ Len(addrs) <= Cardinality(Ports)
        /\ IsInjective(addrs) /\ Range(addrs) \subseteq Addresses(p)
    BY <2>3, AddressFacts
  <2>5. Sound(c) /\ c.id = p /\ c.addrs = addrs /\ c.last = -1
    BY <2>1, <2>3, <2>4, NewChannelFacts DEF Ids, NewChannel
  <2>6. Sound(d) /\ d.id = p /\ d.addrs = addrs /\ d.last # -2
    BY <2>2, <2>5, FReceiveFacts
  <2>7. chans' = Append(chans, d)
    BY <1>3, <2>1, <2>2 DEF ReceivePacket
  <2> QED
    BY <1>3, <2>4, <2>6, <2>7, AppendKeepsIInv DEF ReceivePacket, IInv
<1> QED
  BY <1>2, <1>3

(***************************************************************************)
(* redundancy_mux_try_retrieve_all.  With distinct ids the lookup by id    *)
(* finds the channel found by index, which has a PDU.                      *)
(***************************************************************************)
LEMMA RetrieveIInv ==
  ASSUME IInv, TryRetrieveAll PROVE IInv'
<1>1. PICK i \in DOMAIN chans :
        /\ chans[i].fifo_recv # << >>
        /\ LET c == GetChannel(chans[i].id)
           IN IF chans[c].fifo_recv = << >>
              THEN undef' = TRUE /\ UNCHANGED <<chans, known>>
              ELSE /\ chans' = [chans EXCEPT ![c] = RetrieveFrom(@)]
                   /\ known' \in {known, known \cup ({chans[i].id} \ {"unset"})}
                   /\ UNCHANGED undef
        /\ UNCHANGED <<preset, clash>>
  BY DEF TryRetrieveAll
<1>2. PICK g \in DOMAIN chans : g = GetChannel(chans[i].id) /\ chans[g].id = chans[i].id
  BY GetChannelFacts DEF IInv, Has
<1>3. Sound(chans[g]) /\ Sound(chans[i])
  BY DEF IInv
<1>4. CASE chans[g].fifo_recv = << >>
  <2>1. g # i
    BY <1>1, <1>4
  <2>2. clash
    BY <1>2, <2>1 DEF IInv, DistinctIds
  <2> QED
    BY <1>1, <1>2, <1>4, <2>2 DEF IInv
<1>5. CASE chans[g].fifo_recv # << >>
  <2>1. PICK d : d = RetrieveFrom(chans[g])
    OBVIOUS
  <2>2. Sound(d) /\ d.id = chans[g].id /\ d.addrs = chans[g].addrs /\ d.last # -2
    BY <1>3, <1>5, <2>1, RetrieveFacts
  <2>3. ~clash => OwnAddrs(d) /\ d.last # -2
    BY <2>2 DEF IInv, OwnAddrs, Owner
  <2>4. chans' = [chans EXCEPT ![g] = d] /\ UNCHANGED <<preset, clash, undef>>
    BY <1>1, <1>2, <1>5, <2>1
  <2>5. known' \subseteq Peers
    <3>1. chans[i].id \in Peers \cup {"unset"}
      BY <1>3 DEF Sound, Channels, Ids
    <3>2. known' \in {known, known \cup ({chans[i].id} \ {"unset"})}
      BY <1>1, <1>2, <1>5
    <3> QED
      BY <3>1, <3>2 DEF IInv
  <2> QED
    BY <2>2, <2>3, <2>4, <2>5, UpdateKeepsIInv
<1> QED
  BY <1>4, <1>5

(***************************************************************************)
(* A channel stays sound whatever id it gets.                              *)
(***************************************************************************)
LEMMA SetIdFacts ==
  ASSUME NEW c, Sound(c), NEW d, d \in Channels, d.addrs = c.addrs, d.rx = c.rx,
         d.defer_q = c.defer_q, d.fifo_recv = c.fifo_recv, d.last = c.last
  PROVE  Sound(d)
BY DEF Sound, Fits, Increasing

(***************************************************************************)
(* sr_connect: the only one to add a channel beside others, which it then  *)
(* renames the first of.                                                   *)
(***************************************************************************)
LEMMA SrConnectIInv ==
  ASSUME IInv, NEW p \in Peers, SrConnect(p) PROVE IInv'
<1> DEFINE addrs == [i \in Ports |-> <<p, i>>]
<1>1. PICK n \in Nat : n = Len(chans) /\ DOMAIN chans = 1 .. n
  BY DEF IInv
<1>2. PICK c : c = NewChannel(p, addrs)
  OBVIOUS
<1>3. /\ Sound(c) /\ c.id = p /\ c.addrs = addrs /\ c.last = -1
      /\ Range(addrs) \subseteq Addresses(p)
  BY <1>2, AddressFacts, NewChannelFacts DEF Ids, NewChannel
<1>4. PICK cs : cs = Append(chans, c)
  OBVIOUS
<1>5. /\ cs \in Seq(Channels) /\ DOMAIN cs = 1 .. n + 1
      /\ cs[n + 1] = c /\ \A i \in 1 .. n : cs[i] = chans[i]
  BY <1>1, <1>3, <1>4 DEF IInv, Sound
<1>6. \A i \in 1 .. n + 1 : i \in 1 .. n \/ i = n + 1
  OBVIOUS
<1>7. \A i \in DOMAIN cs : Sound(cs[i])
  BY <1>1, <1>3, <1>5, <1>6 DEF IInv
<1>8. PICK d : d = [cs[1] EXCEPT !.id = p, !.tx = TRUE]
  OBVIOUS
<1>9. Sound(d) /\ d.id = p /\ d.addrs = cs[1].addrs /\ d.last = cs[1].last
  <2>1. Sound(cs[1]) /\ cs[1] \in Channels /\ p \in Ids
    BY <1>5, <1>7 DEF Sound, Ids
  <2>2. /\ d \in Channels /\ d.id = p /\ d.addrs = cs[1].addrs
        /\ d.rx = cs[1].rx /\ d.defer_q = cs[1].defer_q
        /\ d.fifo_recv = cs[1].fifo_recv /\ d.last = cs[1].last
    BY <1>8, <2>1 DEF Channels
  <2> QED
    BY <2>1, <2>2, SetIdFacts
<1>10. chans' = [cs EXCEPT ![1] = d]
  <2>1. cs = AddChannel(p) /\ cs # << >>
    BY <1>2, <1>4, <1>5 DEF AddChannel
  <2>2. PICK dd : dd = SetConfigId(cs, p)
    OBVIOUS
  <2>3. dd = [cs EXCEPT ![1].id = p]
    BY <2>1, <2>2 DEF SetConfigId
  <2>4. chans' = [dd EXCEPT ![1].tx = TRUE]
    BY <2>1, <2>2 DEF SrConnect
  <2>5. dd[1] = [cs[1] EXCEPT !.id = p]
    BY <1>5, <2>3
  <2> QED
    BY <1>5, <1>8, <2>3, <2>4, <2>5
<1>11. /\ chans' \in Seq(Channels) /\ DOMAIN chans' = 1 .. n + 1 /\ chans'[1] = d
       /\ \A i \in 1 .. n + 1 : i # 1 => chans'[i] = cs[i]
  BY <1>5, <1>9, <1>10 DEF Sound
<1>12. \A i \in DOMAIN chans' : Sound(chans'[i])
  BY <1>5, <1>7, <1>9, <1>11
<1>13. ASSUME ~clash'
       PROVE  /\ ~undef' /\ DistinctIds'
              /\ \A i \in DOMAIN chans' : OwnAddrs(chans[i])' /\ chans'[i].last # -2
  <2>1. ~clash /\ chans = << >> /\ ~undef
    BY <1>13 DEF SrConnect, IInv
  <2>2. n = 0 /\ cs[1] = c
    BY <1>1, <1>5, <2>1
  <2>3. DOMAIN chans' = {1}
    BY <1>11, <2>2
  <2>4. p # "unset"
    BY MuxAssumption
  <2>5. OwnAddrs(chans[1])' /\ chans'[1].last # -2
    BY <1>3, <1>9, <1>11, <2>2, <2>4 DEF OwnAddrs, Owner
  <2> QED
    BY <2>1, <2>3, <2>5 DEF DistinctIds, SrConnect
<1> QED
  BY <1>11, <1>12, <1>13 DEF IInv, SrConnect

(***************************************************************************)
(* redundancy_mux_set_config_id, on the channel that was configured unless *)
(* it clashes.                                                             *)
(***************************************************************************)
LEMMA ConfigIdIInv ==
  ASSUME IInv, NEW p \in Peers, ConfigId(p) PROVE IInv'
<1>1. PICK n \in Nat : n = Len(chans) /\ DOMAIN chans = 1 .. n
  BY DEF IInv
<1>2. CASE chans = << >>
  <2>1. chans' = chans /\ clash' = clash
    BY <1>2 DEF ConfigId, SetConfigId, IInv
  <2> QED
    BY <2>1 DEF ConfigId, IInv, DistinctIds, OwnAddrs, Owner
<1>3. CASE chans # << >>
  <2>1. 1 \in DOMAIN chans /\ Sound(chans[1]) /\ chans[1] \in Channels
    BY <1>1, <1>3 DEF IInv, Sound
  <2>2. PICK d : d = [chans[1] EXCEPT !.id = p]
    OBVIOUS
  <2>3. Sound(d) /\ d.id = p /\ d.addrs = chans[1].addrs /\ d.last = chans[1].last
    <3>1. /\ d \in Channels /\ d.id = p /\ d.addrs = chans[1].addrs
          /\ d.rx = chans[1].rx /\ d.defer_q = chans[1].defer_q
          /\ d.fifo_recv = chans[1].fifo_recv /\ d.last = chans[1].last
      BY <2>1, <2>2 DEF Channels, Ids
    <3> QED
      BY <2>1, <3>1, SetIdFacts
  <2>4. chans' = [chans EXCEPT ![1] = d]
    BY <1>3, <2>2 DEF ConfigId, SetConfigId
  <2>5. /\ chans' \in Seq(Channels) /\ DOMAIN chans' = DOMAIN chans /\ chans'[1] = d
        /\ \A i \in DOMAIN chans : i # 1 => chans'[i] = chans[i]
    BY <2>1, <2>3, <2>4 DEF IInv, Sound
  <2>6. \A i \in DOMAIN chans' : Sound(chans'[i])
    BY <2>3, <2>5 DEF IInv
  <2>7. ASSUME ~clash'
        PROVE  /\ ~undef' /\ DistinctIds'
               /\ \A i \in DOMAIN chans' : OwnAddrs(chans[i])' /\ chans'[i].last # -2
    <3>1. ~clash /\ chans[1].id = "unset" /\ ~Has(p)
      BY <1>3, <2>7 DEF ConfigId
    <3>2. /\ ~undef /\ DistinctIds
          /\ \A i \in DOMAIN chans : OwnAddrs(chans[i]) /\ chans[i].last # -2
      BY <3>1 DEF IInv
    <3>3. DistinctIds'
      BY <2>3, <2>5, <3>1, <3>2 DEF DistinctIds, Has
    <3>4. p # "unset" /\ p = preset /\ preset' = preset
      BY MuxAssumption DEF ConfigId
    <3>5. \A i \in DOMAIN chans' : OwnAddrs(chans[i])' /\ chans'[i].last # -2
      BY <2>1, <2>3, <2>5, <3>1, <3>2, <3>4 DEF OwnAddrs, Owner
    <3> QED
      BY <3>2, <3>3, <3>5 DEF ConfigId
  <2>8. clash' \in BOOLEAN /\ known' \subseteq Peers
    BY DEF ConfigId, IInv
  <2> QED
    BY <2>5, <2>6, <2>7, <2>8 DEF IInv, ConfigId
<1> QED
  BY <1>2, <1>3

(***************************************************************************)
(* redundancy_mux_remove_channel leaves sound channels; with distinct ids  *)
(* they are the others, and no unwritten slot is among them.               *)
(***************************************************************************)
LEMMA CloseIInv ==
  ASSUME IInv, NEW p \in Peers, Close(p) PROVE IInv'
<1>1. PICK n \in Nat \ {0} : n = Len(chans) /\ DOMAIN chans = 1 .. n
  BY DEF IInv, Close, Has
<1>2. /\ chans' \in Seq(Channels) /\ DOMAIN chans' = 1 .. n - 1
      /\ \A j \in 1 .. n - 1 :
           chans'[j] = Unwritten \/ \E k \in DOMAIN chans : chans'[j] = chans[k]
      /\ \A x \in DOMAIN chans : DistinctIds /\ chans[x].id = p =>
           \A j \in 1 .. n - 1 : chans'[j] = chans[IF j < x THEN j ELSE j + 1]
  BY <1>1, RemoveChannelFacts DEF Close, IInv
<1>3. \A j \in DOMAIN chans' : Sound(chans'[j])
  BY <1>2, UnwrittenFacts DEF IInv
<1>4. ASSUME ~clash'
      PROVE  /\ ~undef' /\ DistinctIds'
             /\ \A j \in DOMAIN chans' : OwnAddrs(chans[j])' /\ chans'[j].last # -2
  <2>1. /\ ~clash /\ ~undef /\ DistinctIds
        /\ \A i \in DOMAIN chans : OwnAddrs(chans[i]) /\ chans[i].last # -2
    BY <1>4 DEF Close, IInv
  <2>2. PICK x \in DOMAIN chans : chans[x].id = p
    BY DEF Close, Has
  <2>3. PICK old : old = [j \in 1 .. n - 1 |-> IF j < x THEN j ELSE j + 1]
    OBVIOUS
  <2>4. /\ \A j \in DOMAIN chans' : old[j] \in DOMAIN chans /\ chans'[j] = chans[old[j]]
        /\ \A i, j \in DOMAIN chans' : old[i] = old[j] => i = j
    <3>1. \A j \in 1 .. n - 1 : chans'[j] = chans[IF j < x THEN j ELSE j + 1]
      BY <1>2, <2>1, <2>2
    <3>2. \A j \in 1 .. n - 1 : chans'[j] = chans[old[j]]
      BY <2>3, <3>1
    <3>3. \A j \in 1 .. n - 1 : old[j] \in 1 .. n
      BY <1>1, <2>3
    <3>4. \A i, j \in 1 .. n - 1 : old[i] = old[j] => i = j
      BY <1>1, <2>3
    <3> QED
      BY <1>1, <1>2, <3>2, <3>3, <3>4
  <2>5. DistinctIds'
    BY <2>1, <2>4 DEF DistinctIds
  <2>6. \A j \in DOMAIN chans' : OwnAddrs(chans[j])' /\ chans'[j].last # -2
    BY <2>1, <2>4 DEF OwnAddrs, Owner, Close
  <2>7. Unwritten \notin Range(chans')
    BY <2>6, UnwrittenFacts DEF Range
  <2> QED
    BY <2>1, <2>5, <2>6, <2>7 DEF Close
<1>5. undef' \in BOOLEAN
  BY DEF Close, IInv
<1> QED
  BY <1>2, <1>3, <1>4, <1>5 DEF IInv, Close

(***************************************************************************)
(* The invariant is inductive.                                             *)
(***************************************************************************)
LEMMA NextIInv == IInv /\ [Next]_vars => IInv'
<1> SUFFICES ASSUME IInv, [Next]_vars PROVE IInv'
  OBVIOUS
<1>1. ASSUME NEW p \in Peers, MuxSend(p) PROVE IInv'
  BY <1>1, MuxSendIInv
<1>2. ASSUME NEW p \in Peers, Close(p) PROVE IInv'
  BY <1>2, CloseIInv
<1>3. ASSUME NEW p \in Peers, SrConnect(p) PROVE IInv'
  BY <1>3, SrConnectIInv
<1>4. ASSUME NEW p \in Peers, ConfigId(p) PROVE IInv'
  BY <1>4, ConfigIdIInv
<1>5. ASSUME NEW p \in Peers, NEW seq \in 0 .. MaxSeq - 1, NEW port \in Ports,
             ReceiveEvent(p, seq, port)
      PROVE  IInv'
  BY <1>5, ReceiveIInv DEF ReceiveEvent, Seqs
<1>6. CASE TryRetrieveAll
  BY <1>6, RetrieveIInv
<1>7. CASE UNCHANGED vars
  BY <1>7 DEF vars, IInv, DistinctIds, OwnAddrs, Owner
<1> QED
  BY <1>1, <1>2, <1>3, <1>4, <1>5, <1>6, <1>7 DEF Next

(***************************************************************************)
(* The invariant holds, and with it the properties that are a part of it.  *)
(***************************************************************************)
THEOREM Invariance == Spec => []IInv
<1>1. Init => IInv
  BY InitIInv
<1>2. IInv /\ [Next]_vars => IInv'
  BY NextIInv
<1> QED
  BY <1>1, <1>2, PTL DEF Spec

-----------------------------------------------------------------------------
(***************************************************************************)
(* The array of channels and every channel in it keep their types and      *)
(* bounds, also when ids were mixed up and a slot nobody wrote is in it.   *)
(***************************************************************************)
THEOREM TypeCorrect == Spec => []TypeOK
<1>1. IInv => TypeOK
  BY DEF IInv, TypeOK, Sound, Channels, Fits, IsChannel
<1> QED
  BY <1>1, Invariance, PTL

(***************************************************************************)
(* As long as no id was set on somebody else's channel, a PDU for a peer   *)
(* goes to addresses of that peer, to each once.                           *)
(***************************************************************************)
THEOREM Routing == Spec => []RoutedRight
<1>1. IInv => RoutedRight
  <2>1. ASSUME IInv, ~clash, NEW p \in Peers, Has(p)
        PROVE  /\ IsInjective(chans[GetChannel(p)].addrs)
               /\ Range(chans[GetChannel(p)].addrs) \subseteq Addresses(p)
    <3>1. GetChannel(p) \in DOMAIN chans /\ chans[GetChannel(p)].id = p
      BY <2>1, GetChannelFacts DEF IInv
    <3>2. p # "unset"
      BY MuxAssumption
    <3> QED
      BY <2>1, <3>1, <3>2 DEF IInv, Sound, OwnAddrs, Owner
  <2> QED
    BY <2>1 DEF RoutedRight, SentToReceiver
<1> QED
  BY <1>1, Invariance, PTL

(***************************************************************************)
(* Under the same condition a peer has one channel, and no slot of the     *)
(* array is read that nobody has written.                                  *)
(***************************************************************************)
THEOREM OneChannel == Spec => []OneChannelPerPeer
<1>1. IInv => OneChannelPerPeer
  BY DEF IInv, OneChannelPerPeer, DistinctIds
<1> QED
  BY <1>1, Invariance, PTL

(***************************************************************************)
(* Every channel hands up increasing numbers and defers only what is ahead *)
(* of them, without any condition.                                         *)
(***************************************************************************)
THEOREM Ordering == Spec => []HandedInOrder
<1>1. IInv => HandedInOrder
  BY DEF IInv, Sound, Increasing, HandedInOrder
<1> QED
  BY <1>1, Invariance, PTL

-----------------------------------------------------------------------------
ByIdAlone ==
  \A r : /\ \A i \in DOMAIN chans : chans[i].id = r => ChannelOf(r) = chans[i]
         /\ (\A i \in DOMAIN chans : chans[i].id # r) => ChannelOf(r) = Unwritten

(***************************************************************************)
(* With distinct ids a peer's channel is the one that has its id, before   *)
(* and after a step.                                                       *)
(***************************************************************************)
LEMMA ChannelOfFacts == IInv /\ DistinctIds => ByIdAlone
<1> SUFFICES ASSUME IInv, DistinctIds, NEW r
             PROVE  /\ \A i \in DOMAIN chans : chans[i].id = r => ChannelOf(r) = chans[i]
                    /\ (\A i \in DOMAIN chans : chans[i].id # r)
                         => ChannelOf(r) = Unwritten
  BY DEF ByIdAlone
<1>1. ASSUME NEW i \in DOMAIN chans, chans[i].id = r PROVE ChannelOf(r) = chans[i]
  <2>1. Has(r)
    BY <1>1 DEF Has
  <2>2. GetChannel(r) \in DOMAIN chans /\ chans[GetChannel(r)].id = r
    BY <2>1, GetChannelFacts DEF IInv
  <2> QED
    BY <1>1, <2>1, <2>2 DEF ChannelOf, DistinctIds
<1> QED
  BY <1>1 DEF ChannelOf, Has

(***************************************************************************)
(* The same after a step.                                                  *)
(***************************************************************************)
LEMMA ChannelOfFactsNext == IInv' /\ DistinctIds' => ByIdAlone'
BY ChannelOfFacts, PTL

(***************************************************************************)
(* A step that keeps ids distinct, and with an id other than p's the same  *)
(* channels in the array, changes the channel of no other peer.            *)
(***************************************************************************)
LEMMA OthersUntouched ==
  ASSUME IInv, IInv', DistinctIds, DistinctIds', NEW p, NEW r, r # p,
         \A i \in DOMAIN chans : chans[i].id # p =>
           \E j \in DOMAIN chans' : chans'[j] = chans[i],
         \A j \in DOMAIN chans' : chans'[j].id # p =>
           \E i \in DOMAIN chans : chans'[j] = chans[i]
  PROVE  ChannelOf(r)' = ChannelOf(r)
<1>1. /\ \A i \in DOMAIN chans' : chans'[i].id = r => ChannelOf(r)' = chans'[i]
      /\ (\A i \in DOMAIN chans' : chans'[i].id # r) => ChannelOf(r)' = Unwritten
  <2>1. Unwritten' = Unwritten
    BY DEF Unwritten, NewChannel
  <2> QED
    BY <2>1, ChannelOfFactsNext DEF ByIdAlone
<1>2. CASE \E i \in DOMAIN chans : chans[i].id = r
  BY <1>1, <1>2, ChannelOfFacts DEF ByIdAlone
<1>3. CASE \A i \in DOMAIN chans : chans[i].id # r
  BY <1>1, <1>3, ChannelOfFacts DEF ByIdAlone
<1> QED
  BY <1>2, <1>3

(***************************************************************************)
(* What is sent to, closed for or received from a peer leaves the channel  *)
(* of every other as it is, as long as ids are not mixed up.               *)
(***************************************************************************)
THEOREM PeersAreIsolated == Spec => Isolation
<1> DEFINE Step(p) == MuxSend(p) \/ Close(p) \/ \E seq \in Seqs, port \in Ports : ReceiveEvent(p, seq, port)
<1>1. ASSUME IInv, NEW p \in Peers, ~clash, Step(p), NEW r \in Peers \ {p}
      PROVE  ChannelOf(r)' = ChannelOf(r)
  <2>1. IInv'
    BY <1>1, MuxSendIInv, CloseIInv, ReceiveIInv DEF ReceiveEvent
  <2>2. ~clash' /\ DistinctIds /\ DistinctIds'
    BY <1>1, <2>1 DEF IInv, MuxSend, Close, ReceiveEvent, ReceivePacket
  <2>3. PICK n \in Nat : n = Len(chans) /\ DOMAIN chans = 1 .. n
    BY <1>1 DEF IInv
  <2> DEFINE OthersKept ==
               /\ \A i \in DOMAIN chans : chans[i].id # p =>
                    \E j \in DOMAIN chans' : chans'[j] = chans[i]
               /\ \A j \in DOMAIN chans' : chans'[j].id # p =>
                    \E i \in DOMAIN chans : chans'[j] = chans[i]
  <2>4. OthersKept
    <3>1. ASSUME NEW g \in DOMAIN chans, chans[g].id = p, NEW d, d.id = p,
                 chans' = [chans EXCEPT ![g] = d]
          PROVE  OthersKept
      <4>1. /\ DOMAIN chans' = DOMAIN chans /\ chans'[g] = d
            /\ \A i \in DOMAIN chans : i # g => chans'[i] = chans[i]
        BY <1>1, <3>1 DEF IInv
      <4> QED
        BY <3>1, <4>1
    <3>2. ASSUME NEW d, d \in Channels, d.id = p, chans' = Append(chans, d)
          PROVE  OthersKept
      <4>1. /\ DOMAIN chans' = 1 .. n + 1 /\ chans'[n + 1] = d
            /\ \A i \in 1 .. n : chans'[i] = chans[i]
        BY <1>1, <2>3, <3>2 DEF IInv
      <4> QED
        BY <2>3, <3>2, <4>1
    <3>3. CASE MuxSend(p)
      <4>1. PICK g \in DOMAIN chans : g = GetChannel(p) /\ chans[g].id = p
        BY <1>1, <3>3, GetChannelFacts DEF MuxSend, IInv
      <4>2. PICK d : d = [chans[g] EXCEPT !.tx = TRUE]
        OBVIOUS
      <4>3. d.id = p
        BY <1>1, <4>1, <4>2 DEF IInv, Sound, Channels
      <4>4. chans' = [chans EXCEPT ![g] = d]
        BY <3>3, <4>1, <4>2 DEF MuxSend
      <4> QED
        BY <3>1, <4>1, <4>3, <4>4
    <3>4. CASE Close(p)
      <4>1. PICK x \in DOMAIN chans : chans[x].id = p
        BY <3>4 DEF Close, Has
      <4>2. /\ DOMAIN chans' = 1 .. n - 1
            /\ \A j \in 1 .. n - 1 : chans'[j] = chans[IF j < x THEN j ELSE j + 1]
        BY <1>1, <2>2, <2>3, <3>4, <4>1, RemoveChannelFacts DEF Close, IInv
      <4>3. ASSUME NEW i \in 1 .. n, i # x
            PROVE  \E j \in 1 .. n - 1 : chans'[j] = chans[i]
        <5>1. CASE i < x
          BY <2>3, <4>2, <5>1
        <5>2. CASE i > x
          <6>1. i - 1 \in 1 .. n - 1 /\ ~(i - 1 < x) /\ (i - 1) + 1 = i
            BY <2>3, <5>2
          <6> QED
            BY <4>2, <6>1
        <5> QED
          BY <2>3, <4>3, <5>1, <5>2
      <4>4. ASSUME NEW j \in 1 .. n - 1
            PROVE  \E i \in 1 .. n : chans'[j] = chans[i]
        BY <2>3, <4>2
      <4> QED
        BY <2>3, <4>1, <4>2, <4>3, <4>4
    <3>5. ASSUME NEW seq \in Seqs, NEW port \in Ports, ReceivePacket(p, seq, port)
          PROVE  OthersKept
      <4>1. PICK addr : addr = <<p, port>>
        OBVIOUS
      <4>2. addr \in Peers \X Ports
        BY <4>1
      <4>3. CASE Has(p)
        <5>1. PICK g \in DOMAIN chans : g = GetChannel(p) /\ chans[g].id = p
          BY <1>1, <4>3, GetChannelFacts DEF IInv
        <5>2. PICK c : c = Discover(chans[g], addr)
          OBVIOUS
        <5>3. PICK d : d = FReceive(c, seq)
          OBVIOUS
        <5>4. Sound(c) /\ c.id = p
          BY <1>1, <4>2, <5>1, <5>2, DiscoverFacts DEF IInv
        <5>5. d.id = p
          BY <5>3, <5>4, FReceiveFacts
        <5>6. chans' = [chans EXCEPT ![g] = d]
          BY <3>5, <4>1, <4>3, <5>1, <5>2, <5>3 DEF ReceivePacket
        <5> QED
          BY <3>1, <5>1, <5>5, <5>6
      <4>4. CASE ~Has(p)
        <5>1. PICK c : c = NewChannel(p, <<addr>>)
          OBVIOUS
        <5>2. PICK d : d = FReceive(c, seq)
          OBVIOUS
        <5>3. PICK addrs : addrs = <<addr>>
          OBVIOUS
        <5>4. /\ addrs \in Seq(Peers \X Ports) /\ Len(addrs) <= Cardinality(Ports)
              /\ IsInjective(addrs)
          BY <4>1, <5>3, AddressFacts
        <5>5. Sound(c) /\ c.id = p
          BY <5>1, <5>3, <5>4, NewChannelFacts DEF Ids, NewChannel
        <5>6. d \in Channels /\ d.id = p
          BY <5>2, <5>5, FReceiveFacts DEF Sound
        <5>7. chans' = Append(chans, d)
          BY <3>5, <4>1, <4>4, <5>1, <5>2 DEF ReceivePacket
        <5> QED
          BY <3>2, <5>6, <5>7
      <4> QED
        BY <4>3, <4>4
    <3> QED
      BY <1>1, <3>3, <3>4, <3>5 DEF ReceiveEvent
  <2> QED
    BY <1>1, <2>1, <2>2, <2>4, OthersUntouched
<1>2. IInv =>
        \A p \in Peers :
          /\ ~clash
          /\ MuxSend(p) \/ Close(p) \/ \E seq \in Seqs, port \in Ports : ReceiveEvent(p, seq, port)
          => \A r \in Peers \ {p} : ChannelOf(r)' = ChannelOf(r)
  BY <1>1
<1> QED
  BY <1>2, Invariance, PTL DEF Isolation
=============================================================================
