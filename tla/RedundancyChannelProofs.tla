----------------------- MODULE RedundancyChannelProofs -----------------------
(***************************************************************************)
(* Proofs about RedundancyChannel: for every number of transport channels, *)
(* every defer queue size, every window and every number of PDUs sent,     *)
(* provided the slots of a new queue hold zeros.                           *)
(***************************************************************************)
EXTENDS RedundancyChannel, SetInduction

Queues == [elements : [Slots -> Nat], count : 0 .. NDefer]

(***************************************************************************)
(* A slot out of use holds a number that was passed, the initial zero, or  *)
(* a second copy of an element in use: never one that is still to come.    *)
(***************************************************************************)
StaleSlots ==
  \A i \in defer_q.count + 1 .. NDefer :
    \/ defer_q.elements[i] < seq_rx
    \/ defer_q.elements[i] = 0
    \/ defer_q.elements[i] \in Live(defer_q)

(***************************************************************************)
(* The inductive invariant.                                                *)
(***************************************************************************)
IInv ==
  /\ TypeOK
  /\ seq_rx <= peer_tx
  /\ \A t \in Transports : wire[t] \subseteq 0 .. peer_tx - 1
  /\ Len(fifo_recv) <= NDefer
  /\ DeferredAhead
  /\ StaleSlots
  /\ DeliveredInOrder
  /\ NothingSkipped

-----------------------------------------------------------------------------
(***************************************************************************)
(* A lookup that hits an element in use finds the slot it is in: no slot   *)
(* before it holds the same number.                                        *)
(***************************************************************************)
LEMMA IndexOfLive ==
  ASSUME NEW q \in Queues, NEW i \in 1 .. q.count,
         \A j, k \in 1 .. q.count : q.elements[j] = q.elements[k] => j = k
  PROVE  Contains(q, q.elements[i]) /\ IndexOf(q, q.elements[i]) = i
<1>1. /\ q.count \in 0 .. NDefer /\ NDefer \in Nat
      /\ i \in Slots
  BY NDeferAssumption DEF Queues, Slots
<1>2. \A j \in 1 .. i - 1 : q.elements[j] # q.elements[i]
  BY <1>1
<1>3. ASSUME NEW k \in Slots, q.elements[k] = q.elements[i],
             \A j \in 1 .. k - 1 : q.elements[j] # q.elements[i]
      PROVE  k = i
  <2>1. ~(i < k)
    BY <1>1, <1>3 DEF Slots
  <2>2. k \in 1 .. q.count
    BY <1>1, <2>1 DEF Slots
  <2> QED
    BY <1>3, <2>2
<1> QED
  BY <1>1, <1>2, <1>3 DEF Contains, IndexOf

(***************************************************************************)
(* What deferqueue_remove of an element in use leaves: the others, each in *)
(* one slot; in the slot it frees, a copy of one that was there.           *)
(***************************************************************************)
LEMMA RemoveFacts ==
  ASSUME NEW q \in Queues, NEW s \in Live(q),
         \A i, j \in 1 .. q.count : q.elements[i] = q.elements[j] => i = j
  PROVE  LET r == Remove(q, s)
         IN  /\ r \in Queues
             /\ r.count = q.count - 1
             /\ \A i, j \in 1 .. r.count : r.elements[i] = r.elements[j] => i = j
             /\ Live(r) = Live(q) \ {s}
             /\ r.elements[q.count] \in Live(q)
             /\ \A i \in q.count + 1 .. NDefer : r.elements[i] = q.elements[i]
<1>1. PICK at \in 1 .. q.count : s = q.elements[at]
  BY DEF Live
<1>2. PICK n \in Nat : n = q.count /\ n \in 1 .. NDefer /\ at \in 1 .. n
  BY <1>1, NDeferAssumption DEF Queues
<1>3. PICK e \in [Slots -> Nat] : e = q.elements
  BY DEF Queues
<1>4. Contains(q, s) /\ IndexOf(q, s) = at
  BY <1>1, IndexOfLive
<1>5. PICK r : r = Remove(q, s)
  OBVIOUS
<1>6. /\ r = [elements |-> [j \in Slots |-> IF at <= j /\ j < n THEN e[j + 1] ELSE e[j]],
              count |-> n - 1]
      /\ NDefer \in Nat
  BY <1>2, <1>3, <1>4, <1>5, NDeferAssumption DEF Remove
<1>7. PICK f : f = [j \in Slots |-> IF at <= j /\ j < n THEN e[j + 1] ELSE e[j]]
  OBVIOUS
<1>8. r.elements = f /\ r.count = n - 1 /\ r = [elements |-> f, count |-> n - 1]
  BY <1>6, <1>7
<1>9. /\ \A j \in 1 .. at - 1 : f[j] = e[j]
      /\ \A j \in at .. n - 1 : f[j] = e[j + 1]
      /\ \A j \in n .. NDefer : f[j] = e[j]
  <2>1. at \in Nat /\ 1 <= at /\ at <= n /\ n <= NDefer
    BY <1>2
  <2>2. \A j \in 1 .. NDefer : f[j] = IF at <= j /\ j < n THEN e[j + 1] ELSE e[j]
    BY <1>7 DEF Slots
  <2> QED
    BY <1>6, <2>1, <2>2
<1>10. f \in [Slots -> Nat]
  BY <1>2, <1>6, <1>7 DEF Slots
<1>11. \A i, j \in 1 .. n : e[i] = e[j] => i = j
  BY <1>2, <1>3
<1>12. r \in Queues
  <2>1. n - 1 \in 0 .. NDefer
    BY <1>2, <1>6
  <2> QED
    BY <1>8, <1>10, <2>1 DEF Queues
<1>13. ASSUME NEW i \in 1 .. n - 1, NEW j \in 1 .. n - 1, f[i] = f[j] PROVE i = j
  <2>1. \A k \in 1 .. n - 1 : f[k] = e[IF k < at THEN k ELSE k + 1]
    BY <1>2, <1>9
  <2>2. (IF i < at THEN i ELSE i + 1) = (IF j < at THEN j ELSE j + 1)
    BY <1>2, <1>11, <1>13, <2>1
  <2> QED
    BY <1>2, <2>2
<1>14. Live(q) = {e[i] : i \in 1 .. n} /\ Live(r) = {f[i] : i \in 1 .. n - 1}
  BY <1>2, <1>3, <1>8 DEF Live
<1>15. ASSUME NEW i \in 1 .. n, e[i] # s PROVE \E j \in 1 .. n - 1 : f[j] = e[i]
  <2>1. CASE i < at
    BY <1>2, <1>9, <2>1
  <2>2. CASE i > at
    <3>1. i - 1 \in at .. n - 1 /\ f[i - 1] = e[i]
      BY <1>2, <1>9, <2>2
    <3> QED
      BY <1>2, <3>1
  <2> QED
    BY <1>1, <1>2, <1>3, <1>15, <2>1, <2>2
<1>16. ASSUME NEW j \in 1 .. n - 1 PROVE f[j] # s /\ \E i \in 1 .. n : f[j] = e[i]
  <2>1. CASE j < at
    BY <1>1, <1>2, <1>3, <1>9, <1>11, <2>1
  <2>2. CASE j >= at
    BY <1>1, <1>2, <1>3, <1>9, <1>11, <2>2
  <2> QED
    BY <1>2, <2>1, <2>2
<1>17. Live(r) = Live(q) \ {s}
  BY <1>14, <1>15, <1>16
<1>18. f[n] = e[n] /\ n \in 1 .. n
  BY <1>2, <1>9
<1> QED
  BY <1>2, <1>3, <1>5, <1>8, <1>9, <1>12, <1>13, <1>14, <1>17, <1>18

(***************************************************************************)
(* RemoveRun(q, first, next) is the last element of a sequence that starts *)
(* with q and removes a number in each step.  (Arrays is what Remove is    *)
(* closed under: with nothing in use, its count would go below zero.)      *)
(***************************************************************************)
Arrays == [elements : [Slots -> Nat], count : {c \in Int : c <= NDefer}]

LEMMA RemoveRunRuns ==
  ASSUME NEW q \in Queues, NEW first \in Nat, NEW next \in Nat, first <= next
  PROVE  \E left : /\ left[0] = q
                   /\ \A n \in 1 .. next - first :
                         left[n] = Remove(left[n - 1], first + n - 1)
                   /\ RemoveRun(q, first, next) = left[next - first]
<1> DEFINE N == next - first
           IsRun(f) == f = [n \in 0 .. N |->
                              IF n = 0 THEN q ELSE Remove(f[n - 1], first + n - 1)]
           left == CHOOSE f : IsRun(f)
<1>1. RemoveRun(q, first, next) = left[N]
  BY DEF RemoveRun
<1>2. N \in Nat /\ NDefer \in Nat /\ q \in Arrays
  BY NDeferAssumption DEF Queues, Arrays
<1>3. ASSUME NEW a \in Arrays, NEW s \in Nat PROVE Remove(a, s) \in Arrays
  <2>1. PICK e \in [Slots -> Nat] : e = a.elements
    BY DEF Arrays
  <2>2. PICK c \in Int : c = a.count /\ c <= NDefer
    BY DEF Arrays
  <2>3. PICK at : at = IndexOf(a, s)
    OBVIOUS
  <2>4. PICK f : f = [j \in Slots |-> IF at <= j /\ j < c THEN e[j + 1] ELSE e[j]]
    OBVIOUS
  <2>5. f \in [Slots -> Nat]
    BY <1>2, <2>2, <2>4 DEF Slots
  <2>6. c - 1 \in Int /\ c - 1 <= NDefer
    BY <1>2, <2>2
  <2>7. [elements |-> f, count |-> c - 1] \in Arrays
    BY <2>5, <2>6 DEF Arrays
  <2> QED
    BY <2>1, <2>2, <2>3, <2>4, <2>7 DEF Remove
<1> HIDE DEF N
<1>4. PICK step : step = [x \in (1 .. N) \X Arrays |-> Remove(x[2], first + x[1] - 1)]
  OBVIOUS
<1>5. \A n \in 1 .. N, a \in Arrays : step[<<n, a>>] = Remove(a, first + n - 1)
  BY <1>4
<1>6. step \in [(1 .. N) \X Arrays -> Arrays]
  BY <1>2, <1>3, <1>4
<1>7. PICK run : IsLoop(run, Arrays, N, q, step)
  BY <1>2, <1>6, LoopHasRun
<1>8. /\ run \in [0 .. N -> Arrays] /\ run[0] = q
      /\ \A n \in 1 .. N : run[n] = Remove(run[n - 1], first + n - 1)
  <2>1. /\ run \in [0 .. N -> Arrays] /\ run[0] = q
        /\ \A n \in 1 .. N : run[n] = step[<<n, run[n - 1]>>]
    BY <1>7 DEF IsLoop
  <2>2. \A n \in 1 .. N : run[n - 1] \in Arrays
    BY <1>2, <2>1
  <2> QED
    BY <1>5, <2>1, <2>2
<1>9. IsRun(run)
  BY <1>2, <1>8
<1>10. IsRun(left)
  <2> HIDE DEF IsRun
  <2> QED
    BY <1>9
<1> HIDE DEF left
<1>11. /\ left[0] = q
       /\ \A n \in 1 .. N : left[n] = Remove(left[n - 1], first + n - 1)
  BY <1>2, <1>10
<1> QED
  BY <1>1, <1>11 DEF N

(***************************************************************************)
(* What the loop of deliverDeferQueue leaves in the queue when all it      *)
(* removes is in use and nothing before it: exactly the elements from next *)
(* on, each in one slot; in the slots it frees, copies of elements it had. *)
(***************************************************************************)
LEMMA RemoveRunFacts ==
  ASSUME NEW q \in Queues, NEW first \in Nat, NEW next \in Nat,
         first <= next,
         \A i, j \in 1 .. q.count : q.elements[i] = q.elements[j] => i = j,
         \A s \in Live(q) : s >= first,
         \A s \in first .. next - 1 : s \in Live(q)
  PROVE  LET r == RemoveRun(q, first, next)
         IN  /\ r \in Queues
             /\ r.count <= q.count
             /\ \A i, j \in 1 .. r.count : r.elements[i] = r.elements[j] => i = j
             /\ Live(r) = {s \in Live(q) : s >= next}
             /\ \A i \in r.count + 1 .. q.count : r.elements[i] \in Live(q)
             /\ \A i \in q.count + 1 .. NDefer : r.elements[i] = q.elements[i]
<1> DEFINE N == next - first
           Leaves(r, n) ==
             /\ r \in Queues
             /\ r.count <= q.count
             /\ \A i, j \in 1 .. r.count : r.elements[i] = r.elements[j] => i = j
             /\ Live(r) = {s \in Live(q) : s >= first + n}
             /\ \A i \in r.count + 1 .. q.count : r.elements[i] \in Live(q)
             /\ \A i \in q.count + 1 .. NDefer : r.elements[i] = q.elements[i]
<1>1. PICK left : /\ left[0] = q
                  /\ \A n \in 1 .. N : left[n] = Remove(left[n - 1], first + n - 1)
                  /\ RemoveRun(q, first, next) = left[N]
  BY RemoveRunRuns
<1>2. N \in Nat /\ first + N = next /\ NDefer \in Nat /\ q.count \in 0 .. NDefer
  BY NDeferAssumption DEF Queues
<1>3. \A s \in Live(q) : s \in Nat
  BY <1>2 DEF Live, Queues, Slots
<1> DEFINE S == {n \in 0 .. N : Leaves(left[n], n)}
<1>4. 0 \in S
  <2>1. Live(q) = {s \in Live(q) : s >= first + 0}
    OBVIOUS
  <2> QED
    BY <1>1, <1>2, <2>1
<1>5. ASSUME NEW n \in 0 .. N - 1, n \in S PROVE n + 1 \in S
  <2>1. PICK r : r = left[n]
    OBVIOUS
  <2>2. Leaves(r, n)
    BY <1>5, <2>1
  <2>3. first + n \in Live(q) /\ first + n \in Nat /\ first + n \in Live(r)
    BY <1>2, <2>2 DEF N
  <2>4. PICK u : u = Remove(r, first + n)
    OBVIOUS
  <2>5. /\ u \in Queues
        /\ u.count = r.count - 1
        /\ \A i, j \in 1 .. u.count : u.elements[i] = u.elements[j] => i = j
        /\ Live(u) = Live(r) \ {first + n}
        /\ u.elements[r.count] \in Live(r)
        /\ \A i \in r.count + 1 .. NDefer : u.elements[i] = r.elements[i]
    BY <2>2, <2>3, <2>4, RemoveFacts
  <2>6. u = left[n + 1] /\ n + 1 \in 0 .. N
    <3>1. n + 1 \in 1 .. N /\ (n + 1) - 1 = n /\ first + (n + 1) - 1 = first + n
      BY <1>2
    <3> QED
      BY <1>1, <2>1, <2>4, <3>1
  <2>7. r.count \in 0 .. NDefer /\ u.count \in 0 .. NDefer /\ r.count <= q.count
    BY <2>2, <2>5 DEF Queues
  <2>8. Live(u) = {s \in Live(q) : s >= first + (n + 1)}
    <3>1. \A s \in Live(q) : s >= first + (n + 1) <=> s >= first + n /\ s # first + n
      BY <1>2, <1>3
    <3> QED
      BY <2>2, <2>5, <3>1
  <2>9. ASSUME NEW i \in u.count + 1 .. q.count PROVE u.elements[i] \in Live(q)
    <3>1. CASE i = r.count
      BY <2>2, <2>5, <3>1
    <3>2. CASE i \in r.count + 1 .. q.count
      BY <1>2, <2>2, <2>5, <2>7, <3>2
    <3> QED
      BY <1>2, <2>5, <2>7, <3>1, <3>2
  <2>10. ASSUME NEW i \in q.count + 1 .. NDefer PROVE u.elements[i] = q.elements[i]
    BY <1>2, <2>2, <2>5, <2>7
  <2>11. Leaves(u, n + 1)
    BY <1>2, <2>5, <2>7, <2>8, <2>9, <2>10
  <2> QED
    BY <2>6, <2>11
<1> HIDE DEF S
<1>6. 0 .. N \subseteq S
  BY <1>2, <1>4, <1>5, InductionUpTo
<1>7. Leaves(left[N], N)
  BY <1>2, <1>6 DEF S
<1> QED
  BY <1>1, <1>2, <1>7

(***************************************************************************)
(* What fifo_push leaves in the fifo: what was there, then the new PDUs    *)
(* that fit, in order.                                                     *)
(***************************************************************************)
LEMMA FifoPushFacts ==
  ASSUME NEW fifo \in Seq(Nat), Len(fifo) <= NDefer,
         NEW first \in Nat, NEW next \in Nat, first < next,
         Increasing(fifo), \A s \in Values(fifo) : s < first
  PROVE  LET fits == FifoFits(fifo, first, next)
             push == FifoPush(fifo, first, next)
         IN /\ fits \in first .. next
            /\ push \in Seq(Nat)
            /\ Len(push) <= NDefer
            /\ Increasing(push)
            /\ Values(push) = Values(fifo) \cup (first .. fits - 1)
<1> DEFINE fits == FifoFits(fifo, first, next)
           push == FifoPush(fifo, first, next)
           n == Len(fifo) + (fits - first)
<1>1. /\ Len(fifo) \in Nat /\ NDefer \in Nat
      /\ \A i \in 1 .. Len(fifo) : fifo[i] \in Nat /\ fifo[i] < first
  BY NDeferAssumption DEF Values
<1>2. fits \in first .. next /\ n \in Nat /\ n <= NDefer /\ n >= Len(fifo)
  BY <1>1 DEF FifoFits
<1>3. \A i \in 1 .. n :
        push[i] = IF i <= Len(fifo) THEN fifo[i]
                  ELSE first + (i - Len(fifo) - 1)
  BY DEF FifoPush
<1> HIDE DEF fits
<1>4. \A i \in 1 .. n : push[i] \in Nat
  BY <1>1, <1>2, <1>3
<1>5. push \in [1 .. n -> Nat]
  BY <1>4 DEF FifoPush, fits
<1>6. push \in Seq(Nat) /\ Len(push) = n
  BY <1>2, <1>5
<1> HIDE DEF push, n
<1>7. ASSUME NEW i \in 1 .. n, NEW j \in 1 .. n, i < j
      PROVE  push[i] < push[j]
  <2>1. CASE j <= Len(fifo)
    BY <1>1, <1>2, <1>3, <1>7, <2>1 DEF Increasing
  <2>2. CASE i <= Len(fifo) /\ j > Len(fifo)
    <3>1. push[i] = fifo[i] /\ i \in 1 .. Len(fifo)
      BY <1>1, <1>2, <1>3, <2>2
    <3>2. push[j] >= first
      BY <1>1, <1>2, <1>3, <2>2 DEF n
    <3> QED
      BY <1>1, <1>2, <1>4, <3>1, <3>2
  <2>3. CASE i > Len(fifo)
    BY <1>1, <1>2, <1>3, <1>7, <2>3
  <2> QED
    BY <1>1, <1>2, <1>7, <2>1, <2>2, <2>3
<1>8. Values(push) = Values(fifo) \cup (first .. fits - 1)
  <2>1. ASSUME NEW s \in Values(push)
        PROVE  s \in Values(fifo) \cup (first .. fits - 1)
    <3>1. PICK i \in 1 .. n : s = push[i]
      BY <1>6 DEF Values
    <3>2. CASE i <= Len(fifo)
      <4>1. i \in 1 .. Len(fifo) /\ s = fifo[i]
        BY <1>1, <1>2, <1>3, <3>1, <3>2
      <4> QED
        BY <4>1 DEF Values
    <3>3. CASE i > Len(fifo)
      BY <1>1, <1>2, <1>3, <3>1, <3>3 DEF n
    <3> QED
      BY <1>1, <1>2, <3>2, <3>3
  <2>2. ASSUME NEW s \in Values(fifo) PROVE s \in Values(push)
    <3>1. PICK i \in 1 .. Len(fifo) : s = fifo[i]
      BY DEF Values
    <3>2. i \in 1 .. n /\ push[i] = s
      BY <1>1, <1>2, <1>3, <3>1
    <3> QED
      BY <1>6, <3>2 DEF Values
  <2>3. ASSUME NEW s \in first .. fits - 1 PROVE s \in Values(push)
    <3>1. s - first + Len(fifo) + 1 \in 1 .. n
      BY <1>1, <1>2 DEF n
    <3>2. push[s - first + Len(fifo) + 1] = s
      BY <1>1, <1>2, <1>3, <3>1
    <3> QED
      BY <1>6, <3>1, <3>2 DEF Values
  <2> QED
    BY <2>1, <2>2, <2>3
<1> QED
  BY <1>2, <1>6, <1>7, <1>8 DEF fits, push, n, Increasing
-----------------------------------------------------------------------------
LEMMA InitIInv ==
  ASSUME Garbage = {0}, Init
  PROVE  IInv
<1>1. TypeOK
  BY NDeferAssumption, MaxSeqAssumption DEF Init, TypeOK, Seqs, Slots
<1>2. /\ Values(delivered) = {} /\ Values(fifo_recv) = {}
      /\ Increasing(delivered) /\ Increasing(fifo_recv)
      /\ Live(defer_q) = {}
  BY DEF Init, Values, Increasing, Live
<1>3. DeferredAhead /\ StaleSlots
  BY <1>2, NDeferAssumption DEF Init, DeferredAhead, StaleSlots, Slots
<1>4. DeliveredInOrder /\ NothingSkipped
  BY <1>2 DEF Init, DeliveredInOrder, NothingSkipped
<1> QED
  BY <1>1, <1>3, <1>4, NDeferAssumption DEF IInv, Init

(***************************************************************************)
(* A lookup that hits a number from seq_rx on, other than 0, hits a slot   *)
(* in use.                                                                 *)
(***************************************************************************)
LEMMA ContainsLive ==
  ASSUME IInv, NEW k \in Nat, Contains(defer_q, k), k >= seq_rx, k # 0
  PROVE  k \in Live(defer_q)
<1>1. PICK i \in Slots : defer_q.elements[i] = k
  BY DEF Contains
<1>2. seq_rx \in Nat /\ NDefer \in Nat /\ defer_q.count \in 0 .. NDefer
  BY NDeferAssumption DEF IInv, TypeOK
<1>3. CASE i \in 1 .. defer_q.count
  BY <1>1, <1>3 DEF Live
<1>4. CASE i \in defer_q.count + 1 .. NDefer
  BY <1>1, <1>2, <1>4 DEF IInv, StaleSlots
<1> QED
  BY <1>2, <1>3, <1>4 DEF Slots

(***************************************************************************)
(* The reception of the expected PDU.                                      *)
(***************************************************************************)
LEMMA AcceptIInv ==
  ASSUME IInv, NEW t \in Transports, NEW s \in wire[t], Accept(s),
         UNCHANGED <<peer_tx, wire, seq_tx, delivered>>
  PROVE  IInv'
<1> USE DEF IInv
<1>1. PICK next \in s + 1 .. s + 1 + NDefer :
        /\ s = seq_rx
        /\ \A k \in s + 1 .. next - 1 : Contains(defer_q, k)
        /\ ~Contains(defer_q, next)
        /\ seq_rx' = next
        /\ defer_q' = RemoveRun(defer_q, s + 1, next)
        /\ fifo_recv' = FifoPush(fifo_recv, s, next)
        /\ dropped' = dropped \cup (FifoFits(fifo_recv, s, next) .. next - 1)
  BY DEF Accept
<1>2. /\ NDefer \in Nat /\ MaxSeq \in Nat /\ peer_tx \in Nat
      /\ s \in Nat /\ s < peer_tx /\ next \in Nat /\ s < next
      /\ defer_q \in Queues
  BY <1>1, NDeferAssumption, MaxSeqAssumption DEF TypeOK, Seqs, Queues
<1>3. \A k \in s + 1 .. next - 1 : k \in Live(defer_q)
  <2>1. ASSUME NEW k \in s + 1 .. next - 1 PROVE k \in Live(defer_q)
    <3>1. Contains(defer_q, k) /\ k \in Nat /\ k >= seq_rx /\ k # 0
      BY <1>1, <1>2
    <3> QED
      BY <3>1, ContainsLive
  <2> QED
    BY <2>1
<1>4. next <= peer_tx
  <2>1. CASE next = s + 1
    BY <1>2, <2>1
  <2>2. CASE next # s + 1
    <3>1. next - 1 \in Live(defer_q)
      BY <1>1, <1>2, <1>3, <2>2
    <3> QED
      BY <1>1, <1>2, <3>1 DEF DeferredAhead
  <2> QED
    BY <2>1, <2>2
<1>5. next \notin Live(defer_q)
  BY <1>1, <1>2 DEF Contains, Live, Slots, Queues
<1>6. /\ defer_q' \in Queues
      /\ defer_q'.count <= defer_q.count
      /\ \A i, j \in 1 .. defer_q'.count :
           defer_q'.elements[i] = defer_q'.elements[j] => i = j
      /\ Live(defer_q') = {k \in Live(defer_q) : k >= next}
      /\ \A i \in defer_q'.count + 1 .. defer_q.count :
           defer_q'.elements[i] \in Live(defer_q)
      /\ \A i \in defer_q.count + 1 .. NDefer :
           defer_q'.elements[i] = defer_q.elements[i]
  <2>1. s + 1 \in Nat /\ s + 1 <= next
    BY <1>2
  <2>2. \A k \in Live(defer_q) : k >= s + 1
    BY <1>1, <1>2 DEF DeferredAhead
  <2>3. \A k \in s + 1 .. next - 1 : k \in Live(defer_q)
    BY <1>3
  <2>4. \A i, j \in 1 .. defer_q.count : defer_q.elements[i] = defer_q.elements[j] => i = j
    BY DEF DeferredAhead
  <2>5. defer_q' = RemoveRun(defer_q, s + 1, next)
    BY <1>1
  <2> HIDE DEF IInv
  <2> QED
    BY <1>2, <2>1, <2>2, <2>3, <2>4, <2>5, RemoveRunFacts
<1>7. DeferredAhead'
  <2>1. ASSUME NEW k \in Live(defer_q') PROVE k \in next + 1 .. peer_tx - 1
    BY <1>1, <1>2, <1>5, <1>6, <2>1 DEF DeferredAhead
  <2> QED
    BY <1>1, <1>6, <2>1 DEF DeferredAhead
<1>8. StaleSlots'
  <2>1. ASSUME NEW i \in defer_q'.count + 1 .. NDefer
        PROVE  \/ defer_q'.elements[i] < next
               \/ defer_q'.elements[i] = 0
               \/ defer_q'.elements[i] \in Live(defer_q')
    <3>1. i \in Slots /\ defer_q'.elements[i] \in Nat
      BY <1>2, <1>6 DEF Slots, Queues
    <3>2. CASE i <= defer_q.count
      BY <1>2, <1>6, <3>1, <3>2 DEF Queues
    <3>3. CASE i > defer_q.count
      <4>1. i \in defer_q.count + 1 .. NDefer
        BY <1>2, <3>1, <3>3 DEF Queues, Slots
      <4>2. \/ defer_q'.elements[i] < seq_rx
            \/ defer_q'.elements[i] = 0
            \/ defer_q'.elements[i] \in Live(defer_q)
        BY <1>6, <4>1 DEF StaleSlots
      <4> QED
        BY <1>1, <1>2, <1>6, <3>1, <4>2
    <3> QED
      BY <1>2, <1>6, <3>1, <3>2, <3>3 DEF Queues, Slots
  <2> QED
    BY <1>1, <2>1 DEF StaleSlots
<1>9. /\ FifoFits(fifo_recv, s, next) \in s .. next
      /\ fifo_recv' \in Seq(Nat)
      /\ Len(fifo_recv') <= NDefer
      /\ Increasing(fifo_recv')
      /\ Values(fifo_recv')
           = Values(fifo_recv) \cup (s .. FifoFits(fifo_recv, s, next) - 1)
  <2>1. \A k \in Values(fifo_recv) : k < s
    BY <1>1, <1>2 DEF NothingSkipped
  <2>2. fifo_recv \in Seq(Nat) /\ Increasing(fifo_recv)
    BY DEF TypeOK, DeliveredInOrder
  <2> HIDE DEF IInv
  <2>3. Len(fifo_recv) <= NDefer
    BY DEF IInv
  <2> QED
    BY <1>1, <1>2, <2>1, <2>2, <2>3, FifoPushFacts
<1>10. DeliveredInOrder'
  <2>1. \A k \in Values(delivered), r \in Values(fifo_recv') : k < r
    <3>1. \A k \in Values(delivered) : k \in 0 .. s - 1
      BY <1>1 DEF NothingSkipped
    <3> QED
      BY <1>2, <1>9, <3>1 DEF DeliveredInOrder
  <2>2. Values(fifo_recv') \subseteq 0 .. peer_tx - 1
    BY <1>2, <1>4, <1>9 DEF DeliveredInOrder
  <2>3. Values(delivered') = Values(delivered) /\ Increasing(delivered')
    BY DEF DeliveredInOrder, Values, Increasing
  <2> QED
    BY <1>9, <2>1, <2>2, <2>3 DEF DeliveredInOrder
<1>11. NothingSkipped'
  <2>1. Values(delivered)' = Values(delivered)
    BY DEF Values
  <2>2. 0 .. next - 1 = (0 .. s - 1) \cup (s .. next - 1)
    BY <1>2
  <2>3. s .. next - 1 = (s .. FifoFits(fifo_recv, s, next) - 1)
                          \cup (FifoFits(fifo_recv, s, next) .. next - 1)
    BY <1>2, <1>9
  <2> QED
    BY <1>1, <1>9, <2>1, <2>2, <2>3 DEF NothingSkipped
<1>12. TypeOK'
  <2>1. FifoFits(fifo_recv, s, next) .. next - 1 \subseteq Nat
    BY <1>2, <1>9
  <2>2. dropped' \subseteq Nat
    BY <1>1, <2>1 DEF TypeOK
  <2>3. seq_rx' \in Nat
    BY <1>1, <1>2
  <2> QED
    BY <1>6, <1>9, <2>2, <2>3 DEF TypeOK, Queues
<1> QED
  BY <1>1, <1>2, <1>4, <1>7, <1>8, <1>9, <1>10, <1>11, <1>12

(***************************************************************************)
(* The reception of a PDU that has to wait.                                *)
(***************************************************************************)
LEMMA DeferIInv ==
  ASSUME IInv, NEW t \in Transports, NEW s \in wire[t], Defer(s),
         UNCHANGED <<peer_tx, wire, seq_tx, delivered>>
  PROVE  IInv'
<1> USE DEF IInv
<1> DEFINE c == defer_q.count
<1>1. /\ NDefer \in Nat /\ peer_tx \in Nat /\ seq_rx \in Nat
      /\ s \in Nat /\ s < peer_tx /\ seq_rx < s
      /\ defer_q \in Queues /\ c \in 0 .. NDefer
  BY NDeferAssumption, MaxSeqAssumption
     DEF TypeOK, Seqs, Queues, Defer, InWindow
<1>2. c + 1 \in Slots
  BY <1>1 DEF Defer, IsFull, Slots
<1>3. defer_q' = [elements |-> [defer_q.elements EXCEPT ![c + 1] = s],
                  count    |-> c + 1]
  BY DEF Defer, Add
<1>4. defer_q' \in Queues
  BY <1>1, <1>2, <1>3 DEF Queues, Slots
<1>5. /\ defer_q'.count = c + 1
      /\ defer_q'.elements[c + 1] = s
      /\ \A i \in Slots : i # c + 1
                          => defer_q'.elements[i] = defer_q.elements[i]
  BY <1>1, <1>2, <1>3 DEF Queues
<1> HIDE DEF c
<1>6. \A i \in 1 .. c : i \in Slots /\ i # c + 1
  BY <1>1 DEF Slots
<1>7. Live(defer_q') = Live(defer_q) \cup {s}
  <2>1. ASSUME NEW i \in 1 .. c + 1
        PROVE  defer_q'.elements[i] \in Live(defer_q) \cup {s}
    <3>1. CASE i = c + 1
      BY <1>5, <3>1
    <3>2. CASE i \in 1 .. c
      BY <1>5, <1>6, <3>2 DEF Live, c
    <3> QED
      BY <1>1, <3>1, <3>2
  <2>2. ASSUME NEW k \in Live(defer_q) PROVE k \in Live(defer_q')
    <3>1. PICK i \in 1 .. c : k = defer_q.elements[i]
      BY DEF Live, c
    <3>2. i \in 1 .. c + 1 /\ k = defer_q'.elements[i]
      BY <1>1, <1>5, <1>6, <3>1
    <3> QED
      BY <1>5, <3>2 DEF Live
  <2>3. s \in Live(defer_q')
    <3>1. c + 1 \in 1 .. c + 1
      BY <1>1
    <3> QED
      BY <1>5, <3>1 DEF Live
  <2> QED
    BY <1>5, <2>1, <2>2, <2>3 DEF Live
<1>8. \A i \in 1 .. c : defer_q'.elements[i] # s
  BY <1>5, <1>6 DEF Defer, Contains
<1>9. DeferredAhead'
  <2>1. Live(defer_q') \subseteq seq_rx' + 1 .. peer_tx' - 1
    BY <1>1, <1>7 DEF DeferredAhead, Defer
  <2>2. ASSUME NEW i \in 1 .. c + 1, NEW j \in 1 .. c + 1,
               defer_q'.elements[i] = defer_q'.elements[j]
        PROVE  i = j
    <3>1. CASE i \in 1 .. c /\ j \in 1 .. c
      BY <1>5, <1>6, <2>2, <3>1 DEF DeferredAhead, c
    <3>2. CASE i = c + 1 \/ j = c + 1
      BY <1>1, <1>5, <1>8, <2>2, <3>2
    <3> QED
      BY <1>1, <3>1, <3>2
  <2> QED
    BY <1>5, <2>1, <2>2 DEF DeferredAhead
<1>10. StaleSlots'
  <2>1. ASSUME NEW i \in c + 2 .. NDefer
        PROVE  \/ defer_q'.elements[i] < seq_rx
               \/ defer_q'.elements[i] = 0
               \/ defer_q'.elements[i] \in Live(defer_q')
    <3>1. i \in Slots /\ i # c + 1 /\ i \in c + 1 .. NDefer
      BY <1>1 DEF Slots
    <3> QED
      BY <1>5, <1>7, <3>1 DEF StaleSlots, c
  <2> QED
    BY <1>1, <1>5, <2>1 DEF StaleSlots, Defer
<1>11. /\ DeliveredInOrder' /\ NothingSkipped'
  BY DEF DeliveredInOrder, NothingSkipped, Values, Increasing, Defer
<1>12. TypeOK'
  BY <1>4 DEF TypeOK, Queues, Defer
<1> QED
  BY <1>9, <1>10, <1>11, <1>12 DEF Defer

(***************************************************************************)
(* The upper layer takes the oldest PDU.                                   *)
(***************************************************************************)
LEMMA RetrieveIInv ==
  ASSUME IInv, Retrieve
  PROVE  IInv'
<1> USE DEF IInv
<1> DEFINE n == Len(delivered)
           m == Len(fifo_recv)
<1>1. /\ fifo_recv \in Seq(Nat) /\ delivered \in Seq(Nat)
      /\ n \in Nat /\ m \in Nat \ {0} /\ NDefer \in Nat
  BY NDeferAssumption DEF TypeOK, Retrieve
<1>2. /\ delivered' \in Seq(Nat) /\ Len(delivered') = n + 1
      /\ \A i \in 1 .. n : delivered'[i] = delivered[i]
      /\ delivered'[n + 1] = fifo_recv[1]
  BY <1>1 DEF Retrieve
<1>3. /\ fifo_recv' \in Seq(Nat) /\ Len(fifo_recv') = m - 1
      /\ \A i \in 1 .. m - 1 : fifo_recv'[i] = fifo_recv[i + 1]
  BY <1>1 DEF Retrieve
<1>4. fifo_recv[1] \in Values(fifo_recv)
  BY <1>1 DEF Values
<1> HIDE DEF n, m
<1>5. Values(delivered') = Values(delivered) \cup {fifo_recv[1]}
  <2>1. ASSUME NEW k \in Values(delivered')
        PROVE  k \in Values(delivered) \cup {fifo_recv[1]}
    <3>1. PICK i \in 1 .. n + 1 : k = delivered'[i]
      BY <1>2 DEF Values
    <3>2. CASE i = n + 1
      BY <1>2, <3>1, <3>2
    <3>3. CASE i \in 1 .. n
      <4>1. k = delivered[i]
        BY <1>2, <3>1, <3>3
      <4> QED
        BY <3>3, <4>1 DEF Values, n
    <3> QED
      BY <1>1, <3>2, <3>3
  <2>2. ASSUME NEW k \in Values(delivered) PROVE k \in Values(delivered')
    <3>1. PICK i \in 1 .. n : k = delivered[i]
      BY DEF Values, n
    <3>2. i \in 1 .. n + 1 /\ k = delivered'[i]
      BY <1>1, <1>2, <3>1
    <3> QED
      BY <1>2, <3>2 DEF Values
  <2>3. fifo_recv[1] \in Values(delivered')
    <3>1. n + 1 \in 1 .. n + 1
      BY <1>1
    <3> QED
      BY <1>2, <3>1 DEF Values
  <2> QED
    BY <2>1, <2>2, <2>3
<1>6. Values(fifo_recv) = Values(fifo_recv') \cup {fifo_recv[1]}
  <2>1. ASSUME NEW i \in 1 .. m
        PROVE  fifo_recv[i] \in Values(fifo_recv') \cup {fifo_recv[1]}
    <3>1. CASE i = 1
      BY <3>1
    <3>2. CASE i # 1
      <4>1. i - 1 \in 1 .. m - 1 /\ fifo_recv'[i - 1] = fifo_recv[i]
        BY <1>1, <1>3, <3>2
      <4> QED
        BY <1>3, <4>1 DEF Values
    <3> QED
      BY <3>1, <3>2
  <2>2. ASSUME NEW i \in 1 .. m - 1
        PROVE  fifo_recv'[i] \in Values(fifo_recv)
    <3>1. i + 1 \in 1 .. m /\ fifo_recv'[i] = fifo_recv[i + 1]
      BY <1>1, <1>3
    <3> QED
      BY <3>1 DEF Values, m
  <2> QED
    BY <1>3, <1>4, <2>1, <2>2 DEF Values, m
<1>7. Increasing(fifo_recv')
  <2>1. ASSUME NEW i \in 1 .. m - 1, NEW j \in 1 .. m - 1, i < j
        PROVE  fifo_recv'[i] < fifo_recv'[j]
    <3>1. i + 1 \in 1 .. m /\ j + 1 \in 1 .. m /\ i + 1 < j + 1
      BY <1>1, <2>1
    <3> QED
      BY <1>3, <3>1 DEF DeliveredInOrder, Increasing, m
  <2> QED
    BY <1>3, <2>1 DEF Increasing
<1>8. Increasing(delivered')
  <2>1. ASSUME NEW i \in 1 .. n + 1, NEW j \in 1 .. n + 1, i < j
        PROVE  delivered'[i] < delivered'[j]
    <3>1. CASE j \in 1 .. n
      <4>1. i \in 1 .. n
        BY <1>1, <2>1, <3>1
      <4>2. delivered[i] < delivered[j]
        BY <2>1, <3>1, <4>1 DEF DeliveredInOrder, Increasing, n
      <4> QED
        BY <1>2, <3>1, <4>1, <4>2
    <3>2. CASE j = n + 1
      <4>1. i \in 1 .. n /\ delivered[i] \in Values(delivered)
        BY <1>1, <2>1, <3>2 DEF Values, n
      <4> QED
        BY <1>2, <1>4, <3>2, <4>1 DEF DeliveredInOrder
    <3> QED
      BY <1>1, <3>1, <3>2
  <2> QED
    BY <1>2, <2>1 DEF Increasing
<1>9. \A k \in Values(fifo_recv') : fifo_recv[1] < k
  <2>1. ASSUME NEW i \in 1 .. m - 1 PROVE fifo_recv[1] < fifo_recv'[i]
    <3>1. i + 1 \in 1 .. m /\ 1 \in 1 .. m /\ 1 < i + 1
      BY <1>1
    <3> QED
      BY <1>3, <3>1 DEF DeliveredInOrder, Increasing, m
  <2> QED
    BY <1>3, <2>1 DEF Values
<1>10. DeliveredInOrder'
  BY <1>5, <1>6, <1>7, <1>8, <1>9 DEF DeliveredInOrder, Retrieve
<1>11. NothingSkipped'
  BY <1>5, <1>6 DEF NothingSkipped, Retrieve
<1>12. TypeOK' /\ StaleSlots' /\ DeferredAhead' /\ Len(fifo_recv') <= NDefer
  BY <1>1, <1>2, <1>3 DEF TypeOK, StaleSlots, DeferredAhead, Retrieve, Live, m
<1> QED
  BY <1>10, <1>11, <1>12 DEF Retrieve

-----------------------------------------------------------------------------
LEMMA NextIInv ==
  ASSUME IInv, [Next]_vars
  PROVE  IInv'
<1>0. ASSUME UNCHANGED vars PROVE IInv'
  <2>1. /\ Live(defer_q)' = Live(defer_q)
        /\ Values(delivered)' = Values(delivered)
        /\ Values(fifo_recv)' = Values(fifo_recv)
        /\ Increasing(delivered)' = Increasing(delivered)
        /\ Increasing(fifo_recv)' = Increasing(fifo_recv)
    BY <1>0 DEF vars, Live, Values, Increasing
  <2>2. TypeOK' /\ DeliveredInOrder' /\ NothingSkipped'
    BY <1>0, <2>1 DEF vars, IInv, TypeOK, DeliveredInOrder, NothingSkipped
  <2>3. DeferredAhead' /\ StaleSlots'
    BY <1>0, <2>1 DEF vars, IInv, DeferredAhead, StaleSlots
  <2> QED
    BY <1>0, <2>2, <2>3 DEF vars, IInv
<1>1. CASE Send
  <2>1. wire' \in [Transports -> SUBSET Seqs] /\ peer_tx' \in 0 .. MaxSeq
    BY <1>1, MaxSeqAssumption DEF Send, IInv, TypeOK, Seqs
  <2>2. TypeOK'
    BY <1>1, <2>1 DEF Send, IInv, TypeOK
  <2>3. \A t \in Transports : wire'[t] \subseteq 0 .. peer_tx' - 1
    BY <1>1, MaxSeqAssumption DEF Send, IInv, TypeOK
  <2>4. peer_tx \in Nat /\ peer_tx' = peer_tx + 1 /\ seq_rx \in Nat
    BY <1>1, MaxSeqAssumption DEF Send, IInv, TypeOK
  <2>5. /\ DeferredAhead /\ StaleSlots /\ DeliveredInOrder /\ NothingSkipped
        /\ UNCHANGED <<seq_rx, defer_q, fifo_recv, delivered, dropped>>
    BY <1>1 DEF Send, IInv
  <2>6. /\ Live(defer_q)' = Live(defer_q)
        /\ Values(delivered)' = Values(delivered)
        /\ Values(fifo_recv)' = Values(fifo_recv)
    BY <2>5 DEF Live, Values
  <2>7. DeferredAhead'
    BY <2>4, <2>5, <2>6 DEF DeferredAhead
  <2>8. StaleSlots' /\ NothingSkipped'
    BY <2>5, <2>6 DEF StaleSlots, NothingSkipped
  <2>9. DeliveredInOrder'
    BY <2>4, <2>5, <2>6 DEF DeliveredInOrder, Increasing
  <2> QED
    BY <2>2, <2>3, <2>4, <2>5, <2>7, <2>8, <2>9 DEF IInv
<1>2. CASE SendOwn
  BY <1>2 DEF SendOwn, IInv, TypeOK, DeferredAhead, StaleSlots,
              DeliveredInOrder, NothingSkipped, Live, Values, Increasing
<1>3. ASSUME NEW t \in Transports, NEW s \in Seqs, Lose(t, s)
      PROVE  IInv'
  <2>1. wire' \in [Transports -> SUBSET Seqs]
    BY <1>3 DEF Lose, IInv, TypeOK
  <2>2. \A u \in Transports : wire'[u] \subseteq wire[u]
    BY <1>3 DEF Lose, IInv, TypeOK
  <2> QED
    BY <1>3, <2>1, <2>2
       DEF Lose, IInv, TypeOK, DeferredAhead, StaleSlots, DeliveredInOrder,
           NothingSkipped, Live, Values, Increasing
<1>4. ASSUME NEW t \in Transports, NEW s \in Seqs, Receive(t, s)
      PROVE  IInv'
  <2>1. s \in wire[t] /\ UNCHANGED <<peer_tx, wire, seq_tx, delivered>>
    BY <1>4 DEF Receive
  <2>2. CASE Accept(s)
    BY <2>1, <2>2, AcceptIInv
  <2>3. CASE Defer(s)
    BY <2>1, <2>3, DeferIInv
  <2>4. CASE Discard(s)
    <3>1. UNCHANGED vars
      BY <2>1, <2>4 DEF Discard, vars
    <3> QED
      BY <1>0, <3>1
  <2> QED
    BY <1>4, <2>2, <2>3, <2>4 DEF Receive
<1>5. CASE Retrieve
  BY <1>5, RetrieveIInv
<1> QED
  BY <1>0, <1>1, <1>2, <1>3, <1>4, <1>5 DEF Next, ChannelTimeout

(***************************************************************************)
(* The inductive invariant holds in every reachable state.                 *)
(***************************************************************************)
THEOREM Invariance ==
  ASSUME Garbage = {0}
  PROVE  Spec => []IInv
<1>1. Init => IInv
  BY InitIInv
<1>2. IInv /\ [Next]_vars => IInv'
  BY NextIInv
<1> QED
  BY <1>1, <1>2, PTL DEF Spec

(***************************************************************************)
(* Type correctness.                                                       *)
(***************************************************************************)
THEOREM TypeCorrect ==
  ASSUME Garbage = {0}
  PROVE  Spec => []TypeOK
<1>1. IInv => TypeOK
  BY DEF IInv
<1> QED
  BY <1>1, Invariance, PTL

(***************************************************************************)
(* The upper layer gets PDUs in the order in which they were sent, none    *)
(* twice.                                                                  *)
(***************************************************************************)
THEOREM InOrder ==
  ASSUME Garbage = {0}
  PROVE  Spec => []DeliveredInOrder
<1>1. IInv => DeliveredInOrder
  BY DEF IInv
<1> QED
  BY <1>1, Invariance, PTL

(***************************************************************************)
(* Every PDU that seq_rx has passed was handed up or dropped by the full   *)
(* fifo.                                                                   *)
(***************************************************************************)
THEOREM Complete ==
  ASSUME Garbage = {0}
  PROVE  Spec => []NothingSkipped
<1>1. IInv => NothingSkipped
  BY DEF IInv
<1> QED
  BY <1>1, Invariance, PTL

(***************************************************************************)
(* What lookups find from seq_rx on is in the queue, stale slots or not.   *)
(***************************************************************************)
THEOREM Lookups ==
  ASSUME Garbage = {0}
  PROVE  Spec => []LookupExact
<1>1. ASSUME IInv PROVE LookupExact
  <2>1. \A s \in Seqs : s \in Nat
    BY MaxSeqAssumption DEF Seqs
  <2> QED
    BY <1>1, <2>1, ContainsLive DEF LookupExact
<1>2. IInv => LookupExact
  BY <1>1
<1> QED
  BY <1>2, Invariance, PTL

(***************************************************************************)
(* Deferred PDUs have been sent, are ahead of the expected one and are     *)
(* held once.                                                              *)
(***************************************************************************)
THEOREM Deferred ==
  ASSUME Garbage = {0}
  PROVE  Spec => []DeferredAhead
<1>1. IInv => DeferredAhead
  BY DEF IInv
<1> QED
  BY <1>1, Invariance, PTL

(***************************************************************************)
(* No deferred PDU gets lost: it stays until seq_rx passes it.             *)
(***************************************************************************)
THEOREM NoneLeftBehind ==
  ASSUME Garbage = {0}
  PROVE  Spec => LeavesDelivered
<1> DEFINE A == /\ seq_rx' >= seq_rx
                /\ \A s \in Live(defer_q) : s \in Live(defer_q') \/ s < seq_rx'
<1>1. ASSUME IInv, [Next]_vars PROVE [A]_vars
  <2>1. seq_rx \in Nat /\ defer_q \in Queues /\ NDefer \in Nat
    BY <1>1, NDeferAssumption DEF IInv, TypeOK, Queues
  <2>2. CASE UNCHANGED <<seq_rx, defer_q>>
    BY <2>1, <2>2 DEF Live
  <2>3. ASSUME NEW t \in Transports, NEW s \in Seqs, Receive(t, s), Accept(s)
        PROVE  A
    <3>1. PICK next \in s + 1 .. s + 1 + NDefer :
            /\ s = seq_rx
            /\ seq_rx' = next
            /\ \A k \in s + 1 .. next - 1 : Contains(defer_q, k)
            /\ defer_q' = RemoveRun(defer_q, s + 1, next)
      BY <2>3 DEF Accept
    <3>2. /\ s + 1 \in Nat /\ next \in Nat /\ s + 1 <= next
          /\ next >= seq_rx
      BY <2>1, <3>1
    <3>3. Live(defer_q') = {k \in Live(defer_q) : k >= next}
      <4>1. \A k \in Live(defer_q) : k >= s + 1
        BY <1>1, <3>1 DEF IInv, DeferredAhead
      <4>2. \A k \in s + 1 .. next - 1 : k \in Live(defer_q)
        <5>1. ASSUME NEW k \in s + 1 .. next - 1 PROVE k \in Live(defer_q)
          <6>1. Contains(defer_q, k) /\ k \in Nat /\ k >= seq_rx /\ k # 0
            <7>1. s \in Nat /\ s = seq_rx /\ next \in Nat
              BY <2>1, <3>1, <3>2
            <7> QED
              BY <3>1, <7>1
          <6> QED
            BY <1>1, <6>1, ContainsLive
        <5> QED
          BY <5>1
      <4>3. \A i, j \in 1 .. defer_q.count :
               defer_q.elements[i] = defer_q.elements[j] => i = j
        BY <1>1 DEF IInv, DeferredAhead
      <4>4. defer_q' = RemoveRun(defer_q, s + 1, next)
        BY <3>1
      <4> HIDE DEF A
      <4> QED
        BY <2>1, <3>2, <4>1, <4>2, <4>3, <4>4, RemoveRunFacts
    <3>4. \A k \in Live(defer_q) : k \in Int
      BY <1>1 DEF IInv, DeferredAhead
    <3> QED
      BY <3>1, <3>2, <3>3, <3>4
  <2>4. ASSUME NEW t \in Transports, NEW s \in Seqs, Receive(t, s), Defer(s)
        PROVE  A
    <3>1. seq_rx' = seq_rx /\ defer_q' = Add(defer_q, s) /\ ~IsFull(defer_q)
      BY <2>4 DEF Defer
    <3>2. \A i \in 1 .. defer_q.count :
            i \in Slots /\ i # defer_q.count + 1
      BY <2>1 DEF Slots, Queues
    <3>3. /\ defer_q'.count = defer_q.count + 1
          /\ \A i \in 1 .. defer_q.count :
               defer_q'.elements[i] = defer_q.elements[i]
      BY <2>1, <3>1, <3>2 DEF Add, Queues
    <3>4. \A i \in 1 .. defer_q.count : i \in 1 .. defer_q'.count
      BY <2>1, <3>3 DEF Queues
    <3> QED
      BY <2>1, <3>1, <3>3, <3>4 DEF Live
  <2> HIDE DEF A
  <2> QED
    BY <1>1, <2>2, <2>3, <2>4
       DEF Next, Send, SendOwn, Lose, Receive, Discard, Retrieve,
           ChannelTimeout, vars
<1>2. IInv /\ [Next]_vars => [A]_vars
  BY <1>1
<1>3. Spec => [][Next]_vars
  BY PTL DEF Spec
<1> QED
  BY <1>2, <1>3, Invariance, PTL DEF LeavesDelivered

(***************************************************************************)
(* The channel implements in-order, at-most-once delivery.                 *)
(***************************************************************************)
THEOREM Refinement ==
  ASSUME Garbage = {0}
  PROVE  Spec => ImplementsInOrderDelivery
<1>1. Init => Abstract!Init
  BY DEF Init, Abstract!Init
<1>2. ASSUME IInv, [Next]_vars
      PROVE  [Abstract!Next]_<<peer_tx, delivered>>
  <2>1. CASE Send
    BY <2>1 DEF Send, Abstract!Next, Abstract!Send
  <2>2. CASE Retrieve
    <3>1. /\ fifo_recv \in Seq(Nat) /\ Len(fifo_recv) \in Nat \ {0}
          /\ delivered \in Seq(Nat)
      BY <1>2, <2>2 DEF IInv, TypeOK, Retrieve
    <3>2. Head(fifo_recv) \in Values(fifo_recv)
      BY <3>1 DEF Values
    <3>3. \A i \in 1 .. Len(delivered) : delivered[i] \in Values(delivered)
      BY DEF Values
    <3>4. /\ Head(fifo_recv) \in 0 .. peer_tx - 1
          /\ \A i \in 1 .. Len(delivered) : delivered[i] < Head(fifo_recv)
      BY <1>2, <3>2, <3>3 DEF IInv, DeliveredInOrder
    <3> QED
      BY <2>2, <3>4 DEF Retrieve, Abstract!Next, Abstract!Deliver
  <2>3. CASE UNCHANGED <<peer_tx, delivered>>
    BY <2>3
  <2> QED
    BY <1>2, <2>1, <2>2, <2>3
       DEF Next, SendOwn, Lose, Receive, ChannelTimeout, vars
<1>3. IInv /\ [Next]_vars => [Abstract!Next]_<<peer_tx, delivered>>
  BY <1>2
<1> QED
  BY <1>1, <1>3, Invariance, PTL DEF Spec, ImplementsInOrderDelivery, Abstract!Spec
=============================================================================
