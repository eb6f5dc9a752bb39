---------------------------- MODULE AlgorithmProofs ----------------------------
(***************************************************************************)
(* Theorems about the two pure algorithms.                                 *)
(*                                                                         *)
(* What hashmap_put and hashmap_get do, for every hash function, size of   *)
(* the first array and length of a chain: a map that was filled by puts of *)
(* new keys finds each of them with its value and finds nothing else,      *)
(* however often the array had to grow, also in the middle of growing.     *)
(*                                                                         *)
(* That a Data PDU gives back the messages that were put into it, for      *)
(* every number and length of messages that fit into the buffer of the     *)
(* receiver and every width of the two codes.                              *)
(***************************************************************************)
EXTENDS HashMap, Pdu, FiniteSetTheorems, SequenceTheorems, SetInduction

(***************************************************************************)
(*                             THE HASH MAP                                *)
(***************************************************************************)
\* An array holds values from a set D.
Elements(D)  == [inUse : {TRUE}, key : Key, data : D]
SlotOf(D) == Elements(D) \cup {Unused}

Arrays(n, D) == [size : Nat, slots : [0 .. n - 1 -> SlotOf(D)]]

InUse(m) == {s \in DOMAIN m.slots : m.slots[s].inUse}

InChain(m, s) == \E i \in 0 .. ChainLength - 1 : s = Probe(m, m.slots[s].key, i)

\* A map with an array of n slots, as puts of different keys leave it.
SoundArray(m, n, D) ==
  /\ m \in Arrays(n, D)
  /\ n >= InitialSize
  /\ 2 * m.size <= n
  /\ m.size = Cardinality(InUse(m))
  /\ \A s, t \in InUse(m) : m.slots[s].key = m.slots[t].key => s = t
  /\ \A s \in InUse(m) : InChain(m, s)

Sound(m, D) == \E n \in Nat : SoundArray(m, n, D)

\* The map has the key k with the value d; has the key k.
Maps(m, k, d) == \E s \in InUse(m) : m.slots[s].key = k /\ m.slots[s].data = d
HasKey(m, k)  == \E s \in InUse(m) : m.slots[s].key = k

LEMMA ConstantFacts ==
  /\ InitialSize \in Nat /\ InitialSize >= 2
  /\ ChainLength \in Nat /\ ChainLength >= 1 /\ ChainLength <= InitialSize
  /\ MaxRounds \in Nat
  /\ \A k \in Key : Mix[k] \in Nat
BY HashMapAssumption

LEMMA ElementFacts ==
  ASSUME NEW D, NEW x \in SlotOf(D)
  PROVE  /\ x.inUse \in BOOLEAN
         /\ x.inUse => x \in Elements(D) /\ x.key \in Key /\ x.data \in D
         /\ ~x.inUse => x = Unused
<1>1. CASE x \in Elements(D)
  <2>1. x.inUse = TRUE /\ x.key \in Key /\ x.data \in D
    BY <1>1 DEF Elements
  <2> QED
    BY <1>1, <2>1
<1>2. CASE x = Unused
  <2>1. x.inUse = FALSE
    BY <1>2 DEF Unused
  <2> QED
    BY <1>2, <2>1
<1> QED
  BY <1>1, <1>2 DEF SlotOf

LEMMA MinIsIn ==
  ASSUME NEW S \in SUBSET Nat, S # {}
  PROVE  Min(S) \in S
<1>1. \E x \in S : \A y \in S : x <= y
  BY LeastElement
<1> QED
  BY <1>1 DEF Min

LEMMA ArrayFacts ==
  ASSUME NEW D, NEW n \in Nat, NEW m \in Arrays(n, D)
  PROVE  /\ DOMAIN m.slots = 0 .. n - 1
         /\ TableSize(m) = n
         /\ InUse(m) \subseteq 0 .. n - 1
         /\ \A s \in 0 .. n - 1 : m.slots[s] \in SlotOf(D)
         /\ \A s \in InUse(m) : m.slots[s].key \in Key /\ m.slots[s].data \in D
         /\ IsFiniteSet(InUse(m))
<1>1. m.slots \in [0 .. n - 1 -> SlotOf(D)]
  BY DEF Arrays
<1>2. DOMAIN m.slots = 0 .. n - 1 /\ \A s \in 0 .. n - 1 : m.slots[s] \in SlotOf(D)
  BY <1>1
<1>3. IsFiniteSet(0 .. n - 1) /\ Cardinality(0 .. n - 1) = n
  <2>1. 0 \in Int /\ n - 1 \in Int
    OBVIOUS
  <2>2. IF 0 > n - 1 THEN n = 0 ELSE (n - 1) - 0 + 1 = n
    OBVIOUS
  <2> QED
    BY <2>1, <2>2, FS_Interval
<1>4. InUse(m) \in SUBSET (0 .. n - 1)
  BY <1>2 DEF InUse
<1>5. IsFiniteSet(InUse(m))
  BY <1>3, <1>4, FS_Subset
<1>6. \A s \in InUse(m) : m.slots[s].key \in Key /\ m.slots[s].data \in D
  BY <1>2, ElementFacts DEF InUse
<1> QED
  BY <1>2, <1>3, <1>4, <1>5, <1>6 DEF TableSize

LEMMA ProbeInArray ==
  ASSUME NEW D, NEW n \in Nat, n > 0, NEW m \in Arrays(n, D), NEW k \in Key, NEW i \in Nat
  PROVE  /\ Probe(m, k, i) = (Mix[k] + i) % n
         /\ Probe(m, k, i) \in 0 .. n - 1
<1>1. Mix[k] + i \in Int
  BY ConstantFacts
<1>2. (Mix[k] + i) % n \in 0 .. n - 1
  BY <1>1
<1> QED
  BY <1>2, ArrayFacts DEF Probe

(***************************************************************************)
(* hashmap_get finds a key that the map has, and no other.                 *)
(***************************************************************************)
LEMMA GetFacts ==
  ASSUME NEW D, NEW m, Sound(m, D), NEW k \in Key
  PROVE  /\ \A d \in D : Maps(m, k, d) => Get(m, k) = d
         /\ ~HasKey(m, k) => Get(m, k) = MapMissing
         /\ HasKey(m, k) => Get(m, k) \in D /\ Maps(m, k, Get(m, k))
<1>1. PICK n \in Nat : SoundArray(m, n, D)
  BY DEF Sound
<1>2. m \in Arrays(n, D) /\ n > 0
  BY <1>1, ConstantFacts DEF SoundArray
<1> DEFINE hit == {i \in 0 .. ChainLength - 1 : Holds(m, Probe(m, k, i), k)}
<1>3. hit \in SUBSET Nat
  BY ConstantFacts
<1>4. \A i \in hit : /\ Probe(m, k, i) \in InUse(m)
                     /\ m.slots[Probe(m, k, i)].key = k
  <2>1. SUFFICES ASSUME NEW i \in hit
                 PROVE  Probe(m, k, i) \in InUse(m) /\ m.slots[Probe(m, k, i)].key = k
    OBVIOUS
  <2>2. i \in Nat /\ Holds(m, Probe(m, k, i), k)
    BY <1>3
  <2>3. Probe(m, k, i) \in DOMAIN m.slots
    BY <1>2, <2>2, ProbeInArray, ArrayFacts
  <2> QED
    BY <2>2, <2>3 DEF Holds, InUse
<1>5. ASSUME NEW s \in InUse(m), m.slots[s].key = k
      PROVE  hit # {} /\ Get(m, k) = m.slots[s].data
  <2>1. PICK i \in 0 .. ChainLength - 1 : s = Probe(m, k, i)
    BY <1>1, <1>5 DEF SoundArray, InChain
  <2>2. i \in hit
    BY <1>5, <2>1 DEF Holds, InUse
  <2>3. Min(hit) \in hit
    BY <1>3, <2>2, MinIsIn
  <2>4. Probe(m, k, Min(hit)) = s
    BY <1>1, <1>4, <1>5, <2>3 DEF SoundArray
  <2>5. Get(m, k) = m.slots[Probe(m, k, Min(hit))].data
    BY <2>2 DEF Get
  <2> QED
    BY <2>2, <2>4, <2>5
<1>6. ASSUME ~HasKey(m, k) PROVE Get(m, k) = MapMissing
  <2>1. hit = {}
    BY <1>4, <1>6 DEF HasKey
  <2> QED
    BY <2>1 DEF Get
<1>7. \A d \in D : Maps(m, k, d) => Get(m, k) = d
  BY <1>5 DEF Maps
<1>8. HasKey(m, k) => Get(m, k) \in D /\ Maps(m, k, Get(m, k))
  BY <1>2, <1>5, ArrayFacts DEF HasKey, Maps
<1> QED
  BY <1>6, <1>7, <1>8

(***************************************************************************)
(* hashmap_hash finds a slot of the chain that is free or has the key, and *)
(* with it half of the array stays free.                                   *)
(***************************************************************************)
LEMMA PlaceFacts ==
  ASSUME NEW D, NEW n \in Nat, NEW m \in Arrays(n, D), n > 0, NEW k \in Key,
         Place(m, k) # MapFull
  PROVE  /\ Place(m, k) \in 0 .. n - 1
         /\ \E i \in 0 .. ChainLength - 1 : Place(m, k) = Probe(m, k, i)
         /\ ~m.slots[Place(m, k)].inUse \/ Holds(m, Place(m, k), k)
         /\ 2 * (m.size + 1) <= n
<1> DEFINE fit == {i \in 0 .. ChainLength - 1 :
                      ~m.slots[Probe(m, k, i)].inUse \/ Holds(m, Probe(m, k, i), k)}
<1>1. ~(m.size >= TableSize(m) \div 2) /\ fit # {} /\ Place(m, k) = Probe(m, k, Min(fit))
  BY DEF Place
<1>2. fit \in SUBSET Nat
  BY ConstantFacts
<1>3. Min(fit) \in fit
  BY <1>1, <1>2, MinIsIn
<1>4. Place(m, k) \in 0 .. n - 1
  BY <1>1, <1>2, <1>3, ProbeInArray
<1>5. ~m.slots[Place(m, k)].inUse \/ Holds(m, Place(m, k), k)
  BY <1>1, <1>3
<1>6. \E i \in 0 .. ChainLength - 1 : Place(m, k) = Probe(m, k, i)
  BY <1>1, <1>3
<1>7. 2 * (m.size + 1) <= n
  <2>1. PICK z \in Nat : z = m.size
    BY DEF Arrays
  <2>2. ~(z >= n \div 2)
    BY <1>1, <2>1, ArrayFacts
  <2>3. 2 * (z + 1) <= n
    BY <2>2
  <2> QED
    BY <2>1, <2>3
<1> QED
  BY <1>4, <1>5, <1>6, <1>7

LEMMA StoreFacts ==
  ASSUME NEW D, NEW n \in Nat, NEW m, SoundArray(m, n, D),
         NEW e \in Elements(D), ~HasKey(m, e.key), Place(m, e.key) # MapFull
  PROVE  LET w == Store(m, Place(m, e.key), e)
         IN  /\ SoundArray(w, n, D)
             /\ \A k, d : Maps(w, k, d) <=> Maps(m, k, d) \/ (k = e.key /\ d = e.data)
<1>1. PICK s : s = Place(m, e.key)
  OBVIOUS
<1>2. PICK w : w = Store(m, s, e)
  OBVIOUS
<1>3. e.inUse = TRUE /\ e.key \in Key /\ e.data \in D
  BY DEF Elements
<1>4. m \in Arrays(n, D) /\ n > 0
  BY ConstantFacts DEF SoundArray
<1>5. /\ s \in 0 .. n - 1
      /\ \E i \in 0 .. ChainLength - 1 : s = Probe(m, e.key, i)
      /\ ~m.slots[s].inUse \/ Holds(m, s, e.key)
      /\ 2 * (m.size + 1) <= n
  BY <1>1, <1>3, <1>4, PlaceFacts
<1>6. s \notin InUse(m)
  BY <1>5 DEF Holds, HasKey, InUse
<1>7. m.slots \in [0 .. n - 1 -> SlotOf(D)] /\ m.size \in Nat
  BY <1>4 DEF Arrays
<1>8. /\ w.size = m.size + 1
      /\ w.slots = [m.slots EXCEPT ![s] = e]
      /\ w = [size |-> m.size + 1, slots |-> [m.slots EXCEPT ![s] = e]]
  BY <1>2 DEF Store
<1>9. e \in SlotOf(D)
  BY DEF SlotOf
<1>10. /\ w.slots \in [0 .. n - 1 -> SlotOf(D)]
       /\ w.slots[s] = e
       /\ \A t \in 0 .. n - 1 : t # s => w.slots[t] = m.slots[t]
  BY <1>5, <1>7, <1>8, <1>9
<1>11. w \in Arrays(n, D)
  <2>1. m.size + 1 \in Nat
    BY <1>7
  <2> QED
    BY <1>8, <1>10, <2>1 DEF Arrays
<1>12. InUse(w) = InUse(m) \cup {s}
  <2>1. DOMAIN w.slots = 0 .. n - 1 /\ DOMAIN m.slots = 0 .. n - 1
    BY <1>7, <1>10
  <2> QED
    BY <1>3, <1>5, <1>10, <2>1 DEF InUse
<1>13. \A t \in InUse(m) : w.slots[t] = m.slots[t] /\ t # s
  BY <1>4, <1>6, <1>10, ArrayFacts
<1>14. w.size = Cardinality(InUse(w))
  <2>1. IsFiniteSet(InUse(m))
    BY <1>4, ArrayFacts
  <2>2. Cardinality(InUse(m) \cup {s}) = Cardinality(InUse(m)) + 1
    BY <1>6, <2>1, FS_AddElement
  <2> QED
    BY <1>8, <1>12, <2>2 DEF SoundArray
<1>15. \A t, u \in InUse(w) : w.slots[t].key = w.slots[u].key => t = u
  <2>1. \A t \in InUse(m) : m.slots[t].key # e.key
    BY DEF HasKey
  <2> QED
    BY <1>10, <1>12, <1>13, <2>1 DEF SoundArray
<1>16. ASSUME NEW t \in InUse(w) PROVE InChain(w, t)
  <2>1. TableSize(w) = TableSize(m)
    BY <1>4, <1>11, ArrayFacts
  <2>2. CASE t = s
    BY <1>5, <1>10, <2>1, <2>2 DEF InChain, Probe
  <2>3. CASE t \in InUse(m)
    <3>1. InChain(m, t) /\ w.slots[t].key = m.slots[t].key
      BY <1>13, <2>3 DEF SoundArray
    <3> QED
      BY <2>1, <3>1 DEF InChain, Probe
  <2> QED
    BY <1>12, <2>2, <2>3
<1>17. SoundArray(w, n, D)
  BY <1>5, <1>8, <1>11, <1>14, <1>15, <1>16 DEF SoundArray
<1>18. ASSUME NEW k, NEW d
       PROVE  Maps(w, k, d) <=> Maps(m, k, d) \/ (k = e.key /\ d = e.data)
  BY <1>10, <1>12, <1>13 DEF Maps
<1> QED
  BY <1>1, <1>2, <1>17, <1>18

(***************************************************************************)
(* An array as calloc leaves it has nothing, and is sound.                 *)
(***************************************************************************)
LEMMA EmptyFacts ==
  ASSUME NEW D, NEW n \in Nat, n >= InitialSize, NEW m, m = [size |-> 0, slots |-> Slots(n)]
  PROVE  SoundArray(m, n, D) /\ InUse(m) = {}
<1>1. Slots(n) \in [0 .. n - 1 -> SlotOf(D)]
  BY DEF Slots, SlotOf
<1>2. m \in Arrays(n, D)
  BY <1>1 DEF Arrays
<1>3. InUse(m) = {}
  <2>1. \A s \in 0 .. n - 1 : m.slots[s] = Unused
    BY DEF Slots
  <2>2. Unused.inUse = FALSE
    BY DEF Unused
  <2> QED
    BY <1>2, <2>1, <2>2, ArrayFacts DEF InUse
<1>4. m.size = 0 /\ Cardinality(InUse(m)) = 0
  BY <1>3, FS_EmptySet
<1> QED
  BY <1>2, <1>3, <1>4 DEF SoundArray

(***************************************************************************)
(* The work of a put: a sound map, and what is still to be put, which is   *)
(* not in the map and has no key twice.                                    *)
(***************************************************************************)
InTodo(q, k, d) == \E p \in DOMAIN q : q[p].inUse /\ q[p].key = k /\ q[p].data = d

OneOfAKey(q) ==
  \A p, r \in DOMAIN q : q[p].inUse /\ q[r].inUse /\ q[p].key = q[r].key => p = r

NewTo(m, q) == \A p \in DOMAIN q : q[p].inUse => ~HasKey(m, q[p].key)

WorkLists(D) == [map : UNION {Arrays(n, D) : n \in Nat}, todo : Seq(SlotOf(D))]

Working(w, D) ==
  /\ w \in WorkLists(D)
  /\ Sound(w.map, D)
  /\ OneOfAKey(w.todo)
  /\ NewTo(w.map, w.todo)

\* The keys and values that are in the map or will be.
Has(w, k, d) == Maps(w.map, k, d) \/ InTodo(w.todo, k, d)

LEMMA WorkingAgain ==
  ASSUME NEW D, NEW m, Sound(m, D), NEW q \in Seq(SlotOf(D)), OneOfAKey(q), NewTo(m, q)
  PROVE  Working([map |-> m, todo |-> q], D)
<1>1. m \in UNION {Arrays(n, D) : n \in Nat}
  BY DEF Sound, SoundArray
<1> QED
  BY <1>1 DEF Working, WorkLists

LEMMA TailFacts ==
  ASSUME NEW D, NEW q \in Seq(SlotOf(D)), q # <<>>
  PROVE  /\ Tail(q) \in Seq(SlotOf(D))
         /\ Head(q) = q[1] /\ 1 \in DOMAIN q
         /\ \A p \in DOMAIN Tail(q) : /\ p \in Nat /\ p > 0 /\ p + 1 \in DOMAIN q
                                      /\ Tail(q)[p] = q[p + 1]
         /\ \A p \in DOMAIN q : p = 1 \/ (p - 1 \in DOMAIN Tail(q) /\ Tail(q)[p - 1] = q[p])
<1>1. PICK n \in Nat : n = Len(q) /\ n > 0
  OBVIOUS
<1>2. DOMAIN q = 1 .. n /\ Len(Tail(q)) = n - 1
  BY <1>1
<1>3. Tail(q) \in Seq(SlotOf(D)) /\ DOMAIN Tail(q) = 1 .. n - 1
  BY <1>1, <1>2
<1>4. \A p \in 1 .. n - 1 : Tail(q)[p] = q[p + 1]
  BY <1>1
<1> QED
  BY <1>1, <1>2, <1>3, <1>4

LEMMA SkipsFree ==
  ASSUME NEW D, NEW m, NEW q \in Seq(SlotOf(D)), q # <<>>, OneOfAKey(q), NewTo(m, q)
  PROVE  /\ OneOfAKey(Tail(q)) /\ NewTo(m, Tail(q))
         /\ \A p \in DOMAIN Tail(q) :
               Head(q).inUse /\ Tail(q)[p].inUse => Head(q).key # Tail(q)[p].key
         /\ \A k, d : InTodo(q, k, d) <=>
               \/ InTodo(Tail(q), k, d)
               \/ Head(q).inUse /\ Head(q).key = k /\ Head(q).data = d
<1>1. OneOfAKey(Tail(q))
  <2>1. SUFFICES ASSUME NEW p \in DOMAIN Tail(q), NEW r \in DOMAIN Tail(q),
                        Tail(q)[p].inUse, Tail(q)[r].inUse, Tail(q)[p].key = Tail(q)[r].key
                 PROVE  p = r
    BY DEF OneOfAKey
  <2>2. p + 1 = r + 1
    BY <2>1, TailFacts DEF OneOfAKey
  <2> QED
    BY <2>2, TailFacts
<1>2. NewTo(m, Tail(q))
  BY TailFacts DEF NewTo
<1>3. ASSUME NEW p \in DOMAIN Tail(q), Head(q).inUse, Tail(q)[p].inUse
      PROVE  Head(q).key # Tail(q)[p].key
  <2>1. p \in Nat /\ p > 0 /\ p + 1 \in DOMAIN q /\ 1 \in DOMAIN q /\ Tail(q)[p] = q[p + 1] /\ Head(q) = q[1]
    BY TailFacts
  <2>2. q[1].inUse /\ q[p + 1].inUse /\ 1 # p + 1
    BY <1>3, <2>1
  <2> QED
    BY <2>1, <2>2 DEF OneOfAKey
<1>4. ASSUME NEW k, NEW d
      PROVE  InTodo(q, k, d) <=>
                \/ InTodo(Tail(q), k, d)
                \/ Head(q).inUse /\ Head(q).key = k /\ Head(q).data = d
  <2>1. ASSUME InTodo(Tail(q), k, d) PROVE InTodo(q, k, d)
    BY <2>1, TailFacts DEF InTodo
  <2>2. ASSUME Head(q).inUse /\ Head(q).key = k /\ Head(q).data = d PROVE InTodo(q, k, d)
    BY <2>2, TailFacts DEF InTodo
  <2>3. ASSUME InTodo(q, k, d)
        PROVE  \/ InTodo(Tail(q), k, d)
               \/ Head(q).inUse /\ Head(q).key = k /\ Head(q).data = d
    <3>1. PICK p \in DOMAIN q : q[p].inUse /\ q[p].key = k /\ q[p].data = d
      BY <2>3 DEF InTodo
    <3>2. CASE p = 1
      BY <3>1, <3>2, TailFacts
    <3>3. CASE p - 1 \in DOMAIN Tail(q) /\ Tail(q)[p - 1] = q[p]
      BY <3>1, <3>3 DEF InTodo
    <3> QED
      BY <3>2, <3>3, TailFacts
  <2> QED
    BY <2>1, <2>2, <2>3
<1> QED
  BY <1>1, <1>2, <1>3, <1>4

LEMMA ConcatFacts ==
  ASSUME NEW S, NEW a \in Seq(S), NEW b \in Seq(S)
  PROVE  /\ a \o b \in Seq(S)
         /\ Len(a \o b) = Len(a) + Len(b)
         /\ DOMAIN (a \o b) = 1 .. Len(a) + Len(b)
         /\ \A p \in 1 .. Len(a) : (a \o b)[p] = a[p]
         /\ \A p \in 1 .. Len(b) : (a \o b)[Len(a) + p] = b[p]
<1>1. a \o b \in Seq(S) /\ Len(a \o b) = Len(a) + Len(b)
  OBVIOUS
<1>2. \A p \in 1 .. Len(a) : (a \o b)[p] = a[p]
  OBVIOUS
<1>3. ASSUME NEW p \in 1 .. Len(b) PROVE (a \o b)[Len(a) + p] = b[p]
  <2>1. Len(a) + p \in 1 .. Len(a) + Len(b) /\ ~(Len(a) + p <= Len(a)) /\ (Len(a) + p) - Len(a) = p
    OBVIOUS
  <2> QED
    BY <2>1
<1> QED
  BY <1>1, <1>2, <1>3

(***************************************************************************)
(* hashmap_rehash: the elements of the old array come before what was to   *)
(* be put already.                                                         *)
(***************************************************************************)
LEMMA RehashFacts ==
  ASSUME NEW D, NEW m, Sound(m, D), NEW q \in Seq(SlotOf(D)), OneOfAKey(q), NewTo(m, q)
  PROVE  LET w == [map |-> Doubled(m), todo |-> OldSlots(m) \o q]
         IN  /\ Working(w, D)
             /\ \A k, d : Has(w, k, d) <=> Maps(m, k, d) \/ InTodo(q, k, d)
<1>1. PICK n \in Nat : SoundArray(m, n, D)
  BY DEF Sound
<1>2. m \in Arrays(n, D) /\ TableSize(m) = n /\ n >= InitialSize
  BY <1>1, ArrayFacts DEF SoundArray
<1>3. PICK old : old = OldSlots(m)
  OBVIOUS
<1>4. PICK new : new = Doubled(m)
  OBVIOUS
<1>5. SoundArray(new, 2 * n, D) /\ InUse(new) = {}
  <2>1. new = [size |-> 0, slots |-> Slots(2 * n)]
    BY <1>2, <1>4 DEF Doubled
  <2>2. 2 * n \in Nat /\ 2 * n >= InitialSize
    BY <1>2, ConstantFacts
  <2> QED
    BY <2>1, <2>2, EmptyFacts
<1>6. old \in Seq(SlotOf(D)) /\ Len(old) = n /\ \A p \in 1 .. n : old[p] = m.slots[p - 1]
  <2>1. old = [p \in 1 .. n |-> m.slots[p - 1]]
    BY <1>2, <1>3 DEF OldSlots
  <2>2. \A p \in 1 .. n : m.slots[p - 1] \in SlotOf(D)
    BY <1>2, ArrayFacts
  <2> QED
    BY <2>1, <2>2
<1>7. PICK N \in Nat : N = Len(q)
  OBVIOUS
<1>8. PICK both : both = old \o q
  OBVIOUS
<1>9. /\ both \in Seq(SlotOf(D))
      /\ DOMAIN both = 1 .. n + N
      /\ \A p \in 1 .. n : both[p] = old[p]
      /\ \A p \in 1 .. N : both[n + p] = q[p]
  <2>1. /\ old \o q \in Seq(SlotOf(D))
        /\ DOMAIN (old \o q) = 1 .. Len(old) + Len(q)
        /\ \A p \in 1 .. Len(old) : (old \o q)[p] = old[p]
        /\ \A p \in 1 .. Len(q) : (old \o q)[Len(old) + p] = q[p]
    <3>1. PICK T : T = SlotOf(D)
      OBVIOUS
    <3>2. old \in Seq(T) /\ q \in Seq(T)
      BY <1>6, <3>1
    <3>3. old \o q \in Seq(T)
      BY <3>2, ConcatFacts
    <3>4. DOMAIN (old \o q) = 1 .. Len(old) + Len(q)
      BY <3>2, ConcatFacts
    <3>5. \A p \in 1 .. Len(old) : (old \o q)[p] = old[p]
      BY <3>2, ConcatFacts
    <3>6. \A p \in 1 .. Len(q) : (old \o q)[Len(old) + p] = q[p]
      BY <3>2, ConcatFacts
    <3> QED
      BY <3>1, <3>3, <3>4, <3>5, <3>6
  <2>2. Len(old) = n /\ Len(q) = N
    BY <1>6, <1>7
  <2> QED
    BY <2>1, <2>2, <1>8
<1>10. \A p \in 1 .. n : /\ both[p] = m.slots[p - 1]
                         /\ p - 1 \in 0 .. n - 1
                         /\ both[p].inUse => p - 1 \in InUse(m)
  <2>1. DOMAIN m.slots = 0 .. n - 1
    BY <1>2, ArrayFacts
  <2>2. \A p \in 1 .. n : both[p] = m.slots[p - 1] /\ p - 1 \in 0 .. n - 1
    BY <1>6, <1>9
  <2> QED
    BY <2>1, <2>2 DEF InUse
<1>11. \A p \in n + 1 .. n + N : p - n \in DOMAIN q /\ both[p] = q[p - n]
  <2>1. SUFFICES ASSUME NEW p \in n + 1 .. n + N PROVE p - n \in DOMAIN q /\ both[p] = q[p - n]
    OBVIOUS
  <2>2. p - n \in 1 .. N /\ n + (p - n) = p
    OBVIOUS
  <2> QED
    BY <1>7, <1>9, <2>2
<1>12. \A p \in 1 .. n + N : p \in 1 .. n \/ p \in n + 1 .. n + N
  OBVIOUS
<1>13. OneOfAKey(both)
  <2>1. SUFFICES ASSUME NEW p \in 1 .. n + N, NEW r \in 1 .. n + N,
                        both[p].inUse, both[r].inUse, both[p].key = both[r].key
                 PROVE  p = r
    BY <1>9 DEF OneOfAKey
  <2>2. CASE p \in 1 .. n /\ r \in 1 .. n
    <3>1. p - 1 \in InUse(m) /\ r - 1 \in InUse(m) /\ m.slots[p - 1].key = m.slots[r - 1].key
      BY <1>10, <2>1, <2>2
    <3>2. p - 1 = r - 1
      BY <1>1, <3>1 DEF SoundArray
    <3> QED
      BY <3>2
  <2>3. CASE p \in n + 1 .. n + N /\ r \in n + 1 .. n + N
    <3>1. p - n = r - n
      BY <1>11, <2>1, <2>3 DEF OneOfAKey
    <3> QED
      BY <3>1
  <2>4. ASSUME NEW i \in 1 .. n, NEW j \in n + 1 .. n + N, both[i].inUse, both[j].inUse,
               both[i].key = both[j].key
        PROVE  FALSE
    <3>1. HasKey(m, both[j].key)
      BY <1>10, <2>4 DEF HasKey
    <3> QED
      BY <1>11, <2>4, <3>1 DEF NewTo
  <2> QED
    BY <1>12, <2>1, <2>2, <2>3, <2>4
<1>14. NewTo(new, both)
  BY <1>5 DEF NewTo, HasKey
<1>15. Working([map |-> new, todo |-> both], D)
  <2>1. 2 * n \in Nat
    OBVIOUS
  <2>2. Sound(new, D)
    BY <1>5, <2>1 DEF Sound
  <2> QED
    BY <1>9, <1>13, <1>14, <2>2, WorkingAgain
<1>16. ASSUME NEW k, NEW d
       PROVE  Maps(new, k, d) \/ InTodo(both, k, d) <=> Maps(m, k, d) \/ InTodo(q, k, d)
  <2>1. ~Maps(new, k, d)
    BY <1>5 DEF Maps
  <2>2. ASSUME InTodo(both, k, d) PROVE Maps(m, k, d) \/ InTodo(q, k, d)
    <3>1. PICK p \in 1 .. n + N : both[p].inUse /\ both[p].key = k /\ both[p].data = d
      BY <1>9, <2>2 DEF InTodo
    <3>2. CASE p \in 1 .. n
      BY <1>10, <3>1, <3>2 DEF Maps
    <3>3. CASE p \in n + 1 .. n + N
      BY <1>11, <3>1, <3>3 DEF InTodo
    <3> QED
      BY <1>12, <3>2, <3>3
  <2>3. ASSUME Maps(m, k, d) PROVE InTodo(both, k, d)
    <3>1. PICK s \in InUse(m) : m.slots[s].key = k /\ m.slots[s].data = d
      BY <2>3 DEF Maps
    <3>2. s \in 0 .. n - 1 /\ m.slots[s].inUse
      BY <1>2, <3>1, ArrayFacts DEF InUse
    <3>3. s + 1 \in 1 .. n /\ (s + 1) - 1 = s /\ s + 1 \in 1 .. n + N
      BY <3>2
    <3>4. both[s + 1] = m.slots[s]
      BY <1>10, <3>3
    <3> QED
      BY <1>9, <3>1, <3>2, <3>3, <3>4 DEF InTodo
  <2>4. ASSUME InTodo(q, k, d) PROVE InTodo(both, k, d)
    <3>1. PICK p \in 1 .. N : q[p].inUse /\ q[p].key = k /\ q[p].data = d
      BY <1>7, <2>4 DEF InTodo
    <3>2. n + p \in 1 .. n + N /\ both[n + p] = q[p]
      BY <1>9
    <3> QED
      BY <1>9, <3>1, <3>2 DEF InTodo
  <2> QED
    BY <2>1, <2>2, <2>3, <2>4
<1> QED
  BY <1>3, <1>4, <1>8, <1>15, <1>16 DEF Has

(***************************************************************************)
(* A round neither loses an element nor invents one.                       *)
(***************************************************************************)
LEMMA RoundKeeps ==
  ASSUME NEW D, NEW w, Working(w, D)
  PROVE  /\ Working(Round(w), D)
         /\ \A k, d : Has(Round(w), k, d) <=> Has(w, k, d)
<1>1. PICK q \in Seq(SlotOf(D)) : q = w.todo
  BY DEF Working, WorkLists
<1>2. PICK m : m = w.map
  OBVIOUS
<1>3. w = [map |-> m, todo |-> q]
  BY <1>1, <1>2 DEF Working, WorkLists
<1>4. Sound(m, D) /\ OneOfAKey(q) /\ NewTo(m, q)
  BY <1>1, <1>2 DEF Working
<1>5. \A k, d : Has(w, k, d) <=> Maps(m, k, d) \/ InTodo(q, k, d)
  BY <1>1, <1>2 DEF Has
<1> DEFINE s == Place(m, Head(q).key)
<1>6. CASE q = <<>>
  <2>1. Round(w) = w
    BY <1>1, <1>6 DEF Round
  <2> QED
    BY <2>1
<1>7. CASE q # <<>> /\ ~Head(q).inUse
  <2>1. Round(w) = [map |-> m, todo |-> Tail(q)]
    <3>1. Round(w) = [w EXCEPT !.todo = Tail(@)]
      BY <1>1, <1>7 DEF Round
    <3> QED
      BY <1>3, <3>1
  <2>2. Tail(q) \in Seq(SlotOf(D)) /\ OneOfAKey(Tail(q)) /\ NewTo(m, Tail(q))
    BY <1>4, <1>7, TailFacts, SkipsFree
  <2>3. Working(Round(w), D)
    BY <1>4, <2>1, <2>2, WorkingAgain
  <2>4. \A k, d : InTodo(q, k, d) <=> InTodo(Tail(q), k, d)
    BY <1>4, <1>7, SkipsFree
  <2>5. \A k, d : Has(Round(w), k, d) <=> Maps(m, k, d) \/ InTodo(Tail(q), k, d)
    BY <2>1 DEF Has
  <2> QED
    BY <1>5, <2>3, <2>4, <2>5
<1>8. CASE q # <<>> /\ Head(q).inUse /\ s # MapFull
  <2>1. Round(w) = [map |-> Store(m, s, Head(q)), todo |-> Tail(q)]
    BY <1>1, <1>2, <1>8 DEF Round
  <2>2. PICK e : e = Head(q)
    OBVIOUS
  <2>3. e \in Elements(D) /\ ~HasKey(m, e.key)
    <3>1. e = q[1] /\ 1 \in DOMAIN q
      BY <1>8, <2>2, TailFacts
    <3>2. e \in SlotOf(D)
      BY <3>1
    <3> QED
      BY <1>4, <1>8, <2>2, <3>1, <3>2, ElementFacts DEF NewTo
  <2>4. PICK n \in Nat : SoundArray(m, n, D)
    BY <1>4 DEF Sound
  <2>5. PICK x : x = Store(m, s, e)
    OBVIOUS
  <2>6. /\ SoundArray(x, n, D)
        /\ \A k, d : Maps(x, k, d) <=> Maps(m, k, d) \/ (k = e.key /\ d = e.data)
    BY <1>8, <2>2, <2>3, <2>4, <2>5, StoreFacts
  <2>7. Tail(q) \in Seq(SlotOf(D)) /\ OneOfAKey(Tail(q)) /\ NewTo(m, Tail(q))
    BY <1>4, <1>8, TailFacts, SkipsFree
  <2>8. \A k : HasKey(x, k) <=> HasKey(m, k) \/ k = e.key
    <3>1. \A k : HasKey(x, k) <=> \E d : Maps(x, k, d)
      BY DEF HasKey, Maps
    <3>2. \A k : HasKey(m, k) <=> \E d : Maps(m, k, d)
      BY DEF HasKey, Maps
    <3> QED
      BY <2>6, <3>1, <3>2
  <2>9. \A p \in DOMAIN Tail(q) : Tail(q)[p].inUse => Tail(q)[p].key # e.key
    BY <1>4, <1>8, <2>2, SkipsFree
  <2>10. NewTo(x, Tail(q))
    BY <2>7, <2>8, <2>9 DEF NewTo
  <2>11. Sound(x, D)
    BY <2>6 DEF Sound
  <2>12. Round(w) = [map |-> x, todo |-> Tail(q)]
    BY <2>1, <2>2, <2>5
  <2>13. Working(Round(w), D)
    BY <2>7, <2>10, <2>11, <2>12, WorkingAgain
  <2>14. \A k, d : InTodo(q, k, d) <=> InTodo(Tail(q), k, d) \/ (k = e.key /\ d = e.data)
    BY <1>4, <1>8, <2>2, SkipsFree
  <2>15. \A k, d : Has(Round(w), k, d) <=> Maps(x, k, d) \/ InTodo(Tail(q), k, d)
    BY <2>12 DEF Has
  <2> QED
    BY <1>5, <2>6, <2>13, <2>14, <2>15
<1>9. CASE q # <<>> /\ Head(q).inUse /\ s = MapFull
  <2>1. Round(w) = [map |-> Doubled(m), todo |-> OldSlots(m) \o q]
    BY <1>1, <1>2, <1>9 DEF Round
  <2>2. /\ Working(Round(w), D)
        /\ \A k, d : Has(Round(w), k, d) <=> Maps(m, k, d) \/ InTodo(q, k, d)
    BY <1>4, <2>1, RehashFacts
  <2> QED
    BY <1>5, <2>2
<1>10. q = <<>> \/ Head(q).inUse \in BOOLEAN
  BY TailFacts, ElementFacts
<1> QED
  BY <1>6, <1>7, <1>8, <1>9, <1>10

(***************************************************************************)
(* A put is a loop of rounds over a work list.                             *)
(***************************************************************************)
LEMMA PuttingKeeps ==
  ASSUME NEW D, NEW m, Sound(m, D), NEW key \in Key, NEW data \in D, ~HasKey(m, key)
  PROVE  /\ Working(Putting(m, key, data), D)
         /\ \A k, d : Has(Putting(m, key, data), k, d) <=>
                         Maps(m, k, d) \/ (k = key /\ d = data)
<1> DEFINE base == [map |-> m, todo |-> <<Element(key, data)>>]
           Good == {w \in WorkLists(D) :
                      /\ Working(w, D)
                      /\ \A k, d : Has(w, k, d) <=> Maps(m, k, d) \/ (k = key /\ d = data)}
           IsRun(f) == f = [r \in 0 .. MaxRounds |-> IF r = 0 THEN base ELSE Round(f[r - 1])]
           rounds == CHOOSE f : IsRun(f)
<1>1. Putting(m, key, data) = rounds[MaxRounds]
  BY DEF Putting
<1>2. base \in Good
  <2>1. PICK e : e = Element(key, data)
    OBVIOUS
  <2>2. e.inUse = TRUE /\ e.key = key /\ e.data = data /\ e \in SlotOf(D)
    BY <2>1 DEF Element, SlotOf, Elements
  <2>3. PICK q : q = <<e>> /\ q \in Seq(SlotOf(D))
    <3>1. PICK T : T = SlotOf(D)
      OBVIOUS
    <3>2. e \in T
      BY <2>2, <3>1
    <3>3. <<e>> \in Seq(T)
      BY <3>2
    <3> QED
      BY <3>1, <3>3
  <2>4. DOMAIN q = {1} /\ q[1] = e
    BY <2>3
  <2>5. OneOfAKey(q) /\ NewTo(m, q)
    BY <2>2, <2>4 DEF OneOfAKey, NewTo
  <2>6. Working(base, D)
    BY <2>1, <2>3, <2>5, WorkingAgain
  <2>7. \A k, d : InTodo(q, k, d) <=> k = key /\ d = data
    BY <2>2, <2>4 DEF InTodo
  <2>8. \A k, d : Has(base, k, d) <=> Maps(m, k, d) \/ (k = key /\ d = data)
    BY <2>1, <2>3, <2>7 DEF Has
  <2> QED
    BY <2>6, <2>8 DEF Working
<1>3. ASSUME NEW w \in Good PROVE Round(w) \in Good
  <2>1. Working(Round(w), D) /\ \A k, d : Has(Round(w), k, d) <=> Has(w, k, d)
    BY RoundKeeps
  <2> QED
    BY <2>1 DEF Working
<1>4. MaxRounds \in Nat
  BY ConstantFacts
<1> HIDE DEF base, Good
<1>5. PICK step : step = [x \in (1 .. MaxRounds) \X Good |-> Round(x[2])]
  OBVIOUS
<1>6. \A i \in 1 .. MaxRounds, w \in Good : step[<<i, w>>] = Round(w)
  BY <1>5
<1>7. step \in [(1 .. MaxRounds) \X Good -> Good]
  BY <1>3, <1>5
<1>8. PICK run : IsLoop(run, Good, MaxRounds, base, step)
  BY <1>2, <1>4, <1>7, LoopHasRun
<1>9. run \in [0 .. MaxRounds -> Good] /\ run[0] = base
  BY <1>8 DEF IsLoop
<1>10. ASSUME NEW i \in 1 .. MaxRounds PROVE run[i] = Round(run[i - 1])
  <2>1. i - 1 \in 0 .. MaxRounds /\ run[i] = step[<<i, run[i - 1]>>]
    BY <1>4, <1>8 DEF IsLoop
  <2> QED
    BY <1>6, <1>9, <2>1
<1>11. IsRun(run)
  <2>1. \A i \in 0 .. MaxRounds : run[i] = IF i = 0 THEN base ELSE Round(run[i - 1])
    BY <1>4, <1>9, <1>10
  <2> QED
    BY <1>9, <2>1
<1>12. IsRun(rounds)
  <2> HIDE DEF IsRun
  <2> QED
    BY <1>11
<1> HIDE DEF rounds
<1>13. /\ rounds[0] = base
       /\ \A i \in 1 .. MaxRounds : rounds[i] = Round(rounds[i - 1])
  BY <1>4, <1>12
<1> DEFINE S == {i \in 0 .. MaxRounds : rounds[i] \in Good}
<1>14. 0 \in S
  BY <1>2, <1>4, <1>13
<1>15. ASSUME NEW i \in 0 .. MaxRounds - 1, i \in S PROVE i + 1 \in S
  <2>1. i + 1 \in 1 .. MaxRounds /\ (i + 1) - 1 = i /\ i + 1 \in 0 .. MaxRounds
    BY <1>4
  <2>2. rounds[i + 1] = Round(rounds[i])
    BY <1>13, <2>1
  <2>3. rounds[i] \in Good
    BY <1>15
  <2>4. rounds[i + 1] \in Good
    BY <1>3, <2>2, <2>3
  <2> QED
    BY <2>1, <2>4
<1>16. 0 .. MaxRounds \subseteq S
  <2> HIDE DEF S
  <2> QED
    BY <1>4, <1>14, <1>15, InductionUpTo
<1>17. rounds[MaxRounds] \in Good
  BY <1>4, <1>16
<1> QED
  BY <1>1, <1>17 DEF Good

(***************************************************************************)
(* hashmap_put of a new key that returns leaves a sound map with that key  *)
(* and all that it had before, and with nothing else.                      *)
(***************************************************************************)
LEMMA PutFacts ==
  ASSUME NEW D, NEW m, Sound(m, D), NEW key \in Key, NEW data \in D, ~HasKey(m, key),
         PutReturns(m, key, data)
  PROVE  /\ Sound(Put(m, key, data), D)
         /\ \A k, d : Maps(Put(m, key, data), k, d) <=>
                         Maps(m, k, d) \/ (k = key /\ d = data)
<1>1. PICK w : w = Putting(m, key, data)
  OBVIOUS
<1>2. Working(w, D) /\ \A k, d : Has(w, k, d) <=> Maps(m, k, d) \/ (k = key /\ d = data)
  BY <1>1, PuttingKeeps
<1>3. w.todo = <<>> /\ w.map = Put(m, key, data)
  BY <1>1 DEF PutReturns, Put
<1>4. \A k, d : ~InTodo(w.todo, k, d)
  BY <1>3 DEF InTodo
<1> QED
  BY <1>2, <1>3, <1>4 DEF Working, Has

LEMMA NewFacts ==
  ASSUME NEW D
  PROVE  Sound(New, D) /\ \A k : ~HasKey(New, k)
<1>1. InitialSize \in Nat /\ InitialSize >= InitialSize
  BY ConstantFacts
<1>2. SoundArray(New, InitialSize, D) /\ InUse(New) = {}
  BY <1>1, EmptyFacts DEF New
<1> QED
  BY <1>1, <1>2 DEF Sound, HasKey

(***************************************************************************)
(* hashmap.c: when a put of a new key returns, hashmap_get finds the key   *)
(* with its value, and finds for every other key what it found before,     *)
(* however often the table was doubled on the way and whatever collided.   *)
(***************************************************************************)
THEOREM GetAfterPut ==
  ASSUME NEW D, NEW m, Sound(m, D), NEW key \in Key, NEW data \in D, ~HasKey(m, key),
         PutReturns(m, key, data)
  PROVE  /\ Get(Put(m, key, data), key) = data
         /\ \A k \in Key \ {key} : Get(Put(m, key, data), k) = Get(m, k)
<1>1. PICK w : w = Put(m, key, data)
  OBVIOUS
<1>2. Sound(w, D) /\ \A k, d : Maps(w, k, d) <=> Maps(m, k, d) \/ (k = key /\ d = data)
  BY <1>1, PutFacts
<1>3. Get(w, key) = data
  BY <1>2, GetFacts
<1>4. ASSUME NEW k \in Key \ {key} PROVE Get(w, k) = Get(m, k)
  <2>1. CASE HasKey(m, k)
    <3>1. Get(m, k) \in D /\ Maps(m, k, Get(m, k))
      BY <2>1, GetFacts
    <3> QED
      BY <1>2, <3>1, GetFacts
  <2>2. CASE ~HasKey(m, k)
    <3>1. ~HasKey(w, k)
      <4>1. HasKey(w, k) => \E d : Maps(w, k, d)
        BY DEF HasKey, Maps
      <4>2. \A d : ~Maps(m, k, d)
        BY <2>2 DEF HasKey, Maps
      <4> QED
        BY <1>2, <4>1, <4>2
    <3> QED
      BY <1>2, <2>2, <3>1, GetFacts
  <2> QED
    BY <2>1, <2>2
<1> QED
  BY <1>1, <1>3, <1>4

-----------------------------------------------------------------------------
(***************************************************************************)
(*                              THE DATA PDU                               *)
(***************************************************************************)
\* Messages are records with a length; laid out, each has a prefix.
HaveLength(M) == \A m \in M : m.length \in Nat

LaidOut(M) == [prefix : Nat, body : M]

\* createDataMessage, the messages behind their prefixes.
Laid(messages) ==
  [i \in 1 .. Len(messages) |->
      [prefix |-> UInt16(messages[i].length), body |-> messages[i]]]

LEMMA PduConstants ==
  /\ HashLength \in Nat /\ HashLength >= 1
  /\ CrcWidth \div 8 \in Nat
  /\ BufferSize \in Nat /\ BufferSize < 65536
  /\ HeaderLength = 28 /\ SafetyCodeLength \in Nat
<1>1. HashLength \in Nat /\ HashLength >= 1 /\ BufferSize \in Nat /\ BufferSize < 65536
  BY SMTT(30), PduAssumption
<1>2. CrcWidth \div 8 \in Nat
  <2>1. CrcWidth = 16 \/ CrcWidth = 32
    BY SMTT(30), PduAssumption
  <2>2. 16 \div 8 \in Nat /\ 32 \div 8 \in Nat
    OBVIOUS
  <2> QED
    BY <2>1, <2>2
<1>3. HeaderLength = 28 /\ SafetyCodeLength \in Nat
  BY <1>1 DEF HeaderLength, SafetyCodeLength
<1> QED
  BY <1>1, <1>2, <1>3

LEMMA FitsIn16 ==
  ASSUME NEW x \in Nat, x < 65536
  PROVE  UInt16(x) = x
BY DEF UInt16

(***************************************************************************)
(* The offsets: from 0, each message takes its length and two bytes.       *)
(***************************************************************************)
LEMMA StartsRun ==
  ASSUME NEW M, HaveLength(M), NEW data \in Seq(LaidOut(M))
  PROVE  /\ Starts(data) \in [0 .. Len(data) -> Nat]
         /\ Starts(data)[0] = 0
         /\ \A k \in 1 .. Len(data) :
               Starts(data)[k] = Starts(data)[k - 1] + 2 + data[k].body.length
<1>1. PICK n \in Nat : n = Len(data) /\ \A k \in 1 .. n : data[k] \in LaidOut(M)
  OBVIOUS
<1>2. \A k \in 1 .. n : data[k].body.length \in Nat
  BY <1>1 DEF LaidOut, HaveLength
<1> DEFINE IsRun(f) ==
             f = [k \in 0 .. n |-> IF k = 0 THEN 0 ELSE f[k - 1] + 2 + data[k].body.length]
           start == CHOOSE f : IsRun(f)
<1>3. Starts(data) = start
  BY <1>1 DEF Starts
<1>4. PICK step : step = [x \in (1 .. n) \X Nat |-> x[2] + 2 + data[x[1]].body.length]
  OBVIOUS
<1>5. \A k \in 1 .. n, x \in Nat : step[<<k, x>>] = x + 2 + data[k].body.length
  BY <1>4
<1>6. step \in [(1 .. n) \X Nat -> Nat]
  <2>1. \A x \in (1 .. n) \X Nat : x[2] + 2 + data[x[1]].body.length \in Nat
    <3>1. SUFFICES ASSUME NEW x \in (1 .. n) \X Nat
                   PROVE  x[2] + 2 + data[x[1]].body.length \in Nat
      OBVIOUS
    <3>2. x[1] \in 1 .. n /\ x[2] \in Nat
      OBVIOUS
    <3> QED
      BY <1>2, <3>2
  <2> QED
    BY <1>4, <2>1
<1>7. PICK run : IsLoop(run, Nat, n, 0, step)
  BY <1>6, LoopHasRun
<1>8. run \in [0 .. n -> Nat] /\ run[0] = 0
  BY <1>7 DEF IsLoop
<1>9. ASSUME NEW k \in 1 .. n PROVE run[k] = run[k - 1] + 2 + data[k].body.length
  <2>1. run[k] = step[<<k, run[k - 1]>>]
    BY <1>7 DEF IsLoop
  <2>2. k - 1 \in 0 .. n
    OBVIOUS
  <2>3. run[k - 1] \in Nat
    BY <1>8, <2>2
  <2> QED
    BY <1>5, <2>1, <2>3
<1>10. IsRun(run)
  <2>1. \A k \in 0 .. n : run[k] = IF k = 0 THEN 0 ELSE run[k - 1] + 2 + data[k].body.length
    BY <1>8, <1>9
  <2> QED
    BY <1>8, <2>1
<1>11. IsRun(start)
  <2> HIDE DEF IsRun
  <2> QED
    BY <1>10
<1> HIDE DEF start
<1>12. /\ DOMAIN start = 0 .. n /\ start[0] = 0
       /\ start = [k \in 0 .. n |-> start[k]]
       /\ \A k \in 1 .. n : start[k] = start[k - 1] + 2 + data[k].body.length
  <2>1. start = [k \in 0 .. n |-> IF k = 0 THEN 0 ELSE start[k - 1] + 2 + data[k].body.length]
    BY <1>11
  <2> DEFINE F(k) == IF k = 0 THEN 0 ELSE start[k - 1] + 2 + data[k].body.length
  <2>2. start = [k \in 0 .. n |-> F(k)]
    BY <2>1
  <2> HIDE DEF F
  <2>3. DOMAIN start = 0 .. n /\ \A k \in 0 .. n : start[k] = F(k)
    BY <2>2
  <2>4. start = [k \in 0 .. n |-> start[k]]
    BY <2>2
  <2>5. start[0] = F(0) /\ \A k \in 1 .. n : start[k] = F(k) /\ k # 0
    BY <2>3
  <2> QED
    BY <2>3, <2>4, <2>5 DEF F
<1> DEFINE S == {k \in 0 .. n : start[k] \in Nat}
<1>13. 0 .. n \subseteq S
  <2>1. 0 \in S
    BY <1>12
  <2>2. ASSUME NEW k \in 0 .. n - 1, k \in S PROVE k + 1 \in S
    <3>1. k + 1 \in 1 .. n /\ (k + 1) - 1 = k /\ start[k] \in Nat
      BY <2>2
    <3>2. start[k + 1] = start[k] + 2 + data[k + 1].body.length
      BY <1>12, <3>1
    <3>3. start[k + 1] \in Nat
      BY <1>2, <3>1, <3>2
    <3> QED
      BY <3>1, <3>3
  <2> HIDE DEF S
  <2> QED
    BY <2>1, <2>2, InductionUpTo
<1>14. start \in [0 .. n -> Nat]
  BY <1>12, <1>13
<1> QED
  BY <1>1, <1>3, <1>12, <1>14

(***************************************************************************)
(* Every message starts behind the ones before it, and with messages of at *)
(* most L bytes it is not far.                                             *)
(***************************************************************************)
LEMMA StartsGrow ==
  ASSUME NEW M, HaveLength(M), NEW data \in Seq(LaidOut(M)),
         NEW i \in 0 .. Len(data), NEW j \in 0 .. Len(data), i < j
  PROVE  Starts(data)[i] < Starts(data)[j]
<1>1. PICK n \in Nat : n = Len(data) /\ \A k \in 1 .. n : data[k] \in LaidOut(M)
  OBVIOUS
<1>2. \A k \in 1 .. n : data[k].body.length \in Nat
  BY <1>1 DEF LaidOut, HaveLength
<1>3. PICK start : start = Starts(data)
  OBVIOUS
<1>4. /\ start \in [0 .. n -> Nat]
      /\ \A k \in 1 .. n : start[k] = start[k - 1] + 2 + data[k].body.length
  BY <1>1, <1>3, StartsRun
<1> DEFINE S == {k \in 0 .. n : i < k => start[i] < start[k]}
<1>5. 0 \in S
  BY <1>1
<1>6. ASSUME NEW k \in 0 .. n - 1, k \in S PROVE k + 1 \in S
  <2>1. k + 1 \in 1 .. n /\ (k + 1) - 1 = k /\ k + 1 \in 0 .. n /\ k \in 0 .. n
    OBVIOUS
  <2>2. start[k + 1] = start[k] + 2 + data[k + 1].body.length
    BY <1>4, <2>1
  <2>3. start[k] \in Nat /\ start[k + 1] \in Nat /\ start[k] < start[k + 1]
    <3>1. PICK len \in Nat : len = data[k + 1].body.length
      BY <1>2, <2>1
    <3>2. start[k] \in Nat /\ start[k + 1] \in Nat
      BY <1>4, <2>1
    <3> QED
      BY <2>2, <3>1, <3>2
  <2>4. i < k + 1 => i = k \/ i < k
    BY <1>1
  <2>5. i < k => start[i] < start[k]
    BY <1>6
  <2>6. start[i] \in Nat
    BY <1>1, <1>4
  <2>7. i < k + 1 => start[i] < start[k + 1]
    BY <2>3, <2>4, <2>5, <2>6
  <2> QED
    BY <2>1, <2>7
<1>7. 0 .. n \subseteq S
  <2> HIDE DEF S
  <2> QED
    BY <1>5, <1>6, InductionUpTo
<1> QED
  BY <1>1, <1>3, <1>7

LEMMA StartsBound ==
  ASSUME NEW M, HaveLength(M), NEW data \in Seq(LaidOut(M)), NEW L \in Nat,
         \A k \in 1 .. Len(data) : data[k].body.length <= L
  PROVE  DataLength(data) <= Len(data) * (2 + L)
<1>1. PICK n \in Nat : n = Len(data) /\ \A k \in 1 .. n : data[k] \in LaidOut(M)
  OBVIOUS
<1>2. \A k \in 1 .. n : data[k].body.length \in Nat /\ data[k].body.length <= L
  BY <1>1 DEF LaidOut, HaveLength
<1>3. PICK start : start = Starts(data)
  OBVIOUS
<1>4. /\ start \in [0 .. n -> Nat] /\ start[0] = 0
      /\ \A k \in 1 .. n : start[k] = start[k - 1] + 2 + data[k].body.length
  BY <1>1, <1>3, StartsRun
<1>5. PICK c \in Nat : c = 2 + L
  OBVIOUS
<1> DEFINE S == {k \in 0 .. n : start[k] <= k * c}
<1>6. 0 \in S
  BY <1>4
<1>7. ASSUME NEW k \in 0 .. n - 1, k \in S PROVE k + 1 \in S
  <2>1. k + 1 \in 1 .. n /\ (k + 1) - 1 = k /\ k + 1 \in 0 .. n /\ k \in 0 .. n
    OBVIOUS
  <2>2. start[k + 1] = start[k] + 2 + data[k + 1].body.length
    BY <1>4, <2>1
  <2>3. start[k] \in Nat /\ start[k] <= k * c
    BY <1>4, <1>7, <2>1
  <2>4. start[k + 1] <= k * c + c
    BY SMTT(60), <1>2, <1>5, <2>1, <2>2, <2>3
  <2>5. (k + 1) * c = k * c + c
    OBVIOUS
  <2> QED
    BY <2>1, <2>4, <2>5
<1>8. 0 .. n \subseteq S
  <2> HIDE DEF S
  <2> QED
    BY <1>6, <1>7, InductionUpTo
<1> QED
  BY <1>1, <1>3, <1>5, <1>8 DEF DataLength

(***************************************************************************)
(* extractMessageData goes from message to message.                        *)
(***************************************************************************)
Bodies(data, n) == [k \in 1 .. n |-> data[k].body]

Exact(data) == \A k \in 1 .. Len(data) : data[k].prefix = data[k].body.length

LEMMA BodiesGrow ==
  ASSUME NEW M, NEW data \in Seq(LaidOut(M)), NEW r \in 0 .. Len(data) - 1
  PROVE  Append(Bodies(data, r), data[r + 1].body) = Bodies(data, r + 1)
<1>1. PICK n \in Nat : n = Len(data) /\ \A k \in 1 .. n : data[k] \in LaidOut(M)
  OBVIOUS
<1>2. \A k \in 1 .. n : data[k].body \in M
  BY <1>1 DEF LaidOut
<1>3. r \in Nat /\ r + 1 \in 1 .. n
  BY <1>1
<1>4. PICK b : b = data[r + 1].body /\ b \in M
  BY <1>2, <1>3
<1>5. PICK s : s = Bodies(data, r)
  OBVIOUS
<1>6. s = [k \in 1 .. r |-> data[k].body]
  BY <1>5 DEF Bodies
<1>7. \A k \in 1 .. r : data[k].body \in M
  BY <1>2, <1>3
<1>8. s \in Seq(M) /\ Len(s) = r /\ \A k \in 1 .. r : s[k] = data[k].body
  BY <1>3, <1>6, <1>7
<1>9. PICK t : t = Append(s, b)
  OBVIOUS
<1>10. t \in Seq(M) /\ Len(t) = r + 1 /\ t[r + 1] = b /\ \A k \in 1 .. r : t[k] = s[k]
  BY <1>4, <1>8, <1>9
<1>11. \A k \in 1 .. r + 1 : t[k] = data[k].body
  <2>1. \A k \in 1 .. r + 1 : k = r + 1 \/ k \in 1 .. r
    BY <1>3
  <2> QED
    BY <1>4, <1>8, <1>10, <2>1
<1>12. t = [k \in 1 .. r + 1 |-> t[k]]
  BY <1>10
<1>13. t = [k \in 1 .. r + 1 |-> data[k].body]
  BY <1>11, <1>12
<1> QED
  BY <1>4, <1>5, <1>9, <1>13 DEF Bodies

LEMMA ReadsNext ==
  ASSUME NEW M, HaveLength(M), NEW data \in Seq(LaidOut(M)), Exact(data),
         NEW r \in 0 .. Len(data) - 1
  PROVE  ReadMessage(data, [offset |-> Starts(data)[r], messages |-> Bodies(data, r)])
           = [offset |-> Starts(data)[r + 1], messages |-> Bodies(data, r + 1)]
<1>1. PICK n \in Nat : n = Len(data)
  OBVIOUS
<1>2. r \in 0 .. n /\ r + 1 \in 1 .. n /\ (r + 1) - 1 = r /\ n \in 0 .. n /\ r < n
  BY <1>1
<1>3. PICK at : at = [offset |-> Starts(data)[r], messages |-> Bodies(data, r)]
  OBVIOUS
<1>4. at.offset = Starts(data)[r] /\ at.messages = Bodies(data, r)
  BY <1>3
<1>5. ~(at.offset >= DataLength(data))
  <2>1. Starts(data)[r] < Starts(data)[n]
    BY <1>1, <1>2, StartsGrow
  <2>2. Starts(data)[r] \in Nat /\ Starts(data)[n] \in Nat
    BY <1>1, <1>2, StartsRun
  <2> QED
    BY <1>1, <1>4, <2>1, <2>2 DEF DataLength
<1> DEFINE k == CHOOSE i \in 1 .. Len(data) : StartOf(data, i) = at.offset
<1>6. StartOf(data, r + 1) = at.offset
  BY <1>2, <1>4 DEF StartOf
<1>7. k \in 1 .. n /\ StartOf(data, k) = at.offset
  BY <1>1, <1>2, <1>6
<1> HIDE DEF k
<1>8. k = r + 1
  <2>1. k - 1 \in 0 .. n /\ Starts(data)[k - 1] = Starts(data)[r]
    BY <1>1, <1>4, <1>7 DEF StartOf
  <2>2. ~(k - 1 < r) /\ ~(r < k - 1)
    <3>1. Starts(data)[r] \in Nat
      BY <1>1, <1>2, StartsRun
    <3>2. \A i, j \in 0 .. n : i < j => Starts(data)[i] < Starts(data)[j]
      BY <1>1, StartsGrow
    <3> QED
      BY <1>2, <2>1, <3>1, <3>2
  <2> QED
    BY <1>2, <1>7, <2>2
<1>9. ReadMessage(data, at) = [offset |-> at.offset + data[k].prefix + 2,
                               messages |-> Append(at.messages, data[k].body)]
  BY <1>5 DEF ReadMessage, k
<1>10. at.offset + data[k].prefix + 2 = Starts(data)[r + 1]
  <2>1. Starts(data)[r + 1] = Starts(data)[r] + 2 + data[r + 1].body.length
    BY <1>1, <1>2, StartsRun
  <2>2. data[r + 1].prefix = data[r + 1].body.length
    BY <1>1, <1>2 DEF Exact
  <2>3. data[r + 1].body.length \in Nat
    <3>1. data[r + 1] \in LaidOut(M)
      BY <1>1, <1>2
    <3> QED
      BY <3>1 DEF LaidOut, HaveLength
  <2>4. Starts(data)[r] \in Nat
    BY <1>1, <1>2, StartsRun
  <2>5. PICK len \in Nat : len = data[r + 1].body.length
    BY <2>3
  <2>6. PICK o \in Nat : o = Starts(data)[r]
    BY <2>4
  <2>7. at.offset = o /\ data[k].prefix = len /\ Starts(data)[r + 1] = o + 2 + len
    BY <1>4, <1>8, <2>1, <2>2, <2>5, <2>6
  <2>8. o + len + 2 = o + 2 + len
    OBVIOUS
  <2> QED
    BY <2>7, <2>8
<1>11. Append(at.messages, data[k].body) = Bodies(data, r + 1)
  BY <1>4, <1>8, BodiesGrow
<1> QED
  BY <1>3, <1>9, <1>10, <1>11

LEMMA ExtractsAll ==
  ASSUME NEW M, HaveLength(M), NEW data \in Seq(LaidOut(M)), Exact(data)
  PROVE  ExtractMessageData(data) = Bodies(data, Len(data))
<1>1. PICK n \in Nat : n = Len(data)
  OBVIOUS
<1> DEFINE base == [offset |-> 0, messages |-> <<>>]
           IsRun(f) == f = [r \in 0 .. n |-> IF r = 0 THEN base ELSE ReadMessage(data, f[r - 1])]
           walk == CHOOSE f : IsRun(f)
           at(r) == [offset |-> Starts(data)[r], messages |-> Bodies(data, r)]
<1>2. ExtractMessageData(data) = walk[n].messages
  BY <1>1 DEF ExtractMessageData
<1>3. at(0) = base
  <2>1. Starts(data)[0] = 0
    BY StartsRun
  <2>2. Bodies(data, 0) = <<>>
    BY DEF Bodies
  <2> QED
    BY <2>1, <2>2
<1>4. ASSUME NEW r \in 0 .. n - 1 PROVE ReadMessage(data, at(r)) = at(r + 1)
  BY <1>1, ReadsNext
<1>5. (at(n)).messages = Bodies(data, n)
  OBVIOUS
<1> HIDE DEF at, base
<1>6. PICK run : run = [r \in 0 .. n |-> at(r)]
  OBVIOUS
<1>7. IsRun(run)
  <2>1. ASSUME NEW r \in 0 .. n
        PROVE  at(r) = IF r = 0 THEN base ELSE ReadMessage(data, run[r - 1])
    <3>1. CASE r = 0
      BY <1>3, <3>1
    <3>2. CASE r # 0
      <4>1. r - 1 \in 0 .. n - 1 /\ r - 1 \in 0 .. n /\ (r - 1) + 1 = r
        BY <3>2
      <4>2. run[r - 1] = at(r - 1)
        BY <1>6, <4>1
      <4>3. ReadMessage(data, at(r - 1)) = at((r - 1) + 1)
        BY <1>4, <4>1
      <4> QED
        BY <3>2, <4>1, <4>2, <4>3
    <3> QED
      BY <3>1, <3>2
  <2> QED
    BY <1>6, <2>1
<1>8. IsRun(walk)
  <2> HIDE DEF IsRun
  <2> QED
    BY <1>7
<1> HIDE DEF walk
<1>9. /\ walk[0] = base
      /\ \A r \in 1 .. n : walk[r] = ReadMessage(data, walk[r - 1])
  BY <1>8
<1> DEFINE S == {r \in 0 .. n : walk[r] = at(r)}
<1>10. 0 \in S
  BY <1>3, <1>9
<1>11. ASSUME NEW r \in 0 .. n - 1, r \in S PROVE r + 1 \in S
  <2>1. r + 1 \in 1 .. n /\ (r + 1) - 1 = r /\ r + 1 \in 0 .. n
    OBVIOUS
  <2>2. walk[r + 1] = ReadMessage(data, walk[r])
    BY <1>9, <2>1
  <2>3. walk[r + 1] = at(r + 1)
    BY <1>4, <1>11, <2>2
  <2> QED
    BY <2>1, <2>3
<1>12. 0 .. n \subseteq S
  <2> HIDE DEF S
  <2> QED
    BY <1>10, <1>11, InductionUpTo
<1>13. walk[n] = at(n)
  BY <1>12
<1> QED
  BY <1>1, <1>2, <1>5, <1>13

(***************************************************************************)
(* rastafactory.c, rastamodule.c: messages that fit into the buffer of     *)
(* the receiver come out of the datagram one by one, in their order, and   *)
(* the receiver takes the datagram, exactly if its sender had no error     *)
(* pending when it was made.                                               *)
(***************************************************************************)
THEOREM RoundTrip ==
  ASSUME NEW M, HaveLength(M), NEW messages \in Seq(M), NEW bad \in BOOLEAN,
         NEW L \in Nat, \A k \in 1 .. Len(messages) : messages[k].length <= L,
         HeaderLength + SafetyCodeLength + Len(messages) * (2 + L)
             + 8 + CrcWidth \div 8 <= BufferSize
  PROVE  LET bytes == RedundancyPacketToBytes(CreateDataMessage(messages), bad)
         IN  /\ ChecksumsCorrect(bytes) <=> ~bad
             /\ ExtractMessageData(bytes.inner.packet.data) = messages
<1>1. PICK n \in Nat : n = Len(messages) /\ \A k \in 1 .. n : messages[k] \in M
  OBVIOUS
<1>2. \A k \in 1 .. n : messages[k].length \in Nat /\ messages[k].length <= L
  BY <1>1 DEF HaveLength
<1>3. PICK data : data = Laid(messages)
  OBVIOUS
<1>4. PICK h \in Nat : h = SafetyCodeLength
  BY PduConstants
<1>5. PICK w \in Nat : w = CrcWidth \div 8
  BY PduConstants
<1>6. PICK total \in Nat : total = n * (2 + L)
  OBVIOUS
<1>7. 28 + h + total + 8 + w <= BufferSize /\ BufferSize \in Nat /\ BufferSize < 65536
  BY <1>1, <1>4, <1>5, <1>6, PduConstants
<1>8. \A k \in 1 .. n : UInt16(messages[k].length) = messages[k].length
  <2>1. SUFFICES ASSUME NEW k \in 1 .. n PROVE UInt16(messages[k].length) = messages[k].length
    OBVIOUS
  <2>2. PICK len \in Nat : len = messages[k].length /\ len <= L
    BY <1>2
  <2>3. L <= total
    <3>1. PICK c \in Nat : c = 2 + L
      OBVIOUS
    <3>2. total = (n - 1) * c + c /\ n - 1 \in Nat
      BY <1>6, <3>1
    <3>3. (n - 1) * c \in Nat
      BY <3>2
    <3> QED
      BY <3>1, <3>2, <3>3
  <2>4. len < 65536
    BY <1>7, <2>2, <2>3
  <2> QED
    BY <2>2, <2>4, FitsIn16
<1>9. data = [k \in 1 .. n |-> [prefix |-> messages[k].length, body |-> messages[k]]]
  <2>1. data = [k \in 1 .. n |-> [prefix |-> UInt16(messages[k].length), body |-> messages[k]]]
    BY <1>1, <1>3 DEF Laid
  <2> QED
    BY <1>8, <2>1
<1>10. /\ data \in Seq(LaidOut(M)) /\ Len(data) = n
       /\ \A k \in 1 .. n : data[k].prefix = messages[k].length /\ data[k].body = messages[k]
  <2>1. PICK T : T = LaidOut(M)
    OBVIOUS
  <2>2. \A k \in 1 .. n : [prefix |-> messages[k].length, body |-> messages[k]] \in T
    BY <1>1, <1>2, <2>1 DEF LaidOut
  <2>3. data \in Seq(T) /\ Len(data) = n
    BY <1>9, <2>2
  <2> QED
    BY <1>9, <2>1, <2>3
<1>11. Exact(data)
  BY <1>10 DEF Exact
<1>12. PICK d \in Nat : d = DataLength(data) /\ d <= total
  <2>1. DataLength(data) <= total
    BY <1>2, <1>6, <1>10, StartsBound
  <2>2. DataLength(data) \in Nat
    <3>1. Starts(data) \in [0 .. n -> Nat]
      BY <1>10, StartsRun
    <3>2. n \in 0 .. n
      OBVIOUS
    <3> QED
      BY <1>10, <3>1, <3>2 DEF DataLength
  <2> QED
    BY <2>1, <2>2
<1>13. PICK packet : packet = CreateDataMessage(messages)
  OBVIOUS
<1>14. packet = [length |-> 28 + h + d, data |-> data]
  <2>1. packet = InitializePacket(data, UInt16(d))
    BY <1>3, <1>12, <1>13 DEF CreateDataMessage, Laid
  <2>2. d < 65536 /\ 28 + h + d < 65536 /\ 28 + h + d \in Nat
    BY <1>7, <1>12
  <2>3. UInt16(d) = d /\ UInt16(28 + h + d) = 28 + h + d
    BY <2>2, FitsIn16
  <2> QED
    BY <1>4, <2>1, <2>3, PduConstants DEF InitializePacket
<1>15. PICK bytes : bytes = RedundancyPacketToBytes(packet, bad)
  OBVIOUS
<1>16. /\ bytes.length = 36 + h + d + w
       /\ bytes.inner.packet = packet
       /\ bytes.inner.packed <=> ~bad
  <2>1. packet.length = 28 + h + d
    BY <1>14
  <2>2. UInt16(8 + packet.length + w) = 36 + h + d + w
    <3>1. 8 + packet.length + w = 36 + h + d + w
      BY <2>1
    <3>2. 36 + h + d + w < 65536 /\ 36 + h + d + w \in Nat
      BY <1>7, <1>12, SMTT(60)
    <3> QED
      BY <3>1, <3>2, FitsIn16
  <2>3. ~LengthInvalid(packet.length)
    BY <1>4, <2>1, PduConstants DEF LengthInvalid
  <2>4. bytes = [length |-> UInt16(8 + packet.length + w),
                 inner |-> RastaModuleToBytes(packet, bad)]
    BY <1>5, <1>15 DEF RedundancyPacketToBytes, CreateRedundancyPacket
  <2>5. PICK inner : inner = RastaModuleToBytes(packet, bad)
    OBVIOUS
  <2>6. inner = [length |-> packet.length, packet |-> packet,
                 packed |-> ~bad /\ ~LengthInvalid(packet.length)]
    BY <2>5 DEF RastaModuleToBytes
  <2>7. bytes.length = 36 + h + d + w /\ bytes.inner = inner
    BY <2>2, <2>4, <2>5
  <2>8. inner.packet = packet /\ inner.packed = (~bad /\ ~LengthInvalid(packet.length))
    BY <2>6
  <2> QED
    BY <2>3, <2>7, <2>8
<1>17. ChecksumsCorrect(bytes) <=> ~bad
  <2>1. bytes.length <= BufferSize
    BY <1>7, <1>12, <1>16
  <2>2. GetDataLength(packet) = d
    <3>1. packet.length = 28 + h + d
      BY <1>14
    <3>2. (28 + h + d) - 28 - h = d
      OBVIOUS
    <3> QED
      BY <1>4, <3>1, <3>2, PduConstants DEF GetDataLength
  <2>3. DataLength(packet.data) = d
    BY <1>12, <1>14
  <2> QED
    BY <1>16, <2>1, <2>2, <2>3 DEF ChecksumsCorrect, BytesToRastaPacket
<1>18. ExtractMessageData(bytes.inner.packet.data) = messages
  <2>1. bytes.inner.packet.data = data
    BY <1>14, <1>16
  <2>2. ExtractMessageData(data) = Bodies(data, n)
    BY <1>10, <1>11, ExtractsAll
  <2>3. Bodies(data, n) = [k \in 1 .. n |-> messages[k]]
    BY <1>10 DEF Bodies
  <2>4. messages = [k \in 1 .. n |-> messages[k]]
    BY <1>1
  <2> QED
    BY <2>1, <2>2, <2>3, <2>4
<1> QED
  BY <1>13, <1>15, <1>17, <1>18
=============================================================================
