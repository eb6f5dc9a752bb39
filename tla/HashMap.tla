------------------------------ MODULE HashMap ------------------------------
(***************************************************************************)
(* The generic hash map of src/sci/c/hashmap.c, as the SCI layer uses it:  *)
(* open addressing with linear probing over at most ChainLength slots.  A  *)
(* map doubles when it is half full or when the chain of a key is taken,   *)
(* and puts every element again.  The operators are the functions of the   *)
(* code on the value of a map; hashmap_remove and hashmap_iterate have no  *)
(* caller and are left out, and so is the failure of an allocation.        *)
(***************************************************************************)
EXTENDS Integers, FiniteSets, SequencesExt, FiniteSetsExt

CONSTANTS Key,          \* the strings used as keys
          Mix,          \* Mix[k]: the hash of k before it is reduced modulo the table
          InitialSize,  \* INITIAL_SIZE, 256 in the code
          ChainLength,  \* MAX_CHAIN_LENGTH, 8 in the code
          MaxRounds     \* bound of the model: the rounds after which a put has returned

ASSUME HashMapAssumption ==
          /\ Mix \in [Key -> Nat]
          /\ InitialSize \in Nat \ {0, 1}
          /\ ChainLength \in 1..InitialSize
          /\ MaxRounds \in Nat

MapFull == -2           \* MAP_FULL
MapMissing == -3        \* MAP_MISSING

\* The slot whose in_use is 0.
Unused == [inUse |-> FALSE]

\* An array of n slots as calloc leaves it.
Slots(n) == [s \in 0..n-1 |-> Unused]

New == [size |-> 0, slots |-> Slots(InitialSize)]

TableSize(m) == Cardinality(DOMAIN m.slots)

\* The i-th slot of the chain of key (hashmap_hash_int, then the probing step).
Probe(m, key, i) == (Mix[key] + i) % TableSize(m)

Holds(m, s, key) == m.slots[s].inUse /\ m.slots[s].key = key

\* hashmap_hash: where key may be stored, or MapFull.
Place(m, key) ==
    LET fit == {i \in 0..ChainLength-1 :
                   LET s == Probe(m, key, i) IN ~m.slots[s].inUse \/ Holds(m, s, key)}
    IN  IF m.size >= TableSize(m) \div 2 \/ fit = {}
        THEN MapFull
        ELSE Probe(m, key, Min(fit))

\* Mutants of Get: one probe too few; any slot in use taken for the key.
GetShortChain(m, key) ==
    LET hit == {i \in 0..ChainLength-2 : Holds(m, Probe(m, key, i), key)}
    IN  IF hit = {} THEN MapMissing ELSE m.slots[Probe(m, key, Min(hit))].data

GetAnyKey(m, key) ==
    LET hit == {i \in 0..ChainLength-1 : m.slots[Probe(m, key, i)].inUse}
    IN  IF hit = {} THEN MapMissing ELSE m.slots[Probe(m, key, Min(hit))].data

\* hashmap_get: the value of key, or MapMissing.  A free slot does not end the search.
Get(m, key) ==
    LET hit == {i \in 0..ChainLength-1 : Holds(m, Probe(m, key, i), key)}
    IN  IF hit = {} THEN MapMissing ELSE m.slots[Probe(m, key, Min(hit))].data

\* An element, in a slot or on its way into one.
Element(key, data) == [inUse |-> TRUE, key |-> key, data |-> data]

Store(m, s, elem) == [size |-> m.size + 1, slots |-> [m.slots EXCEPT ![s] = elem]]

\* The slots of the old array in the order in which hashmap_rehash visits them.
OldSlots(m) == [s \in 1..TableSize(m) |-> m.slots[s - 1]]

\* Mutant of Doubled: the size is not reset before the elements are put again.
DoubledKeepsSize(m) == [size |-> m.size, slots |-> Slots(2 * TableSize(m))]

\* hashmap_rehash as far as its loop: an array twice as long, with nothing in it.
Doubled(m) == [size |-> 0, slots |-> Slots(2 * TableSize(m))]

\* hashmap_put and hashmap_rehash call each other.  What their calls have still to put
\* is a stack, the innermost call on top: hashmap_put stores the top element if there
\* is a place, and else hashmap_rehash has to put all it has found before; its loop
\* passes over slots that are not in use.
Round(w) ==
    LET m == w.map
        elem == Head(w.todo)
        s == Place(m, elem.key)
    IN  CASE w.todo = <<>> -> w
          [] w.todo # <<>> /\ ~elem.inUse -> [w EXCEPT !.todo = Tail(@)]
          [] w.todo # <<>> /\ elem.inUse /\ s # MapFull ->
                [map |-> Store(m, s, elem), todo |-> Tail(w.todo)]
          [] OTHER -> [map |-> Doubled(m), todo |-> OldSlots(m) \o w.todo]

Putting(m, key, data) ==
    LET run[r \in 0..MaxRounds] ==
          IF r = 0 THEN [map |-> m, todo |-> <<Element(key, data)>>] ELSE Round(run[r - 1])
    IN  run[MaxRounds]

\* hashmap_put, which does not return while the keys of more than a chain have one hash.
Put(m, key, data) == Putting(m, key, data).map
PutReturns(m, key, data) == Putting(m, key, data).todo = <<>>
=============================================================================
