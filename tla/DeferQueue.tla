----------------------------- MODULE DeferQueue -----------------------------
(***************************************************************************)
(* The defer queue of a redundancy channel (rastadeferqueue.c): an array   *)
(* of max_count slots of which the first `count' are in use.  A queue is a *)
(* record [elements, count]; an element is represented by the sequence     *)
(* number of the PDU it holds, the only field a lookup compares.           *)
(*                                                                         *)
(* The code sorts the slots in use by reception time after every addition  *)
(* and removal.  Time does not go backwards, so an added element is last   *)
(* already and sorting after a removal restores the order of arrival.      *)
(* (Two PDUs received in the same millisecond may change places; no        *)
(* operation can tell.)                                                    *)
(*                                                                         *)
(* find_index scans all max_count slots, not only those in use: it also    *)
(* sees what earlier elements and malloc left behind in the others.        *)
(*                                                                         *)
(* A definition marked "mutant" is what a bug would make of the one below  *)
(* it.  Nothing uses it; put in its place it makes a property fail.        *)
(***************************************************************************)
EXTENDS Integers

CONSTANT NDefer    \* n_deferqueue_size, 2 in the configurations of config/

ASSUME NDeferAssumption == NDefer \in Nat \ {0}

Slots == 1 .. NDefer

(***************************************************************************)
(* What the queue holds, and what a lookup finds.                          *)
(***************************************************************************)
Live(q) == {q.elements[i] : i \in 1 .. q.count}

Contains(q, s) == \E i \in Slots : q.elements[i] = s

IsFullOffByOne(q) == q.count > NDefer                             \* mutant

IsFull(q) == q.count = NDefer

(***************************************************************************)
(* deferqueue_add writes the first free slot; callers have checked that    *)
(* there is one.                                                           *)
(***************************************************************************)
Add(q, s) ==
  IF IsFull(q) THEN q
  ELSE [elements |-> [q.elements EXCEPT ![q.count + 1] = s],
        count    |-> q.count + 1]

(***************************************************************************)
(* deferqueue_remove of an element in use: the elements behind it move up, *)
(* and the slot that was last keeps its value.                             *)
(***************************************************************************)
IndexOf(q, s) ==
  CHOOSE i \in Slots : /\ q.elements[i] = s
                       /\ \A j \in 1 .. i-1 : q.elements[j] # s

RemoveWithoutMove(q, s) ==                                        \* mutant
  [q EXCEPT !.count = IF Contains(q, s) THEN @ - 1 ELSE @]

Remove(q, s) ==
  IF ~Contains(q, s) THEN q
  ELSE [elements |-> [j \in Slots |->
                        IF IndexOf(q, s) <= j /\ j < q.count
                        THEN q.elements[j + 1] ELSE q.elements[j]],
        count    |-> q.count - 1]

RemoveRunClears(q, first, next) ==                                \* mutant
  [q EXCEPT !.count = 0]

(***************************************************************************)
(* What the loop of deliverDeferQueue leaves: first, first+1, ..., next-1  *)
(* are removed one after the other.                                        *)
(***************************************************************************)
RemoveRun(q, first, next) ==
  LET left[n \in 0 .. next - first] ==
        IF n = 0 THEN q ELSE Remove(left[n - 1], first + n - 1)
  IN  left[next - first]
=============================================================================
