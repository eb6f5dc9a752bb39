--------------------------- MODULE EventSystemProofs ---------------------------
(***************************************************************************)
(* Proofs about EventSystem, for any number of connections and whatever    *)
(* they do: the io events stay in front of the list, the walk is exact for *)
(* a single connection, and it ends as long as no timer was removed from   *)
(* the list by anything but a new connection.  Until then, nothing the     *)
(* loop visits is late if the callbacks of the io events are short.        *)
(*                                                                         *)
(* That the walk ends is the hard part.  sr_connect and handle_conreq      *)
(* remove all timers one by one through addresses that are stale after the *)
(* first removal, which may well turn the list into a cycle, and then add  *)
(* them again.  What saves it: the two timers of a connection are always   *)
(* added one after the other, so that a removal makes a cell which is no   *)
(* timer point to a timer; and an event that is added points to nothing.   *)
(***************************************************************************)
EXTENDS EventSystem, SequenceTheorems, FiniteSetTheorems, SetInduction

Timers  == TimersOf(Conns)
HbCells == {Hb(c) : c \in Conns}

Lists == [next : [Cells -> Addresses \ {ListHead}],
          prev : [Events -> Addresses \ {NULL}], append_to : Cells]

-----------------------------------------------------------------------------
(***************************************************************************)
(* The inductive invariant.                                                *)
(***************************************************************************)

\* The list of connections holds those there are.
Listed == \A c \in Conns : InList(c) <=> con[c] # "absent"

\* Before the loop is begun nothing has been removed, and nothing added but
\* timers.
Untouched ==
  loop = "idle" => /\ touched = {} /\ early = FALSE
                   /\ order = << >> => list = EmptyList
                   /\ list.append_to \in {ListHead} \cup Timers

\* The io events and the channel timeout are linked in front of all timers,
\* and no address points back into them.
IoInFront(l) ==
  /\ l.next[ListHead] = Io0 /\ l.next[Io0] = Io1 /\ l.next[Io1] = Tmo
  /\ l.append_to \in {Tmo} \cup Timers
  /\ \A t \in Timers : l.prev[t] \in {Tmo, Wild} \cup Timers

IoFirst == loop = "running" /\ ~early => IoInFront(list)

\* What follows the channel timeout while there is at most one connection,
\* whose timers nobody has removed.
Single ==
  loop = "running" /\ ~early =>
    /\ order = << >> => list.next[Tmo] = NULL /\ list.append_to = Tmo
    /\ \A c \in Conns : order = <<c>> /\ c \notin touched =>
         /\ list.next[Tmo] = Hb(c) /\ list.next[Hb(c)] = Tm(c)
         /\ list.next[Tm(c)] = NULL /\ list.append_to = Tm(c)

\* A rank of the cells X that grows along the list, so that no cycle lies
\* in X.
Ranked(l, X) ==
  \E k \in Nat : \E r \in [Cells -> 0 .. k] :
    \A x \in X : l.next[x] \in X \ {ListHead} => r[x] < r[l.next[x]]

NoWild(l) == \A x \in Cells : l.next[x] # Wild

\* The two timers of a connection were added one after the other.
Joined(l, c) == l.next[Hb(c)] = Tm(c) /\ l.prev[Tm(c)] = Hb(c)

Apart(l) ==
  /\ l.append_to \notin HbCells
  /\ \A c \in Conns : l.prev[Hb(c)] \notin HbCells

NoCycle == touched = {} => Ranked(list, Cells) /\ NoWild(list)

Pairs ==
  touched = {} /\ loop \in {"idle", "running"} =>
    Apart(list) /\ \A c \in Range(order) : Joined(list, c)

IInv ==
  TypeOK /\ Listed /\ Untouched /\ IoFirst /\ Single /\ NoCycle /\ Pairs
-----------------------------------------------------------------------------
(***************************************************************************)
(* The events are distinct, and finitely many.                             *)
(***************************************************************************)
LEMMA CellFacts ==
  /\ Io0 # Io1 /\ Io0 # Tmo /\ Io1 # Tmo
  /\ Io0 \in Events /\ Io1 \in Events /\ Tmo \in Events
  /\ ListHead \notin Events /\ NULL \notin Cells /\ Wild \notin Cells
  /\ NULL # Wild
  /\ Events = {Io0, Io1, Tmo} \cup Timers /\ Cells = Events \cup {ListHead}
  /\ Timers \cap {Io0, Io1, Tmo, ListHead, NULL, Wild} = {}
BY DEF Events, Cells, Timers, TimersOf, Io0, Io1, Tmo, ListHead, NULL, Wild, Hb, Tm

LEMMA TimerFacts ==
  ASSUME NEW c \in Conns
  PROVE  /\ Hb(c) \in Timers /\ Tm(c) \in Timers
         /\ Hb(c) \in HbCells /\ Tm(c) \notin HbCells
         /\ \A d \in Conns : Hb(c) # Tm(d) /\ (Hb(c) = Hb(d) => c = d)
                            /\ (Tm(c) = Tm(d) => c = d)
BY DEF Timers, TimersOf, HbCells, Hb, Tm

LEMMA EventsFinite ==
  /\ IsFiniteSet(Events) /\ Steps \in Nat /\ Steps >= 3
  /\ \A c \in Conns : Steps >= 5
<1>1. IsFiniteSet(Conns)
  BY EventAssumption
<1>2. IsFiniteSet(HbCells) /\ IsFiniteSet({Tm(c) : c \in Conns})
  <2>1. PICK f : f = [c \in Conns |-> Hb(c)]
    OBVIOUS
  <2>2. f \in Surjection(Conns, HbCells)
    BY <2>1 DEF Surjection, HbCells
  <2>3. PICK g : g = [c \in Conns |-> Tm(c)]
    OBVIOUS
  <2>4. g \in Surjection(Conns, {Tm(c) : c \in Conns})
    BY <2>3 DEF Surjection
  <2> QED
    BY <1>1, <2>2, <2>4, FS_Surjection
<1>3. /\ IsFiniteSet({Io0, Io1, Tmo}) /\ Cardinality({Io0, Io1, Tmo}) = 3
  <2>1. PICK one : one = {Io0} /\ IsFiniteSet(one) /\ Cardinality(one) = 1 /\ Io1 \notin one
    BY FS_Singleton, CellFacts
  <2>2. IsFiniteSet(one \cup {Io1}) /\ Cardinality(one \cup {Io1}) = 1 + 1
    BY <2>1, FS_AddElement
  <2>3. PICK two : two = one \cup {Io1}
    OBVIOUS
  <2>4. IsFiniteSet(two) /\ Cardinality(two) = 2 /\ Tmo \notin two
    BY <2>1, <2>2, <2>3, CellFacts
  <2>5. IsFiniteSet(two \cup {Tmo}) /\ Cardinality(two \cup {Tmo}) = 2 + 1
    BY <2>4, FS_AddElement
  <2>6. two \cup {Tmo} = {Io0, Io1, Tmo}
    BY <2>1, <2>3
  <2> QED
    BY <2>5, <2>6
<1>4. IsFiniteSet(Events)
  <2>1. IsFiniteSet({Io0, Io1, Tmo} \cup HbCells)
    BY <1>2, <1>3, FS_Union
  <2>2. IsFiniteSet(({Io0, Io1, Tmo} \cup HbCells) \cup {Tm(c) : c \in Conns})
    BY <1>2, <2>1, FS_Union
  <2> QED
    BY <2>2 DEF Events, HbCells
<1>5. Steps \in Nat
  BY <1>4, FS_CardinalityType DEF Steps
<1>6. Steps >= 3
  BY <1>3, <1>4, <1>5, FS_Subset, CellFacts DEF Steps
<1>7. ASSUME NEW c \in Conns PROVE Steps >= 5
  <2> DEFINE four == {Io0, Io1, Tmo} \cup {Hb(c)}
  <2>1. Hb(c) \notin {Io0, Io1, Tmo}
    BY CellFacts, TimerFacts
  <2>2. Tm(c) \notin four
    BY CellFacts, TimerFacts
  <2>3. IsFiniteSet(four) /\ Cardinality(four) = 4
    <3> PICK fixed : fixed = {Io0, Io1, Tmo}
      OBVIOUS
    <3>1. IsFiniteSet(fixed) /\ Cardinality(fixed) = 3 /\ Hb(c) \notin fixed
      BY <1>3, <2>1
    <3>2. IsFiniteSet(fixed \cup {Hb(c)}) /\ Cardinality(fixed \cup {Hb(c)}) = 3 + 1
      BY <3>1, FS_AddElement
    <3> QED
      BY <3>2
  <2> HIDE DEF four
  <2>5. Cardinality(four \cup {Tm(c)}) = 5
    BY <2>2, <2>3, FS_AddElement
  <2>6. four \cup {Tm(c)} \subseteq Events
    BY CellFacts, TimerFacts DEF four
  <2> QED
    BY <1>4, <1>5, <2>5, <2>6, FS_Subset DEF Steps
<1> QED
  BY <1>4, <1>5, <1>6, <1>7

-----------------------------------------------------------------------------
(***************************************************************************)
(* What linked_list_add and linked_list_remove do to a list.               *)
(***************************************************************************)
LEMMA LinkFacts ==
  ASSUME NEW l \in Lists, NEW e \in Events
  PROVE  /\ Link(l, e) \in Lists
         /\ Link(l, e).append_to = e
         /\ \A x \in Cells : Link(l, e).next[x] =
              IF x = l.append_to THEN e ELSE IF x = e THEN NULL ELSE l.next[x]
         /\ \A x \in Events : Link(l, e).prev[x] =
              IF x = e THEN l.append_to ELSE l.prev[x]
BY CellFacts DEF Lists, Link, Addresses

LEMMA UnlinkFacts ==
  ASSUME NEW l \in Lists, NEW e \in Events
  PROVE  /\ Unlink(l, e) \in Lists
         /\ Unlink(l, e).append_to = l.append_to
         /\ Unlink(l, e).prev = l.prev
         /\ \A x \in Cells : Unlink(l, e).next[x] =
              IF x = l.prev[e] THEN l.next[e] ELSE l.next[x]
BY CellFacts DEF Lists, Unlink, Addresses

LEMMA LinkTimersFacts ==
  ASSUME NEW l \in Lists, NEW c \in Conns
  PROVE  /\ LinkTimers(l, c) \in Lists
         /\ LinkTimers(l, c).append_to = Tm(c)
         /\ \A x \in Cells : LinkTimers(l, c).next[x] =
              IF x = Hb(c) THEN Tm(c) ELSE IF x = Tm(c) THEN NULL
              ELSE IF x = l.append_to THEN Hb(c) ELSE l.next[x]
         /\ \A x \in Events : LinkTimers(l, c).prev[x] =
              IF x = Tm(c) THEN Hb(c) ELSE IF x = Hb(c) THEN l.append_to ELSE l.prev[x]
<1>1. Hb(c) \in Events /\ Tm(c) \in Events /\ Hb(c) # Tm(c)
  BY CellFacts, TimerFacts
<1>2. PICK m : m = Link(l, Hb(c))
  OBVIOUS
<1> QED
  BY <1>1, <1>2, CellFacts, LinkFacts DEF LinkTimers

LEMMA UnlinkTimersFacts ==
  ASSUME NEW l \in Lists, NEW c \in Conns
  PROVE  /\ UnlinkTimers(l, c) \in Lists
         /\ UnlinkTimers(l, c).append_to = l.append_to
         /\ UnlinkTimers(l, c).prev = l.prev
         /\ \A x \in Cells : x \notin {l.prev[Hb(c)], l.prev[Tm(c)]}
              => UnlinkTimers(l, c).next[x] = l.next[x]
<1>1. Hb(c) \in Events /\ Tm(c) \in Events /\ Hb(c) # Tm(c)
  BY CellFacts, TimerFacts
<1>2. PICK m : m = Unlink(l, Hb(c))
  OBVIOUS
<1> QED
  BY <1>1, <1>2, UnlinkFacts DEF UnlinkTimers

(***************************************************************************)
(* The loops over the connections, round by round.                         *)
(***************************************************************************)
IsLinking(linked, l, s) ==
  /\ linked \in [0 .. Len(s) -> Lists] /\ linked[0] = l
  /\ \A i \in 1 .. Len(s) : linked[i] = LinkTimers(linked[i - 1], s[i])
  /\ LinkAll(l, s) = linked[Len(s)]

IsUnlinking(unlinked, l, s) ==
  /\ unlinked \in [0 .. Len(s) -> Lists] /\ unlinked[0] = l
  /\ \A i \in 1 .. Len(s) : unlinked[i] = UnlinkTimers(unlinked[i - 1], s[i])
  /\ UnlinkAll(l, s) = unlinked[Len(s)]

LEMMA LinkAllRuns ==
  ASSUME NEW l \in Lists, NEW s \in Seq(Conns)
  PROVE  \E linked : IsLinking(linked, l, s)
<1>1. PICK n \in Nat : n = Len(s) /\ \A i \in 1 .. n : s[i] \in Conns
  OBVIOUS
<1> DEFINE IsRun(f) == f = [i \in 0 .. Len(s) |-> IF i = 0 THEN l ELSE LinkTimers(f[i - 1], s[i])]
           linked == CHOOSE f : IsRun(f)
<1>2. LinkAll(l, s) = linked[Len(s)]
  BY DEF LinkAll
<1>3. PICK step : step = [x \in (1 .. n) \X Lists |-> LinkTimers(x[2], s[x[1]])]
  OBVIOUS
<1>4. \A i \in 1 .. n, m \in Lists :
        step[<<i, m>>] = LinkTimers(m, s[i]) /\ LinkTimers(m, s[i]) \in Lists
  BY <1>1, <1>3, LinkTimersFacts
<1>5. step \in [(1 .. n) \X Lists -> Lists]
  BY <1>3, <1>4
<1>6. PICK run : IsLoop(run, Lists, n, l, step)
  BY <1>5, LoopHasRun
<1>7. run \in [0 .. n -> Lists] /\ run[0] = l
  BY <1>6 DEF IsLoop
<1>8. ASSUME NEW i \in 1 .. n PROVE run[i] = LinkTimers(run[i - 1], s[i])
  <2>1. i - 1 \in 0 .. n /\ run[i] = step[<<i, run[i - 1]>>]
    BY <1>6 DEF IsLoop
  <2> QED
    BY <1>4, <1>7, <2>1
<1>9. IsRun(run)
  <2>1. \A i \in 0 .. n : run[i] = IF i = 0 THEN l ELSE LinkTimers(run[i - 1], s[i])
    BY <1>7, <1>8
  <2> QED
    BY <1>1, <1>7, <2>1
<1>10. IsRun(linked)
  <2> HIDE DEF IsRun
  <2> QED
    BY <1>9
<1>11. linked = [i \in 0 .. n |-> IF i = 0 THEN l ELSE LinkTimers(linked[i - 1], s[i])]
  BY <1>1, <1>10
<1> HIDE DEF linked
<1>12. /\ DOMAIN linked = 0 .. n /\ linked[0] = l
       /\ \A i \in 1 .. n : linked[i] = LinkTimers(linked[i - 1], s[i])
  BY <1>11
<1>13. 0 .. n \subseteq {i \in 0 .. n : linked[i] \in Lists}
  <2> DEFINE S == {i \in 0 .. n : linked[i] \in Lists}
  <2>1. 0 \in S
    BY <1>12
  <2>2. ASSUME NEW i \in 0 .. n - 1, i \in S PROVE i + 1 \in S
    <3>1. i + 1 \in 1 .. n /\ (i + 1) - 1 = i
      OBVIOUS
    <3>2. linked[i + 1] = LinkTimers(linked[i], s[i + 1])
      BY <1>12, <3>1
    <3>3. linked[i] \in Lists
      BY <2>2
    <3>4. linked[i + 1] \in Lists
      BY <1>4, <3>1, <3>2, <3>3
    <3> QED
      BY <3>1, <3>4
  <2> HIDE DEF S
  <2>3. 0 .. n \subseteq S
    BY <2>1, <2>2, InductionUpTo
  <2> QED
    BY <2>3 DEF S
<1>14. linked \in [0 .. n -> Lists]
  <2>1. linked = [i \in 0 .. n |-> linked[i]]
    BY <1>11
  <2>2. \A i \in 0 .. n : linked[i] \in Lists
    BY <1>13
  <2> QED
    BY <2>1, <2>2
<1> QED
  BY <1>1, <1>2, <1>12, <1>14 DEF IsLinking

LEMMA UnlinkAllRuns ==
  ASSUME NEW l \in Lists, NEW s \in Seq(Conns)
  PROVE  \E unlinked : IsUnlinking(unlinked, l, s)
<1>1. PICK n \in Nat : n = Len(s) /\ \A i \in 1 .. n : s[i] \in Conns
  OBVIOUS
<1> DEFINE IsRun(f) == f = [i \in 0 .. Len(s) |-> IF i = 0 THEN l ELSE UnlinkTimers(f[i - 1], s[i])]
           unlinked == CHOOSE f : IsRun(f)
<1>2. UnlinkAll(l, s) = unlinked[Len(s)]
  BY DEF UnlinkAll
<1>3. PICK step : step = [x \in (1 .. n) \X Lists |-> UnlinkTimers(x[2], s[x[1]])]
  OBVIOUS
<1>4. \A i \in 1 .. n, m \in Lists :
        step[<<i, m>>] = UnlinkTimers(m, s[i]) /\ UnlinkTimers(m, s[i]) \in Lists
  BY <1>1, <1>3, UnlinkTimersFacts
<1>5. step \in [(1 .. n) \X Lists -> Lists]
  BY <1>3, <1>4
<1>6. PICK run : IsLoop(run, Lists, n, l, step)
  BY <1>5, LoopHasRun
<1>7. run \in [0 .. n -> Lists] /\ run[0] = l
  BY <1>6 DEF IsLoop
<1>8. ASSUME NEW i \in 1 .. n PROVE run[i] = UnlinkTimers(run[i - 1], s[i])
  <2>1. i - 1 \in 0 .. n /\ run[i] = step[<<i, run[i - 1]>>]
    BY <1>6 DEF IsLoop
  <2> QED
    BY <1>4, <1>7, <2>1
<1>9. IsRun(run)
  <2>1. \A i \in 0 .. n : run[i] = IF i = 0 THEN l ELSE UnlinkTimers(run[i - 1], s[i])
    BY <1>7, <1>8
  <2> QED
    BY <1>1, <1>7, <2>1
<1>10. IsRun(unlinked)
  <2> HIDE DEF IsRun
  <2> QED
    BY <1>9
<1>11. unlinked = [i \in 0 .. n |-> IF i = 0 THEN l ELSE UnlinkTimers(unlinked[i - 1], s[i])]
  BY <1>1, <1>10
<1> HIDE DEF unlinked
<1>12. /\ DOMAIN unlinked = 0 .. n /\ unlinked[0] = l
       /\ \A i \in 1 .. n : unlinked[i] = UnlinkTimers(unlinked[i - 1], s[i])
  BY <1>11
<1>13. 0 .. n \subseteq {i \in 0 .. n : unlinked[i] \in Lists}
  <2> DEFINE S == {i \in 0 .. n : unlinked[i] \in Lists}
  <2>1. 0 \in S
    BY <1>12
  <2>2. ASSUME NEW i \in 0 .. n - 1, i \in S PROVE i + 1 \in S
    <3>1. i + 1 \in 1 .. n /\ (i + 1) - 1 = i
      OBVIOUS
    <3>2. unlinked[i + 1] = UnlinkTimers(unlinked[i], s[i + 1])
      BY <1>12, <3>1
    <3>3. unlinked[i] \in Lists
      BY <2>2
    <3>4. unlinked[i + 1] \in Lists
      BY <1>4, <3>1, <3>2, <3>3
    <3> QED
      BY <3>1, <3>4
  <2> HIDE DEF S
  <2>3. 0 .. n \subseteq S
    BY <2>1, <2>2, InductionUpTo
  <2> QED
    BY <2>3 DEF S
<1>14. unlinked \in [0 .. n -> Lists]
  <2>1. unlinked = [i \in 0 .. n |-> unlinked[i]]
    BY <1>11
  <2>2. \A i \in 0 .. n : unlinked[i] \in Lists
    BY <1>13
  <2> QED
    BY <2>1, <2>2
<1> QED
  BY <1>1, <1>2, <1>12, <1>14 DEF IsUnlinking

(***************************************************************************)
(* What every round of a loop keeps, the loop keeps.                       *)
(***************************************************************************)
LEMMA LinkAllKeeps ==
  ASSUME NEW P \in SUBSET Lists, NEW l \in P, NEW s \in Seq(Conns),
         \A m \in P, c \in Conns : LinkTimers(m, c) \in P
  PROVE  LinkAll(l, s) \in P
<1>1. PICK linked : IsLinking(linked, l, s)
  BY LinkAllRuns
<1>2. PICK n \in Nat : n = Len(s) /\ \A i \in 1 .. n : s[i] \in Conns
  OBVIOUS
<1> DEFINE S == {i \in 0 .. n : linked[i] \in P}
<1>3. 0 \in S
  BY <1>1 DEF IsLinking
<1>4. ASSUME NEW i \in 0 .. n - 1, i \in S PROVE i + 1 \in S
  <2>1. i + 1 \in 1 .. n /\ (i + 1) - 1 = i /\ linked[i] \in P
    BY <1>4
  <2>2. linked[i + 1] = LinkTimers(linked[i], s[i + 1])
    BY <1>1, <1>2, <2>1 DEF IsLinking
  <2>3. linked[i + 1] \in P
    BY <1>2, <2>1, <2>2
  <2> QED
    BY <2>1, <2>3
<1> HIDE DEF S
<1>5. 0 .. n \subseteq S
  BY <1>3, <1>4, InductionUpTo
<1> QED
  BY <1>1, <1>2, <1>5 DEF S, IsLinking

LEMMA UnlinkAllKeeps ==
  ASSUME NEW P \in SUBSET Lists, NEW l \in P, NEW s \in Seq(Conns),
         \A m \in P, c \in Conns : UnlinkTimers(m, c) \in P
  PROVE  UnlinkAll(l, s) \in P
<1>1. PICK unlinked : IsUnlinking(unlinked, l, s)
  BY UnlinkAllRuns
<1>2. PICK n \in Nat : n = Len(s) /\ \A i \in 1 .. n : s[i] \in Conns
  OBVIOUS
<1> DEFINE S == {i \in 0 .. n : unlinked[i] \in P}
<1>3. 0 \in S
  BY <1>1 DEF IsUnlinking
<1>4. ASSUME NEW i \in 0 .. n - 1, i \in S PROVE i + 1 \in S
  <2>1. i + 1 \in 1 .. n /\ (i + 1) - 1 = i /\ unlinked[i] \in P
    BY <1>4
  <2>2. unlinked[i + 1] = UnlinkTimers(unlinked[i], s[i + 1])
    BY <1>1, <1>2, <2>1 DEF IsUnlinking
  <2>3. unlinked[i + 1] \in P
    BY <1>2, <2>1, <2>2
  <2> QED
    BY <2>1, <2>3
<1> HIDE DEF S
<1>5. 0 .. n \subseteq S
  BY <1>3, <1>4, InductionUpTo
<1> QED
  BY <1>1, <1>2, <1>5 DEF S, IsUnlinking

LEMMA LoopsAreLists ==
  ASSUME NEW l \in Lists, NEW s \in Seq(Conns)
  PROVE  LinkAll(l, s) \in Lists /\ UnlinkAll(l, s) \in Lists
BY LinkAllKeeps, UnlinkAllKeeps, LinkTimersFacts, UnlinkTimersFacts

LEMMA ShortLoops ==
  ASSUME NEW l \in Lists
  PROVE  /\ UnlinkAll(l, << >>) = l
         /\ \A c \in Conns : LinkAll(l, <<c>>) = LinkTimers(l, c)
<1>1. << >> \in Seq(Conns) /\ Len(<< >>) = 0
  OBVIOUS
<1>2. UnlinkAll(l, << >>) = l
  <2>1. PICK unlinked : IsUnlinking(unlinked, l, << >>)
    BY <1>1, UnlinkAllRuns
  <2> QED
    BY <1>1, <2>1 DEF IsUnlinking
<1>3. ASSUME NEW c \in Conns PROVE LinkAll(l, <<c>>) = LinkTimers(l, c)
  <2>1. <<c>> \in Seq(Conns) /\ Len(<<c>>) = 1 /\ <<c>>[1] = c
    OBVIOUS
  <2>2. PICK linked : IsLinking(linked, l, <<c>>)
    BY <2>1, LinkAllRuns
  <2> QED
    BY <2>1, <2>2 DEF IsLinking
<1> QED
  BY <1>2, <1>3

-----------------------------------------------------------------------------
(***************************************************************************)
(* What stays when timers are added and removed.                           *)
(***************************************************************************)
LEMMA TimersStayBehind ==
  ASSUME NEW l \in Lists, NEW c \in Conns, IoInFront(l)
  PROVE  IoInFront(LinkTimers(l, c)) /\ IoInFront(UnlinkTimers(l, c))
<1>1. Hb(c) \in Timers /\ Tm(c) \in Timers
  BY TimerFacts
<1>2. IoInFront(LinkTimers(l, c))
  BY <1>1, CellFacts, LinkTimersFacts DEF IoInFront
<1>3. IoInFront(UnlinkTimers(l, c))
  <2>1. {ListHead, Io0, Io1} \cap {l.prev[Hb(c)], l.prev[Tm(c)]} = {}
    BY <1>1, CellFacts DEF IoInFront
  <2>2. PICK m \in Lists : m = UnlinkTimers(l, c)
    BY UnlinkTimersFacts
  <2>5. /\ m.append_to = l.append_to /\ m.prev = l.prev
        /\ \A x \in Cells : x \notin {l.prev[Hb(c)], l.prev[Tm(c)]}
             => m.next[x] = l.next[x]
    BY <2>2, UnlinkTimersFacts
  <2>6. {ListHead, Io0, Io1} \subseteq Cells
    BY CellFacts
  <2>3. /\ m.append_to = l.append_to /\ m.prev = l.prev
        /\ m.next[ListHead] = l.next[ListHead]
        /\ m.next[Io0] = l.next[Io0] /\ m.next[Io1] = l.next[Io1]
    BY <2>1, <2>5, <2>6
  <2>4. IoInFront(m)
    BY <2>3 DEF IoInFront
  <2> QED
    BY <2>2, <2>4
<1> QED
  BY <1>2, <1>3

LEMMA AllStayBehind ==
  ASSUME NEW l \in Lists, NEW s \in Seq(Conns), IoInFront(l)
  PROVE  IoInFront(LinkAll(l, s)) /\ IoInFront(UnlinkAll(l, s))
<1> DEFINE P == {m \in Lists : IoInFront(m)}
<1>1. \A m \in P, c \in Conns : LinkTimers(m, c) \in P /\ UnlinkTimers(m, c) \in P
  BY TimersStayBehind, LinkTimersFacts, UnlinkTimersFacts
<1>2. P \in SUBSET Lists /\ l \in P
  OBVIOUS
<1> HIDE DEF P
<1>3. LinkAll(l, s) \in P /\ UnlinkAll(l, s) \in P
  BY <1>1, <1>2, LinkAllKeeps, UnlinkAllKeeps
<1> QED
  BY <1>3 DEF P

LEMMA LinkTimersApart ==
  ASSUME NEW l \in Lists, NEW c \in Conns, Apart(l)
  PROVE  /\ Apart(LinkTimers(l, c)) /\ Joined(LinkTimers(l, c), c)
         /\ \A d \in Conns : Joined(l, d) => Joined(LinkTimers(l, c), d)
<1> USE CellFacts, TimerFacts, LinkTimersFacts
<1>1. Apart(LinkTimers(l, c))
  BY DEF Apart
<1>2. Joined(LinkTimers(l, c), c)
  BY DEF Joined
<1>3. ASSUME NEW d \in Conns, Joined(l, d) PROVE Joined(LinkTimers(l, c), d)
  <2>1. CASE d = c
    BY <1>2, <2>1
  <2>2. CASE d # c
    BY <1>3, <2>2 DEF Joined, Apart
  <2> QED
    BY <2>1, <2>2
<1> QED
  BY <1>1, <1>2, <1>3

LEMMA LinkTimersNoWild ==
  ASSUME NEW l \in Lists, NEW c \in Conns, NoWild(l)
  PROVE  NoWild(LinkTimers(l, c))
BY CellFacts, TimerFacts, LinkTimersFacts DEF NoWild

(***************************************************************************)
(* An event that is added comes last in the order the list goes on in.     *)
(***************************************************************************)
LEMMA LinkRanked ==
  ASSUME NEW l \in Lists, NEW e \in Events, NEW X \in SUBSET Cells,
         l.append_to # e, Ranked(l, X)
  PROVE  Ranked(Link(l, e), X \cup {e})
<1>0. PICK k \in Nat : \E r \in [Cells -> 0 .. k] :
        \A x \in X : l.next[x] \in X \ {ListHead} => r[x] < r[l.next[x]]
  BY DEF Ranked
<1>1. PICK r \in [Cells -> 0 .. k] :
        \A x \in X : l.next[x] \in X \ {ListHead} => r[x] < r[l.next[x]]
  BY <1>0
<1>2. PICK q : q = [r EXCEPT ![e] = k + 1]
  OBVIOUS
<1>3. q \in [Cells -> 0 .. k + 1] /\ k + 1 \in Nat
  <2>1. \A x \in Cells : q[x] = IF x = e THEN k + 1 ELSE r[x]
    BY <1>2
  <2>2. \A x \in Cells : q[x] \in 0 .. k + 1
    BY <1>1, <2>1
  <2>3. q = [x \in Cells |-> q[x]]
    BY <1>1, <1>2
  <2> QED
    BY <1>0, <2>2, <2>3
<1>4. e \in Cells /\ e # ListHead
  BY CellFacts
<1>5. PICK m \in Lists : m = Link(l, e)
  BY LinkFacts
<1>6. \A x \in Cells : m.next[x] =
        IF x = l.append_to THEN e ELSE IF x = e THEN NULL ELSE l.next[x]
  BY <1>5, LinkFacts
<1>7. ASSUME NEW x \in X \cup {e}, m.next[x] \in (X \cup {e}) \ {ListHead}
      PROVE  q[x] < q[m.next[x]]
  <2>1. x # e
    BY <1>4, <1>6, <1>7, CellFacts
  <2>2. x \in X /\ x \in Cells /\ q[x] = r[x] /\ r[x] \in 0 .. k
    BY <1>1, <1>2, <1>7, <2>1
  <2>3. CASE m.next[x] = e
    BY <1>1, <1>2, <1>4, <2>2, <2>3
  <2>4. CASE m.next[x] # e
    <3>1. m.next[x] = l.next[x] /\ l.next[x] \in X \ {ListHead}
      BY <1>6, <1>7, <2>1, <2>2, <2>4
    <3> QED
      BY <1>1, <1>2, <2>2, <2>4, <3>1
  <2> QED
    BY <2>3, <2>4
<1> QED
  BY <1>3, <1>5, <1>7 DEF Ranked

LEMMA LinkTimersRanked ==
  ASSUME NEW l \in Lists, NEW c \in Conns, NEW X \in SUBSET Cells,
         l.append_to \notin HbCells, Ranked(l, X)
  PROVE  Ranked(LinkTimers(l, c), X \cup TimersOf({c}))
<1>1. Hb(c) \in Events /\ Tm(c) \in Events /\ Hb(c) # Tm(c) /\ Hb(c) \in HbCells
  BY CellFacts, TimerFacts
<1>2. PICK m \in Lists : m = Link(l, Hb(c)) /\ m.append_to = Hb(c)
  BY <1>1, LinkFacts
<1>3. PICK Y \in SUBSET Cells : Y = X \cup {Hb(c)}
  BY <1>1, CellFacts
<1>4. Ranked(m, Y)
  BY <1>1, <1>2, <1>3, LinkRanked
<1>5. Ranked(Link(m, Tm(c)), Y \cup {Tm(c)})
  BY <1>1, <1>2, <1>4, LinkRanked
<1>6. Y \cup {Tm(c)} = X \cup TimersOf({c})
  BY <1>3 DEF TimersOf
<1> QED
  BY <1>2, <1>5, <1>6 DEF LinkTimers

(***************************************************************************)
(* After the timers of the connections s have been added, they are in the  *)
(* order of the list too, and the two of a connection follow each other.   *)
(***************************************************************************)
LEMMA LinkAllOrders ==
  ASSUME NEW l \in Lists, NEW s \in Seq(Conns), NEW X \in SUBSET Cells,
         Apart(l), Ranked(l, X), NoWild(l)
  PROVE  LET m == LinkAll(l, s)
         IN  /\ Apart(m) /\ NoWild(m) /\ Ranked(m, X \cup TimersOf(Range(s)))
             /\ \A c \in Range(s) : Joined(m, c)
<1>1. PICK n \in Nat : /\ n = Len(s) /\ DOMAIN s = 1 .. n
                       /\ \A i \in 1 .. n : s[i] \in Conns
  OBVIOUS
<1>2. PICK linked : IsLinking(linked, l, s)
  BY LinkAllRuns
<1>3. linked \in [0 .. n -> Lists]
  BY <1>1, <1>2 DEF IsLinking
<1> DEFINE Upto(i) == {s[j] : j \in 1 .. i}
           Good(m, i) == /\ Apart(m) /\ NoWild(m)
                         /\ Ranked(m, X \cup TimersOf(Upto(i)))
                         /\ \A j \in 1 .. i : Joined(m, s[j])
           S == {i \in 0 .. n : Good(linked[i], i)}
<1>4. 0 \in S
  <2>1. X \cup TimersOf(Upto(0)) = X
    BY DEF TimersOf
  <2>2. linked[0] = l
    BY <1>2 DEF IsLinking
  <2>3. Good(l, 0)
    <3>1. Ranked(l, X \cup TimersOf(Upto(0)))
      <4> HIDE DEF Upto
      <4> QED
        BY <2>1
    <3>2. \A j \in 1 .. 0 : Joined(l, s[j])
      OBVIOUS
    <3> QED
      BY <3>1, <3>2
  <2>4. 0 \in 0 .. n
    OBVIOUS
  <2> HIDE DEF Good
  <2> QED
    BY <2>2, <2>3, <2>4
<1>5. ASSUME NEW i \in 0 .. n - 1, i \in S PROVE i + 1 \in S
  <2>1. i + 1 \in 1 .. n /\ i + 1 \in 0 .. n /\ (i + 1) - 1 = i /\ i \in 0 .. n
    BY <1>5
  <2>2. PICK m \in Lists : m = linked[i]
    BY <1>3, <2>1
  <2>3. PICK c \in Conns : c = s[i + 1]
    BY <1>1, <2>1
  <2>4. linked[i + 1] = LinkTimers(m, c)
    BY <1>1, <1>2, <2>1, <2>2, <2>3 DEF IsLinking
  <2>5. Good(m, i)
    BY <1>5, <2>2
  <2>6. PICK Y : Y = X \cup TimersOf(Upto(i))
    OBVIOUS
  <2>7. Upto(i) \subseteq Conns
    BY <1>1, <2>1
  <2>8. Y \in SUBSET Cells
    BY <2>6, <2>7, CellFacts DEF Timers, TimersOf
  <2>9. Ranked(LinkTimers(m, c), Y \cup TimersOf({c}))
    BY <2>5, <2>6, <2>8, LinkTimersRanked DEF Apart
  <2>10. Upto(i + 1) = Upto(i) \cup {c}
    <3>1. 1 .. i + 1 = (1 .. i) \cup {i + 1}
      BY <2>1
    <3> QED
      BY <2>3, <3>1
  <2>11. Y \cup TimersOf({c}) = X \cup TimersOf(Upto(i + 1))
    BY <2>6, <2>10 DEF TimersOf
  <2>12. Apart(LinkTimers(m, c)) /\ NoWild(LinkTimers(m, c))
    BY <2>5, LinkTimersApart, LinkTimersNoWild
  <2>13. \A j \in 1 .. i + 1 : Joined(LinkTimers(m, c), s[j])
    <3>1. ASSUME NEW j \in 1 .. i + 1 PROVE Joined(LinkTimers(m, c), s[j])
      <4>1. CASE j = i + 1
        BY <2>3, <2>5, <4>1, LinkTimersApart
      <4>2. CASE j \in 1 .. i
        <5>1. s[j] \in Conns /\ Joined(m, s[j])
          BY <1>1, <2>1, <2>5, <4>2
        <5> QED
          BY <2>5, <5>1, LinkTimersApart
      <4> QED
        BY <2>1, <4>1, <4>2
    <3> QED
      BY <3>1
  <2>14. Good(LinkTimers(m, c), i + 1)
    BY <2>9, <2>11, <2>12, <2>13
  <2> HIDE DEF Good
  <2> QED
    BY <2>1, <2>4, <2>14
<1> HIDE DEF S
<1>6. 0 .. n \subseteq S
  BY <1>4, <1>5, InductionUpTo
<1>7. Good(LinkAll(l, s), n)
  BY <1>1, <1>2, <1>6 DEF S, IsLinking
<1>8. Upto(n) = Range(s)
  BY <1>1 DEF Range
<1> QED
  BY <1>1, <1>7, <1>8 DEF Range

(***************************************************************************)
(* Removing the timers of a connection, the second of which follows the    *)
(* first, writes one of them, or what follows them, somewhere else.        *)
(***************************************************************************)
LEMMA UnlinkJoined ==
  ASSUME NEW l \in Lists, NEW c \in Conns, Apart(l), Joined(l, c)
  PROVE  \A x \in Cells : UnlinkTimers(l, c).next[x] =
           IF x = Hb(c) THEN IF l.prev[Hb(c)] = Tm(c) THEN Tm(c) ELSE l.next[Tm(c)]
           ELSE IF x = l.prev[Hb(c)] THEN Tm(c) ELSE l.next[x]
<1>1. Hb(c) \in Events /\ Tm(c) \in Events /\ Hb(c) # Tm(c) /\ Hb(c) \in HbCells
  BY CellFacts, TimerFacts
<1>2. l.prev[Hb(c)] # Hb(c) /\ l.next[Hb(c)] = Tm(c) /\ l.prev[Tm(c)] = Hb(c)
  BY <1>1 DEF Apart, Joined
<1>3. PICK m \in Lists : m = Unlink(l, Hb(c))
  BY <1>1, UnlinkFacts
<1>4. /\ m.prev = l.prev
      /\ \A x \in Cells : m.next[x] = IF x = l.prev[Hb(c)] THEN Tm(c) ELSE l.next[x]
  BY <1>1, <1>2, <1>3, UnlinkFacts
<1>5. \A x \in Cells : Unlink(m, Tm(c)).next[x] =
         IF x = Hb(c) THEN m.next[Tm(c)] ELSE m.next[x]
  BY <1>1, <1>2, <1>4, UnlinkFacts
<1>6. Tm(c) \in Cells
  BY <1>1, CellFacts
<1> QED
  BY <1>2, <1>3, <1>4, <1>5, <1>6 DEF UnlinkTimers

(***************************************************************************)
(* After all timers have been removed, a cell that is no timer points to   *)
(* what it pointed to before, or to a timer.                               *)
(***************************************************************************)
LEMMA UnlinkAllSpares ==
  ASSUME NEW l \in Lists, NEW s \in Seq(Conns), IsInjective(s),
         Apart(l), NoWild(l), \A c \in Range(s) : Joined(l, c)
  PROVE  LET m == UnlinkAll(l, s)
         IN  /\ m.prev = l.prev /\ m.append_to = l.append_to /\ NoWild(m)
             /\ \A x \in Cells \ TimersOf(Range(s)) :
                  m.next[x] = l.next[x] \/ m.next[x] \in TimersOf(Range(s))
<1>1. PICK n \in Nat : /\ n = Len(s) /\ DOMAIN s = 1 .. n
                       /\ \A i \in 1 .. n : s[i] \in Conns
  OBVIOUS
<1>2. PICK unlinked : IsUnlinking(unlinked, l, s)
  BY UnlinkAllRuns
<1>3. unlinked \in [0 .. n -> Lists] /\ unlinked[0] = l
  BY <1>1, <1>2 DEF IsUnlinking
<1>4. PICK T : T = TimersOf(Range(s))
  OBVIOUS
<1>5. \A i \in 1 .. n : Hb(s[i]) \in T /\ Tm(s[i]) \in T /\ s[i] \in Range(s)
  BY <1>1, <1>4 DEF TimersOf, Range
<1> DEFINE Good(m, i) ==
             /\ m.prev = l.prev /\ m.append_to = l.append_to /\ NoWild(m)
             /\ \A x \in Cells \ T : m.next[x] = l.next[x] \/ m.next[x] \in T
             /\ \A j \in i + 1 .. n : m.next[Hb(s[j])] = Tm(s[j])
           S == {i \in 0 .. n : Good(unlinked[i], i)}
<1>6. 0 \in S
  <2>1. \A j \in 0 + 1 .. n : l.next[Hb(s[j])] = Tm(s[j])
    BY <1>5 DEF Joined
  <2> QED
    BY <1>3, <2>1
<1>7. ASSUME NEW i \in 0 .. n - 1, i \in S PROVE i + 1 \in S
  <2>1. i + 1 \in 1 .. n /\ i + 1 \in 0 .. n /\ (i + 1) - 1 = i /\ i \in 0 .. n
    BY <1>7
  <2>2. PICK m \in Lists : m = unlinked[i]
    BY <1>3, <2>1
  <2>3. PICK c \in Conns : c = s[i + 1]
    BY <1>1, <2>1
  <2>4. unlinked[i + 1] = UnlinkTimers(m, c)
    BY <1>1, <1>2, <2>1, <2>2, <2>3 DEF IsUnlinking
  <2>5. Good(m, i)
    BY <1>7, <2>2
  <2>6. Hb(c) \in T /\ Tm(c) \in T /\ c \in Range(s)
    BY <1>5, <2>1, <2>3
  <2>7. Apart(m) /\ Joined(m, c)
    <3>1. i + 1 \in i + 1 .. n
      BY <2>1
    <3> QED
      BY <2>3, <2>5, <2>6, <3>1 DEF Apart, Joined
  <2>8. PICK u \in Lists : u = UnlinkTimers(m, c)
    BY UnlinkTimersFacts
  <2>9. u.prev = l.prev /\ u.append_to = l.append_to
    BY <2>5, <2>8, UnlinkTimersFacts
  <2>10. \A x \in Cells : u.next[x] =
           IF x = Hb(c) THEN IF m.prev[Hb(c)] = Tm(c) THEN Tm(c) ELSE m.next[Tm(c)]
           ELSE IF x = m.prev[Hb(c)] THEN Tm(c) ELSE m.next[x]
    BY <2>7, <2>8, UnlinkJoined
  <2>11. Tm(c) \in Cells /\ Tm(c) # Wild
    BY CellFacts, TimerFacts
  <2>12. NoWild(u)
    BY <2>5, <2>10, <2>11 DEF NoWild
  <2>13. ASSUME NEW x \in Cells \ T PROVE u.next[x] = l.next[x] \/ u.next[x] \in T
    BY <2>5, <2>6, <2>10
  <2>14. ASSUME NEW j \in (i + 1) + 1 .. n PROVE u.next[Hb(s[j])] = Tm(s[j])
    <3>1. j \in i + 1 .. n /\ j \in 1 .. n /\ j # i + 1
      BY <2>1
    <3>2. PICK d \in Conns : d = s[j] /\ m.next[Hb(d)] = Tm(d)
      BY <1>1, <2>5, <3>1
    <3>3. d # c
      BY <1>1, <2>1, <2>3, <3>1, <3>2 DEF IsInjective
    <3>4. Hb(d) # Hb(c) /\ Hb(d) \in HbCells /\ Hb(d) \in Cells
      BY <3>3, CellFacts, TimerFacts
    <3>5. Hb(d) # m.prev[Hb(c)]
      BY <2>7, <3>4 DEF Apart
    <3> QED
      BY <2>10, <3>2, <3>4, <3>5
  <2>15. Good(u, i + 1)
    BY <2>9, <2>12, <2>13, <2>14
  <2> HIDE DEF Good
  <2> QED
    BY <2>1, <2>4, <2>8, <2>15
<1> HIDE DEF S
<1>8. 0 .. n \subseteq S
  BY <1>6, <1>7, InductionUpTo
<1>9. Good(UnlinkAll(l, s), n)
  BY <1>1, <1>2, <1>8 DEF S, IsUnlinking
<1> QED
  BY <1>4, <1>9

-----------------------------------------------------------------------------
(***************************************************************************)
(* The walk of calc_next_timed_event, step by step.                        *)
(***************************************************************************)
Follow(l, x) == IF x \in Events THEN l.next[x] ELSE x

LEMMA WalkFacts ==
  ASSUME NEW l \in Lists
  PROVE  /\ At(l) \in [0 .. Steps -> Addresses \ {ListHead}]
         /\ At(l)[0] = l.next[ListHead]
         /\ \A i \in 1 .. Steps : At(l)[i] = Follow(l, At(l)[i - 1])
<1>1. PICK n \in Nat : n = Steps
  BY EventsFinite
<1>2. PICK A : A = Addresses \ {ListHead}
  OBVIOUS
<1>3. /\ l.next[ListHead] \in A
      /\ \A x \in A : Follow(l, x) \in A
  BY <1>2, CellFacts DEF Lists, Follow
<1> DEFINE IsRun(f) == f = [i \in 0 .. n |->
                              IF i = 0 THEN l.next[ListHead] ELSE Follow(l, f[i - 1])]
           at == CHOOSE f : IsRun(f)
<1>4. At(l) = at
  BY <1>1 DEF At, Follow
<1>5. PICK first \in A : first = l.next[ListHead]
  BY <1>3
<1>6. PICK step : step = [x \in (1 .. n) \X A |-> Follow(l, x[2])]
  OBVIOUS
<1>7. step \in [(1 .. n) \X A -> A]
  BY <1>3, <1>6
<1>8. PICK run : IsLoop(run, A, n, first, step)
  BY <1>7, LoopHasRun
<1>9. run \in [0 .. n -> A] /\ run[0] = first
  BY <1>8 DEF IsLoop
<1>10. ASSUME NEW i \in 1 .. n PROVE run[i] = Follow(l, run[i - 1])
  <2>1. i - 1 \in 0 .. n /\ run[i] = step[<<i, run[i - 1]>>]
    BY <1>8 DEF IsLoop
  <2> QED
    BY <1>6, <1>9, <2>1
<1>11. IsRun(run)
  <2>1. \A i \in 0 .. n :
          run[i] = IF i = 0 THEN l.next[ListHead] ELSE Follow(l, run[i - 1])
    BY <1>5, <1>9, <1>10
  <2> QED
    BY <1>9, <2>1
<1>12. IsRun(at)
  <2> HIDE DEF IsRun
  <2> QED
    BY <1>11
<1>13. at = [i \in 0 .. n |-> IF i = 0 THEN first ELSE Follow(l, at[i - 1])]
  BY <1>5, <1>12
<1> HIDE DEF at
<1>14. /\ DOMAIN at = 0 .. n /\ at[0] = first
       /\ \A i \in 1 .. n : at[i] = Follow(l, at[i - 1])
  BY <1>13
<1> DEFINE S == {i \in 0 .. n : at[i] \in A}
<1>15. 0 \in S
  BY <1>14
<1>16. ASSUME NEW i \in 0 .. n - 1, i \in S PROVE i + 1 \in S
  <2>1. i + 1 \in 1 .. n /\ (i + 1) - 1 = i /\ at[i] \in A
    BY <1>16
  <2>2. at[i + 1] = Follow(l, at[i])
    BY <1>14, <2>1
  <2> QED
    BY <1>3, <2>1, <2>2
<1> HIDE DEF S
<1>17. 0 .. n \subseteq S
  BY <1>15, <1>16, InductionUpTo
<1>18. at \in [0 .. n -> A]
  <2>1. at = [i \in 0 .. n |-> at[i]]
    BY <1>13
  <2>2. \A i \in 0 .. n : at[i] \in A
    BY <1>17 DEF S
  <2> QED
    BY <2>1, <2>2
<1> QED
  BY <1>1, <1>2, <1>4, <1>5, <1>14, <1>18

(***************************************************************************)
(* In a list without cycles the walk ends: more steps than there are       *)
(* events would have to visit one of them twice.                           *)
(***************************************************************************)
LEMMA RankedWalkEnds ==
  ASSUME NEW l \in Lists, Ranked(l, Cells), NoWild(l)
  PROVE  EndOf(l) = NULL
<1>1. PICK n \in Nat : n = Steps
  BY EventsFinite
<1>2. PICK at : at = At(l)
  OBVIOUS
<1>3. /\ at \in [0 .. n -> Addresses \ {ListHead}]
      /\ at[0] = l.next[ListHead]
      /\ \A i \in 1 .. n : at[i] = Follow(l, at[i - 1])
  BY <1>1, <1>2, WalkFacts
<1>4. PICK k \in Nat : \E r \in [Cells -> 0 .. k] :
        \A x \in Cells : l.next[x] \in Cells \ {ListHead} => r[x] < r[l.next[x]]
  BY DEF Ranked
<1>5. PICK r \in [Cells -> 0 .. k] :
        \A x \in Cells : l.next[x] \in Cells \ {ListHead} => r[x] < r[l.next[x]]
  BY <1>4
<1>6. \A x \in Cells : l.next[x] \in Events \cup {NULL}
  BY CellFacts DEF Lists, NoWild, Addresses
<1>7. \A i \in 0 .. n : at[i] \in Events \cup {NULL}
  <2> DEFINE S == {i \in 0 .. n : at[i] \in Events \cup {NULL}}
  <2>1. 0 \in S
    BY <1>3, <1>6, CellFacts
  <2>2. ASSUME NEW i \in 0 .. n - 1, i \in S PROVE i + 1 \in S
    <3>1. i + 1 \in 1 .. n /\ (i + 1) - 1 = i /\ at[i] \in Events \cup {NULL}
      BY <2>2
    <3>2. at[i + 1] = Follow(l, at[i])
      BY <1>3, <3>1
    <3> QED
      BY <1>6, <3>1, <3>2, CellFacts DEF Follow
  <2> HIDE DEF S
  <2>3. 0 .. n \subseteq S
    BY <2>1, <2>2, InductionUpTo
  <2> QED
    BY <2>3 DEF S
<1>8. SUFFICES ASSUME at[n] \in Events PROVE FALSE
  BY <1>1, <1>2, <1>7 DEF EndOf
<1>9. \A i \in 0 .. n : at[i] \in Events
  <2> DEFINE S == {i \in 0 .. n : at[n - i] \in Events}
  <2>1. 0 \in S
    BY <1>8
  <2>2. ASSUME NEW i \in 0 .. n - 1, i \in S PROVE i + 1 \in S
    <3>1. PICK j \in 1 .. n : j = n - i /\ at[j] \in Events
      BY <2>2
    <3>2. at[j] = Follow(l, at[j - 1])
      BY <1>3
    <3>3. at[j - 1] \in Events
      BY <3>1, <3>2 DEF Follow
    <3>4. j - 1 = n - (i + 1) /\ i + 1 \in 0 .. n
      BY <3>1
    <3> QED
      BY <3>3, <3>4
  <2> HIDE DEF S
  <2>3. 0 .. n \subseteq S
    BY <2>1, <2>2, InductionUpTo
  <2>4. ASSUME NEW i \in 0 .. n PROVE at[i] \in Events
    <3>1. n - i \in 0 .. n /\ n - (n - i) = i
      OBVIOUS
    <3>2. n - i \in S
      BY <2>3, <3>1
    <3> QED
      BY <3>1, <3>2 DEF S
  <2> QED
    BY <2>4
<1>10. \A i \in 1 .. n : r[at[i - 1]] < r[at[i]]
  <2>1. ASSUME NEW i \in 1 .. n PROVE r[at[i - 1]] < r[at[i]]
    <3>1. i - 1 \in 0 .. n /\ i \in 0 .. n
      OBVIOUS
    <3>2. at[i - 1] \in Events /\ at[i] \in Events
      BY <1>9, <3>1
    <3>3. at[i] = l.next[at[i - 1]]
      BY <1>3, <3>2 DEF Follow
    <3> QED
      BY <1>5, <3>2, <3>3, CellFacts
  <2> QED
    BY <2>1
<1>11. \A i \in 0 .. n : r[at[i]] \in 0 .. k
  BY <1>5, <1>9, CellFacts
<1>12. \A i \in 0 .. n : \A j \in 0 .. n : j < i => r[at[j]] < r[at[i]]
  <2> DEFINE S == {i \in 0 .. n : \A j \in 0 .. n : j < i => r[at[j]] < r[at[i]]}
  <2>1. 0 \in S
    OBVIOUS
  <2>2. ASSUME NEW i \in 0 .. n - 1, i \in S PROVE i + 1 \in S
    <3>1. i + 1 \in 1 .. n /\ (i + 1) - 1 = i /\ i \in 0 .. n /\ i + 1 \in 0 .. n
      OBVIOUS
    <3>2. r[at[i]] < r[at[i + 1]]
      BY <1>10, <3>1
    <3>3. ASSUME NEW j \in 0 .. n, j < i + 1 PROVE r[at[j]] < r[at[i + 1]]
      <4>1. CASE j = i
        BY <3>2, <4>1
      <4>2. CASE j < i
        <5>1. r[at[j]] < r[at[i]]
          BY <2>2, <4>2
        <5> QED
          BY <1>11, <3>1, <3>2, <5>1
      <4> QED
        BY <3>1, <3>3, <4>1, <4>2
    <3> QED
      BY <3>1, <3>3
  <2> HIDE DEF S
  <2>3. 0 .. n \subseteq S
    BY <2>1, <2>2, InductionUpTo
  <2> QED
    BY <2>3 DEF S
<1>13. IsFiniteSet(0 .. n) /\ Cardinality(0 .. n) = n + 1
  BY FS_Interval
<1>14. IsFiniteSet(Events) /\ Cardinality(Events) = n
  BY <1>1, EventsFinite DEF Steps
<1>15. at \in [0 .. n -> Events]
  BY <1>3, <1>9
<1>16. PICK i \in 0 .. n, j \in 0 .. n : i # j /\ at[i] = at[j]
  <2>1. Cardinality(Events) < Cardinality(0 .. n)
    BY <1>13, <1>14
  <2> QED
    BY <1>13, <1>14, <1>15, <2>1, FS_PigeonHole
<1>17. i < j \/ j < i
  BY <1>16
<1>18. r[at[i]] < r[at[j]] \/ r[at[j]] < r[at[i]]
  BY <1>12, <1>17
<1> QED
  BY <1>11, <1>16, <1>18

-----------------------------------------------------------------------------
(***************************************************************************)
(* The times that are left stay in their range.                            *)
(***************************************************************************)
Lefts == [Events -> -MaxLate .. (IoInterval + TmoInterval + TMax)]

LEMMA ConstantFacts ==
  /\ IsFiniteSet(Conns) /\ CallTicks \in Nat
  /\ IoInterval \in Nat \ {0} /\ TmoInterval \in Nat \ {0} /\ TMax \in Nat \ {0}
  /\ MaxLate \in Nat \ {0}
BY EventAssumption

\* What is left before the lateness is cut off at MaxLate.
Spans == [Events -> {n \in Int : n <= IoInterval + TmoInterval + TMax}]

LEMMA LeftsAreSpans == Lefts \subseteq Spans
<1>1. ASSUME NEW t \in Lefts PROVE t \in Spans
  BY ConstantFacts DEF Lefts, Spans
<1> QED
  BY <1>1

LEMMA ElapseType ==
  ASSUME NEW t \in Spans, NEW d \in Nat
  PROVE  Elapse(t, d) \in Lefts
BY ConstantFacts DEF Elapse, Lefts, Spans

LEMMA RestartType ==
  ASSUME NEW t \in Spans, NEW s
  PROVE  Restart(t, s) \in Spans
BY ConstantFacts DEF Restart, Interval, Spans

LEMMA SpentType ==
  ASSUME NEW t \in Spans, NEW d \in Nat
  PROVE  Spent(t, d) \in Spans
BY ConstantFacts DEF Spent, Spans

LEMMA CalledType ==
  ASSUME left \in Lefts, NEW e
  PROVE  Called(e) \in Spans
<1>1. Interval(e) \in {n \in Int : n <= IoInterval + TmoInterval + TMax}
  BY ConstantFacts DEF Interval
<1>2. left \in Spans
  BY LeftsAreSpans
<1> QED
  BY <1>1, <1>2 DEF Called, Spans

LEMMA WaitsType ==
  ASSUME left \in Lefts, Waits # {}
  PROVE  Min(Waits) \in Int /\ \A w \in Waits : Min(Waits) <= w
<1>1. Waits \subseteq Int /\ \A w \in Waits : w + MaxLate \in Nat
  BY ConstantFacts, CellFacts DEF Waits, Visited, Lefts
<1> DEFINE shifted == {w + MaxLate : w \in Waits}
<1>2. shifted \in SUBSET Nat /\ shifted # {}
  BY <1>1
<1>3. PICK x \in shifted : \A y \in shifted : x <= y
  <2> HIDE DEF shifted
  <2> QED
    BY <1>2, LeastElement
<1>4. PICK w \in Waits : x = w + MaxLate
  BY <1>3
<1>5. \A v \in Waits : w <= v
  <2>1. ASSUME NEW v \in Waits PROVE w <= v
    <3>1. v + MaxLate \in shifted
      OBVIOUS
    <3>2. w + MaxLate <= v + MaxLate
      BY <1>3, <1>4, <3>1
    <3> QED
      BY <1>1, <3>2, ConstantFacts
  <2> QED
    BY <2>1
<1> QED
  BY <1>1, <1>5 DEF Min

-----------------------------------------------------------------------------
(***************************************************************************)
(* The start of the loop adds the io events twice: no cycle.               *)
(***************************************************************************)
Tidy(l) == Apart(l) /\ NoWild(l) /\ Ranked(l, Cells)

LEMMA LinkTidy ==
  ASSUME NEW l \in Lists, NEW e \in {Io0, Io1, Tmo}, l.append_to # e, Tidy(l)
  PROVE  /\ Link(l, e) \in Lists /\ Link(l, e).append_to = e /\ Tidy(Link(l, e))
         /\ \A c \in Conns : Joined(l, c) => Joined(Link(l, e), c)
<1>1. e \in Events /\ e \notin HbCells
  BY CellFacts DEF HbCells, Timers, TimersOf
<1>2. PICK m \in Lists : m = Link(l, e)
  BY <1>1, LinkFacts
<1>3. /\ m.append_to = e
      /\ \A x \in Cells : m.next[x] =
           IF x = l.append_to THEN e ELSE IF x = e THEN NULL ELSE l.next[x]
      /\ \A x \in Events : m.prev[x] = IF x = e THEN l.append_to ELSE l.prev[x]
  BY <1>1, <1>2, LinkFacts
<1>4. \A c \in Conns : /\ Hb(c) \in Events /\ Tm(c) \in Events /\ Hb(c) \in Cells
                       /\ Hb(c) # e /\ Tm(c) # e /\ Hb(c) \in HbCells
  BY CellFacts, TimerFacts
<1>5. Apart(m)
  BY <1>1, <1>3, <1>4 DEF Apart, Tidy
<1>6. NoWild(m)
  BY <1>1, <1>3, CellFacts DEF NoWild, Tidy
<1>7. Ranked(m, Cells)
  <2>1. Cells \cup {e} = Cells
    BY <1>1, CellFacts
  <2> QED
    BY <1>1, <1>2, <2>1, LinkRanked DEF Tidy
<1>8. \A c \in Conns : Joined(l, c) => Joined(m, c)
  BY <1>3, <1>4 DEF Joined, Apart, Tidy
<1> QED
  BY <1>2, <1>3, <1>5, <1>6, <1>7, <1>8 DEF Tidy

LEMMA BeginFacts ==
  ASSUME NEW l \in Lists, l.append_to \in {ListHead} \cup Timers
  PROVE  LET m == Link(LinkIo(LinkIo(l)), Tmo)
         IN  /\ m \in Lists /\ m.append_to = Tmo /\ m.next[Tmo] = NULL
             /\ l = EmptyList => IoInFront(m)
             /\ Tidy(l) => Tidy(m) /\ \A c \in Conns : Joined(l, c) => Joined(m, c)
<1> USE CellFacts
<1>1. PICK l1 \in Lists : l1 = Link(l, Io0)
  BY LinkFacts
<1>2. PICK l2 \in Lists : l2 = Link(l1, Io1)
  BY LinkFacts
<1>3. PICK l3 \in Lists : l3 = Link(l2, Io0)
  BY LinkFacts
<1>4. PICK l4 \in Lists : l4 = Link(l3, Io1)
  BY LinkFacts
<1>5. PICK m \in Lists : m = Link(l4, Tmo)
  BY LinkFacts
<1>6. l1.append_to = Io0 /\ l2.append_to = Io1 /\ l3.append_to = Io0
      /\ l4.append_to = Io1 /\ m.append_to = Tmo
  BY <1>1, <1>2, <1>3, <1>4, <1>5, LinkFacts
<1>7. m.next[Tmo] = NULL
  BY <1>5, <1>6, LinkFacts
<1>8. ASSUME l = EmptyList PROVE IoInFront(m)
  <2>1. /\ l.next[ListHead] = NULL /\ l.append_to = ListHead
        /\ \A t \in Events : l.prev[t] = Wild
    BY <1>8 DEF EmptyList
  <2>2. l1.next[ListHead] = Io0 /\ l1.next[Io0] = NULL
    BY <1>1, <2>1, LinkFacts
  <2>3. l2.next[ListHead] = Io0 /\ l2.next[Io0] = Io1 /\ l2.next[Io1] = NULL
    BY <1>2, <1>6, <2>2, LinkFacts
  <2>4. l3.next[ListHead] = Io0 /\ l3.next[Io0] = NULL /\ l3.next[Io1] = Io0
    BY <1>3, <1>6, <2>3, LinkFacts
  <2>5. l4.next[ListHead] = Io0 /\ l4.next[Io0] = Io1 /\ l4.next[Io1] = NULL
    BY <1>4, <1>6, <2>4, LinkFacts
  <2>6. m.next[ListHead] = Io0 /\ m.next[Io0] = Io1 /\ m.next[Io1] = Tmo
    BY <1>5, <1>6, <2>5, LinkFacts
  <2>7. \A t \in Timers : m.prev[t] = Wild
    <3>1. ASSUME NEW t \in Timers PROVE m.prev[t] = Wild
      <4>1. t \in Events /\ t \notin {Io0, Io1, Tmo}
        OBVIOUS
      <4>2. l1.prev[t] = Wild /\ l2.prev[t] = l1.prev[t] /\ l3.prev[t] = l2.prev[t]
            /\ l4.prev[t] = l3.prev[t] /\ m.prev[t] = l4.prev[t]
        BY <1>1, <1>2, <1>3, <1>4, <1>5, <2>1, <4>1, LinkFacts
      <4> QED
        BY <4>2
    <3> QED
      BY <3>1
  <2> QED
    BY <1>6, <2>6, <2>7 DEF IoInFront
<1>9. ASSUME Tidy(l)
      PROVE  Tidy(m) /\ \A c \in Conns : Joined(l, c) => Joined(m, c)
  <2>1. Tidy(l1) /\ \A c \in Conns : Joined(l, c) => Joined(l1, c)
    BY <1>1, <1>9, LinkTidy
  <2>2. Tidy(l2) /\ \A c \in Conns : Joined(l1, c) => Joined(l2, c)
    BY <1>2, <1>6, <2>1, LinkTidy
  <2>3. Tidy(l3) /\ \A c \in Conns : Joined(l2, c) => Joined(l3, c)
    BY <1>3, <1>6, <2>2, LinkTidy
  <2>4. Tidy(l4) /\ \A c \in Conns : Joined(l3, c) => Joined(l4, c)
    BY <1>4, <1>6, <2>3, LinkTidy
  <2>5. Tidy(m) /\ \A c \in Conns : Joined(l4, c) => Joined(m, c)
    BY <1>5, <1>6, <2>4, LinkTidy
  <2> QED
    BY <2>1, <2>2, <2>3, <2>4, <2>5
<1>10. Link(LinkIo(LinkIo(l)), Tmo) = m
  BY <1>1, <1>2, <1>3, <1>4, <1>5 DEF LinkIo
<1> QED
  BY <1>6, <1>7, <1>8, <1>9, <1>10

-----------------------------------------------------------------------------
(***************************************************************************)
(* The initial state, and the steps in which no timer is added or removed. *)
(***************************************************************************)
LEMMA EmptyFacts ==
  /\ EmptyList \in Lists /\ EmptyList.append_to = ListHead /\ Tidy(EmptyList)
<1>1. EmptyList \in Lists /\ EmptyList.append_to = ListHead
  BY CellFacts DEF EmptyList, Lists, Addresses
<1>2. Apart(EmptyList) /\ NoWild(EmptyList)
  BY CellFacts, TimerFacts DEF EmptyList, Apart, NoWild, HbCells, Timers, TimersOf
<1>3. Ranked(EmptyList, Cells)
  <2>1. PICK r : r = [x \in Cells |-> 0]
    OBVIOUS
  <2>2. r \in [Cells -> 0 .. 0] /\ 0 \in Nat
    BY <2>1
  <2>3. \A x \in Cells : EmptyList.next[x] \notin Cells
    BY CellFacts DEF EmptyList
  <2> QED
    BY <2>2, <2>3 DEF Ranked
<1> QED
  BY <1>1, <1>2, <1>3 DEF Tidy

LEMMA InitIInv == Init => IInv
<1> SUFFICES ASSUME Init PROVE IInv
  OBVIOUS
<1> USE DEF Init
<1>1. TypeOK
  <2>1. left \in Lefts
    BY ConstantFacts DEF Lefts
  <2>2. << >> \in Seq(Conns) /\ IsInjective(<< >>)
    BY DEF IsInjective
  <2> QED
    BY <2>1, <2>2, EmptyFacts DEF TypeOK, Lists, Lefts
<1>2. Range(order) = {}
  BY DEF Range
<1>3. Listed
  BY <1>2 DEF Listed, InList
<1>4. Untouched
  BY EmptyFacts DEF Untouched
<1>5. NoCycle /\ Pairs
  BY <1>2, EmptyFacts DEF NoCycle, Pairs, Tidy
<1> QED
  BY <1>1, <1>3, <1>4, <1>5 DEF IInv, IoFirst, Single

LEMMA IInvTypes ==
  ASSUME IInv
  PROVE  /\ list \in Lists /\ left \in Lefts /\ left \in Spans /\ order \in Seq(Conns)
         /\ IsInjective(order) /\ Range(order) \subseteq Conns
         /\ \A c \in Conns : con[c] # "absent" => c \in Range(order)
<1>1. list \in Lists /\ left \in Lefts /\ order \in Seq(Conns) /\ IsInjective(order)
  BY DEF IInv, TypeOK, Lists, Lefts
<1>2. Range(order) \subseteq Conns
  BY <1>1 DEF Range
<1> QED
  BY <1>1, <1>2, LeftsAreSpans DEF IInv, Listed, InList

LEMMA TypeOKNext ==
  ASSUME TypeOK, list' \in Lists, left' \in Lefts,
         enabled' \in [Events -> {"on", "off", "garbage"}],
         order' \in Seq(Conns) /\ IsInjective(order'),
         con' \in [Conns -> {"absent", "start", "up", "closed", "abandoned"}],
         loop' \in {"idle", "running", "hung", "wild"}, touched' \subseteq Conns,
         early' \in BOOLEAN
  PROVE  TypeOK'
BY DEF TypeOK, Lists, Lefts

\* The list as it was, and no more connections: they may be in other states.
SameList ==
  /\ UNCHANGED <<list, order, touched, early>>
  /\ \A c \in Conns : con'[c] = "absent" <=> con[c] = "absent"
  /\ loop' = loop \/ loop' \in {"hung", "wild"}

LEMMA SameListIInv ==
  ASSUME IInv, TypeOK', SameList
  PROVE  IInv'
<1> USE DEF SameList
<1>1. Listed'
  BY DEF IInv, Listed, InList
<1>2. Untouched' /\ IoFirst' /\ NoCycle'
  BY DEF IInv, Untouched, IoFirst, NoCycle
<1>3. Single'
  BY DEF IInv, Single
<1>4. Pairs'
  BY DEF IInv, Pairs
<1> QED
  BY <1>1, <1>2, <1>3, <1>4 DEF IInv

LEMMA NoChangeIInv ==
  ASSUME IInv, NEW t \in Spans, NEW d \in Nat, NoChange(t, d), UNCHANGED early
  PROVE  IInv'
<1>1. PICK s \in SUBSET {c \in Conns : con[c] = "up"} :
        /\ UNCHANGED <<list, enabled, order, con, touched, loop>>
        /\ left' = Elapse(Restart(t, {Hb(c) : c \in s}), d)
  BY DEF NoChange
<1>2. left' \in Lefts
  BY <1>1, RestartType, ElapseType
<1>3. TypeOK'
  BY <1>1, <1>2, IInvTypes, TypeOKNext DEF IInv, TypeOK
<1> QED
  BY <1>1, <1>3, SameListIInv DEF SameList

LEMMA CloseIInv ==
  ASSUME IInv, NEW c \in Conns, NEW t \in Spans, NEW d \in Nat, Close(c, t, d),
         UNCHANGED early
  PROVE  IInv'
<1>1. left' \in Lefts /\ UNCHANGED <<list, enabled, order, touched, loop>>
  BY ElapseType DEF Close
<1>2. /\ con' \in [Conns -> {"absent", "start", "up", "closed", "abandoned"}]
      /\ \A x \in Conns : con'[x] = "absent" <=> con[x] = "absent"
  BY DEF Close, IInv, TypeOK
<1>3. TypeOK'
  BY <1>1, <1>2, IInvTypes, TypeOKNext DEF IInv, TypeOK
<1> QED
  BY <1>1, <1>2, <1>3, SameListIInv DEF SameList

LEMMA CallTmoIInv ==
  ASSUME IInv, CallTmo, UNCHANGED early
  PROVE  IInv'
<1>1. left' \in Lefts /\ UNCHANGED <<list, enabled, order, con, touched, loop>>
  BY IInvTypes, CalledType, ElapseType DEF CallTmo
<1>2. TypeOK'
  BY <1>1, IInvTypes, TypeOKNext DEF IInv, TypeOK
<1> QED
  BY <1>1, <1>2, SameListIInv DEF SameList

LEMMA StopIInv ==
  ASSUME IInv, Hang \/ GoWild, UNCHANGED early
  PROVE  IInv'
<1>1. /\ loop' \in {"hung", "wild"}
      /\ UNCHANGED <<list, enabled, left, order, con, touched>>
  BY DEF Hang, GoWild
<1>2. TypeOK'
  BY <1>1, IInvTypes, TypeOKNext DEF IInv, TypeOK
<1> QED
  BY <1>1, <1>2, SameListIInv DEF SameList

-----------------------------------------------------------------------------
(***************************************************************************)
(* A new connection.                                                       *)
(***************************************************************************)
LEMMA RelinkFacts ==
  ASSUME NEW l \in Lists, NEW s \in Seq(Conns), NEW c \in Conns,
         IsInjective(s), c \notin Range(s)
  PROVE  LET m == LinkAll(UnlinkAll(l, s), Append(s, c))
         IN  /\ m \in Lists
             /\ l.append_to \in {ListHead} \cup Timers =>
                  m.append_to \in {ListHead} \cup Timers
             /\ IoInFront(l) => IoInFront(m)
             /\ Tidy(l) /\ (\A x \in Range(s) : Joined(l, x)) =>
                  Tidy(m) /\ \A x \in Range(s) \cup {c} : Joined(m, x)
<1>1. PICK s2 \in Seq(Conns) : s2 = Append(s, c) /\ Range(s2) = Range(s) \cup {c}
  <2>1. Append(s, c) \in Seq(Conns)
    OBVIOUS
  <2>2. Range(Append(s, c)) = Range(s) \cup {c}
    <3>1. PICK n \in Nat : n = Len(s) /\ DOMAIN s = 1 .. n
      OBVIOUS
    <3>2. /\ DOMAIN Append(s, c) = 1 .. n + 1 /\ Append(s, c)[n + 1] = c
          /\ \A i \in 1 .. n : Append(s, c)[i] = s[i]
      BY <3>1
    <3>3. 1 .. n + 1 = (1 .. n) \cup {n + 1}
      OBVIOUS
    <3> QED
      BY <3>1, <3>2, <3>3 DEF Range
  <2> QED
    BY <2>1, <2>2
<1>2. PICK u \in Lists : u = UnlinkAll(l, s)
  BY LoopsAreLists
<1>3. PICK m \in Lists : m = LinkAll(u, s2)
  BY LoopsAreLists
<1>4. ASSUME l.append_to \in {ListHead} \cup Timers
      PROVE  m.append_to \in {ListHead} \cup Timers
  <2> DEFINE P == {x \in Lists : x.append_to \in {ListHead} \cup Timers}
  <2>1. P \in SUBSET Lists /\ l \in P
    BY <1>4
  <2>2. \A x \in P, d \in Conns : LinkTimers(x, d) \in P
    BY LinkTimersFacts, TimerFacts
  <2>3. \A x \in P, d \in Conns : UnlinkTimers(x, d) \in P
    BY UnlinkTimersFacts
  <2> HIDE DEF P
  <2>4. u \in P
    BY <1>2, <2>1, <2>3, UnlinkAllKeeps
  <2>5. m \in P
    BY <1>3, <2>1, <2>2, <2>4, LinkAllKeeps
  <2> QED
    BY <2>5 DEF P
<1>5. ASSUME IoInFront(l) PROVE IoInFront(m)
  BY <1>2, <1>3, <1>5, AllStayBehind
<1>6. ASSUME Tidy(l), \A x \in Range(s) : Joined(l, x)
      PROVE  Tidy(m) /\ \A x \in Range(s) \cup {c} : Joined(m, x)
  <2>1. /\ u.prev = l.prev /\ u.append_to = l.append_to /\ NoWild(u)
        /\ \A x \in Cells \ TimersOf(Range(s)) :
             u.next[x] = l.next[x] \/ u.next[x] \in TimersOf(Range(s))
    BY <1>2, <1>6, UnlinkAllSpares DEF Tidy
  <2>2. Apart(u)
    BY <1>6, <2>1 DEF Apart, Tidy
  <2>3. PICK X \in SUBSET Cells : X = Cells \ TimersOf(Range(s2))
    OBVIOUS
  <2>4. X \subseteq Cells \ TimersOf(Range(s))
    BY <1>1, <2>3 DEF TimersOf
  <2>5. Ranked(u, X)
    <3>1. PICK k \in Nat : \E r \in [Cells -> 0 .. k] :
            \A x \in Cells : l.next[x] \in Cells \ {ListHead} => r[x] < r[l.next[x]]
      BY <1>6 DEF Ranked, Tidy
    <3>2. PICK r \in [Cells -> 0 .. k] :
            \A x \in Cells : l.next[x] \in Cells \ {ListHead} => r[x] < r[l.next[x]]
      BY <3>1
    <3>3. ASSUME NEW x \in X, u.next[x] \in X \ {ListHead}
          PROVE  r[x] < r[u.next[x]]
      BY <2>1, <2>4, <3>2, <3>3
    <3> QED
      BY <3>3 DEF Ranked
  <2>6. /\ Apart(m) /\ NoWild(m) /\ Ranked(m, X \cup TimersOf(Range(s2)))
        /\ \A x \in Range(s2) : Joined(m, x)
    BY <1>3, <2>1, <2>2, <2>5, LinkAllOrders
  <2>7. X \cup TimersOf(Range(s2)) = Cells
    <3>1. Range(s2) \subseteq Conns
      BY DEF Range
    <3> QED
      BY <2>3, <3>1, CellFacts DEF Timers, TimersOf
  <2> QED
    BY <1>1, <2>6, <2>7 DEF Tidy
<1> QED
  BY <1>1, <1>2, <1>3, <1>4, <1>5, <1>6

LEMMA NewConnectionIInv ==
  ASSUME IInv, NEW c \in Conns, NEW t \in Spans, NEW d \in Nat,
         NewConnection(c, t, d), UNCHANGED early, loop \in {"idle", "running"}
  PROVE  IInv'
<1>1. /\ c \notin Range(order) /\ con' = [con EXCEPT ![c] = "start"]
      /\ order' = Append(order, c) /\ UNCHANGED <<enabled, touched, early>>
  BY DEF NewConnection, InList, AddConnection
<1>2. list \in Lists /\ order \in Seq(Conns) /\ IsInjective(order)
  BY IInvTypes
<1>3. \/ list' = LinkAll(UnlinkAll(list, order), order') /\ UNCHANGED loop
      \/ loop' = "wild" /\ UNCHANGED list
  BY DEF NewConnection
<1>4. left' \in Lefts
  BY RestartType, ElapseType DEF NewConnection
<1>5. PICK m \in Lists : m = LinkAll(UnlinkAll(list, order), order')
  BY <1>1, <1>2, RelinkFacts
<1>6. /\ list.append_to \in {ListHead} \cup Timers => m.append_to \in {ListHead} \cup Timers
      /\ IoInFront(list) => IoInFront(m)
      /\ Tidy(list) /\ (\A x \in Range(order) : Joined(list, x)) =>
           Tidy(m) /\ \A x \in Range(order) \cup {c} : Joined(m, x)
  BY <1>1, <1>2, <1>5, RelinkFacts
<1>7. /\ order' \in Seq(Conns) /\ IsInjective(order') /\ order' # << >>
      /\ Range(order') = Range(order) \cup {c}
      /\ \A x \in Conns : order' = <<x>> => order = << >> /\ x = c
  <2>1. PICK n \in Nat : n = Len(order) /\ DOMAIN order = 1 .. n
    BY <1>2
  <2>2. /\ order' \in Seq(Conns) /\ Len(order') = n + 1 /\ DOMAIN order' = 1 .. n + 1
        /\ order'[n + 1] = c /\ \A i \in 1 .. n : order'[i] = order[i]
    BY <1>1, <1>2, <2>1
  <2>3. 1 .. n + 1 = (1 .. n) \cup {n + 1}
    OBVIOUS
  <2>4. \A i \in 1 .. n : order[i] # c
    BY <1>1, <2>1 DEF Range
  <2>5. IsInjective(order')
    BY <1>2, <2>1, <2>2, <2>3, <2>4 DEF IsInjective
  <2>6. Range(order') = Range(order) \cup {c}
    BY <2>1, <2>2, <2>3 DEF Range
  <2>7. ASSUME NEW x \in Conns, order' = <<x>> PROVE order = << >> /\ x = c
    <3>1. Len(order') = 1 /\ order'[1] = x
      BY <2>7
    <3>2. n + 1 = 1
      BY <2>2, <3>1
    <3>3. n = 0
      BY <3>2
    <3> QED
      BY <1>2, <2>1, <2>2, <3>1, <3>3
  <2> QED
    BY <2>2, <2>5, <2>6, <2>7
<1>8. list' \in Lists
  BY <1>2, <1>3, <1>5
<1>9. TypeOK'
  <2>1. con' \in [Conns -> {"absent", "start", "up", "closed", "abandoned"}]
    BY <1>1 DEF IInv, TypeOK
  <2>2. loop' \in {"idle", "running", "hung", "wild"}
    BY <1>3 DEF IInv, TypeOK
  <2>3. /\ enabled' \in [Events -> {"on", "off", "garbage"}]
        /\ touched' \subseteq Conns /\ early' \in BOOLEAN
    BY <1>1 DEF IInv, TypeOK
  <2> QED
    BY <1>4, <1>7, <1>8, <2>1, <2>2, <2>3, TypeOKNext DEF IInv
<1>10. Listed'
  BY <1>1, <1>7 DEF IInv, TypeOK, Listed, InList
<1>11. Untouched'
  BY <1>1, <1>3, <1>5, <1>6, <1>7 DEF IInv, Untouched
<1>12. IoFirst'
  BY <1>1, <1>3, <1>5, <1>6 DEF IInv, IoFirst
<1>13. Single'
  <2>1. SUFFICES ASSUME loop' = "running", ~early', NEW x \in Conns, order' = <<x>>
                 PROVE  /\ list'.next[Tmo] = Hb(x) /\ list'.next[Hb(x)] = Tm(x)
                        /\ list'.next[Tm(x)] = NULL /\ list'.append_to = Tm(x)
    BY <1>7 DEF Single
  <2>2. order = << >> /\ x = c /\ order' = <<c>>
    BY <1>7, <2>1
  <2>3. list' = LinkTimers(list, c) /\ loop = "running" /\ ~early
    BY <1>1, <1>2, <1>3, <2>1, <2>2, ShortLoops
  <2>4. list.append_to = Tmo
    BY <2>2, <2>3 DEF IInv, Single
  <2> QED
    BY <1>2, <2>2, <2>3, <2>4, LinkTimersFacts, CellFacts, TimerFacts
<1>14. NoCycle' /\ Pairs'
  <2>1. CASE touched # {}
    BY <1>1, <2>1 DEF NoCycle, Pairs
  <2>2. CASE touched = {}
    <3>1. Tidy(list) /\ \A x \in Range(order) : Joined(list, x)
      BY <2>2 DEF IInv, NoCycle, Pairs, Tidy
    <3>2. CASE loop' = "wild" /\ UNCHANGED list
      BY <3>1, <3>2 DEF NoCycle, Pairs, Tidy
    <3>3. CASE list' = LinkAll(UnlinkAll(list, order), order') /\ UNCHANGED loop
      BY <1>5, <1>6, <1>7, <3>1, <3>3 DEF NoCycle, Pairs, Tidy
    <3> QED
      BY <1>3, <3>2, <3>3
  <2> QED
    BY <2>1, <2>2
<1> QED
  BY <1>9, <1>10, <1>11, <1>12, <1>13, <1>14 DEF IInv

-----------------------------------------------------------------------------
(***************************************************************************)
(* The handlers that take the timers of a connection out, or overwrite     *)
(* them: the io events stay in front, whatever becomes of the rest.        *)
(***************************************************************************)
LEMMA TouchedIInv ==
  ASSUME IInv, TypeOK', loop = "running", NEW c \in Conns, con[c] # "absent",
         touched' = touched \cup {c}, UNCHANGED <<order, early>>,
         \A x \in Conns : con'[x] = "absent" <=> con[x] = "absent",
         IoInFront(list) => IoInFront(list'), loop' \in {"running", "wild"}
  PROVE  IInv'
<1>1. Listed'
  BY DEF IInv, Listed, InList
<1>2. Untouched' /\ IoFirst' /\ NoCycle' /\ Pairs'
  BY DEF IInv, Untouched, IoFirst, NoCycle, Pairs
<1>3. c \in Range(order)
  BY IInvTypes
<1>4. order # << >> /\ \A x \in Conns : order = <<x>> => x = c
  <2>1. PICK i \in DOMAIN order : order[i] = c
    BY <1>3 DEF Range
  <2>2. order # << >>
    BY <2>1
  <2>3. ASSUME NEW x \in Conns, order = <<x>> PROVE x = c
    BY <2>1, <2>3
  <2> QED
    BY <2>2, <2>3
<1>5. Single'
  BY <1>4 DEF Single
<1> QED
  BY <1>1, <1>2, <1>5 DEF IInv

LEMMA RemoveTimersFacts ==
  ASSUME IInv, NEW c \in Conns, RemoveTimers(c), loop = "running"
  PROVE  /\ list' \in Lists /\ loop' \in {"running", "wild"}
         /\ IoInFront(list) => IoInFront(list')
BY IInvTypes, UnlinkTimersFacts, TimersStayBehind DEF RemoveTimers

LEMMA DiscReqIInv ==
  ASSUME IInv, NEW c \in Conns, NEW t \in Spans, NEW d \in Nat,
         DiscReq(c, t, d), UNCHANGED early, loop = "running"
  PROVE  IInv'
<1>1. /\ con[c] # "absent" /\ con' = [con EXCEPT ![c] = "closed"]
      /\ touched' = touched \cup {c} /\ UNCHANGED <<enabled, order, early>>
  BY DEF DiscReq
<1>2. /\ con' \in [Conns -> {"absent", "start", "up", "closed", "abandoned"}]
      /\ \A x \in Conns : con'[x] = "absent" <=> con[x] = "absent"
  BY <1>1 DEF IInv, TypeOK
<1>3. /\ list' \in Lists /\ loop' \in {"running", "wild"}
      /\ IoInFront(list) => IoInFront(list')
  BY RemoveTimersFacts DEF DiscReq
<1>4. left' \in Lefts
  BY ElapseType DEF DiscReq
<1>5. TypeOK'
  BY <1>1, <1>2, <1>3, <1>4, IInvTypes, TypeOKNext DEF IInv, TypeOK
<1> QED
  BY <1>1, <1>2, <1>3, <1>5, TouchedIInv

LEMMA ExpireIInv ==
  ASSUME IInv, NEW c \in Conns, NEW t \in Spans, Expire(c, t), UNCHANGED early,
         loop = "running"
  PROVE  IInv'
<1>1. left' \in Lefts /\ UNCHANGED <<enabled, order>>
  BY ElapseType DEF Expire
<1>2. CASE con[c] \in {"up", "abandoned"}
  <2>1. /\ con[c] # "absent" /\ con' = [con EXCEPT ![c] = "closed"]
        /\ touched' = touched \cup {c}
    BY <1>2 DEF Expire
  <2>2. /\ con' \in [Conns -> {"absent", "start", "up", "closed", "abandoned"}]
        /\ \A x \in Conns : con'[x] = "absent" <=> con[x] = "absent"
    BY <2>1 DEF IInv, TypeOK
  <2>3. /\ list' \in Lists /\ loop' \in {"running", "wild"}
        /\ IoInFront(list) => IoInFront(list')
    BY <1>2, RemoveTimersFacts DEF Expire
  <2>4. TypeOK'
    BY <1>1, <2>1, <2>2, <2>3, IInvTypes, TypeOKNext DEF IInv, TypeOK
  <2> QED
    BY <1>1, <2>1, <2>2, <2>3, <2>4, TouchedIInv
<1>3. CASE con[c] \notin {"up", "abandoned"}
  <2>1. UNCHANGED <<list, con, touched, loop>>
    BY <1>3 DEF Expire
  <2>2. TypeOK'
    BY <1>1, <2>1, IInvTypes, TypeOKNext DEF IInv, TypeOK
  <2> QED
    BY <1>1, <2>1, <2>2, SameListIInv DEF SameList
<1> QED
  BY <1>2, <1>3

LEMMA ResetConnectionIInv ==
  ASSUME IInv, NEW c \in Conns, NEW t \in Spans, NEW d \in Nat,
         ResetConnection(c, t, d), UNCHANGED early, loop = "running"
  PROVE  IInv'
<1>1. /\ con[c] # "absent" /\ con' = [con EXCEPT ![c] = "start"]
      /\ touched' = touched \cup {c} /\ UNCHANGED <<order, loop, early>>
      /\ list' = [list EXCEPT !.next[Hb(c)] = Wild, !.next[Tm(c)] = Wild,
                              !.prev[Hb(c)] = Wild, !.prev[Tm(c)] = Wild]
      /\ enabled' = [enabled EXCEPT ![Hb(c)] = "garbage", ![Tm(c)] = "garbage"]
  BY DEF ResetConnection
<1>2. /\ con' \in [Conns -> {"absent", "start", "up", "closed", "abandoned"}]
      /\ \A x \in Conns : con'[x] = "absent" <=> con[x] = "absent"
  BY <1>1 DEF IInv, TypeOK
<1>3. enabled' \in [Events -> {"on", "off", "garbage"}]
  BY <1>1 DEF IInv, TypeOK
<1>4. left' \in Lefts
  BY ElapseType DEF ResetConnection
<1>5. list \in Lists
  BY IInvTypes
<1>6. Hb(c) \in Timers /\ Tm(c) \in Timers
  BY TimerFacts
<1>7. /\ list' \in Lists /\ list'.append_to = list.append_to
      /\ \A x \in Cells : list'.next[x] =
           IF x \in {Hb(c), Tm(c)} THEN Wild ELSE list.next[x]
      /\ \A x \in Events : list'.prev[x] =
           IF x \in {Hb(c), Tm(c)} THEN Wild ELSE list.prev[x]
  BY <1>1, <1>5, <1>6, CellFacts DEF Lists, Addresses
<1>8. IoInFront(list) => IoInFront(list')
  BY <1>6, <1>7, CellFacts DEF IoInFront
<1>9. TypeOK'
  BY <1>1, <1>2, <1>3, <1>4, <1>7, IInvTypes, TypeOKNext DEF IInv, TypeOK
<1> QED
  BY <1>1, <1>2, <1>8, <1>9, TouchedIInv

(***************************************************************************)
(* The timers are added for the second time.                               *)
(***************************************************************************)
LEMMA StartEventsIInv ==
  ASSUME IInv, NEW c \in Conns, NEW t \in Spans, NEW d \in Nat,
         StartEvents(c, t, d), UNCHANGED early, loop = "running"
  PROVE  IInv'
<1>1. /\ con[c] = "start" /\ con' = [con EXCEPT ![c] = "up"]
      /\ enabled' = [enabled EXCEPT ![Hb(c)] = "on"]
      /\ list' = LinkTimers(list, c) /\ UNCHANGED <<order, touched, loop, early>>
  BY DEF StartEvents
<1>2. list \in Lists /\ c \in Range(order) /\ Range(order) \subseteq Conns
  BY <1>1, IInvTypes
<1>3. PICK m \in Lists : m = list'
  BY <1>1, <1>2, LinkTimersFacts
<1>13. /\ m.append_to = Tm(c)
       /\ \A x \in Cells : m.next[x] =
            IF x = Hb(c) THEN Tm(c) ELSE IF x = Tm(c) THEN NULL
            ELSE IF x = list.append_to THEN Hb(c) ELSE list.next[x]
  BY <1>1, <1>2, <1>3, LinkTimersFacts
<1>14. Apart(list) => /\ Apart(m)
                      /\ \A x \in Conns : x = c \/ Joined(list, x) => Joined(m, x)
  BY <1>1, <1>2, <1>3, LinkTimersApart
<1>15. NoWild(list) => NoWild(m)
  BY <1>1, <1>2, <1>3, LinkTimersNoWild
<1>4. /\ con' \in [Conns -> {"absent", "start", "up", "closed", "abandoned"}]
      /\ \A x \in Conns : con'[x] = "absent" <=> con[x] = "absent"
  BY <1>1 DEF IInv, TypeOK
<1>5. enabled' \in [Events -> {"on", "off", "garbage"}]
  BY <1>1 DEF IInv, TypeOK
<1>6. left' \in Lefts
  BY RestartType, ElapseType DEF StartEvents
<1>7. TypeOK'
  BY <1>1, <1>3, <1>4, <1>5, <1>6, IInvTypes, TypeOKNext DEF IInv, TypeOK
<1>8. Listed'
  BY <1>1, <1>4 DEF IInv, Listed, InList
<1>9. Untouched'
  BY <1>1 DEF Untouched
<1>10. IoFirst'
  BY <1>1, <1>2, TimersStayBehind DEF IInv, IoFirst
<1>11. Single'
  <2>1. order # << >> /\ \A x \in Conns : order = <<x>> => x = c
    <3>1. PICK i \in DOMAIN order : order[i] = c
      BY <1>2 DEF Range
    <3>2. order # << >>
      BY <3>1
    <3>3. ASSUME NEW x \in Conns, order = <<x>> PROVE x = c
      BY <3>1, <3>3
    <3> QED
      BY <3>2, <3>3
  <2>2. SUFFICES ASSUME ~early, order = <<c>>, c \notin touched
                 PROVE  /\ m.next[Tmo] = Hb(c) /\ m.next[Hb(c)] = Tm(c)
                        /\ m.next[Tm(c)] = NULL /\ m.append_to = Tm(c)
    BY <1>1, <1>3, <2>1 DEF Single
  <2>3. list.next[Tmo] = Hb(c) /\ list.append_to = Tm(c)
    BY <1>1, <2>2 DEF IInv, Single
  <2>4. /\ m.append_to = Tm(c)
        /\ \A x \in Cells : m.next[x] =
             IF x = Hb(c) THEN Tm(c) ELSE IF x = Tm(c) THEN NULL
             ELSE IF x = Tm(c) THEN Hb(c) ELSE list.next[x]
    BY <1>13, <2>3
  <2>5. /\ Hb(c) \in Cells /\ Tm(c) \in Cells /\ Tmo \in Cells
        /\ Hb(c) # Tm(c) /\ Tmo # Hb(c) /\ Tmo # Tm(c)
    BY CellFacts, TimerFacts
  <2> QED
    BY <2>3, <2>4, <2>5
<1>12. NoCycle' /\ Pairs'
  <2>1. CASE touched # {}
    BY <1>1, <2>1 DEF NoCycle, Pairs
  <2>2. CASE touched = {}
    <3>1. Tidy(list) /\ \A x \in Range(order) : Joined(list, x)
      BY <2>2 DEF IInv, NoCycle, Pairs, Tidy
    <3>2. Ranked(m, Cells \cup TimersOf({c}))
      BY <1>1, <1>2, <1>3, <3>1, LinkTimersRanked DEF Tidy, Apart
    <3>3. Cells \cup TimersOf({c}) = Cells
      BY CellFacts DEF Timers, TimersOf
    <3>4. Apart(m) /\ NoWild(m)
      BY <1>14, <1>15, <3>1 DEF Tidy
    <3>5. ASSUME NEW x \in Range(order) PROVE Joined(m, x)
      <4>1. x \in Conns /\ Joined(list, x)
        BY <1>2, <3>1
      <4> QED
        BY <1>14, <3>1, <4>1 DEF Tidy
    <3> QED
      BY <1>1, <1>3, <3>2, <3>3, <3>4, <3>5 DEF NoCycle, Pairs
  <2> QED
    BY <2>1, <2>2
<1> QED
  BY <1>7, <1>8, <1>9, <1>10, <1>11, <1>12 DEF IInv

LEMMA BeginIInv ==
  ASSUME IInv, Begin
  PROVE  IInv'
<1>1. /\ loop = "idle" /\ list' = Link(LinkIo(LinkIo(list)), Tmo)
      /\ enabled' = [enabled EXCEPT ![Io0] = "on", ![Io1] = "on", ![Tmo] = "on"]
      /\ loop' \in {"hung", "running"} /\ early' = (order # << >>)
      /\ UNCHANGED <<order, con, touched>>
  BY DEF Begin
<1>2. list \in Lists
  BY IInvTypes
<1>3. /\ touched = {} /\ list.append_to \in {ListHead} \cup Timers
      /\ order = << >> => list = EmptyList
  BY <1>1 DEF IInv, Untouched
<1>4. /\ list' \in Lists /\ list'.append_to = Tmo /\ list'.next[Tmo] = NULL
      /\ list = EmptyList => IoInFront(list')
      /\ Tidy(list) => Tidy(list') /\ \A c \in Conns : Joined(list, c) => Joined(list', c)
  BY <1>1, <1>2, <1>3, BeginFacts
<1>5. left' \in Lefts
  BY IInvTypes, RestartType, ElapseType DEF Begin
<1>6. enabled' \in [Events -> {"on", "off", "garbage"}]
  BY <1>1 DEF IInv, TypeOK
<1>7. TypeOK'
  BY <1>1, <1>4, <1>5, <1>6, IInvTypes, TypeOKNext DEF IInv, TypeOK
<1>8. Listed'
  BY <1>1 DEF IInv, Listed, InList
<1>9. Untouched' /\ IoFirst'
  BY <1>1, <1>3, <1>4 DEF Untouched, IoFirst
<1>10. Single'
  <2>1. SUFFICES ASSUME ~early'
                 PROVE  /\ list'.next[Tmo] = NULL /\ list'.append_to = Tmo
                        /\ \A c \in Conns : order' # <<c>>
    BY DEF Single
  <2>2. order' = << >>
    BY <1>1, <2>1
  <2> QED
    BY <1>4, <2>2
<1>11. NoCycle' /\ Pairs'
  <2>1. Tidy(list) /\ \A x \in Range(order) : Joined(list, x)
    BY <1>1, <1>3 DEF IInv, NoCycle, Pairs, Tidy
  <2> QED
    BY <1>1, <1>4, <2>1, IInvTypes DEF NoCycle, Pairs, Tidy
<1> QED
  BY <1>7, <1>8, <1>9, <1>10, <1>11 DEF IInv

-----------------------------------------------------------------------------
(***************************************************************************)
(* Every step keeps the invariant.                                         *)
(***************************************************************************)
LEMMA CallIInv ==
  ASSUME IInv, Call, UNCHANGED early
  PROVE  IInv'
<1>1. loop = "running" /\ left \in Lefts
  BY IInvTypes DEF Call
<1>3. \A e : Called(e) \in Spans
  BY <1>1, CalledType
<1>4. CASE CallIo0
  <2>0. PICK b \in 0 .. CallTicks : \E d \in 0 .. CallTicks - b : NoChange(Spent(Called(Io0), b), d)
    BY <1>4 DEF CallIo0
  <2>1. PICK d \in 0 .. CallTicks - b : NoChange(Spent(Called(Io0), b), d)
    BY <2>0
  <2>2. b \in Nat /\ d \in Nat
    BY ConstantFacts
  <2>3. Spent(Called(Io0), b) \in Spans
    BY <1>3, <2>2, SpentType
  <2> QED
    BY <2>1, <2>2, <2>3, NoChangeIInv
<1>5. CASE CallIo1
  <2>0. PICK b \in 0 .. CallTicks : \E d \in 0 .. CallTicks - b :
          LET t == Spent(Called(Io1), b)
          IN  \/ NoChange(t, d)
              \/ \E c \in Conns : \/ NewConnection(c, t, d)
                                  \/ ResetConnection(c, t, d)
                                  \/ StartEvents(c, t, d)
                                  \/ Close(c, t, d)
                                  \/ DiscReq(c, t, d)
    BY <1>5 DEF CallIo1
  <2>1. PICK d \in 0 .. CallTicks - b :
          LET t == Spent(Called(Io1), b)
          IN  \/ NoChange(t, d)
              \/ \E c \in Conns : \/ NewConnection(c, t, d)
                                  \/ ResetConnection(c, t, d)
                                  \/ StartEvents(c, t, d)
                                  \/ Close(c, t, d)
                                  \/ DiscReq(c, t, d)
    BY <2>0
  <2>2. b \in Nat /\ d \in Nat
    BY ConstantFacts
  <2>3. PICK t \in Spans : t = Spent(Called(Io1), b)
    BY <1>3, <2>2, SpentType
  <2>4. \/ NoChange(t, d)
        \/ \E c \in Conns : \/ NewConnection(c, t, d)
                            \/ ResetConnection(c, t, d)
                            \/ StartEvents(c, t, d)
                            \/ Close(c, t, d)
                            \/ DiscReq(c, t, d)
    BY <2>1, <2>3
  <2>5. CASE NoChange(t, d)
    BY <2>2, <2>5, NoChangeIInv
  <2>6. ASSUME NEW c \in Conns, NewConnection(c, t, d) PROVE IInv'
    BY <1>1, <2>2, <2>6, NewConnectionIInv
  <2>7. ASSUME NEW c \in Conns, ResetConnection(c, t, d) PROVE IInv'
    BY <1>1, <2>2, <2>7, ResetConnectionIInv
  <2>8. ASSUME NEW c \in Conns, StartEvents(c, t, d) PROVE IInv'
    BY <1>1, <2>2, <2>8, StartEventsIInv
  <2>9. ASSUME NEW c \in Conns, Close(c, t, d) PROVE IInv'
    BY <1>1, <2>2, <2>9, CloseIInv
  <2>10. ASSUME NEW c \in Conns, DiscReq(c, t, d) PROVE IInv'
    BY <1>1, <2>2, <2>10, DiscReqIInv
  <2> QED
    BY <2>4, <2>5, <2>6, <2>7, <2>8, <2>9, <2>10
<1>6. CASE CallTmo
  BY <1>6, CallTmoIInv
<1>7. ASSUME NEW c \in Conns, Expire(c, Called(Hb(c))) PROVE IInv'
  BY <1>1, <1>3, <1>7, ExpireIInv
<1> QED
  BY <1>4, <1>5, <1>6, <1>7 DEF Call

LEMMA SleepIInv ==
  ASSUME IInv, Sleep, UNCHANGED early
  PROVE  IInv'
<1>1. loop = "running" /\ left \in Lefts /\ left \in Spans
  BY IInvTypes DEF Sleep
<1>2. PICK d \in 1 .. (IF Waits = {} THEN 1 ELSE Min(Waits)) :
        \/ NoChange(Spent(left, d), 0)
        \/ \E c \in Conns : NewConnection(c, Spent(left, d), 0) \/ Close(c, Spent(left, d), 0)
  BY DEF Sleep
<1>3. d \in Nat
  <2>1. (IF Waits = {} THEN 1 ELSE Min(Waits)) \in Int
    BY <1>1, WaitsType
  <2> QED
    BY <2>1
<1>4. PICK t \in Spans : t = Spent(left, d)
  BY <1>1, <1>3, SpentType
<1>5. CASE NoChange(t, 0)
  BY <1>5, NoChangeIInv
<1>6. ASSUME NEW c \in Conns, NewConnection(c, t, 0) PROVE IInv'
  BY <1>1, <1>6, NewConnectionIInv
<1>7. ASSUME NEW c \in Conns, Close(c, t, 0) PROVE IInv'
  BY <1>7, CloseIInv
<1> QED
  BY <1>2, <1>4, <1>5, <1>6, <1>7

LEMMA NextIInv == IInv /\ [Next]_vars => IInv'
<1> SUFFICES ASSUME IInv, [Next]_vars PROVE IInv'
  OBVIOUS
<1>1. CASE Begin
  BY <1>1, BeginIInv
<1>2. ASSUME NEW c \in Conns, ConnectFirst(c), UNCHANGED early PROVE IInv'
  BY <1>2, IInvTypes, NewConnectionIInv DEF ConnectFirst
<1>3. CASE Call /\ UNCHANGED early
  BY <1>3, CallIInv
<1>4. CASE Sleep /\ UNCHANGED early
  BY <1>4, SleepIInv
<1>5. CASE (Hang \/ GoWild) /\ UNCHANGED early
  BY <1>5, StopIInv
<1>6. CASE UNCHANGED vars
  <2>1. UNCHANGED <<list, enabled, left, order, con, loop, touched, early>>
    BY <1>6 DEF vars
  <2>2. TypeOK'
    BY <2>1, IInvTypes, TypeOKNext DEF IInv, TypeOK
  <2> QED
    BY <2>1, <2>2, SameListIInv DEF SameList
<1> QED
  BY <1>1, <1>2, <1>3, <1>4, <1>5, <1>6 DEF Next

(***************************************************************************)
(* The invariant holds for every number of connections, every interval and *)
(* every capacity of the array the connections are kept in.                *)
(***************************************************************************)
THEOREM Invariance == Spec => []IInv
<1>1. Init => IInv
  BY InitIInv
<1>2. IInv /\ [Next]_vars => IInv'
  BY NextIInv
<1> QED
  BY <1>1, <1>2, PTL DEF Spec

(***************************************************************************)
(* The cells of the list hold addresses of events, no connection is in the *)
(* list twice, and what is left of an interval is in its range.            *)
(***************************************************************************)
THEOREM TypeCorrect == Spec => []TypeOK
<1>1. IInv => TypeOK
  BY DEF IInv
<1> QED
  BY <1>1, Invariance, PTL

(***************************************************************************)
(* Nothing the connections do takes the io events and the channel timeout  *)
(* away from the front of the list, in a loop begun before the first       *)
(* connection: no address left in a timer points back into them.           *)
(***************************************************************************)
THEOREM IoFront == Spec => []IoStaysFirst
<1>1. IInv => IoStaysFirst
  <2> SUFFICES ASSUME IInv, loop = "running", ~early
               PROVE  At(list)[0] = Io0 /\ At(list)[1] = Io1 /\ At(list)[2] = Tmo
    BY DEF IoStaysFirst
  <2>1. IoInFront(list) /\ list \in Lists
    BY IInvTypes DEF IInv, IoFirst
  <2>2. 1 \in 1 .. Steps /\ 2 \in 1 .. Steps /\ 1 - 1 = 0 /\ 2 - 1 = 1
    BY EventsFinite
  <2>3. At(list)[0] = Io0
    BY <2>1, WalkFacts DEF IoInFront
  <2>4. At(list)[1] = Io1
    BY <2>1, <2>2, <2>3, WalkFacts, CellFacts DEF IoInFront, Follow
  <2>5. At(list)[2] = Tmo
    BY <2>1, <2>2, <2>4, WalkFacts, CellFacts DEF IoInFront, Follow
  <2> QED
    BY <2>3, <2>4, <2>5
<1> QED
  BY <1>1, Invariance, PTL

(***************************************************************************)
(* With a single connection whose timers were never removed, the loop      *)
(* visits every event once, though most of them were added twice.          *)
(***************************************************************************)
THEOREM SinglePeer == Spec => []SinglePeerExact
<1>1. IInv => SinglePeerExact
  <2> SUFFICES ASSUME IInv, NEW c \in Conns, loop = "running", ~early,
                      order = <<c>>, c \notin touched
               PROVE  [i \in 0 .. 5 |-> At(list)[i]]
                        = [i \in 0 .. 5 |-> <<Io0, Io1, Tmo, Hb(c), Tm(c), NULL>>[i + 1]]
    BY DEF SinglePeerExact
  <2>1. IoInFront(list) /\ list \in Lists
    BY IInvTypes DEF IInv, IoFirst
  <2>2. /\ list.next[Tmo] = Hb(c) /\ list.next[Hb(c)] = Tm(c)
        /\ list.next[Tm(c)] = NULL
    BY DEF IInv, Single
  <2>3. /\ \A i \in 1 .. 5 : i \in 1 .. Steps
        /\ 1 - 1 = 0 /\ 2 - 1 = 1 /\ 3 - 1 = 2 /\ 4 - 1 = 3 /\ 5 - 1 = 4
    BY EventsFinite
  <2>4. \A i \in 1 .. 5 : At(list)[i] = Follow(list, At(list)[i - 1])
    BY <2>1, <2>3, WalkFacts
  <2>5. Hb(c) \in Events /\ Tm(c) \in Events
    BY CellFacts, TimerFacts
  <2>6. At(list)[0] = Io0
    BY <2>1, WalkFacts DEF IoInFront
  <2>7. At(list)[1] = Io1
    BY <2>1, <2>3, <2>4, <2>6, CellFacts DEF IoInFront, Follow
  <2>8. At(list)[2] = Tmo
    BY <2>1, <2>3, <2>4, <2>7, CellFacts DEF IoInFront, Follow
  <2>9. At(list)[3] = Hb(c)
    BY <2>2, <2>3, <2>4, <2>8, CellFacts DEF Follow
  <2>10. At(list)[4] = Tm(c)
    BY <2>2, <2>3, <2>4, <2>5, <2>9 DEF Follow
  <2>11. At(list)[5] = NULL
    BY <2>2, <2>3, <2>4, <2>5, <2>10 DEF Follow
  <2>12. \A i \in 0 .. 5 : At(list)[i] = <<Io0, Io1, Tmo, Hb(c), Tm(c), NULL>>[i + 1]
    <3>1. ASSUME NEW i \in 0 .. 5
          PROVE  At(list)[i] = <<Io0, Io1, Tmo, Hb(c), Tm(c), NULL>>[i + 1]
      <4>1. i = 0 \/ i = 1 \/ i = 2 \/ i = 3 \/ i = 4 \/ i = 5
        OBVIOUS
      <4> QED
        BY <2>6, <2>7, <2>8, <2>9, <2>10, <2>11, <4>1
    <3> QED
      BY <3>1
  <2> QED
    BY <2>12
<1> QED
  BY <1>1, Invariance, PTL

(***************************************************************************)
(* calc_next_timed_event comes to the end of the list, however many        *)
(* connections were added, before or after the loop was begun, and however *)
(* often their timers were added again, as long as none was removed or     *)
(* overwritten but by a new connection.                                    *)
(***************************************************************************)
THEOREM WalkTerminates == Spec => []WalkEnds
<1>1. IInv => WalkEnds
  BY IInvTypes, RankedWalkEnds DEF IInv, NoCycle, WalkEnds
<1> QED
  BY <1>1, Invariance, PTL

-----------------------------------------------------------------------------
(***************************************************************************)
(* How late an event may be, if the callbacks of the io events are short   *)
(* enough.  Every round of the walk, both io events are called at most     *)
(* once before all is in time again.                                       *)
(***************************************************************************)
ShortCalls == 2 * CallTicks < IoInterval

Watched(l, on) == {e \in Visited(l) : on[e] = "on"}

NoLater(t, E, n) == \A e \in E : t[e] >= -n

\* Since all was in time none, one or both of the io events have been called.
Punctual(t, E) ==
  \/ NoLater(t, E, 0)
  \/ /\ NoLater(t, E, CallTicks)
     /\ \/ t[Io0] >= IoInterval - CallTicks
        \/ t[Io1] >= IoInterval - CallTicks
  \/ /\ NoLater(t, E, 2 * CallTicks)
     /\ t[Io0] >= IoInterval - 2 * CallTicks
     /\ t[Io1] >= IoInterval - 2 * CallTicks

\* Only the heartbeat timers of known connections run, and no expiry timer.
Armed ==
  /\ \A c \in Conns : /\ enabled[Tm(c)] # "on"
                      /\ enabled[Hb(c)] = "on" => c \in Range(order)
  /\ loop = "running" => \A e \in {Io0, Io1, Tmo} : enabled[e] = "on"

Timely ==
  loop = "running" /\ ~early /\ touched = {} => Punctual(left, Watched(list, enabled))

TimeInv == Armed /\ Timely

\* What a handler that begins with t left, and takes d more ticks, leaves.
Fares(t, d) ==
  /\ left'[Io0] >= t[Io0] - d /\ left'[Io1] >= t[Io1] - d
  /\ \A e \in Watched(list', enabled') :
       \/ left'[e] >= -d
       \/ e \in Watched(list, enabled) /\ left'[e] >= t[e] - d

Goes == loop = "running" /\ ~early /\ touched = {}

(***************************************************************************)
(* The order of the calls.                                                 *)
(***************************************************************************)
LEMMA OneCall ==
  ASSUME ShortCalls, NEW io \in {Io0, Io1}, NEW t \in Spans, NEW u \in Spans,
         NEW E \in SUBSET Events, NEW F \in SUBSET Events, Punctual(t, E), t[io] <= 0,
         u[io] >= IoInterval - CallTicks,
         \A o \in {Io0, Io1} : o # io => u[o] >= t[o] - CallTicks,
         \A e \in F : u[e] >= -CallTicks \/ (e \in E /\ u[e] >= t[e] - CallTicks)
  PROVE  Punctual(u, F)
<1>1. PICK o \in {Io0, Io1} : {Io0, Io1} = {io, o} /\ o # io
  BY CellFacts
<1>2. /\ \A e \in Events : t[e] \in Int /\ u[e] \in Int
      /\ io \in Events /\ o \in Events /\ u[o] >= t[o] - CallTicks
  BY <1>1, CellFacts DEF Spans
<1>3. PICK k \in Nat, n \in Nat : k = CallTicks /\ n = IoInterval /\ 2 * k < n
  BY ConstantFacts DEF ShortCalls
<1>4. CASE NoLater(t, E, 0)
  <2>1. NoLater(u, F, k)
    BY <1>2, <1>3, <1>4 DEF NoLater
  <2> QED
    BY <1>1, <1>3, <2>1 DEF Punctual
<1>5. CASE NoLater(t, E, k) /\ t[o] >= n - k
  <2>1. NoLater(u, F, 2 * k)
    BY <1>2, <1>3, <1>5 DEF NoLater
  <2>2. u[o] >= n - 2 * k /\ u[io] >= n - 2 * k
    BY <1>2, <1>3, <1>5
  <2>3. u[Io0] >= n - 2 * k /\ u[Io1] >= n - 2 * k
    BY <1>1, <2>2
  <2> QED
    BY <1>3, <2>1, <2>3 DEF Punctual
<1>6. ~(t[io] >= n - k) /\ ~(t[io] >= n - 2 * k)
  BY <1>2, <1>3
<1> QED
  BY <1>1, <1>3, <1>4, <1>5, <1>6 DEF Punctual

LEMMA NoCall ==
  ASSUME NEW t \in Spans, NEW u \in Spans,
         NEW E \in SUBSET Events, NEW F \in SUBSET Events, Punctual(t, E),
         u[Io0] >= t[Io0], u[Io1] >= t[Io1],
         \A e \in F : u[e] >= 0 \/ (e \in E /\ u[e] >= t[e])
  PROVE  Punctual(u, F)
<1>1. /\ \A e \in Events : t[e] \in Int /\ u[e] \in Int
      /\ Io0 \in Events /\ Io1 \in Events
  BY CellFacts DEF Spans
<1>2. PICK k \in Nat, n \in Nat : k = CallTicks /\ n = IoInterval
  BY ConstantFacts
<1>3. ASSUME NEW m \in Nat, NoLater(t, E, m) PROVE NoLater(u, F, m)
  BY <1>1, <1>3 DEF NoLater
<1>4. NoLater(t, E, 0) => NoLater(u, F, 0)
  BY <1>3
<1>5. NoLater(t, E, k) => NoLater(u, F, k)
  BY <1>3
<1>6. NoLater(t, E, 2 * k) => NoLater(u, F, 2 * k)
  BY <1>3
<1>7. ASSUME NEW b \in Int
      PROVE  (t[Io0] >= b => u[Io0] >= b) /\ (t[Io1] >= b => u[Io1] >= b)
  BY <1>1
<1>8. n - k \in Int /\ n - 2 * k \in Int
  OBVIOUS
<1> QED
  BY <1>2, <1>4, <1>5, <1>6, <1>7, <1>8 DEF Punctual

(***************************************************************************)
(* The walk.                                                               *)
(***************************************************************************)
LEMMA WalkGoesOn ==
  ASSUME NEW l \in Lists, EndOf(l) = NULL
  PROVE  /\ l.next[ListHead] \in Events => l.next[ListHead] \in Visited(l)
         /\ \A x \in Visited(l) : l.next[x] \in Events => l.next[x] \in Visited(l)
<1>1. PICK n \in Nat : n = Steps
  BY EventsFinite
<1>2. PICK at : /\ at = At(l) /\ at \in [0 .. n -> Addresses \ {ListHead}]
                /\ at[0] = l.next[ListHead] /\ at[n] = NULL
                /\ \A i \in 1 .. n : at[i] = Follow(l, at[i - 1])
  BY <1>1, WalkFacts DEF EndOf
<1>3. Visited(l) = {at[i] : i \in 0 .. n} \cap Events
  BY <1>1, <1>2 DEF Visited
<1>4. ASSUME NEW x \in Visited(l), l.next[x] \in Events PROVE l.next[x] \in Visited(l)
  <2>1. PICK i \in 0 .. n : x = at[i] /\ x \in Events
    BY <1>3
  <2>2. i # n
    BY <1>2, <2>1, CellFacts
  <2>3. i + 1 \in 1 .. n /\ i + 1 \in 0 .. n /\ (i + 1) - 1 = i
    BY <2>1, <2>2
  <2>4. at[i + 1] = l.next[x]
    BY <1>2, <2>1, <2>3 DEF Follow
  <2> QED
    BY <1>3, <1>4, <2>3, <2>4
<1> QED
  BY <1>2, <1>3, <1>4

LEMMA IoSeen ==
  ASSUME NEW l \in Lists, IoInFront(l), EndOf(l) = NULL
  PROVE  Io0 \in Visited(l) /\ Io1 \in Visited(l) /\ Tmo \in Visited(l)
BY WalkGoesOn, CellFacts DEF IoInFront

\* The timers of c are new in the walk, and nothing else is.
LEMMA TimersAreNew ==
  ASSUME NEW l \in Lists, EndOf(l) = NULL, NEW c \in Conns
  PROVE  Visited(LinkTimers(l, c)) \subseteq Visited(l) \cup {Hb(c), Tm(c)}
<1>1. PICK n \in Nat : n = Steps
  BY EventsFinite
<1>2. PICK m \in Lists :
        /\ m = LinkTimers(l, c)
        /\ \A x \in Cells : m.next[x] =
             IF x = Hb(c) THEN Tm(c) ELSE IF x = Tm(c) THEN NULL
             ELSE IF x = l.append_to THEN Hb(c) ELSE l.next[x]
  BY LinkTimersFacts
<1>0. PICK at : at = At(m)
  OBVIOUS
<1>3. /\ at \in [0 .. n -> Addresses \ {ListHead}] /\ at[0] = m.next[ListHead]
      /\ \A i \in 1 .. n : at[i] = Follow(m, at[i - 1])
  BY <1>0, <1>1, WalkFacts
<1>4. PICK V : V = Visited(l) \cup {Hb(c), Tm(c)}
  OBVIOUS
<1>5. Hb(c) \in Events /\ Tm(c) \in Events /\ Hb(c) # Tm(c) /\ Visited(l) \subseteq Events
      /\ ListHead \in Cells /\ Events \subseteq Cells /\ ListHead \notin Events
      /\ NULL \notin Events /\ ListHead # Hb(c) /\ ListHead # Tm(c)
  BY CellFacts, TimerFacts DEF Visited
<1>6. m.next[ListHead] \in Events => m.next[ListHead] \in V
  BY <1>2, <1>4, <1>5, WalkGoesOn
<1>7. ASSUME NEW x \in V, m.next[x] \in Events PROVE m.next[x] \in V
  BY <1>2, <1>4, <1>5, <1>7, WalkGoesOn
<1> DEFINE S == {i \in 0 .. n : at[i] \in Events => at[i] \in V}
<1>8. 0 \in S
  BY <1>3, <1>6
<1>9. ASSUME NEW i \in 0 .. n - 1, i \in S PROVE i + 1 \in S
  <2>1. i + 1 \in 1 .. n /\ i + 1 \in 0 .. n /\ (i + 1) - 1 = i
    OBVIOUS
  <2>2. at[i + 1] = Follow(m, at[i])
    BY <1>3, <2>1
  <2> QED
    BY <1>7, <1>9, <2>1, <2>2 DEF Follow
<1> HIDE DEF S
<1>10. 0 .. n \subseteq S
  BY <1>8, <1>9, InductionUpTo
<1>11. \A i \in 0 .. n : at[i] \in Events => at[i] \in V
  BY <1>10 DEF S
<1>12. Visited(m) = {at[i] : i \in 0 .. n} \cap Events
  BY <1>0, <1>1 DEF Visited
<1> QED
  BY <1>2, <1>4, <1>11, <1>12

LEMMA DueIsSeen ==
  ASSUME list \in Lists, FirstDue \in Events
  PROVE  FirstDue \in Visited(list) /\ Due(FirstDue)
<1>1. PICK n \in Nat : n = Steps
  BY EventsFinite
<1>2. PICK at : at = At(list)
  OBVIOUS
<1> DEFINE due == {i \in 0 .. n : at[i] \in Events /\ Due(at[i])}
<1>3. due # {} /\ FirstDue = at[Min(due)]
  BY <1>1, <1>2, CellFacts DEF FirstDue
<1>4. due \in SUBSET Nat
  OBVIOUS
<1>5. PICK x \in due : \A y \in due : x <= y
  <2> HIDE DEF due
  <2> QED
    BY <1>3, <1>4, LeastElement
<1>6. Min(due) \in due
  <2> HIDE DEF due
  <2> QED
    BY <1>5 DEF Min
<1> QED
  BY <1>1, <1>2, <1>3, <1>6 DEF Visited

(***************************************************************************)
(* What the handlers leave.                                                *)
(***************************************************************************)
LEMMA Remains ==
  ASSUME NEW t \in Spans, NEW s, NEW d \in Nat, NEW e \in Events, enabled'[e] = "on"
  PROVE  /\ e \in s => Elapse(Restart(t, s), d)[e] >= -d
         /\ e \notin s => Elapse(Restart(t, s), d)[e] >= t[e] - d
<1>1. PICK u \in Spans : u = Restart(t, s)
  BY RestartType
<1>2. /\ e \in s => u[e] >= 0
      /\ e \notin s => u[e] = t[e]
      /\ u[e] \in Int
  BY <1>1, ConstantFacts DEF Restart, Interval, Spans
<1>3. Elapse(u, d)[e] >= u[e] - d
  BY <1>2, ConstantFacts DEF Elapse
<1>4. Elapse(u, d)[e] \in Int
  BY <1>1, ElapseType, ConstantFacts DEF Lefts
<1> QED
  BY <1>1, <1>2, <1>3, <1>4

\* Nothing is restarted when s is empty.
LEMMA NoRestart ==
  ASSUME NEW t \in Spans
  PROVE  Restart(t, {}) = t
BY DEF Restart, Spans

LEMMA InGoing ==
  ASSUME IInv, Armed, Goes
  PROVE  /\ list \in Lists /\ EndOf(list) = NULL /\ left \in Spans
         /\ \A e \in {Io0, Io1, Tmo} : e \in Watched(list, enabled) /\ e \in Events
         /\ Watched(list, enabled) \subseteq Events
<1>1. list \in Lists /\ left \in Spans
  BY IInvTypes
<1>2. EndOf(list) = NULL
  BY <1>1, RankedWalkEnds DEF IInv, NoCycle, Goes
<1>3. Io0 \in Visited(list) /\ Io1 \in Visited(list) /\ Tmo \in Visited(list)
  BY <1>1, <1>2, IoSeen DEF IInv, IoFirst, Goes
<1> QED
  BY <1>1, <1>2, <1>3, CellFacts DEF Watched, Armed, Goes, Visited

LEMMA SameFares ==
  ASSUME IInv, Armed, Goes, NEW t \in Spans, NEW s, NEW d \in Nat,
         UNCHANGED <<list, enabled>>, left' = Elapse(Restart(t, s), d), s \subseteq Timers
  PROVE  Fares(t, d)
<1>1. \A e \in {Io0, Io1} : e \notin s /\ e \in Events /\ enabled'[e] = "on"
  BY CellFacts DEF Armed, Goes
<1>2. \A e \in {Io0, Io1} : left'[e] >= t[e] - d
  BY <1>1, Remains
<1>3. ASSUME NEW e \in Watched(list', enabled')
      PROVE  left'[e] >= -d \/ (e \in Watched(list, enabled) /\ left'[e] >= t[e] - d)
  <2>1. e \in Watched(list, enabled) /\ e \in Events /\ enabled'[e] = "on"
    BY <1>3 DEF Watched, Visited
  <2> QED
    BY <2>1, Remains
<1> QED
  BY <1>2, <1>3 DEF Fares

LEMMA NoChangeFares ==
  ASSUME IInv, Armed, Goes, NEW t \in Spans, NEW d \in Nat, NoChange(t, d)
  PROVE  Fares(t, d) /\ UNCHANGED <<enabled, order, loop>>
<1>1. PICK s \in SUBSET {c \in Conns : con[c] = "up"} :
        /\ UNCHANGED <<list, enabled, order, con, touched, loop>>
        /\ left' = Elapse(Restart(t, {Hb(c) : c \in s}), d)
  BY DEF NoChange
<1>2. {Hb(c) : c \in s} \subseteq Timers
  BY TimerFacts
<1> QED
  BY <1>1, <1>2, SameFares

LEMMA CloseFares ==
  ASSUME IInv, Armed, Goes, NEW c \in Conns, NEW t \in Spans, NEW d \in Nat, Close(c, t, d)
  PROVE  Fares(t, d) /\ UNCHANGED <<enabled, order, loop>>
<1>1. UNCHANGED <<list, enabled, order, touched, loop>> /\ left' = Elapse(t, d)
  BY DEF Close
<1>2. left' = Elapse(Restart(t, {}), d) /\ {} \subseteq Timers
  BY <1>1, NoRestart
<1>3. Fares(t, d)
  BY <1>1, <1>2, SameFares
<1> QED
  BY <1>1, <1>3

LEMMA NewConnectionOrder ==
  ASSUME IInv, NEW c \in Conns, NEW t, NEW d, NewConnection(c, t, d)
  PROVE  /\ Range(order) \subseteq Range(order') /\ Range(order') \subseteq Conns
         /\ enabled' = enabled /\ (loop' = loop \/ loop' = "wild")
<1>1. PICK s \in Seq(Conns) : s = order
  BY IInvTypes
<1>2. order' = Append(s, c)
  BY <1>1 DEF NewConnection, AddConnection
<1>3. Append(s, c) \in Seq(Conns) /\ \A i \in DOMAIN s : i \in DOMAIN Append(s, c) /\ Append(s, c)[i] = s[i]
  OBVIOUS
<1>4. Range(s) \subseteq Range(Append(s, c)) /\ Range(Append(s, c)) \subseteq Conns
  BY <1>3 DEF Range
<1> QED
  BY <1>1, <1>2, <1>4 DEF NewConnection

LEMMA NewConnectionFares ==
  ASSUME IInv, Armed, Goes, NEW c \in Conns, NEW t \in Spans, NEW d \in Nat,
         NewConnection(c, t, d)
  PROVE  Fares(t, d)
<1>1. PICK s : s = TimersOf(Range(order')) /\ left' = Elapse(Restart(t, s), d)
  BY DEF NewConnection
<1>2. enabled' = enabled /\ Range(order) \subseteq Range(order') /\ Range(order') \subseteq Conns
  BY NewConnectionOrder
<1>3. s \subseteq Timers /\ \A x \in Range(order) : Hb(x) \in s
  BY <1>1, <1>2 DEF Timers, TimersOf
<1>4. \A e \in {Io0, Io1, Tmo} :
        e \in Watched(list, enabled) /\ e \notin s /\ e \in Events /\ enabled'[e] = "on"
  BY <1>2, <1>3, InGoing, CellFacts DEF Watched
<1>5. \A e \in {Io0, Io1, Tmo} : left'[e] >= t[e] - d
  BY <1>1, <1>4, Remains
<1>6. ASSUME NEW e \in Watched(list', enabled')
      PROVE  left'[e] >= -d \/ (e \in Watched(list, enabled) /\ left'[e] >= t[e] - d)
  <2>1. e \in Events /\ enabled'[e] = "on" /\ enabled[e] = "on"
    BY <1>2, <1>6 DEF Watched, Visited
  <2>2. CASE e \in {Io0, Io1, Tmo}
    BY <1>4, <1>5, <2>2
  <2>3. CASE e \in Timers
    <3>1. PICK x \in Conns : e = Hb(x) \/ e = Tm(x)
      BY <2>3 DEF Timers, TimersOf
    <3>2. e = Hb(x) /\ x \in Range(order)
      BY <2>1, <3>1 DEF Armed
    <3>3. e \in s
      BY <1>3, <3>2
    <3> QED
      BY <1>1, <2>1, <3>3, Remains
  <2> QED
    BY <2>1, <2>2, <2>3, CellFacts
<1> QED
  BY <1>5, <1>6 DEF Fares

LEMMA StartEventsFares ==
  ASSUME IInv, Armed, Goes, NEW c \in Conns, NEW t \in Spans, NEW d \in Nat,
         StartEvents(c, t, d)
  PROVE  Fares(t, d)
<1>1. /\ enabled' = [enabled EXCEPT ![Hb(c)] = "on"] /\ list' = LinkTimers(list, c)
      /\ left' = Elapse(Restart(t, {Hb(c)}), d)
  BY DEF StartEvents
<1>2. /\ Hb(c) \in Events /\ Tm(c) \in Events /\ Hb(c) # Tm(c)
      /\ enabled \in [Events -> {"on", "off", "garbage"}]
  BY CellFacts, TimerFacts DEF IInv, TypeOK
<1>3. enabled'[Hb(c)] = "on" /\ \A e \in Events : e # Hb(c) => enabled'[e] = enabled[e]
  BY <1>1, <1>2
<1>4. \A e \in {Io0, Io1} : e # Hb(c) /\ e \in Events /\ enabled'[e] = "on"
  BY <1>3, InGoing, CellFacts, TimerFacts DEF Watched
<1>5. \A e \in {Io0, Io1} : left'[e] >= t[e] - d
  BY <1>1, <1>4, Remains
<1>6. Visited(list') \subseteq Visited(list) \cup {Hb(c), Tm(c)}
  BY <1>1, InGoing, TimersAreNew
<1>7. ASSUME NEW e \in Watched(list', enabled')
      PROVE  left'[e] >= -d \/ (e \in Watched(list, enabled) /\ left'[e] >= t[e] - d)
  <2>1. e \in Events /\ enabled'[e] = "on" /\ e \in Visited(list')
    BY <1>7 DEF Watched, Visited
  <2>2. CASE e = Hb(c)
    BY <1>1, <2>1, <2>2, Remains
  <2>3. CASE e # Hb(c)
    <3>1. enabled[e] = "on" /\ e # Tm(c)
      BY <1>2, <1>3, <2>1, <2>3 DEF Armed
    <3>2. e \in Watched(list, enabled)
      BY <1>6, <2>1, <2>3, <3>1 DEF Watched
    <3> QED
      BY <1>1, <2>1, <2>3, <3>2, Remains
  <2> QED
    BY <2>2, <2>3
<1> QED
  BY <1>5, <1>7 DEF Fares

(***************************************************************************)
(* Every step keeps the invariant.                                         *)
(***************************************************************************)
LEMMA CallFares ==
  ASSUME ShortCalls, IInv, IInv', TimeInv, Goes, NEW io \in {Io0, Io1}, left[io] <= 0,
         NEW b \in Nat, NEW d \in Nat, b + d <= CallTicks, Fares(Spent(Called(io), b), d)
  PROVE  Punctual(left', Watched(list', enabled'))
<1>1. left \in Spans /\ left' \in Spans
  BY IInvTypes, LeftsAreSpans DEF IInv, TypeOK, Lefts
<1>2. io \in Events /\ Io0 \in Events /\ Io1 \in Events /\ Interval(io) = IoInterval
      /\ \A e \in Events : left[e] \in Int /\ left'[e] \in Int
  BY <1>1, CellFacts DEF Interval, Spans
<1>3. PICK t : /\ t = Spent(Called(io), b) /\ t[io] = IoInterval - b
               /\ \A e \in Events : e # io => t[e] = left[e] - b
  BY <1>1, <1>2 DEF Spent, Called, Spans
<1>4. Fares(t, d) /\ Watched(list, enabled) \subseteq Events /\ Watched(list', enabled') \subseteq Events
  BY <1>3 DEF Watched, Visited
<1>5. CallTicks \in Nat /\ IoInterval \in Nat
  BY ConstantFacts
<1>6. left'[io] >= IoInterval - CallTicks
  BY <1>2, <1>3, <1>4, <1>5 DEF Fares
<1>7. \A o \in {Io0, Io1} : o # io => left'[o] >= left[o] - CallTicks
  BY <1>2, <1>3, <1>4, <1>5 DEF Fares
<1>8. ASSUME NEW e \in Watched(list', enabled')
      PROVE  left'[e] >= -CallTicks \/ (e \in Watched(list, enabled) /\ left'[e] >= left[e] - CallTicks)
  <2>1. e \in Events /\ left'[e] \in Int /\ left[e] \in Int
    BY <1>2, <1>4
  <2>2. CASE e = io
    BY <1>2, <1>5, <1>6, <2>2 DEF ShortCalls
  <2>3. CASE e # io
    <3>1. t[e] = left[e] - b
      BY <1>3, <2>1, <2>3
    <3>2. left'[e] >= -d \/ (e \in Watched(list, enabled) /\ left'[e] >= t[e] - d)
      BY <1>4, <1>8 DEF Fares
    <3>3. left'[e] >= -d => left'[e] >= -CallTicks
      BY <1>5, <2>1
    <3>4. left'[e] >= t[e] - d => left'[e] >= left[e] - CallTicks
      BY <1>5, <2>1, <3>1
    <3> QED
      BY <3>2, <3>3, <3>4
  <2> QED
    BY <2>2, <2>3
<1>9. Punctual(left, Watched(list, enabled))
  BY DEF TimeInv, Timely, Goes
<1> QED
  BY <1>1, <1>4, <1>6, <1>7, <1>8, <1>9, OneCall

\* Everything is in time after a sleep.
LEMMA SleepFares ==
  ASSUME IInv, IInv', Armed, Goes,
         NEW d \in Nat, \A w \in Waits : d <= w, Fares(Spent(left, d), 0)
  PROVE  Punctual(left', Watched(list', enabled'))
<1>1. left \in Spans /\ left' \in Spans
  BY IInvTypes, LeftsAreSpans DEF IInv, TypeOK, Lefts
<1>2. ASSUME NEW e \in Watched(list', enabled') PROVE left'[e] >= 0
  <2>1. e \in Events /\ left'[e] \in Int /\ left[e] \in Int
    BY <1>1 DEF Watched, Visited, Spans
  <2>2. Spent(left, d)[e] = left[e] - d
    BY <2>1 DEF Spent
  <2>3. left'[e] >= 0 \/ (e \in Watched(list, enabled) /\ left'[e] >= left[e] - d)
    BY <1>2, <2>1, <2>2 DEF Fares
  <2>4. e \in Watched(list, enabled) => left[e] \in Waits
    BY DEF Watched, Waits
  <2> QED
    BY <2>1, <2>3, <2>4
<1> QED
  BY <1>2 DEF Punctual, NoLater

LEMMA ArmedStays ==
  ASSUME Armed, UNCHANGED <<enabled, order>>, loop' = "running" => loop = "running"
  PROVE  Armed'
BY DEF Armed

LEMMA NewConnectionArmed ==
  ASSUME IInv, Armed, NEW c \in Conns, NEW t, NEW d, NewConnection(c, t, d)
  PROVE  Armed'
BY NewConnectionOrder DEF Armed

LEMMA ResetConnectionArmed ==
  ASSUME IInv, Armed, NEW c \in Conns, NEW t, NEW d, ResetConnection(c, t, d)
  PROVE  Armed'
<1>1. /\ enabled' = [enabled EXCEPT ![Hb(c)] = "garbage", ![Tm(c)] = "garbage"]
      /\ UNCHANGED <<order, loop>> /\ enabled \in [Events -> {"on", "off", "garbage"}]
  BY DEF ResetConnection, IInv, TypeOK
<1>2. \A e \in Events : enabled'[e] = enabled[e] \/ enabled'[e] = "garbage"
  BY <1>1
<1>3. \A e \in {Io0, Io1, Tmo} : enabled'[e] = enabled[e]
  BY <1>1, CellFacts, TimerFacts
<1>4. \A x \in Conns : Hb(x) \in Events /\ Tm(x) \in Events
  BY CellFacts, TimerFacts
<1> QED
  BY <1>1, <1>2, <1>3, <1>4 DEF Armed

LEMMA StartEventsArmed ==
  ASSUME IInv, Armed, NEW c \in Conns, NEW t, NEW d, StartEvents(c, t, d)
  PROVE  Armed'
<1>1. /\ con[c] = "start" /\ enabled' = [enabled EXCEPT ![Hb(c)] = "on"]
      /\ UNCHANGED <<order, loop>> /\ enabled \in [Events -> {"on", "off", "garbage"}]
  BY DEF StartEvents, IInv, TypeOK
<1>2. c \in Range(order)
  BY <1>1, IInvTypes
<1>3. \A e \in {Io0, Io1, Tmo} : enabled'[e] = enabled[e]
  BY <1>1, CellFacts, TimerFacts
<1>4. ASSUME NEW x \in Conns
      PROVE  enabled'[Tm(x)] = enabled[Tm(x)] /\ (x # c => enabled'[Hb(x)] = enabled[Hb(x)])
  <2>1. Hb(x) \in Events /\ Tm(x) \in Events /\ Tm(x) # Hb(c) /\ (Hb(x) = Hb(c) => x = c)
    BY CellFacts, TimerFacts
  <2> QED
    BY <1>1, <2>1
<1> QED
  BY <1>1, <1>2, <1>3, <1>4 DEF Armed

LEMMA BeginTimes ==
  ASSUME IInv, IInv', TimeInv, Begin
  PROVE  TimeInv'
<1>1. /\ enabled' = [enabled EXCEPT ![Io0] = "on", ![Io1] = "on", ![Tmo] = "on"]
      /\ left' = Elapse(Restart(left, Visited(list')), 0) /\ order' = order
      /\ enabled \in [Events -> {"on", "off", "garbage"}] /\ left \in Spans
  BY IInvTypes DEF Begin, IInv, TypeOK
<1>2. \A e \in {Io0, Io1, Tmo} : enabled'[e] = "on"
  BY <1>1, CellFacts
<1>3. \A x \in Conns : enabled'[Hb(x)] = enabled[Hb(x)] /\ enabled'[Tm(x)] = enabled[Tm(x)]
  BY <1>1, CellFacts, TimerFacts
<1>4. Armed'
  BY <1>1, <1>2, <1>3 DEF TimeInv, Armed
<1>5. ASSUME NEW e \in Watched(list', enabled') PROVE left'[e] >= 0
  <2>1. e \in Events /\ enabled'[e] = "on" /\ e \in Visited(list')
    BY <1>5 DEF Watched, Visited
  <2> QED
    BY <1>1, <2>1, Remains
<1>6. Punctual(left', Watched(list', enabled'))
  BY <1>5 DEF Punctual, NoLater
<1> QED
  BY <1>4, <1>6 DEF TimeInv, Timely

LEMMA IoCallTimes ==
  ASSUME ShortCalls, IInv, IInv', TimeInv, loop = "running", UNCHANGED early,
         NEW io \in {Io0, Io1}, left[io] <= 0,
         NEW b \in Nat, NEW d \in Nat, b + d <= CallTicks,
         NEW t \in Spans, t = Spent(Called(io), b),
         \/ NoChange(t, d)
         \/ \E c \in Conns : \/ NewConnection(c, t, d) \/ ResetConnection(c, t, d)
                             \/ StartEvents(c, t, d) \/ Close(c, t, d) \/ DiscReq(c, t, d)
  PROVE  TimeInv'
<1> SUFFICES /\ Armed'
             /\ loop' = "running" /\ ~early /\ touched' = {} =>
                  Punctual(left', Watched(list', enabled'))
  BY DEF TimeInv, Timely
<1>1. Armed
  BY DEF TimeInv
<1>2. Fares(t, d) /\ Goes => Punctual(left', Watched(list', enabled'))
  BY CallFares
<1>3. CASE NoChange(t, d)
  <2>1. UNCHANGED <<enabled, order, loop, touched>>
    BY <1>3 DEF NoChange
  <2>2. Goes => Fares(t, d)
    BY <1>1, <1>3, NoChangeFares
  <2> QED
    BY <1>1, <1>2, <2>1, <2>2, ArmedStays DEF Goes
<1>4. ASSUME NEW c \in Conns, NewConnection(c, t, d)
      PROVE  Armed' /\ touched' = touched /\ (Goes => Fares(t, d))
  BY <1>1, <1>4, NewConnectionArmed, NewConnectionFares DEF NewConnection
<1>5. ASSUME NEW c \in Conns, ResetConnection(c, t, d)
      PROVE  Armed' /\ touched' # {}
  BY <1>1, <1>5, ResetConnectionArmed DEF ResetConnection
<1>6. ASSUME NEW c \in Conns, StartEvents(c, t, d)
      PROVE  Armed' /\ touched' = touched /\ (Goes => Fares(t, d))
  BY <1>1, <1>6, StartEventsArmed, StartEventsFares DEF StartEvents
<1>7. ASSUME NEW c \in Conns, Close(c, t, d)
      PROVE  Armed' /\ touched' = touched /\ (Goes => Fares(t, d))
  <2>1. UNCHANGED <<enabled, order, loop, touched>>
    BY <1>7 DEF Close
  <2> QED
    BY <1>1, <1>7, <2>1, ArmedStays, CloseFares
<1>8. ASSUME NEW c \in Conns, DiscReq(c, t, d)
      PROVE  Armed' /\ touched' # {}
  <2>1. UNCHANGED <<enabled, order>> /\ touched' # {}
    BY <1>8 DEF DiscReq
  <2> QED
    BY <1>1, <2>1, ArmedStays
<1> QED
  BY <1>2, <1>3, <1>4, <1>5, <1>6, <1>7, <1>8 DEF Goes

\* Callbacks that take no time.
LEMMA QuickCallTimes ==
  ASSUME IInv, IInv', TimeInv, loop = "running", UNCHANGED <<early, enabled, order>>,
         NEW e \in Events \ {Io0, Io1},
         touched' # {} \/ (list' = list /\ touched' = touched /\ left' = Elapse(Called(e), 0))
  PROVE  TimeInv'
<1>1. Armed'
  BY ArmedStays DEF TimeInv
<1>2. SUFFICES ASSUME Goes, list' = list, left' = Elapse(Called(e), 0)
               PROVE  Punctual(left', Watched(list', enabled'))
  BY <1>1 DEF TimeInv, Timely, Goes
<1>3. left \in Spans /\ left' \in Spans
  BY IInvTypes, LeftsAreSpans DEF IInv, TypeOK, Lefts
<1>4. PICK t : t = Called(e) /\ t[e] >= 0 /\ \A x \in Events : x # e => t[x] = left[x]
  <2>1. Interval(e) >= 0
    BY ConstantFacts DEF Interval
  <2>2. Called(e)[e] = Interval(e) /\ \A x \in Events : x # e => Called(e)[x] = left[x]
    BY <1>3 DEF Called, Spans
  <2> QED
    BY <2>1, <2>2
<1>5. t \in Spans /\ t[e] \in Int
  BY <1>4, IInvTypes, CalledType DEF Spans
<1>6. left' = Elapse(Restart(t, {}), 0)
  BY <1>2, <1>4, <1>5, NoRestart
<1>7. ASSUME NEW x \in Events, enabled[x] = "on" PROVE left'[x] >= t[x]
  <2>1. t[x] \in Int /\ enabled'[x] = "on" /\ t[x] - 0 = t[x] /\ 0 \in Nat
    BY <1>5, <1>7 DEF Spans
  <2> QED
    BY <1>5, <1>6, <2>1, Remains
<1>8. left'[Io0] >= left[Io0] /\ left'[Io1] >= left[Io1]
  BY <1>4, <1>7, CellFacts DEF TimeInv, Armed, Goes
<1>9. ASSUME NEW x \in Watched(list', enabled')
      PROVE  left'[x] >= 0 \/ (x \in Watched(list, enabled) /\ left'[x] >= left[x])
  <2>1. x \in Watched(list, enabled) /\ x \in Events /\ enabled[x] = "on" /\ left'[x] \in Int
    BY <1>2, <1>3, <1>9 DEF Watched, Visited, Spans
  <2> QED
    BY <1>4, <1>5, <1>7, <2>1
<1>10. Watched(list, enabled) \subseteq Events /\ Watched(list', enabled') \subseteq Events
  BY DEF Watched, Visited
<1>11. Punctual(left, Watched(list, enabled))
  BY <1>2 DEF TimeInv, Timely, Goes
<1> QED
  BY <1>3, <1>8, <1>9, <1>10, <1>11, NoCall

LEMMA CallTimes ==
  ASSUME ShortCalls, IInv, IInv', TimeInv, Call, UNCHANGED early
  PROVE  TimeInv'
<1>1. loop = "running" /\ list \in Lists /\ left \in Lefts
  BY IInvTypes DEF Call
<1>2. PICK e : e = FirstDue
  OBVIOUS
<1>3. \/ e = Io0 /\ CallIo0
      \/ e = Io1 /\ CallIo1
      \/ e = Tmo /\ CallTmo
      \/ \E c \in Conns : e = Hb(c) /\ Expire(c, Called(e))
  BY <1>2 DEF Call
<1>4. e \in Events => left[e] <= 0
  BY <1>1, <1>2, DueIsSeen DEF Due
<1>5. CASE e = Io0 /\ CallIo0
  <2>1. PICK b \in 0 .. CallTicks :
          \E d \in 0 .. CallTicks - b : NoChange(Spent(Called(Io0), b), d)
    BY <1>5 DEF CallIo0
  <2>2. PICK d \in 0 .. CallTicks - b : NoChange(Spent(Called(Io0), b), d)
    BY <2>1
  <2>3. b \in Nat /\ d \in Nat /\ b + d <= CallTicks
    BY ConstantFacts
  <2>4. PICK t \in Spans : t = Spent(Called(Io0), b)
    BY <1>1, <2>3, CalledType, SpentType
  <2>5. NoChange(t, d) /\ left[Io0] <= 0
    BY <1>4, <1>5, <2>2, <2>4, CellFacts
  <2> QED
    BY <1>1, <2>3, <2>4, <2>5, IoCallTimes
<1>6. CASE e = Io1 /\ CallIo1
  <2>1. PICK b \in 0 .. CallTicks : \E d \in 0 .. CallTicks - b :
          LET t == Spent(Called(Io1), b)
          IN  \/ NoChange(t, d)
              \/ \E c \in Conns : \/ NewConnection(c, t, d)
                                  \/ ResetConnection(c, t, d)
                                  \/ StartEvents(c, t, d)
                                  \/ Close(c, t, d)
                                  \/ DiscReq(c, t, d)
    BY <1>6 DEF CallIo1
  <2>2. PICK d \in 0 .. CallTicks - b :
          LET t == Spent(Called(Io1), b)
          IN  \/ NoChange(t, d)
              \/ \E c \in Conns : \/ NewConnection(c, t, d)
                                  \/ ResetConnection(c, t, d)
                                  \/ StartEvents(c, t, d)
                                  \/ Close(c, t, d)
                                  \/ DiscReq(c, t, d)
    BY <2>1
  <2>3. b \in Nat /\ d \in Nat /\ b + d <= CallTicks
    BY ConstantFacts
  <2>4. PICK t \in Spans : t = Spent(Called(Io1), b)
    BY <1>1, <2>3, CalledType, SpentType
  <2>5. \/ NoChange(t, d)
        \/ \E c \in Conns : \/ NewConnection(c, t, d) \/ ResetConnection(c, t, d)
                            \/ StartEvents(c, t, d) \/ Close(c, t, d) \/ DiscReq(c, t, d)
    BY <2>2, <2>4
  <2>6. left[Io1] <= 0
    BY <1>4, <1>6, CellFacts
  <2> QED
    BY <1>1, <2>3, <2>4, <2>5, <2>6, IoCallTimes
<1>7. CASE e = Tmo /\ CallTmo
  <2>1. /\ UNCHANGED <<list, enabled, order, touched>> /\ left' = Elapse(Called(Tmo), 0)
        /\ Tmo \in Events \ {Io0, Io1}
    BY <1>7, CellFacts DEF CallTmo
  <2> QED
    BY <1>1, <2>1, QuickCallTimes
<1>8. ASSUME NEW c \in Conns, e = Hb(c), Expire(c, Called(e)) PROVE TimeInv'
  <2>1. Hb(c) \in Events \ {Io0, Io1}
    BY CellFacts, TimerFacts
  <2>2. /\ UNCHANGED <<enabled, order>> /\ left' = Elapse(Called(Hb(c)), 0)
        /\ touched' # {} \/ (list' = list /\ touched' = touched)
    BY <1>8 DEF Expire
  <2> QED
    BY <1>1, <2>1, <2>2, QuickCallTimes
<1> QED
  BY <1>3, <1>5, <1>6, <1>7, <1>8

LEMMA SleepTimes ==
  ASSUME IInv, IInv', TimeInv, Sleep, UNCHANGED early
  PROVE  TimeInv'
<1>1. loop = "running" /\ left \in Lefts /\ left \in Spans /\ Armed
  BY IInvTypes DEF Sleep, TimeInv
<1>2. PICK d \in 1 .. (IF Waits = {} THEN 1 ELSE Min(Waits)) :
        \/ NoChange(Spent(left, d), 0)
        \/ \E c \in Conns : NewConnection(c, Spent(left, d), 0) \/ Close(c, Spent(left, d), 0)
  BY DEF Sleep
<1>3. d \in Nat /\ \A w \in Waits : d <= w
  <2>1. CASE Waits = {}
    BY <2>1
  <2>2. CASE Waits # {}
    <3>1. Min(Waits) \in Int /\ \A w \in Waits : Min(Waits) <= w
      BY <1>1, <2>2, WaitsType
    <3>2. \A w \in Waits : w \in Int
      BY <1>1, ConstantFacts, CellFacts DEF Waits, Visited, Lefts
    <3>3. d \in Nat /\ d <= Min(Waits)
      BY <2>2, <3>1
    <3> QED
      BY <3>1, <3>2, <3>3
  <2> QED
    BY <2>1, <2>2
<1>4. PICK t \in Spans : t = Spent(left, d)
  BY <1>1, <1>3, SpentType
<1>5. Fares(t, 0) /\ Goes => Punctual(left', Watched(list', enabled'))
  BY <1>1, <1>3, <1>4, SleepFares
<1>6. Armed' /\ touched' = touched /\ (Goes => Fares(t, 0))
  <2>1. CASE NoChange(t, 0)
    <3>1. UNCHANGED <<enabled, order, loop, touched>>
      BY <2>1 DEF NoChange
    <3> QED
      BY <1>1, <2>1, <3>1, ArmedStays, NoChangeFares
  <2>2. ASSUME NEW c \in Conns, NewConnection(c, t, 0)
        PROVE  Armed' /\ touched' = touched /\ (Goes => Fares(t, 0))
    BY <1>1, <2>2, NewConnectionArmed, NewConnectionFares DEF NewConnection
  <2>3. ASSUME NEW c \in Conns, Close(c, t, 0)
        PROVE  Armed' /\ touched' = touched /\ (Goes => Fares(t, 0))
    <3>1. UNCHANGED <<enabled, order, loop, touched>>
      BY <2>3 DEF Close
    <3> QED
      BY <1>1, <2>3, <3>1, ArmedStays, CloseFares
  <2> QED
    BY <1>2, <1>4, <2>1, <2>2, <2>3
<1> QED
  BY <1>1, <1>5, <1>6 DEF TimeInv, Timely, Goes

LEMMA NextTimes ==
  ASSUME ShortCalls, IInv, IInv', TimeInv, [Next]_vars
  PROVE  TimeInv'
<1>1. CASE Begin
  BY <1>1, BeginTimes
<1>2. ASSUME NEW c \in Conns, ConnectFirst(c) PROVE TimeInv'
  <2>1. loop = "idle" /\ NewConnection(c, left, 0) /\ Armed
    BY <1>2 DEF ConnectFirst, TimeInv
  <2>2. Armed' /\ loop' # "running"
    BY <2>1, NewConnectionArmed, NewConnectionOrder
  <2> QED
    BY <2>2 DEF TimeInv, Timely
<1>3. CASE Call /\ UNCHANGED early
  BY <1>3, CallTimes
<1>4. CASE Sleep /\ UNCHANGED early
  BY <1>4, SleepTimes
<1>5. CASE Hang \/ GoWild
  <2>1. UNCHANGED <<enabled, order>> /\ loop' # "running"
    BY <1>5 DEF Hang, GoWild
  <2> QED
    BY <2>1, ArmedStays DEF TimeInv, Timely
<1>6. CASE UNCHANGED vars
  <2>1. UNCHANGED <<list, enabled, left, order, loop, touched, early>>
    BY <1>6 DEF vars
  <2> QED
    BY <2>1 DEF TimeInv, Armed, Timely
<1> QED
  BY <1>1, <1>2, <1>3, <1>4, <1>5, <1>6 DEF Next

LEMMA TimeInvariance ==
  ASSUME ShortCalls
  PROVE  Spec => []TimeInv
<1>1. Init => TimeInv
  <2>1. ASSUME Init, NEW e \in Events PROVE enabled[e] # "on"
    BY <2>1 DEF Init
  <2>2. \A c \in Conns : Hb(c) \in Events /\ Tm(c) \in Events
    BY CellFacts, TimerFacts
  <2> QED
    BY <2>1, <2>2 DEF Init, TimeInv, Armed, Timely
<1>2. IInv /\ IInv' /\ TimeInv /\ [Next]_vars => TimeInv'
  BY NextTimes
<1> QED
  BY <1>1, <1>2, Invariance, PTL DEF Spec

(***************************************************************************)
(* As long as the callback of an io event takes less than half of the io   *)
(* interval, nothing the loop visits is called later than the two io       *)
(* callbacks take, in a loop begun before the first connection and until   *)
(* timers are removed: a sleep begins only when nothing is due, and        *)
(* neither io event is due again before all that waits was called.  A      *)
(* timer the walk has lost comes back into it only by being started again. *)
(***************************************************************************)
THEOREM NoneStarves ==
  ASSUME ShortCalls
  PROVE  Spec => [](~early => CalledInTime)
<1>1. IInv /\ TimeInv => (~early => CalledInTime)
  <2> SUFFICES ASSUME IInv, Timely, ~early, loop = "running", touched = {},
                      NEW e \in Visited(list), enabled[e] = "on"
               PROVE  left[e] >= -2 * CallTicks
    BY DEF CalledInTime, TimeInv
  <2>1. e \in Watched(list, enabled) /\ left[e] \in Int
    BY IInvTypes DEF Watched, Visited, Spans
  <2>2. Punctual(left, Watched(list, enabled)) /\ CallTicks \in Nat
    BY ConstantFacts DEF Timely
  <2> QED
    BY <2>1, <2>2 DEF Punctual, NoLater
<1> QED
  BY <1>1, Invariance, TimeInvariance, PTL
=============================================================================
