------------------------------ MODULE EventSystem ------------------------------
(***************************************************************************)
(* The event loop of an endpoint (event_system.c) with the timed events    *)
(* the RaSTA handle and its connections put into it (rasta_new.c).         *)
(*                                                                         *)
(* The timed events form an intrusive list.  An element holds `next' and   *)
(* the address of the cell that points to it, prev_mem_addr; the container *)
(* holds the first cell and the address of the cell to append to.  Here a  *)
(* cell is named by the event it belongs to, the first one "head".         *)
(*                                                                         *)
(* linked_list_add and linked_list_remove are what they are in the code:   *)
(* nothing keeps an event from being added twice, and removal updates      *)
(* neither prev_mem_addr of the successor nor the append position.  The    *)
(* list may so lose events or turn into a cycle; the loop then behaves     *)
(* as the code does: it does not visit them, or never stops looking.       *)
(*                                                                         *)
(* Times are in ticks, as what is left of an event's interval.  A callback *)
(* of the io events takes up to CallTicks, the others take none.           *)
(***************************************************************************)
EXTENDS Integers, Sequences, FiniteSets, SequencesExt

CONSTANTS Conns,        \* the peers
          Capacity,     \* actual_size of the list of connections at first
          IoInterval,   \* IO_INTERVAL, of the two io events
          TmoInterval,  \* the interval of channel_timeout_event
          TMax,         \* t_max, the interval of an expiry timer
          CallTicks,    \* bound: how long the callback of an io event takes
          MaxLate       \* bound: how much lateness is told apart

ASSUME EventAssumption ==
  /\ IsFiniteSet(Conns)
  /\ {Capacity, IoInterval, TmoInterval, TMax, MaxLate} \subseteq Nat \ {0}
  /\ CallTicks \in Nat

Hb(c) == <<"send_heartbeat_event", c>>
Tm(c) == <<"timeout_event", c>>
Io0   == <<"data_send_event">>
Io1   == <<"on_readable_event">>
Tmo   == <<"channel_timeout_event">>
ListHead == <<"timed_event_list">>
NULL  == <<"NULL">>
Wild  == <<"garbage">>           \* an address nobody has written

Events == {Io0, Io1, Tmo} \cup {Hb(c) : c \in Conns} \cup {Tm(c) : c \in Conns}
Cells  == Events \cup {ListHead}

VARIABLES
  list,     \* [next, prev, append_to]: the cells of the list
  enabled,  \* enabled[e]: "on", "off" or "garbage"
  left,     \* left[e]: ticks until e is due, negative when it is late
  order,    \* the connections in the order of rastalist
  con,      \* con[c]: "absent", "start", "up", "closed", "abandoned"
  loop,     \* "idle", "running", "hung", "wild"
  touched,  \* history: connections whose timers were taken out of the list,
            \* or overwritten in it, by anything but a new connection
  early     \* history: there was a connection before the loop was begun

vars == <<list, enabled, left, order, con, loop, touched, early>>

-----------------------------------------------------------------------------
(***************************************************************************)
(* linked_list_add and linked_list_remove                                  *)
(***************************************************************************)
EmptyList == [next |-> [x \in Cells |-> NULL], prev |-> [e \in Events |-> Wild],
              append_to |-> ListHead]

LinkKeepsNext(l, e) ==                                            \* mutant
  [next      |-> [l.next EXCEPT ![l.append_to] = e],
   prev      |-> [l.prev EXCEPT ![e] = l.append_to],
   append_to |-> e]

LinkAtHead(l, e) ==                                               \* mutant
  [next      |-> [l.next EXCEPT ![e] = NULL, ![l.append_to] = e],
   prev      |-> [l.prev EXCEPT ![e] = ListHead],
   append_to |-> e]

Link(l, e) ==
  [next      |-> [l.next EXCEPT ![e] = NULL, ![l.append_to] = e],
   prev      |-> [l.prev EXCEPT ![e] = l.append_to],
   append_to |-> e]

Unlink(l, e) == [l EXCEPT !.next[l.prev[e]] = l.next[e]]

\* The loops of sr_connect and handle_conreq that take the timers of the
\* connections s out of the list, and those that add them.
LinkTimers(l, c)   == Link(Link(l, Hb(c)), Tm(c))
UnlinkTimers(l, c) == Unlink(Unlink(l, Hb(c)), Tm(c))

LinkAll(l, s) ==
  LET linked[i \in 0 .. Len(s)] ==
        IF i = 0 THEN l ELSE LinkTimers(linked[i - 1], s[i])
  IN  linked[Len(s)]

UnlinkAll(l, s) ==
  LET unlinked[i \in 0 .. Len(s)] ==
        IF i = 0 THEN l ELSE UnlinkTimers(unlinked[i - 1], s[i])
  IN  unlinked[Len(s)]

\* The list of connections (rastalist.c): whether a peer is in it, what it is
\* with one more, and whether the array is full, which doubles it.
InList(c) == c \in Range(order)
AddConnection(c) == Append(order, c)
ListFull == \E k \in 0 .. Len(order) : Len(order) = Capacity * 2^k

\* The timed events of the connections C.
TimersOf(C) == {Hb(c) : c \in C} \cup {Tm(c) : c \in C}

\* Removing the timers of C writes to addresses somebody has written.
Known(C) == \A e \in TimersOf(C) : list.prev[e] # Wild

(***************************************************************************)
(* The walk of calc_next_timed_event: the elements it comes to, one after  *)
(* the other.  After as many steps as there are events it has reached the  *)
(* end, an address nobody has written, or it goes round in a cycle.        *)
(***************************************************************************)
Steps == Cardinality(Events)
At(l) == LET at[i \in 0 .. Steps] ==
               IF i = 0 THEN l.next[ListHead]
               ELSE LET x == at[i - 1] IN IF x \in Events THEN l.next[x] ELSE x
         IN  at
Visited(l) == LET at == At(l) IN {at[i] : i \in 0 .. Steps} \cap Events
EndOf(l)   == At(l)[Steps]            \* an event when the list is a cycle

\* The first due event of the list, NULL when none is.
Due(e)   == enabled[e] = "on" /\ left[e] <= 0
FirstDue == LET at == At(list)
                due == {i \in 0 .. Steps : at[i] \in Events /\ Due(at[i])}
            IN  IF due = {} THEN NULL ELSE at[Min(due)]
WaitsForLast ==                                                   \* mutant
  {Max({0} \cup {left[e] : e \in {f \in Visited(list) : enabled[f] = "on"}})}
Waits    == {left[e] : e \in {f \in Visited(list) : enabled[f] = "on"}}

-----------------------------------------------------------------------------
Init ==
  /\ list = EmptyList
  /\ enabled = [e \in Events |-> "garbage"]
  /\ left = [e \in Events |-> 0]
  /\ order = << >>
  /\ con = [c \in Conns |-> "absent"]
  /\ loop = "idle"
  /\ touched = {}
  /\ early = FALSE

Interval(e) == CASE e \in {Io0, Io1} -> IoInterval
                 [] e = Tmo          -> TmoInterval
                 [] OTHER            -> TMax

\* What d ticks leave of the time of every event.
Spent(t, d) == [e \in Events |-> t[e] - d]

\* The same at the end of a step, for the events that are enabled then.
Elapse(t, d) ==
  [e \in Events |-> IF enabled'[e] # "on" THEN 0
                    ELSE IF t[e] - d < -MaxLate THEN -MaxLate ELSE t[e] - d]

Restart(t, s) == [e \in Events |-> IF e \in s THEN Interval(e) ELSE t[e]]

(***************************************************************************)
(* The handlers that change connections, as far as the list is concerned.  *)
(* Each says what list', enabled', order', con' and touched' are, and      *)
(* which events start anew: t is what is left of every event when they do, *)
(* and d how long the callback goes on after that.                         *)
(***************************************************************************)
NewConnectionAgain(c, t, d) ==                                    \* mutant
  /\ con' = [con EXCEPT ![c] = "start"]
  /\ order' = AddConnection(c)
  /\ list' = LinkAll(UnlinkAll(list, order), order')
  /\ UNCHANGED <<enabled, touched, loop>>
  /\ left' = Elapse(Restart(t, TimersOf(Range(order'))), d)

\* sr_connect, and handle_conreq of a peer not in the list.  When the array
\* is full it grows: in place, or else the timers are linked in memory that
\* is free by then, which is where the append position points.
NewConnection(c, t, d) ==
  /\ ~InList(c)
  /\ con' = [con EXCEPT ![c] = "start"]
  /\ order' = AddConnection(c)
  /\ UNCHANGED <<enabled, touched>>
  /\ left' = Elapse(Restart(t, TimersOf(Range(order'))), d)
  /\ \/ /\ Known(Range(order))
        /\ list' = LinkAll(UnlinkAll(list, order), order')
        /\ UNCHANGED loop
     \/ /\ ~Known(Range(order)) \/ ListFull
        /\ loop' = "wild" /\ UNCHANGED list

\* handle_conreq of a peer in the list: *connection = new_con, whose events
\* nobody has initialized, while the old ones may be linked.
ResetConnection(c, t, d) ==
  /\ con[c] \in {"closed", "abandoned"}
  /\ con' = [con EXCEPT ![c] = "start"]
  /\ list' = [list EXCEPT !.next[Hb(c)] = Wild, !.next[Tm(c)] = Wild,
                          !.prev[Hb(c)] = Wild, !.prev[Tm(c)] = Wild]
  /\ enabled' = [enabled EXCEPT ![Hb(c)] = "garbage", ![Tm(c)] = "garbage"]
  /\ left' = Elapse(t, d)
  /\ touched' = touched \cup {c}
  /\ UNCHANGED <<order, loop>>

StartEventsHbOnly(c, t, d) ==                                     \* mutant
  /\ con[c] = "start"
  /\ con' = [con EXCEPT ![c] = "up"]
  /\ enabled' = [enabled EXCEPT ![Hb(c)] = "on"]
  /\ list' = Link(list, Hb(c))
  /\ left' = Elapse(Restart(t, {Hb(c)}), d)
  /\ UNCHANGED <<order, touched, loop>>

\* init_and_start_connection_events: the expiry timer is made of
\* send_heartbeat_event, timeout_event is linked as it is.
StartEvents(c, t, d) ==
  /\ con[c] = "start"
  /\ con' = [con EXCEPT ![c] = "up"]
  /\ enabled' = [enabled EXCEPT ![Hb(c)] = "on"]
  /\ list' = LinkTimers(list, c)
  /\ left' = Elapse(Restart(t, {Hb(c)}), d)
  /\ UNCHANGED <<order, touched, loop>>

\* sr_close_connection; sr_send in a retransmission state sets CLOSED only.
Close(c, t, d) ==
  /\ con[c] \in {"start", "up"}
  /\ \/ con' = [con EXCEPT ![c] = "closed"]
     \/ con[c] = "up" /\ con' = [con EXCEPT ![c] = "abandoned"]
  /\ UNCHANGED <<list, enabled, order, touched, loop>>
  /\ left' = Elapse(t, d)

\* remove_timed_event of both timers: a write through prev_mem_addr.
RemoveTimers(c) ==
  IF Known({c})
  THEN list' = UnlinkTimers(list, c) /\ UNCHANGED loop
  ELSE loop' = "wild" /\ UNCHANGED list

\* handle_discreq
DiscReq(c, t, d) ==
  /\ con[c] # "absent"
  /\ con' = [con EXCEPT ![c] = "closed"]
  /\ RemoveTimers(c)
  /\ touched' = touched \cup {c}
  /\ UNCHANGED <<enabled, order>>
  /\ left' = Elapse(t, d)

\* No timer is added or removed; what is sent restarts send_heartbeat_event.
NoChange(t, d) ==
  \E s \in SUBSET {c \in Conns : con[c] = "up"} :
    /\ UNCHANGED <<list, enabled, order, con, touched, loop>>
    /\ left' = Elapse(Restart(t, {Hb(c) : c \in s}), d)

\* event_connection_expired of c; with hb_locked set it does nothing.
Expire(c, t) ==
  /\ UNCHANGED <<enabled, order>>
  /\ left' = Elapse(t, 0)
  /\ IF con[c] \in {"up", "abandoned"}
     THEN /\ con' = [con EXCEPT ![c] = "closed"]
          /\ touched' = touched \cup {c}
          /\ RemoveTimers(c)
     ELSE UNCHANGED <<list, con, touched, loop>>

-----------------------------------------------------------------------------
(***************************************************************************)
(* sr_begin: init_io_events adds the io events, sr_begin adds them again.  *)
(* Events linked before lose their place when the append position they     *)
(* hold is one of these.  start_event_loop starts every event it visits.   *)
(***************************************************************************)
LinkIo(l) == Link(Link(l, Io0), Io1)

Begin ==
  /\ loop = "idle"
  /\ list' = Link(LinkIo(LinkIo(list)), Tmo)
  /\ enabled' = [enabled EXCEPT ![Io0] = "on", ![Io1] = "on", ![Tmo] = "on"]
  /\ left' = Elapse(Restart(left, Visited(list')), 0)
  /\ loop' = IF EndOf(list') \in Events THEN "hung" ELSE "running"
  /\ early' = (order # << >>)
  /\ UNCHANGED <<order, con, touched>>

ConnectFirst(c) == loop = "idle" /\ NewConnection(c, left, 0)

(***************************************************************************)
(* One round of the loop: call the first event in the list that is due, or *)
(* sleep until the earliest is, or a file descriptor is readable.  select  *)
(* returns at least 0, so a sleep always starts a new round.  __last_call  *)
(* is the time the round began, whatever the callback set it to.           *)
(***************************************************************************)
Called(e) == [left EXCEPT ![e] = Interval(e)]

CallIo0 ==
  \E b \in 0 .. CallTicks : \E d \in 0 .. CallTicks - b :
    NoChange(Spent(Called(Io0), b), d)

CallIo1 ==
  \E b \in 0 .. CallTicks : \E d \in 0 .. CallTicks - b :
    LET t == Spent(Called(Io1), b)
    IN  \/ NoChange(t, d)
        \/ \E c \in Conns : \/ NewConnection(c, t, d)
                            \/ ResetConnection(c, t, d)
                            \/ StartEvents(c, t, d)
                            \/ Close(c, t, d)
                            \/ DiscReq(c, t, d)

CallTmo ==
  /\ UNCHANGED <<list, enabled, order, con, touched, loop>>
  /\ left' = Elapse(Called(Tmo), 0)

Call ==
  /\ loop = "running"
  /\ LET e == FirstDue
     IN  \/ e = Io0 /\ CallIo0
         \/ e = Io1 /\ CallIo1
         \/ e = Tmo /\ CallTmo
         \/ \E c \in Conns : e = Hb(c) /\ Expire(c, Called(e))

\* An fd event may be the application's, which may call sr_connect or
\* sr_disconnect.  When nothing is enabled the loop polls.
Sleep ==
  /\ loop = "running" /\ FirstDue = NULL /\ EndOf(list) = NULL
  /\ \E d \in 1 .. (IF Waits = {} THEN 1 ELSE Min(Waits)) :
       \/ NoChange(Spent(left, d), 0)
       \/ \E c \in Conns : NewConnection(c, Spent(left, d), 0) \/ Close(c, Spent(left, d), 0)

\* No event is due and the list is a cycle: calc_next_timed_event goes on
\* for ever.  Or the walk follows, or calls, what nobody has written.
Hang ==
  /\ loop = "running" /\ FirstDue = NULL /\ EndOf(list) \in Events
  /\ loop' = "hung"
  /\ UNCHANGED <<list, enabled, left, order, con, touched>>

GoWild ==
  /\ loop = "running"
  /\ \/ FirstDue = NULL /\ EndOf(list) = Wild
     \/ \E e \in Visited(list) : enabled[e] = "garbage"
  /\ loop' = "wild"
  /\ UNCHANGED <<list, enabled, left, order, con, touched>>

Next == \/ Begin
        \/ /\ (\E c \in Conns : ConnectFirst(c)) \/ Call \/ Sleep \/ Hang \/ GoWild
           /\ UNCHANGED early

Spec == Init /\ [][Next]_vars

-----------------------------------------------------------------------------
Addresses == Cells \cup {NULL, Wild}

TypeOK ==
  /\ list \in [next : [Cells -> Addresses \ {ListHead}],
               prev : [Events -> Addresses \ {NULL}], append_to : Cells]
  /\ enabled \in [Events -> {"on", "off", "garbage"}]
  /\ left \in [Events -> -MaxLate .. (IoInterval + TmoInterval + TMax)]
  /\ order \in Seq(Conns) /\ IsInjective(order)
  /\ con \in [Conns -> {"absent", "start", "up", "closed", "abandoned"}]
  /\ loop \in {"idle", "running", "hung", "wild"}
  /\ touched \subseteq Conns /\ early \in BOOLEAN

(***************************************************************************)
(* The io events are added twice, connections' events are removed and      *)
(* added again and again: still, in a loop begun before the first          *)
(* connection the walk starts with the io events and the channel timeout.  *)
(***************************************************************************)
IoStaysFirst ==
  loop = "running" /\ ~early
    => At(list)[0] = Io0 /\ At(list)[1] = Io1 /\ At(list)[2] = Tmo

(***************************************************************************)
(* With one connection, up for the first time and its timers never taken   *)
(* out, the walk is exact although the timers were added twice: the expiry *)
(* timer is visited once, and the walk ends.                               *)
(***************************************************************************)
SinglePeerExact ==
  \A c \in Conns :
    loop = "running" /\ ~early /\ order = <<c>> /\ con[c] = "up" /\ c \notin touched
      => [i \in 0 .. 5 |-> At(list)[i]]
           = [i \in 0 .. 5 |-> <<Io0, Io1, Tmo, Hb(c), Tm(c), NULL>>[i + 1]]

(***************************************************************************)
(* The walk ends, so that the loop does not hang, until timers have been   *)
(* removed from, or overwritten in, the list they are in.                  *)
(***************************************************************************)
WalkEnds == loop # "idle" /\ touched = {} => EndOf(list) = NULL

(***************************************************************************)
(* What the loop visits is called in time, up to the io callbacks that run *)
(* before it: no event starves behind those in front of it in the list, as *)
(* long as no removal takes events out of the walk or brings them back.    *)
(***************************************************************************)
CalledInTime ==
  loop = "running" /\ touched = {}
    => \A e \in Visited(list) : enabled[e] = "on" => left[e] >= -2 * CallTicks

(***************************************************************************)
(* A connection that is up is watched: init_and_start_connection_events    *)
(* puts its timers into the list the loop walks through.                   *)
(***************************************************************************)
UpIsWatched ==
  \A c \in Conns :
    loop = "running" /\ con[c] = "up" /\ touched = {} => Hb(c) \in Visited(list)
=============================================================================
