# RaSTA, modelled and verified in TLA+

RaSTA (Rail Safe Transport Application) connects interlocking equipment over
UDP. This directory holds TLA+ modules of the protocol core under
`src/rasta/` and of the SCI layer on top of it under `src/sci/`, the TLC
configurations that check them and proofs for the TLA+ proof system. Files
are named below without their directories; `PROJECT.json` maps every definition
to the lines of code it models.

## 1. The system

```
 SCI                 scip.c, scils.c           telegrams, callbacks
                     sci.c, hashmap.c          names of the peers
 ---------------------------------------------------------------------
 application         sr_connect, sr_send, sr_disconnect      callbacks
 ---------------------------------------------------------------------
 safety and          rasta_new.c     one record per peer: state, sequence
 retransmission                      numbers, time stamps, three fifos
 ---------------------------------------------------------------------
 redundancy          rasta_red_multiplexer.c   one channel per peer
                     rastaredundancy_new.c     order, at most once
                     rastadeferqueue.c         PDUs that came too early
 ---------------------------------------------------------------------
 UDP sockets         several transport channels per redundancy channel
```

Everything runs in one thread, the loop of `event_system.c`: a handler is never
interrupted. What is concurrent are the two entities, the network between them,
and the moments at which timers fire and the application calls.

| Component | State | Operations | What makes it correct |
|---|---|---|---|
| Defer queue | array of slots, count | add, remove, contains, isfull | holds each early PDU once; a lookup is not fooled by slots out of use |
| Redundancy channel | `seq_tx`, `seq_rx`, defer queue, `fifo_recv` | `redundancy_mux_send`, `rasta_red_f_receive`, retrieve, timeout event | hands up in order and at most once, loses nothing it has passed but by a full fifo |
| Multiplexer | array of channels | add, remove, create on reception, retrieve from any | one channel per peer, every peer served |
| Connection | `current_state`, `sn_t/r`, `cs_t/r`, `ts_r`, `cts_r`, fifos, timers | handlers of 8 PDU types, connect, send, disconnect, expiry | messages in order and once; both ends agree on the numbers; life cycle; supervised while open |
| Event system | linked lists of timed and fd events | add, remove, reschedule, next event | every added and enabled event is called when due |
| Connection list | array of connections, size, capacity | add, find, grow | the timed events inside stay valid when the array moves |
| PDUs | a global error flag | create, encode, decode | decoding gives back what was encoded, whatever was received before |
| SCI names | hash table from names to RaSTA ids | put, get, grow | a name is found, with the id it was registered with, and no other is |
| SCI-P, SCI-LS | notification pointers | register, send, dispatch of telegrams | a telegram reaches the callback of its type with what was sent |
| Handle and notifications | callback pointers | fire on reception and on a change of state | a handler stays right when the application calls back |
| Configuration, hashing, logging, memory, Java glue | - | - | not part of the protocol's logic |

The components interact by direct calls downward, through `fifo_recv` upward
(`on_readable_event` polls it every 10 ms), and through callbacks to the
application. Closing a connection removes its redundancy channel, so the next
PDU of that peer meets a new channel that only takes number 0 first.

What is hard here: PDUs that overtake or repeat each other on different
transport channels; retransmission under new numbers while both sides go on
sending, confirm and ask for retransmission themselves; connections that are
closed, reopened or revived by PDUs still on their way; applications that call
back in the middle of a handler; endpoints that stop and start again with the
same numbers; timers that must start and stop along with the state, in a list
whose elements do not know where they are; one array of channels for all peers;
comparisons of time stamps of two clocks. The list, line by line, is `hazards`
in `PROJECT.json`.

## 2. Modules

| Module | Models |
|---|---|
| `DeferQueue` | `rastadeferqueue.c`: operators on a queue |
| `InOrderDelivery` | abstract: of the PDUs sent, deliver some, in order, once |
| `RedundancyChannel` | one direction of a channel over UDP, one entity sending, one receiving |
| `RedundancyMux` | `rasta_red_multiplexer.c`: the channels of one entity to several peers |
| `SRConnection` | `rasta_new.c`: two entities and one connection between them |
| `EventSystem` | `event_system.c`, `rastalist.c`: the loop, the list of timed events as memory cells, and what connecting and closing do to it |
| `Pdu` | `rastafactory.c`, `rastamodule.c`: Data PDUs and datagrams, operators |
| `HashMap`, `SciTelegram` | `hashmap.c`; `sci.c` and the telegram factories: operators |
| `Sci` | `scip.c`, `scils.c`: three SCI instances, from a send function through `sr_send`, PDU and datagram to a notification; EXTENDS the three above |
| `MC...` | constants for TLC |
| `RedundancyChannelProofs`, `RedundancyMuxProofs`, `SRConnectionProofs`, `EventSystemProofs`, `SciProofs` | the theorems about the module of that name (section 4) |
| `SRDeliveryProofs` | the theorems of `SRConnection` about the numbers the two ends hold of each other |
| `AlgorithmProofs` | the theorems of `Pdu` and `HashMap`, which have no state |
| `SetInduction` | induction and recursion over numbers, stated so that the provers can use them |

`SRConnection` does not contain the redundancy channel but relies on what is
proved of it: what arrives does so in order and at most once. It takes the three
ways in which a channel shows above it into account: a full `fifo_recv` drops single
PDUs (`Overflow`), a PDU lost for good blocks what follows, and a removed
channel forgets its numbers (`Arrive`, `RemoveChannel`). `RedundancyMux` takes
reception into one channel (`FReceive`) from `RedundancyChannel` with the defer
queue as a set, which `Lookups` and `Deferred` justify. `SRConnection` takes the list of
events as it was meant; `EventSystem` says when it is not. `Sci` relies on
`SRConnection`: while a connection is up, PDUs that decode arrive in order and
once.

### RedundancyChannel

An action per operation: `Send` by the peer, `Receive(t, s)` of a copy, which is
one of `Accept`, `Defer` and `Discard`, `Retrieve` by the upper layer,
`ChannelTimeout`, `SendOwn` (all that reception looks at in `seq_tx` is whether
it is 0), and `Lose` by the network. `wire[t]` is the set of PDUs with a copy in
flight on `t`; reception leaves it there, so copies can be repeated and
reordered at will. A PDU is its number; one with a bad checksum is ignored on
reception, which is the same as losing it.

`find_index` scans all slots of the array, so the model keeps the values that
removals leave behind and, in `Garbage`, what memory held before. The channel's
delivery loop removes several elements in one step: `RemoveRun` is that loop,
one `deferqueue_remove` after the other, each with its sort, as a recursive function.

`ChannelTimeout` is `UNCHANGED vars`, since the event returns at its first
line: `is_open` is 0 in every multiplexer.

### SRConnection

`con[e]` is the `rasta_connection` of end `e` for its peer plus the state of the redundancy
channel to it; `net[e]` is what is on its way to `e` or in its `fifo_recv`. A handler is
an operator from a record to a record or a set of steps; where the code goes on after
closing a connection (`handle_hb`, `handle_retrreq`), so does the operator.
`Emit` and `Answer` put what a step has sent on its way.

Modelling decisions, each stated at its place in the module:
- The application takes a message in `on_receive` (`Read`), as the examples do.
  There, and when the state changes, it may send or disconnect (`Notified`), and
  the handler goes on with what that leaves. Where firing is the last thing a
  handler does, a call from inside is the same step as one right after it, so
  `Notified` stands only where something follows. In CLOSED a callback does
  nothing: an application that disconnects there would be called again for it.
- Several messages of one PDU are handed up even when the first made the
  application disconnect: so does the code.
- `Restart` is `sr_cleanup` and another start with the same initial number;
  it is random unless `RASTA_INITIAL_SEQ` is configured, so this is the bad case.
  The channel of the peer survives: what the restarted end sends is below
  `seq_rx` there and discarded until the peer's connection has expired.
- `sr_retransmit_data` reads one element of an array beyond those it has
  written. The model decodes it to no messages; a crash, or encoding that fails
  from then on, looks to the peer like PDUs that never arrive.
- `armed` is the expiry timer, which the code builds from
  `send_heartbeat_event`: it runs from the last PDU that rescheduled that event.
- `sn_r`, `cs_r` and `ts_r` of a new client are not initialized by the code; no
  PDU that passes reads them before ConResp writes them. They are 0 here.
- PDUs are genuine: checksum, ids and version are right. The version could not be
  wrong: `version_accepted` returns 1 for all of them.
- `sr_connect` does nothing for a peer in the list, and a ConReq is never sent
  again: a client whose ConReq is lost stays in START until it is disconnected.

Two comments are contradicted in ways no run is spent on: `handle_hb` goes to
RETRREQ without a RetrReq being sent (`rastalist.h:45` says it was), and a RetrReq
on its way revives a connection `sr_send` has closed, whose timer may be gone by then
(`rasta_new.c:1570`, `:1079`). `Lifecycle` and `KeepsWatch` are stated so
that they allow for it, and say that nothing else does this.

### EventSystem

An element of the list is linked through a cell that its predecessor owns:
`next` and `prev_mem_addr` are functions on cells named by their events.
`linked_list_add` does not ask whether the element is in the list, and
`linked_list_remove` does not tell the successor. So an element can be in the
list twice, drop out of it, come back or make it a cycle. The module does what
the code does with such a list: `Call` and `Sleep` walk it, `Hang` is the loop
that never finds its end, `GoWild` the step to an address nobody has written.

What holds: a loop that was begun before the first connection visits the io
events and the channel timeout first, whatever happens to the others; the first
connection to come up is watched; as long as no timers are taken out, the walk
ends and no event is late by more than the two io callbacks. What does not: after the
second connection, or the timer removal of an established one (DiscReq, expiry),
timers may be missing, and the list may be a cycle in which the
loop hangs at the first moment nothing is due. When the list of connections grows by moving (here
or in `sr_connect`), and when `handle_conreq` overwrites a record whose timers
are linked, what is read next is what the memory holds.

Time is what is left of each event's interval, in ticks. A callback of the io events starts timers
somewhere in the time it takes, a handler that a file descriptor wakes after the sleep. `early` and `touched`
are histories that state the conditions above.

### RedundancyMux

`chans` is `connected_channels`. A peer's PDU may arrive at any time, on any
socket, any number of times: so the peers need no state, and a restarted peer
is no different from late copies. `clash` is set by the two calls
after which the code loses track of which channel is whose: `sr_connect` when
there is a channel, and `redundancy_mux_set_config_id` when channel 0 belongs to
somebody. With `~clash` routing, uniqueness and isolation hold; `mux_routing`
shows what happens otherwise. After a clash one lookup may also find an empty channel
and return 1 with nothing written (`undef`), and removing a
channel leaves an unwritten one. `redundancy_mux_try_retrieve_all` serves the
lowest index first, so a busy peer starves the others; nothing claims the contrary.
An address is learned before the check sum is verified; PDUs being genuine,
this does not show. The diagnostics of a receive event are reset in a copy.

### Sci, SciTelegram, HashMap, Pdu

A name is a model value with a hash, a telegram a record with its length, a
datagram a record of what the lengths in it say; lengths wrap at 16 bits as the fields do. The
application is that of `sciJavaCom`: it answers requests in the notification,
with the name it was given. What the modules show the code to do and a reader
would not expect:
- `rastamodule_lasterror` is set by a datagram that is too short and then makes every
  later encoding skip the safety code (`DatagramsDecode` says: exactly then).
- A datagram over 1000 bytes is cut off: `max_packet` above 7 is unusable with long
  telegrams (assumption `TelegramsFit`).
- A version response without checksum, or with one over 82 bytes, never arrives;
  the status of a signal does not carry three of the fields it is given
  (`Arrives`, `Carried`). `send_telegram` returns success when `sr_send` drops.
- A name is never bound again, whoever comes with it.
- `parsed->sender` has no terminating zero, so `strlen` runs on into the receiver;
  only the first 20 bytes enter the key, so the model takes the name.
- Lengths are in the byte order of the host; the model's hosts are little-endian.

## 3. Runs

| Run | Configuration | Result |
|---|---|---|
| `red_channel` | `MCRedundancyChannel.cfg` | order, completeness, exact lookups, refinement of `InOrderDelivery`, what is accepted is handed up in the end |
| `red_timeout` | `MCDeferTimeout.cfg` | violated: a deferred PDU is never released |
| `sr_transfer` | `MCSRConnection.cfg` | messages in order, agreement on numbers, order of `fifo_retr`, nothing held is passed over; also when an end restarts |
| `sr_reconnect` | `MCSRReconnect.cfg` | life cycle, channel and timer in step, a disconnected connection stays closed, nothing goes back, messages in order |
| `sr_unconfirmed` | `MCSRUnconfirmed.cfg` | violated: `fifo_retr` loses PDUs that are not confirmed |
| `sr_expiry` | `MCSRExpiry.cfg` | violated: a connection that receives expires |
| `sr_handshake` | `MCSRHandshake.cfg` | violated: no handshake with a host that has been up for `t_max` |
| `events` | `MCEventSystem.cfg` | the walk starts with the io events, is exact for one peer, ends, and calls in time, under the conditions above |
| `events_watched` | `MCEventWatch.cfg` | violated: a connection is up and the loop does not come to its timer |
| `mux` | `MCRedundancyMux.cfg` | PDUs go to their peer, one channel a peer, order in each, peers are isolated |
| `mux_routing` | `MCMuxRouting.cfg` | violated: what is for one peer is sent to another |
| `sci` | `MCSci.cfg` | names are exact, the map is sound, telegrams name the right ends, datagrams decode, a notification hears what was sent |

The runs marked violated check what a comment of the code says; `findings` in
`PROJECT.json` quotes it and tells what the counterexample shows.

Bounds. `red_channel`: the queue and the fifo have 2 places, as in the
configurations of `config/`, the window is 2 * 2 rather than 10 * 2, and 6 PDUs
are sent, so that a PDU can be behind, expected, within the window with the queue empty,
partly filled and full, and beyond the window, and the fifo can overflow in the middle of
a run of deliveries. One transport channel is enough since a copy can be received in
any order and any number of times. `MaxSeq` is what a number can reach: the
numbers have 32 bits on the wire and 64 in memory, and the code, too, stops
working at 2^32.

`sr_transfer`: packets of one message, 3 messages a side, sent by the
application of its own accord or out of a callback, so that `fifo_send`
(2) overflows and retransmission brings `fifo_retr` to its limit (3 rather than
100); a `fifo_recv` of 1, two PDUs dropped by it (one at each side, or a
retransmission lost again), one restart of either end, no time. With 4 messages and no restart
it was explored once (4.6 million states), and without callbacks and restarts
with packets of 2 and 3 drops (21.8 million). `sr_reconnect`: both sides
may call `sr_connect`, the application of one sends and that of the other
disconnects in callbacks, 2 messages a side, two drops, and
`MaxTime` = `TMax` = 2: enough for both ends to expire and for `sr_send` to close a
connection that a RetrReq on its way revives, which takes two drops and two
messages. Restarts are left to `sr_transfer`; with one message, one drop and six PDUs a side
`sr_reconnect` was explored once with a restart as well (8.1 million states). `MaxPdus`
stops an endpoint after a number of PDUs; without it two endpoints could answer
each other's RetrReq for ever. Numbers start at 1 and 3 and stay below `SnMod`:
the wrap is not explored.

`events`: two peers, the least with which timers are removed and added in
one call, and a capacity of 2, the least the code has; a third would only grow the
list, which may also happen to go wild with two. Intervals of 3 and 1 ticks and callbacks of at
most 1 make events fall due together and late. `mux`: two peers, two ports, a
defer queue of one place and two PDUs: a channel can be discovered, full,
restarted, removed and made again. The peers are symmetric. `sci`: three
instances so that a name can be asked for in a map where it is missing, five
names, a table of 2 and chains of 2, up to 30 rounds of growing, so that tables grow because they are half
full and because a chain is taken, with collisions that survive growth; two telegrams
under way, so that one PDU carries two.

Deadlock is not checked: a system in which all was sent and delivered, or whose
bounds are used up, stops.

Fairness is assumed in two runs, `red_channel` (for `HandedUp`) and `red_timeout`:
the event loop keeps calling the
events of `sr_begin`, `on_readable_event` and `channel_timeout_event`, so both
are weakly fair. The network owes nothing.

Every property of a passing run has a mutant: a definition, marked `mutant` in
its module, which is what a plausible bug would make of the one below it and
makes the property fail.

## 4. Proofs

Each theorem holds for every value of the constants that the assumptions of the
module allow; the run beside it in section 3 shows the same property on a small
instance. The modules with theorems use no RECURSIVE operator: loops of the code
are recursive functions and folds. What such a loop computes is proved with
`SetInduction`, which states induction for a set of numbers, and recursion for
a function of the step, from the well-foundedness theorem of the library; the
library's own induction theorems take an operator, which the provers
cannot instantiate.

| Module | Theorem | Statement |
|---|---|---|
| `RedundancyChannelProofs` | `TypeCorrect` | `Spec => []TypeOK` |
| | `InOrder` | `Spec => []DeliveredInOrder` |
| | `Complete` | `Spec => []NothingSkipped` |
| | `Lookups` | `Spec => []LookupExact` |
| | `Deferred` | `Spec => []DeferredAhead` |
| | `NoneLeftBehind` | `Spec => LeavesDelivered` |
| | `Refinement` | `Spec => ImplementsInOrderDelivery` |
| `RedundancyMuxProofs` | `TypeCorrect` | `Spec => []TypeOK` |
| | `Routing` | `Spec => []RoutedRight` |
| | `OneChannel` | `Spec => []OneChannelPerPeer` |
| | `Ordering` | `Spec => []HandedInOrder` |
| | `PeersAreIsolated` | `Spec => Isolation` |
| `SRConnectionProofs` | `TypeCorrect` | `Spec => []TypeOK` |
| | `RetransmissionOrder` | `Spec /\ [][NumbersGrow]_vars => []RetrInOrder` |
| | `OpenHasChannel` | `Spec /\ []Unbroken => []ChannelWhileOpen` |
| | `DisconnectedStaysClosed` | `Spec /\ []Unbroken => []StaysClosed` |
| | `LegalLifecycle` | `Spec /\ []Unbroken => Lifecycle` |
| | `WatchKept` | `Spec /\ []Unbroken => KeepsWatch` |
| `SRDeliveryProofs` | `EndpointsAgree` | `Spec /\ []Unbroken /\ []BelowWrap => []NumbersAgree` |
| | `ForwardOnly` | `Spec /\ []Unbroken /\ []BelowWrap => NeverBack` |
| | `MessagesOrdered` | `Spec /\ []Unbroken /\ []BelowWrap => []MessagesInOrder` |
| | `PassedDelivered` | `Spec /\ []Unbroken /\ []BelowWrap => []PassedIsDelivered` |
| `EventSystemProofs` | `TypeCorrect` | `Spec => []TypeOK` |
| | `IoFront` | `Spec => []IoStaysFirst` |
| | `SinglePeer` | `Spec => []SinglePeerExact` |
| | `WalkTerminates` | `Spec => []WalkEnds` |
| | `NoneStarves` | `ShortCalls` gives `Spec => [](~early => CalledInTime)` |
| `AlgorithmProofs` | `RoundTrip` | messages that fit come back out of the datagram, which is taken unless its sender had an error pending |
| | `GetAfterPut` | after a put the key is found with its value, every other key as before |
| `SciProofs` | `TypeCorrect` | `Spec => []TypeOK` |
| | `NamesFound` | `Spec => []NamesExact` |
| | `MapsAreSound` | `Spec => []MapIsSound` |
| | `Routed` | `Spec => []RoutedByName` |
| | `Decoded` | `Spec => []DatagramsDecode` |
| | `HeardRight` | `Spec => []HeardAsSent` |

### The redundancy channel

All assume `Garbage = {0}`: memory from `malloc` is fresh from the kernel and
zeroed. Without it they do not hold (a slot never written may seem to contain
the next PDU, which then is delivered from it), and the code gives no other
reason why they should. That is also what the run assumes.

None of the invariants is inductive alone. `IInv` adds `StaleSlots`: a slot out
of use holds a number already passed, the initial 0 or a second copy of an
element in use, never one still to come. An accepted PDU and the run behind it
are then exactly the numbers `seq_rx .. next - 1`, which `FifoPushFacts` appends
in order. `RemoveRunRuns` unrolls the loop of removals, and `RemoveRunFacts` shows
by induction over it, a removal moving the last element into the hole and
sorting again, that what it takes out is that run and nothing else. The refinement
follows because everything in `fifo_recv` is later than everything delivered
and earlier than `seq_rx`, which no step takes beyond what was sent.

### The multiplexer

`IInv` says of each channel that it is `Sound` (what it handed up, what waits and
what is deferred increase in this order, and no address is in it twice), whatever
happens, and, until `clash`, that every element of the array has been written,
that ids are distinct and that a channel's addresses are its owner's. The owner
of a channel that has no id yet is the peer it was configured for, `preset`: this
is what carries `RoutedRight` over the moment at which the id is set, and
what `clash` ends. `PeersAreIsolated` also needs that without a clash the search by id finds, before
and after a step that moves the elements, the one channel that has the id (`ChannelOfFacts`).

### The safety and retransmission layer

Handlers are operators from a record to a record, with the application calling
back in the middle. So there is a relation on records per purpose (`Keeps`,
`Result`, `Does`), every helper and every handler is shown to respect it, and a
step is what `Emit` or `Answer` makes of such a record.

`TypeCorrect` needs the capacity of both fifos through a retransmission that
pushes one element more than `fifo_retr` takes, and that all numbers are in the
range of a `uint32_t`; it needs `RetrCapAssumption`, 100 + 3 < 2^32 in the code.
`RetransmissionOrder` is about the renumbering in `sr_retransmit_data`, which
pops each PDU of `fifo_retr` and pushes it again under a new number. It holds as
long as no number goes once around while PDUs are held (`NumbersGrow`); at
2^32 the order does break, and `sr_remove_confirmed_messages` compares with `<=`.

The last four of `SRConnectionProofs` hold until an endpoint is stopped and started again (`Unbroken`).
None is an invariant of the endpoint alone. What they need of the network is
`SessionInv`, in words:
- An open connection has a channel on which it has sent (`Wired`); one that was
  disconnected has none of its own, and what arrives gives it one on which it has
  sent nothing.
- The kinds of PDUs on their way are those of the phase both ends are in.
  While an end has not heard its peer (`Waits`), while the handshake of either is
  not over (`Opens`), and while a client calls (`Calls`), only handshake PDUs
  and farewells are on their way, and no message waits in `fifo_send`.
- On each way a ConReq is the first, carries the peer's first number, and what
  is sent with the number 0 belongs to a handshake (`Shape`); a client in
  START and the heartbeat it must not get are kept apart by their numbers
  (`FirstNumbers`, `FirstHeartbeat`).

This is needed because `handle_hb` in START closes a connection whose heartbeat
it does not want, and with it the channel, but goes on and sets it UP; and because
a RetrReq reopens a closed connection. One has to know that no such heartbeat,
and no RetrReq without a channel, can be under way there. An endpoint that restarts with the same first number makes PDUs of a
former life fit again, and then the properties do fail: with two restarts the ends may disagree on
the numbers (`NumbersAgree`), with three, and both calling, a client in START that
gets the heartbeat of a former connection is UP without a channel. TLC finds both with
`MaxStops` = 2 and 3; `sr_transfer` therefore allows one restart. Initial numbers
are random in the code unless configured, so this is a limit of the
protocol with a configured `RASTA_INITIAL_SEQ` and is stated as the theorems' hypothesis.

#### What the ends hold of each other

`EndpointsAgree` and `ForwardOnly` need a second invariant on top of `SessionInv`,
`BondInv`. For each end it relates the connection, that of its peer, and both ways
between them:
- `Never`: until the first PDU of the peer was taken, only the handshake is under way.
- `Reach`: neither an expected number nor one under way is beyond what
  the peer has reached, and a handshake PDU carries the peer's first number.
- `Rising` and `Ahead`: the numbers under way grow towards the end of the way, and
  none but those of a handshake or farewell is behind what is expected. This is where loss,
  reopening by a RetrReq and a retransmission under new numbers meet: a
  PDU that is retransmitted may be under way twice, under two numbers that
  both are ahead.
- `Acked` and `Acking`: what is confirmed is a number that was used. A server begins with
  the number before its first, which for the first number 0 is 2^32 - 1.
- `Timely` and `Echoed`: time stamps under way are in order and between what
  was seen last and the clock; an echo of a clock is no newer than what the peer
  has seen of it.

A step changes one end and puts PDUs at the end of one way, so each part is shown
twice, for the end that moves and for its peer, over one relation (`Moving`)
that all actions are shown to be; loss takes PDUs out of the middle and time passes, which
the parts survive by themselves.

`BelowWrap` says that the initial and the current number of both ends stay
`RetrCap` + 4 below 2^32: a handler numbers at most a retransmission (`RetrCap` + 3
PDUs) before the next state is looked at. The comparisons of the code
(`sn_PDU >= sn_r` before the modular difference) are only meaningful there. The initial
number is random in the code, so that a connection that starts in the upper
range and lasts does reach the wrap; there nothing is proved, and `hazards` in
`PROJECT.json` names the line. `SnMod` of `sr_reconnect` and `sr_transfer` satisfies it in the states explored.

#### What becomes of the messages

`MessagesOrdered` needs a third invariant, `StreamInv`, on top of both. It relates a receiver to
its peer, what is under way to it, and what it says back. The difficulty is that
a message may exist many times: in `fifo_send`, in a PDU under way, in `fifo_retr` under the
number it was sent with, and, each time it is sent again, in another PDU and in `fifo_retr` under
yet another number, while the first PDU may still arrive.
- `Stored`: PDUs in `fifo_retr` are in order, by number and by message, and before what waits in
  `fifo_send`.
- `Asking`: at most one RetrReq or the RetrResp to it is under way, and while it is the receiver
  neither sits in UP nor in RETRRUN, so that it reads nothing.
- `Due` says which PDUs under way may be read: all, if the receiver reads, and otherwise
  those behind the RetrResp. `Flowing`: what was read, what is due and what
  waits in `fifo_send` come in this order. A PDU under way that is not due may be a
  copy of what is sent again, and out of order with it.
- `Holding`: what `fifo_retr` holds at or above the number the receiver expects, or above the
  number a RetrReq under way confirms, was not read yet; and it comes after the PDUs due
  whose numbers are lower. This is why what is sent again may follow what was read, and why what it replaces
  is not due any more.
- `Blank`: nothing was read before both ends have begun, where a ConReq empties the fifos.

The step that answers a RetrReq is the one all of this is for: before it nothing is due
(`WhatIsAnswered`), after it exactly what is sent again is (`WhatIsResent`).

#### What was passed was read

`PassedDelivered` needs a fourth, `TrailInv`. `handle_data` reads a PDU only in UP, but takes its number
in RETRRUN as well (where `handle_retrdata` reads), and `handle_hb` and `handle_retrresp` take numbers without a message:
if such a number were one the peer holds messages under, they would count as received.
- `Repaired`: behind a RetrResp, and while the receiver is in RETRRUN, there
  is a number `h` the peer has already used, so that what is under way up to `h` is RetrData
  and what has the number `h` is the heartbeat that ends the retransmission. So no Data is
  expected in RETRRUN, where it would be taken and dropped.
- `Copied`: a PDU under way with the number of one held carries its messages (it `Stands` for it),
  and what is held is above every RetrResp under way. So neither a heartbeat nor the
  RetrResp takes the number of a message.
- `Passed`: the conclusion, over records and without asking whether both ends are connected.

An answer to a RetrReq makes all of `fifo_retr` anew, above every number under way (`ResentStands`), and
announces its own heartbeat (`AnswerAnnounced`). Everything else sent has a number that nothing had before
(`WhatIsNew`). Loss only thins out what is under way, which all three parts survive.

### The event system

`WalkTerminates` is the hard one: the code removes all timers through addresses
that are stale after the first removal, which may make the list a cycle, and adds them
again. `NoCycle` is a rank of the cells that grows along the list. It survives
because the two timers of a connection are always added one after the other
(`Pairs`), so that a removal makes a cell that is no timer point to a timer, and
an event that is added points to nothing. `Untouched` describes the list before the
loop begins, `IoFirst` and `Single` the front and what follows it.

`NoneStarves` assumes `ShortCalls`, that the callback of an io event takes less than half of
`IO_INTERVAL`, which is 10 ms. Nothing in the code ensures this, but without it no bound holds: the loop calls
the first due event in the list, and the io events, which are in front, may be due again
before those behind were called. `TimeInv` counts by the times themselves how many io
callbacks have run since all was in time (`Punctual`), and `Armed` says which events run at all. A
walk may lose a timer (`events_watched`), which then grows late without bound; it comes back only
by being started again, because adding the timers of one connection shows
nothing else to the walk (`TimersAreNew`), and adding those of all starts them all.
In a loop that was begun after the first connection (`early`) the io events may be lost as well, and
whether another connection could bring them back late is not proved.

### PDUs, hash map, SCI

`RoundTrip` is for any sequence of messages that fits the receiver's buffer and is by induction over the
positions at which they are laid. `GetAfterPut` is for a sound table (`Sound`: a
key is within the chain of its hash, none is there twice, at least half is free), any hash
function, and a put that returns (`PutReturns`); it is by induction over the rounds
of growing, each of which rehashes every entry. `MaxRounds` bounds these rounds in the model;
30 is more than a run needs. In the code a put whose key collides at every size does not return, and
`Register` has no step for it.

`Sci` combines them: `IInv` says that what is queued, on its way or delivered from
i to j was made by i for j, with the names of both, in the format of its
protocol, and that the maps hold what was told first. `TelegramsFit` is where
`RoundTrip` needs its bound.

### Only model-checked

- `CalledInTime` of `EventSystem` in a loop begun after the first connection.
- `HandedUp`, which is liveness under fairness.
- The six violations, of course: the runs show them.

## 5. Not modelled

`components` in `PROJECT.json` lists every part. Hashing and CRC are functions
on bytes without protocol state; codes are right or wrong as a whole.
Configuration (`config.c`, its parser) and the dictionary are read once at the start
and their values are constants here. `udp.c`, logging, memory and the glue of
`RastaNative.c` are input and output. Diagnostics are counted and reported but decide
nothing; the interval condition of `updateDiagnostic` can never hold.
`rasta_red_f_deferTmo`, `rastalist_remove`, `hashmap_remove`, `hashmap_iterate`
and the wait functions of the multiplexer are never reached. Fd events are in
`EventSystem` only as what may wake the loop. The comments of `fire_on_...` speak of a
thread; there is none. A reader of `fifo_app_msg` outside the callback, which
would dereference NULL when it is empty, and PDUs that are not genuine are left out.

## 6. Plan

Done: `DeferQueue`, `RedundancyChannel` with refinement, `SRConnection` with
callbacks and restarts, `EventSystem`, `RedundancyMux`, `Pdu`, `HashMap`,
`SciTelegram`, `Sci`, and the proofs of section 4. Left:

- `SRConnection` at the wrap of the numbers, with a small `SnMod`: the theorems of `SRDeliveryProofs`
  stop short of it (`BelowWrap`).
