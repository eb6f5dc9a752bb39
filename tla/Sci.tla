-------------------------------- MODULE Sci --------------------------------
(***************************************************************************)
(* SCI instances (src/sci/c/scip.c, scils.c) on top of RaSTA connections.  *)
(* Each keeps a hash map from SCI names to RaSTA ids, filled by the        *)
(* application and by the telegrams it receives, and addresses telegrams   *)
(* through it.  The application is the one of src/sciJavaCom and of the    *)
(* examples: it answers commands and requests from inside the notification *)
(* with the sender name it was given.  A telegram travels as a message of  *)
(* a Data PDU (Pdu).  RaSTA is the promise of the safety layer: while a    *)
(* connection is up, PDUs whose codes are right arrive in order and once.  *)
(***************************************************************************)
EXTENDS SciTelegram, HashMap, Pdu

CONSTANTS Id,           \* the RaSTA ids an application knows
          Live,         \* the ids of the SCI instances the model runs
          NameOf,       \* NameOf[i]: the SCI name of the instance with the id i
          Protocols,    \* the ways the instances may speak SCI-P and SCI-LS
          Directory,    \* Directory[i]: the ids whose names the application of i registers
          Handled,      \* Handled[i]: the types whose notification i has set
          Peers,        \* the pairs {i, j} that applications connect
          Disturbed,    \* the instances whose ports foreign datagrams reach
          Offered,      \* Offered[i]: the types the application of i sends unasked
          Values(_, _), \* Values(p, t): the values applications put into a telegram
          QueueSize,    \* the size of fifo_send
          MaxPacket,    \* max_packet: the messages of one PDU
          MaxInFlight   \* bound of the model: telegrams under way at a time

ASSUME SciAssumption ==
          /\ Live \subseteq Id /\ Id \subseteq Nat
          /\ Protocols \subseteq [Live -> {ProtocolP, ProtocolLS}]
          /\ Directory \in [Live -> SUBSET Id]
          /\ Handled \in [Live -> SUBSET Nat] /\ Offered \in [Live -> SUBSET Nat]
          /\ NameOf \in [Id -> Key] /\ IsFiniteSet(Key)
          /\ \A i, j \in Id : NameOf[i] = NameOf[j] => i = j
          /\ QueueSize \in Nat /\ MaxPacket \in Nat

ASSUME ValuesAssumption ==
    \A p \in {ProtocolP, ProtocolLS} : \A t \in TypesOf(p) : Values(p, t) \subseteq Arguments(p, t)

\* A PDU full of the longest telegrams fits into the buffer of receive_packet: with
\* the widest codes that holds up to a max_packet of 7, and not from 8 on.
ASSUME TelegramsFit ==
    HeaderLength + SafetyCodeLength + MaxPacket * (2 + LengthWithoutPayload + PayloadCapacity)
        + 8 + CrcWidth \div 8 <= BufferSize

VARIABLES protocol,     \* protocol[i]: what i speaks, ProtocolP or ProtocolLS
          names,        \* names[i]: sciNamesToRastaIds
          up,           \* the pairs of instances whose connection is up
          queue,        \* queue[i][j]: fifo_send of the connection of i to j
          link,         \* link[i][j]: the datagrams of i that j has not received
          inbox,        \* inbox[i][j]: fifo_app_msg of the connection of i to j
          lasterror,    \* lasterror[i]: whether rastamodule_lasterror of i is set
          told,         \* told[i]: ghost, the first id i was told for each name, or MapMissing
          heard         \* ghost, the last telegram received: what was sent, what was notified

vars == <<protocol, names, up, queue, link, inbox, lasterror, told, heard>>

Nothing == [at |-> 0, sent |-> <<>>, notice |-> <<>>]

\* The send functions of the two protocols and their arguments.
ScipCalls == UNION {{[type |-> t, value |-> v] : v \in Values(ProtocolP, t)} : t \in ScipTypes}
ScilsCalls ==
    UNION {{[type |-> t, value |-> v] : v \in Values(ProtocolLS, t)} : t \in ScilsTypes}
Calls(i) == IF protocol[i] = ProtocolP THEN ScipCalls ELSE ScilsCalls

\* scip_init and scils_init: an instance knows no names at first.
NoNames == [i \in Live |-> New]

Empty == [i \in Live |-> [j \in Live |-> <<>>]]

Init == /\ protocol \in Protocols
        /\ names = NoNames
        /\ up = {}
        /\ queue = Empty /\ link = Empty /\ inbox = Empty
        /\ lasterror = [i \in Live |-> FALSE]
        /\ told = [i \in Live |-> [n \in Key |-> MapMissing]]
        /\ heard = Nothing

Pairs == {p \in Live \X Live : p[1] # p[2]}

InFlight(q) ==
    FoldSet(LAMBDA p, n : n + Len(q[p[1]][p[2]]) + Len(inbox[p[1]][p[2]])
                + FoldLeft(LAMBDA m, d : m + Len(d.carried), 0, link[p[1]][p[2]]),
            0, Pairs)

\* Mutant of Registered: the name is put without looking for it.
RegisteredAgain(m, n, id) == Put(m, n, id)

\* scip_register_sci_name: a name that is in the map keeps its id.
Registered(m, n, id) ==
    IF Get(m, n) = MapMissing THEN Put(m, n, id) ELSE m

\* Whether the call comes back.
Registers(m, n, id) == Get(m, n) = MapMissing => PutReturns(m, n, id)

ToldFirst(t, n, id) == IF t[n] = MapMissing THEN [t EXCEPT ![n] = id] ELSE t

\* sr_send: only a connection that is up with room in its queue takes the message.
SrSend(q, i, id, message) ==
    IF id \in Live /\ {i, id} \in up /\ Len(q[i][id]) < QueueSize
    THEN [q EXCEPT ![i][id] = Append(@, message)]
    ELSE q

\* send_telegram with the map m of i: UNKNOWN_SCI_NAME leaves the queues alone,
\* and SUCCESS is returned whatever became of the message.
SendTelegram(q, m, i, n, call) ==
    LET id == Get(m, n)
        wire == Encode(protocol[i], NameOf[i], n, call)
    IN  IF id = MapMissing
        THEN q
        ELSE SrSend(q, i, id, [length |-> wire.length, wire |-> wire, call |-> call])

\* The application registers the name of a remote.
Register(i, id) ==
    /\ Registers(names[i], NameOf[id], id)
    /\ names' = [names EXCEPT ![i] = Registered(@, NameOf[id], id)]
    /\ told' = [told EXCEPT ![i] = ToldFirst(@, NameOf[id], id)]
    /\ heard' = Nothing
    /\ UNCHANGED <<protocol, up, queue, link, inbox, lasterror>>

\* The application calls one of the send functions of the instance.
Send(i, n, call) ==
    /\ call.type \in Offered[i]
    /\ {i, Get(names[i], n)} \in up
    /\ queue' = SendTelegram(queue, names[i], i, n, call)
    /\ InFlight(queue') <= MaxInFlight
    /\ heard' = Nothing
    /\ UNCHANGED <<protocol, names, up, link, inbox, lasterror, told>>

\* The same for a name the map does not have or whose connection is not up.
SendNowhere(i, n, call) ==
    /\ {i, Get(names[i], n)} \notin up
    /\ queue' = SendTelegram(queue, names[i], i, n, call)
    /\ heard' = Nothing
    /\ UNCHANGED <<protocol, names, up, link, inbox, lasterror, told>>

\* data_send_event: up to max_packet messages leave in one PDU.
Transmit(i, j) ==
    LET n == Min({MaxPacket, Len(queue[i][j])})
        messages == SubSeq(queue[i][j], 1, n)
        bytes == RedundancyPacketToBytes(CreateDataMessage(messages), lasterror[i])
    IN  /\ queue[i][j] # <<>>
        /\ queue' = [queue EXCEPT ![i][j] = SubSeq(@, n + 1, Len(@))]
        /\ link' = [link EXCEPT ![i][j] =
                      Append(@, [bytes |-> bytes, carried |-> messages, bad |-> lasterror[i]])]
        /\ heard' = Nothing
        /\ UNCHANGED <<protocol, names, up, inbox, lasterror, told>>

\* receive_packet and sr_add_app_messages_to_buffer: a datagram whose codes are
\* wrong is dropped, the messages of another reach the notification one by one.
Arrive(i, j) ==
    LET bytes == Head(link[j][i]).bytes
    IN  /\ link[j][i] # <<>>
        /\ \A k \in Live : inbox[i][k] = <<>>
        /\ link' = [link EXCEPT ![j][i] = Tail(@)]
        /\ inbox' = IF ChecksumsCorrect(bytes)
                    THEN [inbox EXCEPT ![i][j] = ExtractMessageData(bytes.inner.packet.data)]
                    ELSE inbox
        /\ heard' = Nothing
        /\ UNCHANGED <<protocol, names, up, queue, lasterror, told>>

\* A datagram that is no PDU reaches a port of i, too short for a header and a safety
\* code (bytesToRastaPacket): of a host with a shorter safety code, for one.
ReceiveShort(i) ==
    /\ i \in Disturbed
    /\ lasterror' = [lasterror EXCEPT ![i] = TRUE]
    /\ heard' = Nothing
    /\ UNCHANGED <<protocol, names, up, queue, link, inbox, told>>

\* The connection of i and j comes up, or ends and loses what is under way.
Open(i, j) ==
    /\ {i, j} \in Peers \ up
    /\ up' = up \union {{i, j}}
    /\ heard' = Nothing
    /\ UNCHANGED <<protocol, names, queue, link, inbox, lasterror, told>>

Cleared(s, i, j) == [s EXCEPT ![i][j] = <<>>, ![j][i] = <<>>]

Close(i, j) ==
    /\ {i, j} \in up
    /\ up' = up \ {{i, j}}
    /\ queue' = Cleared(queue, i, j)
    /\ link' = Cleared(link, i, j)
    /\ inbox' = Cleared(inbox, i, j)
    /\ heard' = Nothing
    /\ UNCHANGED <<protocol, names, lasterror, told>>

\* The types the application answers a telegram of type t with.
Answers(p, t) ==
    CASE t = VersionRequest -> {VersionResponse}
      [] t = StatusRequest -> {StatusBegin}
      [] p = ProtocolP /\ t = ChangeLocation -> {LocationStatus}
      [] p = ProtocolLS /\ t = ShowSignalAspect -> {SignalAspectStatus}
      [] p = ProtocolLS /\ t = ChangeBrightness -> {BrightnessStatus}
      [] OTHER -> {}

\* scip_on_rasta_receive and scils_on_rasta_receive at i with the oldest message
\* of j: not a telegram or not of this protocol, or the sender is registered and
\* the notification of the type, if any, called; it may answer.
Receive(i, j) ==
    LET message == Head(inbox[i][j]).wire
        mine == Decodes(message) /\ message.protocol = protocol[i]
        notice == CASE ~mine -> <<>>
                    [] mine /\ protocol[i] = ProtocolP -> ScipNotice(message, Handled[i])
                    [] mine /\ protocol[i] # ProtocolP -> ScilsNotice(message, Handled[i])
        map == IF mine THEN Registered(names[i], message.sender, j) ELSE names[i]
        answers == IF notice = <<>>
                   THEN {}
                   ELSE {c \in Calls(i) : c.type \in Answers(protocol[i], notice[2])}
    IN  /\ inbox[i][j] # <<>>
        /\ mine => Registers(names[i], message.sender, j)
        /\ inbox' = [inbox EXCEPT ![i][j] = Tail(@)]
        /\ names' = [names EXCEPT ![i] = map]
        /\ told' = IF mine
                   THEN [told EXCEPT ![i] = ToldFirst(@, message.sender, j)]
                   ELSE told
        /\ heard' = [at |-> i, sent |-> <<j, Head(inbox[i][j]).call>>, notice |-> notice]
        /\ \/ UNCHANGED queue
           \/ \E call \in answers :
                 queue' = SendTelegram(queue, map, i, message.sender, call)
        /\ UNCHANGED <<protocol, up, link, lasterror>>

Next == \E i \in Live :
           \/ \E id \in Directory[i] : Register(i, id)
           \/ \E id \in Id \ {i} :
                 \/ \E call \in Calls(i) : Send(i, NameOf[id], call)
                 \/ SendNowhere(i, NameOf[id], CHOOSE call \in Calls(i) : TRUE)
           \/ \E j \in Live \ {i} : \/ Open(i, j) \/ Close(i, j)
                                    \/ Transmit(i, j) \/ Arrive(i, j) \/ Receive(i, j)
           \/ ReceiveShort(i)

Spec == Init /\ [][Next]_vars
-----------------------------------------------------------------------------
Slot(s) == \/ s = Unused
           \/ s.inUse /\ s.key \in Key /\ s.data \in Id

\* Every variable stays in its type; a fifo_send holds no more than its size.
TypeOK ==
    /\ protocol \in Protocols
    /\ \A i \in Live : /\ names[i].size \in 0..Cardinality(Key)
                       /\ \A s \in DOMAIN names[i].slots : Slot(names[i].slots[s])
    /\ up \subseteq Peers
    /\ \A i, j \in Live : Len(queue[i][j]) <= QueueSize
    /\ lasterror \in [Live -> BOOLEAN]
    /\ told \in [Live -> [Key -> Id \union {MapMissing}]]

\* hashmap.c: however the table grew and whatever collided, a name is found with
\* the id it was first registered with, and no other name is found.
NamesExact ==
    \A i \in Live, n \in Key : Get(names[i], n) = told[i][n]

\* hashmap.c: a name has one slot, the size is the number of slots in use, and
\* at least half of the table stays free, which is what ends the probing.
MapIsSound ==
    \A i \in Live :
        LET m == names[i]
            inUse == {s \in DOMAIN m.slots : m.slots[s].inUse}
        IN  /\ \A s, t \in inUse : m.slots[s].key = m.slots[t].key => s = t
            /\ m.size = Cardinality(inUse)
            /\ 2 * m.size <= TableSize(m)

\* scip.c, scils.c: what is queued for an instance or has reached it names that
\* instance as its receiver and its sender as the sender, answers included.
RoutedByName ==
    \A i, j \in Live :
        /\ \A k \in 1..Len(queue[i][j]) :
              LET wire == queue[i][j][k].wire
              IN  wire.receiver = NameOf[j] /\ wire.sender = NameOf[i]
        /\ \A k \in 1..Len(inbox[i][j]) :
              LET wire == inbox[i][j][k].wire
              IN  wire.receiver = NameOf[i] /\ wire.sender = NameOf[j]

\* rastafactory.c, rastamodule.c: a datagram is accepted and gives the messages that
\* were put in, one by one and in order, unless its sender had received a
\* datagram that was too short before: then it is one that nobody accepts.
DatagramsDecode ==
    \A i, j \in Live : \A k \in 1..Len(link[i][j]) :
        LET datagram == link[i][j][k]
        IN  IF datagram.bad
            THEN ~ChecksumsCorrect(datagram.bytes)
            ELSE /\ ChecksumsCorrect(datagram.bytes)
                 /\ ExtractMessageData(datagram.bytes.inner.packet.data) = datagram.carried

\* What a telegram still says after the wire: the status of a signal carries
\* neither the deprecation information nor the driveways.
Carried(p, call) ==
    IF p = ProtocolLS /\ call.type = SignalAspectStatus
    THEN [call.value EXCEPT !.deprecation = Unset, !.upstream = Unset, !.downstream = Unset]
    ELSE call.value

\* A version response arrives if it has a checksum and fits into a telegram.
Arrives(call) ==
    call.type = VersionResponse =>
        call.value.checksum \in 1..MaxTelegramLength - LengthWithoutPayload - 3

\* The factories and handlers of sci: a received telegram calls the notification of its type
\* with the name of its sender and the value that was sent, exactly if the two
\* instances speak one protocol, the notification is set and the telegram can
\* arrive; otherwise it calls none.
HeardAsSent ==
    heard # Nothing =>
        LET i == heard.at
            j == heard.sent[1]
            call == heard.sent[2]
        IN  heard.notice =
              IF protocol[i] = protocol[j] /\ call.type \in Handled[i] /\ Arrives(call)
              THEN <<NameOf[j], call.type, Carried(protocol[j], call)>>
              ELSE <<>>
=============================================================================
