-------------------------------- MODULE Pdu --------------------------------
(***************************************************************************)
(* A Data PDU between the queue of messages and a datagram: the factory    *)
(* (rastafactory.c) that lays messages out behind length prefixes, the     *)
(* conversions (rastamodule.c) that put the PDU and its safety code into a *)
(* redundancy packet with its check sum, and back.  Lengths are in bytes   *)
(* and wrap like the 16-bit fields they are kept in; a message is a record *)
(* with a field length; the codes are right or wrong as a whole.           *)
(***************************************************************************)
EXTENDS Integers, Sequences

CONSTANTS HashLength,   \* hash_length: the safety code has 8 * HashLength bytes
          CrcWidth,     \* crc_type.width in bits
          BufferSize    \* MAX_DEFER_QUEUE_MSG_SIZE, what receive_packet reads of a datagram

ASSUME PduAssumption == /\ HashLength \in {1, 2}
                        /\ CrcWidth \in {16, 32}
                        /\ BufferSize \in 0..65535

UInt16(n) == n % 65536

HeaderLength == 28
SafetyCodeLength == 8 * HashLength

\* How far the first k messages and their prefixes reach, one behind the other.
Starts(data) ==
    LET start[k \in 0..Len(data)] ==
          IF k = 0 THEN 0 ELSE start[k - 1] + 2 + data[k].body.length
    IN  start

\* Where the prefix of the k-th message starts.
StartOf(data, k) == Starts(data)[k - 1]

\* The bytes the laid out messages take.
DataLength(data) == Starts(data)[Len(data)]

\* initializePacket: length wraps to the 16 bits of its field.
InitializePacket(data, data_length) ==
    [length |-> UInt16(HeaderLength + SafetyCodeLength + data_length), data |-> data]

\* Mutant of CreateDataMessage: the two bytes of each prefix are not counted.
CreateDataMessageNoPrefix(messages) ==
    LET data == [i \in 1..Len(messages) |->
                   [prefix |-> UInt16(messages[i].length), body |-> messages[i]]]
    IN  InitializePacket(data, UInt16(DataLength(data) - 2 * Len(messages)))

\* createDataMessage: every message behind its length.
CreateDataMessage(messages) ==
    LET data == [i \in 1..Len(messages) |->
                   [prefix |-> UInt16(messages[i].length), body |-> messages[i]]]
    IN  InitializePacket(data, UInt16(DataLength(data)))

\* getDataLength
GetDataLength(packet) == packet.length - HeaderLength - SafetyCodeLength

\* allocateBytes reports a packet that is too short for its header and code.
LengthInvalid(length) == length < HeaderLength + SafetyCodeLength

\* rastaModuleToBytes: with an error pending, this packet's or an older one that nobody
\* has fetched, it returns the buffer as allocated, and no safety code is in it.
RastaModuleToBytes(packet, lasterror) ==
    [length |-> packet.length,
     packet |-> packet,
     packed |-> ~lasterror /\ ~LengthInvalid(packet.length)]

\* createRedundancyPacket: 8 bytes before the packet, the check sum behind it.
CreateRedundancyPacket(packet) ==
    [length |-> UInt16(8 + packet.length + CrcWidth \div 8), data |-> packet]

\* rastaRedundancyPacketToBytes: the datagram.
RedundancyPacketToBytes(packet, lasterror) ==
    LET redundancy == CreateRedundancyPacket(packet)
    IN  [length |-> redundancy.length, inner |-> RastaModuleToBytes(redundancy.data, lasterror)]

\* bytesToRastaPacket: whether the safety code is right of a packet whose data is read,
\* and whose code is looked for, by the length in its header.
BytesToRastaPacket(inner) ==
    inner.packed /\ GetDataLength(inner.packet) = DataLength(inner.packet.data)

\* bytesToRastaRedundancyPacket: whether check sum and safety code of a received
\* datagram are right; what exceeds the buffer it was received in is cut off.
ChecksumsCorrect(datagram) ==
    datagram.length <= BufferSize /\ BytesToRastaPacket(datagram.inner)

\* One round of the loop: the message behind the prefix at the offset, if one is there.
ReadMessage(data, at) ==
    LET k == CHOOSE k \in 1..Len(data) : StartOf(data, k) = at.offset
    IN  IF at.offset >= DataLength(data)
        THEN at
        ELSE [offset |-> at.offset + data[k].prefix + 2,
              messages |-> Append(at.messages, data[k].body)]

\* extractMessageData: from one prefix to the next up to the end of the data.
ExtractMessageData(data) ==
    LET walk[r \in 0..Len(data)] ==
          IF r = 0 THEN [offset |-> 0, messages |-> <<>>] ELSE ReadMessage(data, walk[r - 1])
    IN  walk[Len(data)].messages
=============================================================================
