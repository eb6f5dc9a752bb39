---------------------------- MODULE SciTelegram ----------------------------
(***************************************************************************)
(* The telegrams of SCI-P (points) and SCI-LS (light signals): what the    *)
(* factories of src/sci/c put into a telegram, how sci_encode_telegram and *)
(* sci_decode_telegram move it to and from the bytes of one RaSTA message, *)
(* and what the parse functions take out of it.  A telegram of the         *)
(* application is a record [type, value]; a payload is the record of       *)
(* sci_payload: the fields written into data, a checksum counting as one   *)
(* block, and used_bytes.                                                  *)
(***************************************************************************)
EXTENDS Integers, Sequences

ProtocolP == 64         \* SCI_PROTOCOL_P,  0x40
ProtocolLS == 48        \* SCI_PROTOCOL_LS, 0x30

MaxTelegramLength == 128
LengthWithoutPayload == 43
PayloadCapacity == 88   \* what a factory can write into sci_payload before used_bytes

\* The message types, as numbers: both protocols use 0x0100 for their command.
VersionRequest == 9216          \* 0x2400
VersionResponse == 9472         \* 0x2500
StatusRequest == 8448           \* 0x2100
StatusBegin == 8704             \* 0x2200
StatusFinish == 8960            \* 0x2300
ChangeLocation == 256           \* SCI-P,  0x0100
LocationStatus == 2816          \* SCI-P,  0x0B00
Timeout == 3072                 \* SCI-P,  0x0C00
ShowSignalAspect == 256         \* SCI-LS, 0x0100
ChangeBrightness == 512         \* SCI-LS, 0x0200
SignalAspectStatus == 768       \* SCI-LS, 0x0300
BrightnessStatus == 1024        \* SCI-LS, 0x0400

CommonTypes == {VersionRequest, VersionResponse, StatusRequest, StatusBegin, StatusFinish}
ScipTypes == CommonTypes \union {ChangeLocation, LocationStatus, Timeout}
ScilsTypes == CommonTypes \union {ShowSignalAspect, ChangeBrightness, SignalAspectStatus,
                                  BrightnessStatus}
TypesOf(protocol) == IF protocol = ProtocolP THEN ScipTypes ELSE ScilsTypes

\* What a field of a local variable holds that no parse function has set.
Unset == -1
NoValue == 0

\* What the arguments of the send functions can hold: a byte, a checksum that stays
\* inside the payload, the values of the enumerations of scils_signal_aspect.
Byte == 0..255
VersionResponses == [result : Byte, version : Byte, checksum : 0..PayloadCapacity - 3]
SignalAspects == [lamps : [1..6 -> Byte], deprecation : Byte, upstream : 0..15,
                  downstream : 0..15, dark_switching : Byte]

Arguments(protocol, t) ==
    CASE t = VersionResponse -> VersionResponses
      [] t \in {StatusRequest, StatusBegin, StatusFinish} -> {NoValue}
      [] protocol = ProtocolP /\ t = Timeout -> {NoValue}
      [] protocol = ProtocolLS /\ t \in {ShowSignalAspect, SignalAspectStatus} -> SignalAspects
      [] OTHER -> Byte

\* The payload after sci_create_base_telegram.
NoPayload == [data |-> <<>>, used |-> 0]
OneByte(value) == [data |-> <<value>>, used |-> 1]

\* sci_create_version_response: a checksum is named by its length.
VersionResponsePayload(v) ==
    [data |-> <<v.result, v.version, v.checksum, v.checksum>>, used |-> v.checksum + 3]

\* scils_create_show_signal_aspect: the two driveways share a byte.
ShowSignalAspectPayload(a) ==
    [data |-> a.lamps \o <<a.deprecation, ((a.downstream * 16) % 256) + a.upstream,
                           a.dark_switching>>,
     used |-> 9]

\* scils_create_signal_aspect_status
SignalAspectStatusPayload(a) ==
    [data |-> a.lamps \o <<a.dark_switching>>, used |-> 7]

\* sci_create_*: the payloads of the telegrams both protocols have.
CommonPayload(call) ==
    CASE call.type = VersionRequest -> OneByte(call.value)
      [] call.type = VersionResponse -> VersionResponsePayload(call.value)
      [] OTHER -> NoPayload

\* The payload that the create function of the protocol builds for the call.
ScipPayload(call) ==
    CASE call.type \in CommonTypes -> CommonPayload(call)
      [] call.type = Timeout -> NoPayload
      [] OTHER -> OneByte(call.value)

ScilsPayload(call) ==
    CASE call.type \in CommonTypes -> CommonPayload(call)
      [] call.type = ShowSignalAspect -> ShowSignalAspectPayload(call.value)
      [] call.type = SignalAspectStatus -> SignalAspectStatusPayload(call.value)
      [] OTHER -> OneByte(call.value)

\* shortToBytes and bytesToShort on a little-endian host.
ShortToBytes(n) == <<n % 256, (n \div 256) % 256>>
BytesToShort(b) == b[2] * 256 + b[1]

\* The create function, then sci_encode_telegram: the message handed to sr_send.
Encode(protocol, sender, receiver, call) ==
    LET payload == IF protocol = ProtocolP THEN ScipPayload(call) ELSE ScilsPayload(call)
    IN  [protocol |-> protocol, message_type |-> ShortToBytes(call.type),
         sender |-> sender, receiver |-> receiver, data |-> payload.data,
         length |-> LengthWithoutPayload + payload.used]

\* Mutant of Decodes: the longest telegram is refused.
DecodesShorter(message) ==
    /\ message.length \in LengthWithoutPayload..MaxTelegramLength - 1
    /\ message.protocol \in {ProtocolP, ProtocolLS}

\* Whether sci_decode_telegram returns a telegram, NULL otherwise.
Decodes(message) ==
    /\ message.length \in LengthWithoutPayload..MaxTelegramLength
    /\ message.protocol \in {ProtocolP, ProtocolLS}

UsedBytes(message) == message.length - LengthWithoutPayload
MessageType(message) == BytesToShort(message.message_type)

\* sci_parse_version_response_payload: the checksum must be in the payload, and not empty.
VersionResponseParses(message) ==
    /\ UsedBytes(message) \in 4..128
    /\ message.data[3] <= UsedBytes(message) - 3

\* scils_parse_show_signal_aspect_payload
ParseShowSignalAspect(data) ==
    [lamps |-> SubSeq(data, 1, 6), deprecation |-> data[7], upstream |-> data[8] % 16,
     downstream |-> data[8] \div 16, dark_switching |-> data[9]]

\* scils_parse_signal_aspect_status_payload leaves three fields as they were.
ParseSignalAspectStatus(data) ==
    [lamps |-> SubSeq(data, 1, 6), deprecation |-> Unset, upstream |-> Unset,
     downstream |-> Unset, dark_switching |-> data[7]]

\* What the handlers of the types both protocols have pass to the notification.
CommonValue(t, data) ==
    CASE t = VersionRequest -> data[1]
      [] t = VersionResponse -> [result |-> data[1], version |-> data[2], checksum |-> data[4]]
      [] OTHER -> NoValue

\* What the handler of the type passes to its notification in SCI-P and in SCI-LS.
ScipValue(t, data) ==
    CASE t \in CommonTypes -> CommonValue(t, data)
      [] t = Timeout -> NoValue
      [] OTHER -> data[1]

ScilsValue(t, data) ==
    CASE t \in CommonTypes -> CommonValue(t, data)
      [] t = ShowSignalAspect -> ParseShowSignalAspect(data)
      [] t = SignalAspectStatus -> ParseSignalAspectStatus(data)
      [] OTHER -> data[1]

\* A handler stops at a payload that does not parse.
Parses(message) ==
    MessageType(message) = VersionResponse => VersionResponseParses(message)

\* The notification that the switch of scip_on_rasta_receive or scils_on_rasta_receive
\* reaches, <<>> if none: handled is the set of types whose pointer is not NULL.
ScipNotice(message, handled) ==
    LET t == MessageType(message)
    IN  IF t \in ScipTypes \intersect handled /\ Parses(message)
        THEN <<message.sender, t, ScipValue(t, message.data)>>
        ELSE <<>>

ScilsNotice(message, handled) ==
    LET t == MessageType(message)
    IN  IF t \in ScilsTypes \intersect handled /\ Parses(message)
        THEN <<message.sender, t, ScilsValue(t, message.data)>>
        ELSE <<>>
=============================================================================
