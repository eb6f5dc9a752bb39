------------------------------- MODULE SciProofs -------------------------------
(***************************************************************************)
(* The SCI layer: names are found, telegrams go where their receiver is    *)
(* and are heard as they were sent, for every number of instances, names,  *)
(* hash function, length of the queues and number of telegrams under way.  *)
(***************************************************************************)
EXTENDS Sci, AlgorithmProofs

(***************************************************************************)
(* The constants.                                                          *)
(***************************************************************************)
CallsOf(p) == IF p = ProtocolP THEN ScipCalls ELSE ScilsCalls

IsCall(p, call) ==
  \E t \in TypesOf(p) : \E v \in Arguments(p, t) : call = [type |-> t, value |-> v]

LEMMA CallsAreCalls ==
  ASSUME NEW p \in {ProtocolP, ProtocolLS}, NEW call \in CallsOf(p)
  PROVE  IsCall(p, call)
<1>1. ProtocolP # ProtocolLS
  BY DEF ProtocolP, ProtocolLS
<1>2. CASE p = ProtocolP
  <2>1. PICK t \in ScipTypes : call \in {[type |-> t, value |-> v] : v \in Values(ProtocolP, t)}
    BY <1>2 DEF CallsOf, ScipCalls
  <2>2. PICK v \in Values(ProtocolP, t) : call = [type |-> t, value |-> v]
    BY <2>1
  <2>3. t \in TypesOf(p)
    BY <1>2 DEF TypesOf
  <2>4. v \in Arguments(p, t)
    BY <1>2, <2>2, <2>3, ValuesAssumption
  <2> QED
    BY <2>2, <2>3, <2>4 DEF IsCall
<1>3. CASE p = ProtocolLS
  <2>1. PICK t \in ScilsTypes : call \in {[type |-> t, value |-> v] : v \in Values(ProtocolLS, t)}
    BY <1>1, <1>3 DEF CallsOf, ScilsCalls
  <2>2. PICK v \in Values(ProtocolLS, t) : call = [type |-> t, value |-> v]
    BY <2>1
  <2>3. t \in TypesOf(p)
    BY <1>1, <1>3 DEF TypesOf
  <2>4. v \in Arguments(p, t)
    BY <1>3, <2>2, <2>3, ValuesAssumption
  <2> QED
    BY <2>2, <2>3, <2>4 DEF IsCall
<1> QED
  BY <1>2, <1>3

(***************************************************************************)
(* The message type survives the wire, and the length tells the payload.   *)
(***************************************************************************)
LEMMA TypesOnTheWire ==
  ASSUME NEW t \in Nat, t < 65536
  PROVE  BytesToShort(ShortToBytes(t)) = t
<1>1. PICK q \in Nat : q = t \div 256
  OBVIOUS
<1>2. PICK r \in Nat : r = t % 256
  OBVIOUS
<1>3. t = 256 * q + r /\ q < 256
  BY <1>1, <1>2
<1>4. q % 256 = q
  BY <1>3
<1>5. ShortToBytes(t) = <<r, q>>
  BY <1>1, <1>2, <1>4 DEF ShortToBytes
<1>6. <<r, q>>[1] = r /\ <<r, q>>[2] = q
  OBVIOUS
<1>7. BytesToShort(ShortToBytes(t)) = q * 256 + r
  BY <1>5, <1>6 DEF BytesToShort
<1> QED
  BY <1>3, <1>7

PayloadOf(p, call) == IF p = ProtocolP THEN ScipPayload(call) ELSE ScilsPayload(call)

LEMMA EncodeFacts ==
  ASSUME NEW p, NEW s, NEW r, NEW call
  PROVE  LET m == Encode(p, s, r, call)
         IN  /\ m.protocol = p /\ m.sender = s /\ m.receiver = r
             /\ m.message_type = ShortToBytes(call.type)
             /\ m.data = PayloadOf(p, call).data
             /\ m.length = LengthWithoutPayload + PayloadOf(p, call).used
BY DEF Encode, PayloadOf

(***************************************************************************)
(* The two payloads that are more than a byte or two: the lamps before the *)
(* rest, and two driveways in one byte.                                    *)
(***************************************************************************)
LEMMA HeadAndRest ==
  ASSUME NEW B, NEW first \in Seq(B), NEW n \in Nat, n = Len(first), NEW rest \in Seq(B)
  PROVE  LET data == first \o rest
         IN  /\ SubSeq(data, 1, n) = first
             /\ \A k \in 1 .. Len(rest) : data[n + k] = rest[k]
<1>1. PICK data : data = first \o rest
  OBVIOUS
<1>2. data \in Seq(B) /\ Len(data) = n + Len(rest)
  BY <1>1, ConcatFacts
<1>3. \A k \in 1 .. n : data[k] = first[k]
  BY <1>1, ConcatFacts
<1>4. \A k \in 1 .. Len(rest) : data[n + k] = rest[k]
  BY <1>1, ConcatFacts
<1>5. SubSeq(data, 1, n) = first
  <2>1. SubSeq(data, 1, n) = [k \in 1 .. n |-> data[k]]
    BY <1>2
  <2>2. first = [k \in 1 .. n |-> first[k]]
    OBVIOUS
  <2> QED
    BY <1>3, <2>1, <2>2
<1> QED
  BY <1>1, <1>4, <1>5

LEMMA LampsFirst ==
  ASSUME NEW lamps \in [1 .. 6 -> Byte], NEW rest \in Seq(Byte)
  PROVE  LET data == lamps \o rest
         IN  /\ SubSeq(data, 1, 6) = lamps
             /\ \A k \in 1 .. Len(rest) : data[6 + k] = rest[k]
<1>1. PICK n \in Nat : n = 6
  OBVIOUS
<1>2. lamps \in Seq(Byte) /\ n = Len(lamps)
  <2>1. PICK B : B = Byte
    OBVIOUS
  <2>2. lamps = [k \in 1 .. n |-> lamps[k]] /\ \A k \in 1 .. n : lamps[k] \in B
    BY <1>1, <2>1
  <2>3. \A f : f = [k \in 1 .. n |-> lamps[k]] => f \in Seq(B) /\ Len(f) = n
    BY <2>2
  <2> QED
    BY <2>1, <2>2, <2>3
<1>3. PICK data : data = lamps \o rest
  OBVIOUS
<1>4. /\ SubSeq(data, 1, n) = lamps
      /\ \A k \in 1 .. Len(rest) : data[n + k] = rest[k]
  BY <1>2, <1>3, HeadAndRest
<1> QED
  BY <1>1, <1>3, <1>4, Zenon

LEMMA DrivewaysInAByte ==
  ASSUME NEW lo \in 0 .. 15, NEW hi \in 0 .. 15
  PROVE  LET b == ((hi * 16) % 256) + lo
         IN  b \in Byte /\ b % 16 = lo /\ b \div 16 = hi
<1>1. (hi * 16) % 256 = hi * 16
  <2>1. PICK x \in Nat : x = hi * 16 /\ x < 256
    OBVIOUS
  <2>2. x % 256 = x
    BY <2>1
  <2> QED
    BY <2>1, <2>2
<1>2. PICK b \in Nat : b = hi * 16 + lo
  OBVIOUS
<1>3. b < 256 /\ b % 16 = lo /\ b \div 16 = hi
  BY <1>2
<1>4. b = ((hi * 16) % 256) + lo
  BY <1>1, <1>2
<1>5. b \in Byte
  BY <1>3 DEF Byte
<1> HIDE <1>1
<1> QED
  BY <1>3, <1>4, <1>5, Zenon

LEMMA AspectShown ==
  ASSUME NEW a \in SignalAspects
  PROVE  ParseShowSignalAspect(ShowSignalAspectPayload(a).data) = a
<1>1. /\ a.lamps \in [1 .. 6 -> Byte] /\ a.deprecation \in Byte /\ a.upstream \in 0 .. 15
      /\ a.downstream \in 0 .. 15 /\ a.dark_switching \in Byte
      /\ a = [lamps |-> a.lamps, deprecation |-> a.deprecation, upstream |-> a.upstream,
              downstream |-> a.downstream, dark_switching |-> a.dark_switching]
  BY DEF SignalAspects
<1>2. PICK b : b = ((a.downstream * 16) % 256) + a.upstream
  OBVIOUS
<1>3. b \in Byte /\ b % 16 = a.upstream /\ b \div 16 = a.downstream
  BY <1>1, <1>2, DrivewaysInAByte
<1>4. PICK rest : rest = <<a.deprecation, b, a.dark_switching>>
  OBVIOUS
<1>5. rest \in Seq(Byte) /\ Len(rest) = 3
  <2>1. PICK B : B = Byte
    OBVIOUS
  <2>2. a.deprecation \in B /\ b \in B /\ a.dark_switching \in B
    BY <1>1, <1>3, <2>1
  <2>3. rest \in Seq(B) /\ Len(rest) = 3
    BY <1>4, <2>2
  <2> QED
    BY <2>1, <2>3
<1>6. PICK data : data = a.lamps \o rest
  OBVIOUS
<1>7. /\ SubSeq(data, 1, 6) = a.lamps
      /\ data[6 + 1] = rest[1] /\ data[6 + 2] = rest[2] /\ data[6 + 3] = rest[3]
  <2>1. 1 \in 1 .. Len(rest) /\ 2 \in 1 .. Len(rest) /\ 3 \in 1 .. Len(rest)
    BY <1>5
  <2> QED
    BY <1>1, <1>5, <1>6, <2>1, LampsFirst
<1>8. /\ data[7] = a.deprecation /\ data[8] = b /\ data[9] = a.dark_switching
  <2>1. 6 + 1 = 7 /\ 6 + 2 = 8 /\ 6 + 3 = 9
    OBVIOUS
  <2>2. rest[1] = a.deprecation /\ rest[2] = b /\ rest[3] = a.dark_switching
    BY <1>4
  <2> QED
    BY <1>7, <2>1, <2>2
<1>9. ShowSignalAspectPayload(a).data = data
  BY <1>2, <1>4, <1>6 DEF ShowSignalAspectPayload
<1>10. ParseShowSignalAspect(data) =
         [lamps |-> a.lamps, deprecation |-> a.deprecation, upstream |-> a.upstream,
          downstream |-> a.downstream, dark_switching |-> a.dark_switching]
  BY <1>3, <1>7, <1>8 DEF ParseShowSignalAspect
<1> QED
  BY <1>1, <1>9, <1>10

LEMMA AspectReported ==
  ASSUME NEW a \in SignalAspects
  PROVE  ParseSignalAspectStatus(SignalAspectStatusPayload(a).data) =
           [a EXCEPT !.deprecation = Unset, !.upstream = Unset, !.downstream = Unset]
<1>1. /\ a.lamps \in [1 .. 6 -> Byte] /\ a.dark_switching \in Byte
      /\ a = [lamps |-> a.lamps, deprecation |-> a.deprecation, upstream |-> a.upstream,
              downstream |-> a.downstream, dark_switching |-> a.dark_switching]
  BY DEF SignalAspects
<1>2. PICK rest : rest = <<a.dark_switching>>
  OBVIOUS
<1>3. rest \in Seq(Byte) /\ Len(rest) = 1 /\ rest[1] = a.dark_switching
  <2>1. PICK B : B = Byte
    OBVIOUS
  <2>2. rest \in Seq(B) /\ Len(rest) = 1 /\ rest[1] = a.dark_switching
    BY <1>1, <1>2, <2>1
  <2> QED
    BY <2>1, <2>2
<1>4. PICK data : data = a.lamps \o rest
  OBVIOUS
<1>5. SubSeq(data, 1, 6) = a.lamps /\ data[6 + 1] = a.dark_switching
  <2>1. 1 \in 1 .. Len(rest)
    BY <1>3
  <2> QED
    BY <1>1, <1>3, <1>4, <2>1, LampsFirst
<1>6. SignalAspectStatusPayload(a).data = data
  BY <1>2, <1>4 DEF SignalAspectStatusPayload
<1>7. ParseSignalAspectStatus(data) =
        [lamps |-> a.lamps, deprecation |-> Unset, upstream |-> Unset, downstream |-> Unset,
         dark_switching |-> a.dark_switching]
  <2>1. data[7] = a.dark_switching
    BY <1>5
  <2> QED
    BY <1>5, <2>1 DEF ParseSignalAspectStatus
<1>8. [a EXCEPT !.deprecation = Unset, !.upstream = Unset, !.downstream = Unset] =
        [lamps |-> a.lamps, deprecation |-> Unset, upstream |-> Unset, downstream |-> Unset,
         dark_switching |-> a.dark_switching]
  <2>1. PICK b : b = [a EXCEPT !.deprecation = Unset]
    OBVIOUS
  <2>2. b = [lamps |-> a.lamps, deprecation |-> Unset, upstream |-> a.upstream,
             downstream |-> a.downstream, dark_switching |-> a.dark_switching]
    BY <1>1, <2>1
  <2>3. PICK c : c = [b EXCEPT !.upstream = Unset]
    OBVIOUS
  <2>4. c = [lamps |-> a.lamps, deprecation |-> Unset, upstream |-> Unset,
             downstream |-> a.downstream, dark_switching |-> a.dark_switching]
    BY <2>2, <2>3
  <2>5. [c EXCEPT !.downstream = Unset] =
          [lamps |-> a.lamps, deprecation |-> Unset, upstream |-> Unset,
           downstream |-> Unset, dark_switching |-> a.dark_switching]
    BY <2>4
  <2> QED
    BY <2>1, <2>3, <2>5
<1> QED
  BY <1>6, <1>7, <1>8

(***************************************************************************)
(* What a payload says: its value comes out of it, and only a version      *)
(* response can be too long or too short.                                  *)
(***************************************************************************)
ValueOf(p, t, data) == IF p = ProtocolP THEN ScipValue(t, data) ELSE ScilsValue(t, data)

LEMMA AspectPayloads ==
  ASSUME NEW call
  PROVE  /\ call.type = ShowSignalAspect =>
              /\ PayloadOf(ProtocolLS, call) = ShowSignalAspectPayload(call.value)
              /\ Carried(ProtocolLS, call) = call.value
         /\ call.type = SignalAspectStatus =>
              /\ PayloadOf(ProtocolLS, call) = SignalAspectStatusPayload(call.value)
              /\ Carried(ProtocolLS, call) = [call.value EXCEPT
                   !.deprecation = Unset, !.upstream = Unset, !.downstream = Unset]
         /\ \A data :
              /\ ValueOf(ProtocolLS, ShowSignalAspect, data) = ParseShowSignalAspect(data)
              /\ ValueOf(ProtocolLS, SignalAspectStatus, data) = ParseSignalAspectStatus(data)
<1>1. /\ ProtocolP # ProtocolLS
      /\ ShowSignalAspect \notin CommonTypes /\ SignalAspectStatus \notin CommonTypes
      /\ ShowSignalAspect # SignalAspectStatus
  BY DEF ProtocolP, ProtocolLS, CommonTypes, VersionRequest, VersionResponse, StatusRequest,
         StatusBegin, StatusFinish, ShowSignalAspect, SignalAspectStatus
<1>2. \A data :
        /\ ValueOf(ProtocolLS, ShowSignalAspect, data) = ParseShowSignalAspect(data)
        /\ ValueOf(ProtocolLS, SignalAspectStatus, data) = ParseSignalAspectStatus(data)
  BY <1>1 DEF ValueOf, ScilsValue
<1>3. ASSUME call.type = ShowSignalAspect
      PROVE  /\ PayloadOf(ProtocolLS, call) = ShowSignalAspectPayload(call.value)
             /\ Carried(ProtocolLS, call) = call.value
  BY <1>1, <1>3 DEF PayloadOf, ScilsPayload, Carried
<1>4. ASSUME call.type = SignalAspectStatus
      PROVE  /\ PayloadOf(ProtocolLS, call) = SignalAspectStatusPayload(call.value)
             /\ Carried(ProtocolLS, call) = [call.value EXCEPT
                  !.deprecation = Unset, !.upstream = Unset, !.downstream = Unset]
  BY <1>1, <1>4 DEF PayloadOf, ScilsPayload, Carried
<1> QED
  BY <1>2, <1>3, <1>4

LEMMA PayloadFacts ==
  ASSUME NEW p \in {ProtocolP, ProtocolLS}, NEW t \in TypesOf(p), NEW v \in Arguments(p, t),
         NEW call, call = [type |-> t, value |-> v]
  PROVE  LET payload == PayloadOf(p, call)
         IN  /\ ValueOf(p, t, payload.data) = Carried(p, call)
             /\ t # VersionResponse => payload.used \in 0 .. 9
             /\ t = VersionResponse =>
                  /\ v.checksum \in 0 .. 85
                  /\ payload.used = v.checksum + 3
                  /\ payload.data[3] = v.checksum
<1>1. call.type = t /\ call.value = v
  OBVIOUS
<1>2. PICK payload : payload = PayloadOf(p, call)
  OBVIOUS
<1>7. CASE p = ProtocolLS /\ t = ShowSignalAspect
  <2>1. v \in SignalAspects /\ t # VersionResponse
    BY <1>7 DEF Arguments, ProtocolP, ProtocolLS, VersionResponse, StatusRequest, StatusBegin,
                StatusFinish, ShowSignalAspect
  <2>2. payload = ShowSignalAspectPayload(v) /\ Carried(p, call) = v
    BY <1>1, <1>2, <1>7, AspectPayloads
  <2>3. payload.used = 9
    BY <2>2 DEF ShowSignalAspectPayload
  <2>4. ValueOf(p, t, payload.data) = v
    BY <1>7, <2>1, <2>2, AspectPayloads, AspectShown
  <2> QED
    BY <1>2, <2>1, <2>2, <2>3, <2>4
<1>8. CASE p = ProtocolLS /\ t = SignalAspectStatus
  <2>1. v \in SignalAspects /\ t # VersionResponse
    BY <1>8 DEF Arguments, ProtocolP, ProtocolLS, VersionResponse, StatusRequest, StatusBegin,
                StatusFinish, SignalAspectStatus
  <2>2. PICK seen : seen = [v EXCEPT !.deprecation = Unset, !.upstream = Unset,
                                     !.downstream = Unset]
    OBVIOUS
  <2>3. payload = SignalAspectStatusPayload(v) /\ Carried(p, call) = seen
    BY <1>1, <1>2, <1>8, <2>2, AspectPayloads
  <2>4. payload.used = 7
    BY <2>3 DEF SignalAspectStatusPayload
  <2>5. ValueOf(p, t, payload.data) = seen
    <3>1. ValueOf(p, t, payload.data) = ParseSignalAspectStatus(payload.data)
      BY <1>8, AspectPayloads
    <3> QED
      BY <2>1, <2>2, <2>3, <3>1, AspectReported
  <2> QED
    BY <1>2, <2>1, <2>3, <2>4, <2>5
<1> USE <1>1, <1>2 DEF PayloadOf, ValueOf, Carried, ScipPayload, ScilsPayload, CommonPayload,
        ScipValue, ScilsValue, CommonValue, CommonTypes, ProtocolP, ProtocolLS,
        VersionRequest, VersionResponse, StatusRequest, StatusBegin, StatusFinish,
        ChangeLocation, LocationStatus, Timeout, ShowSignalAspect, ChangeBrightness,
        SignalAspectStatus, BrightnessStatus
<1>3. CASE t = VersionRequest
  <2>1. payload = OneByte(v)
    BY <1>3
  <2>2. payload.data[1] = v /\ payload.used = 1
    BY <2>1 DEF OneByte
  <2>3. ValueOf(p, t, payload.data) = v /\ Carried(p, call) = v
    BY <1>3, <2>2
  <2> QED
    BY <1>3, <2>2, <2>3
<1>4. CASE t = VersionResponse
  <2>1. v \in VersionResponses
    BY <1>4 DEF Arguments
  <2>2. v = [result |-> v.result, version |-> v.version, checksum |-> v.checksum]
        /\ v.checksum \in 0 .. 85
    BY <2>1 DEF VersionResponses, PayloadCapacity
  <2>3. payload = VersionResponsePayload(v)
    BY <1>4
  <2>4. /\ payload.data[1] = v.result /\ payload.data[2] = v.version
        /\ payload.data[3] = v.checksum /\ payload.data[4] = v.checksum
        /\ payload.used = v.checksum + 3
    BY <2>3 DEF VersionResponsePayload
  <2>5. ValueOf(p, t, payload.data) = [result |-> v.result, version |-> v.version,
                                       checksum |-> v.checksum]
    BY <1>4, <2>4
  <2>6. Carried(p, call) = v
    BY <1>4
  <2> QED
    BY <1>4, <2>2, <2>4, <2>5, <2>6
<1>5. CASE t \in {StatusRequest, StatusBegin, StatusFinish}
  <2>1. v = NoValue
    BY <1>5 DEF Arguments
  <2>2. payload = NoPayload
    BY <1>5
  <2>3. payload.used = 0
    BY <2>2 DEF NoPayload
  <2>4. ValueOf(p, t, payload.data) = NoValue /\ Carried(p, call) = v
    BY <1>5
  <2> QED
    BY <1>5, <2>1, <2>3, <2>4
<1>6. CASE p = ProtocolP /\ t = Timeout
  <2>1. v = NoValue
    BY <1>6 DEF Arguments
  <2>2. payload.used = 0
    BY <1>6 DEF NoPayload
  <2>3. ValueOf(p, t, payload.data) = NoValue /\ Carried(p, call) = v
    BY <1>6
  <2> QED
    BY <1>6, <2>1, <2>2, <2>3
<1>9. CASE \/ p = ProtocolP /\ t \in {ChangeLocation, LocationStatus}
           \/ p = ProtocolLS /\ t \in {ChangeBrightness, BrightnessStatus}
  <2>1. payload = OneByte(v)
    BY <1>9
  <2>2. payload.data[1] = v /\ payload.used = 1
    BY <2>1 DEF OneByte
  <2>3. ValueOf(p, t, payload.data) = payload.data[1]
    BY <1>9
  <2>4. Carried(p, call) = v
    BY <1>9
  <2> QED
    BY <1>9, <2>2, <2>3, <2>4
<1>10. t \in ScipTypes \/ p = ProtocolLS
  BY DEF TypesOf
<1>11. t \in ScilsTypes \/ p = ProtocolP
  BY DEF TypesOf
<1> QED
  BY <1>3, <1>4, <1>5, <1>6, <1>7, <1>8, <1>9, <1>10, <1>11 DEF ScipTypes, ScilsTypes

(***************************************************************************)
(* The notification a telegram leads to at an instance that speaks p: that *)
(* of its type with its value, if the other speaks p too and the telegram  *)
(* can arrive.                                                             *)
(***************************************************************************)
Mine(p, message) == Decodes(message) /\ message.protocol = p

Notice(p, message, handled) ==
  CASE ~Mine(p, message) -> <<>>
    [] Mine(p, message) /\ p = ProtocolP -> ScipNotice(message, handled)
    [] Mine(p, message) /\ p # ProtocolP -> ScilsNotice(message, handled)

LEMMA TypeNumbers ==
  /\ ProtocolP # ProtocolLS
  /\ \A p : \A t \in TypesOf(p) : t \in Nat /\ t < 65536
BY DEF TypesOf, ProtocolP, ProtocolLS, CommonTypes, ScipTypes, ScilsTypes, VersionRequest,
       VersionResponse, StatusRequest, StatusBegin, StatusFinish, ChangeLocation,
       LocationStatus, Timeout, ShowSignalAspect, ChangeBrightness, SignalAspectStatus,
       BrightnessStatus

LEMMA TelegramHeard ==
  ASSUME NEW p \in {ProtocolP, ProtocolLS}, NEW q \in {ProtocolP, ProtocolLS},
         NEW call, IsCall(q, call), NEW sender, NEW receiver, NEW handled
  PROVE  Notice(p, Encode(q, sender, receiver, call), handled) =
           IF p = q /\ call.type \in handled /\ Arrives(call)
           THEN <<sender, call.type, Carried(q, call)>>
           ELSE <<>>
<1>1. PICK t \in TypesOf(q) : \E v \in Arguments(q, t) : call = [type |-> t, value |-> v]
  BY DEF IsCall
<1>2. PICK v \in Arguments(q, t) : call = [type |-> t, value |-> v]
  BY <1>1
<1>3. call.type = t /\ call.value = v
  BY <1>2
<1>4. PICK payload : payload = PayloadOf(q, call)
  OBVIOUS
<1>5. /\ ValueOf(q, t, payload.data) = Carried(q, call)
      /\ t # VersionResponse => payload.used \in 0 .. 9
      /\ t = VersionResponse => /\ v.checksum \in 0 .. 85
                                /\ payload.used = v.checksum + 3
                                /\ payload.data[3] = v.checksum
  BY <1>2, <1>4, PayloadFacts
<1>6. PICK m : m = Encode(q, sender, receiver, call)
  OBVIOUS
<1>7. /\ m.protocol = q /\ m.sender = sender
      /\ m.message_type = ShortToBytes(t)
      /\ m.data = payload.data /\ m.length = 43 + payload.used
  BY <1>3, <1>4, <1>6, EncodeFacts DEF LengthWithoutPayload
<1>8. MessageType(m) = t
  <2>1. t \in Nat /\ t < 65536
    BY TypeNumbers
  <2>2. BytesToShort(ShortToBytes(t)) = t
    BY <2>1, TypesOnTheWire
  <2>3. MessageType(m) = BytesToShort(m.message_type)
    BY DEF MessageType
  <2> QED
    BY <1>7, <2>2, <2>3
<1>9. PICK used : used = payload.used
  OBVIOUS
<1>10. used \in Nat
  <2>1. CASE t = VersionResponse
    <3>1. PICK c \in 0 .. 85 : c = v.checksum
      BY <1>5, <2>1
    <3> QED
      BY <1>5, <1>9, <2>1, <3>1
  <2>2. CASE t # VersionResponse
    BY <1>5, <1>9, <2>2
  <2> QED
    BY <2>1, <2>2
<1>11. UsedBytes(m) = used
  BY <1>7, <1>9, <1>10 DEF UsedBytes, LengthWithoutPayload
<1>12. Decodes(m) <=> used <= 85
  BY <1>7, <1>9, <1>10 DEF Decodes, LengthWithoutPayload, MaxTelegramLength
<1>13. Decodes(m) /\ Parses(m) <=> Arrives(call)
  <2>1. CASE t = VersionResponse
    <3>1. PICK c \in 0 .. 85 : c = v.checksum /\ used = c + 3 /\ m.data[3] = c
      BY <1>5, <1>7, <1>9, <2>1
    <3>2. Arrives(call) <=> c \in 1 .. 82
      BY <1>3, <2>1, <3>1 DEF Arrives, MaxTelegramLength, LengthWithoutPayload
    <3>3. Parses(m) <=> VersionResponseParses(m)
      BY <1>8, <2>1 DEF Parses
    <3>4. VersionResponseParses(m) <=> c + 3 \in 4 .. 128
      BY <1>11, <3>1 DEF VersionResponseParses
    <3> QED
      BY <1>12, <3>1, <3>2, <3>3, <3>4
  <2>2. CASE t # VersionResponse
    <3>1. Arrives(call) /\ Parses(m)
      BY <1>3, <1>8, <2>2 DEF Arrives, Parses
    <3>2. Decodes(m)
      BY <1>5, <1>9, <1>12, <2>2
    <3> QED
      BY <3>1, <3>2
  <2> QED
    BY <2>1, <2>2
<1>14. CASE p # q
  <2>1. ~Mine(p, m)
    BY <1>7, <1>14 DEF Mine
  <2>2. Notice(p, m, handled) = <<>>
    BY <2>1 DEF Notice
  <2> QED
    BY <1>6, <1>14, <2>2
<1>15. CASE p = q
  <2>1. CASE ~Decodes(m)
    <3>1. ~Mine(p, m) /\ ~Arrives(call)
      BY <1>13, <2>1 DEF Mine
    <3>2. Notice(p, m, handled) = <<>>
      BY <3>1 DEF Notice
    <3> QED
      BY <1>6, <3>1, <3>2
  <2>2. CASE Decodes(m)
    <3>1. Mine(p, m)
      BY <1>7, <1>15, <2>2 DEF Mine
    <3>2. Parses(m) <=> Arrives(call)
      BY <1>13, <2>2
    <3>3. CASE p = ProtocolP
      <4>1. Notice(p, m, handled) = ScipNotice(m, handled)
        BY <3>1, <3>3 DEF Notice
      <4>2. ScipValue(t, m.data) = Carried(q, call) /\ t \in ScipTypes
        BY <1>5, <1>7, <1>15, <3>3 DEF ValueOf, TypesOf
      <4> QED
        BY <1>3, <1>6, <1>7, <1>8, <1>15, <3>2, <4>1, <4>2 DEF ScipNotice
    <3>4. CASE p = ProtocolLS
      <4>1. Notice(p, m, handled) = ScilsNotice(m, handled)
        BY <3>1, <3>4, TypeNumbers DEF Notice
      <4>2. ScilsValue(t, m.data) = Carried(q, call) /\ t \in ScilsTypes
        <5>1. q = ProtocolLS /\ q # ProtocolP
          BY <1>15, <3>4, TypeNumbers
        <5>2. ValueOf(q, t, m.data) = ScilsValue(t, m.data) /\ TypesOf(q) = ScilsTypes
          BY <5>1 DEF ValueOf, TypesOf
        <5> QED
          BY <1>5, <1>7, <5>2
      <4> QED
        BY <1>3, <1>6, <1>7, <1>8, <1>15, <3>2, <4>1, <4>2 DEF ScilsNotice
    <3> QED
      BY <3>3, <3>4
  <2> QED
    BY <2>1, <2>2
<1> QED
  BY <1>14, <1>15

(***************************************************************************)
(* A map of names and what its instance was told: every name is found with *)
(* the id it was first told for, which is the id of the name.              *)
(***************************************************************************)
NamesOK(m, t) ==
  /\ Sound(m, Id)
  /\ t \in [Key -> Id \cup {MapMissing}]
  /\ \A n \in Key : IF t[n] = MapMissing
                    THEN ~HasKey(m, n)
                    ELSE Maps(m, n, t[n]) /\ NameOf[t[n]] = n

LEMMA Ids ==
  /\ MapMissing \notin Id
  /\ \A i \in Id : NameOf[i] \in Key
  /\ IsFiniteSet(Key)
<1>1. Id \subseteq Nat /\ NameOf \in [Id -> Key] /\ IsFiniteSet(Key)
  BY SciAssumption
<1>2. MapMissing \notin Nat
  BY DEF MapMissing
<1> QED
  BY <1>1, <1>2

LEMMA NamesAreFound ==
  ASSUME NEW m, NEW t, NamesOK(m, t), NEW n \in Key
  PROVE  /\ Get(m, n) = t[n]
         /\ t[n] \in Id \cup {MapMissing}
         /\ t[n] # MapMissing => t[n] \in Id /\ NameOf[t[n]] = n
<1>1. t[n] \in Id \cup {MapMissing}
  BY DEF NamesOK
<1>2. CASE t[n] = MapMissing
  BY <1>1, <1>2, GetFacts DEF NamesOK
<1>3. CASE t[n] # MapMissing
  BY <1>1, <1>3, GetFacts DEF NamesOK
<1> QED
  BY <1>1, <1>2, <1>3

LEMMA RegisteringKeeps ==
  ASSUME NEW m, NEW t, NamesOK(m, t), NEW id \in Id, NEW n, n = NameOf[id],
         Registers(m, n, id)
  PROVE  NamesOK(Registered(m, n, id), ToldFirst(t, n, id))
<1>1. n \in Key
  BY Ids
<1>2. Get(m, n) = t[n]
  BY <1>1, NamesAreFound
<1>3. CASE t[n] # MapMissing
  BY <1>2, <1>3 DEF Registered, ToldFirst
<1>4. CASE t[n] = MapMissing
  <2>1. PICK w : w = Put(m, n, id)
    OBVIOUS
  <2>2. PICK u : u = [t EXCEPT ![n] = id]
    OBVIOUS
  <2>3. Registered(m, n, id) = w /\ ToldFirst(t, n, id) = u
    BY <1>2, <1>4, <2>1, <2>2 DEF Registered, ToldFirst
  <2>4. Sound(m, Id) /\ ~HasKey(m, n) /\ PutReturns(m, n, id)
    BY <1>1, <1>2, <1>4 DEF NamesOK, Registers
  <2>5. Sound(w, Id) /\ \A k, d : Maps(w, k, d) <=> Maps(m, k, d) \/ (k = n /\ d = id)
    BY <1>1, <2>1, <2>4, PutFacts
  <2>6. /\ u \in [Key -> Id \cup {MapMissing}]
        /\ u[n] = id /\ \A k \in Key : k # n => u[k] = t[k]
    BY <1>1, <2>2 DEF NamesOK
  <2>7. ASSUME NEW k \in Key
        PROVE  IF u[k] = MapMissing THEN ~HasKey(w, k) ELSE Maps(w, k, u[k]) /\ NameOf[u[k]] = k
    <3>1. CASE k = n
      BY <2>5, <2>6, <3>1, Ids
    <3>2. CASE k # n
      <4>1. HasKey(w, k) <=> \E d : Maps(w, k, d)
        BY DEF HasKey, Maps
      <4>2. HasKey(m, k) <=> \E d : Maps(m, k, d)
        BY DEF HasKey, Maps
      <4>3. \A d : Maps(w, k, d) <=> Maps(m, k, d)
        BY <2>5, <3>2
      <4> QED
        BY <2>6, <3>2, <4>1, <4>2, <4>3 DEF NamesOK
    <3> QED
      BY <3>1, <3>2
  <2>8. NamesOK(w, u)
    BY <2>5, <2>6, <2>7 DEF NamesOK
  <2> QED
    BY <2>3, <2>8
<1> QED
  BY <1>3, <1>4

\* There are no more elements than keys.
LEMMA SizeBound ==
  ASSUME NEW D, NEW m, Sound(m, D)
  PROVE  m.size \in 0 .. Cardinality(Key)
<1>1. PICK n \in Nat : SoundArray(m, n, D)
  BY DEF Sound
<1>2. m \in Arrays(n, D)
  BY <1>1 DEF SoundArray
<1>3. PICK U : U = InUse(m)
  OBVIOUS
<1>4. PICK f : f = [s \in U |-> m.slots[s].key]
  OBVIOUS
<1>5. \A s \in U : m.slots[s].key \in Key
  BY <1>2, <1>3, ArrayFacts
<1>6. f \in [U -> Key] /\ \A s, t \in U : f[s] = f[t] => s = t
  BY <1>1, <1>3, <1>4, <1>5 DEF SoundArray
<1>7. f \in Injection(U, Key)
  BY <1>6 DEF Injection, IsInjective
<1>8. IsFiniteSet(U) /\ IsFiniteSet(Key)
  BY <1>2, <1>3, ArrayFacts, Ids
<1>9. Cardinality(U) <= Cardinality(Key)
  BY <1>7, <1>8, FS_Injection
<1>10. m.size = Cardinality(U) /\ Cardinality(U) \in Nat /\ Cardinality(Key) \in Nat
  BY <1>1, <1>3, <1>8, FS_CardinalityType DEF SoundArray
<1> QED
  BY <1>9, <1>10

(***************************************************************************)
(* Variables with a place for each pair of instances.                      *)
(***************************************************************************)
IsGrid(g) == g = [i \in Live |-> [j \in Live |-> g[i][j]]]

With(g, i, j, v) == [g EXCEPT ![i][j] = v]

LEMMA GridExcept ==
  ASSUME NEW g, IsGrid(g), NEW i \in Live, NEW j \in Live, NEW v,
         NEW h, h = With(g, i, j, v)
  PROVE  /\ IsGrid(h)
         /\ h[i][j] = v
         /\ \A a, b \in Live : a # i \/ b # j => h[a][b] = g[a][b]
<1>1. DOMAIN g = Live /\ \A a \in Live : DOMAIN g[a] = Live /\ g[a] = [b \in Live |-> g[a][b]]
  BY DEF IsGrid
<1>2. PICK row : row = [g[i] EXCEPT ![j] = v]
  OBVIOUS
<1>3. /\ DOMAIN row = Live /\ row = [b \in Live |-> row[b]]
      /\ row[j] = v /\ \A b \in Live : b # j => row[b] = g[i][b]
  BY <1>1, <1>2
<1>4. h = [g EXCEPT ![i] = row]
  BY <1>2 DEF With
<1>5. DOMAIN h = Live /\ h[i] = row /\ \A a \in Live : a # i => h[a] = g[a]
  BY <1>1, <1>4
<1>6. h = [a \in Live |-> h[a]]
  BY <1>1, <1>4
<1>7. \A a \in Live : h[a] = [b \in Live |-> h[a][b]]
  BY <1>1, <1>3, <1>5
<1>8. IsGrid(h)
  BY <1>6, <1>7 DEF IsGrid
<1> QED
  BY <1>3, <1>5, <1>8

LEMMA EmptyGrid ==
  /\ IsGrid(Empty)
  /\ \A i, j \in Live : Empty[i][j] = <<>>
BY DEF IsGrid, Empty

NoItems == <<>>

ClearedFrom(c, g) ==
  /\ IsGrid(c)
  /\ \A a, b \in Live : c[a][b] = NoItems \/ c[a][b] = g[a][b]

LEMMA ClearedGrid ==
  ASSUME NEW g, IsGrid(g), NEW i \in Live, NEW j \in Live
  PROVE  ClearedFrom(Cleared(g, i, j), g)
<1> DEFINE c == Cleared(g, i, j)
<1>1. PICK h : h = With(g, i, j, NoItems)
  OBVIOUS
<1>2. /\ IsGrid(h) /\ h[i][j] = NoItems
      /\ \A a, b \in Live : a # i \/ b # j => h[a][b] = g[a][b]
  BY <1>1, GridExcept
<1>3. c = With(h, j, i, NoItems)
  BY <1>1 DEF Cleared, With, NoItems
<1>4. /\ IsGrid(c) /\ c[j][i] = NoItems
      /\ \A a, b \in Live : a # j \/ b # i => c[a][b] = h[a][b]
  BY <1>2, <1>3, GridExcept
<1> QED
  BY <1>2, <1>4 DEF ClearedFrom

LEMMA Pieces ==
  ASSUME NEW S, NEW s \in Seq(S)
  PROVE  /\ s # <<>> => /\ Head(s) \in S
                        /\ Tail(s) \in Seq(S) /\ Len(Tail(s)) = Len(s) - 1
         /\ \A x \in S : Append(s, x) \in Seq(S) /\ Len(Append(s, x)) = Len(s) + 1
         /\ \A n \in 0 .. Len(s) : /\ SubSeq(s, 1, n) \in Seq(S) /\ Len(SubSeq(s, 1, n)) = n
                                   /\ SubSeq(s, n + 1, Len(s)) \in Seq(S)
                                   /\ Len(SubSeq(s, n + 1, Len(s))) = Len(s) - n
<1>1. s # <<>> => /\ Head(s) \in S
                  /\ Tail(s) \in Seq(S) /\ Len(Tail(s)) = Len(s) - 1
  OBVIOUS
<1>2. \A x \in S : Append(s, x) \in Seq(S) /\ Len(Append(s, x)) = Len(s) + 1
  OBVIOUS
<1>3. ASSUME NEW n \in 0 .. Len(s)
      PROVE  /\ SubSeq(s, 1, n) \in Seq(S) /\ Len(SubSeq(s, 1, n)) = n
             /\ SubSeq(s, n + 1, Len(s)) \in Seq(S)
             /\ Len(SubSeq(s, n + 1, Len(s))) = Len(s) - n
  <2>1. SubSeq(s, 1, n) \in Seq(S) /\ Len(SubSeq(s, 1, n)) = n
    OBVIOUS
  <2>2. SubSeq(s, n + 1, Len(s)) \in Seq(S) /\ Len(SubSeq(s, n + 1, Len(s))) = Len(s) - n
    OBVIOUS
  <2> QED
    BY <2>1, <2>2
<1> QED
  BY <1>1, <1>2, <1>3

(***************************************************************************)
(* What is under way from i, which speaks p, to j.                         *)
(***************************************************************************)
MessageOf(p, i, j, call) ==
  [length |-> Encode(p, NameOf[i], NameOf[j], call).length,
   wire |-> Encode(p, NameOf[i], NameOf[j], call), call |-> call]

Messages(p, i, j) == {MessageOf(p, i, j, call) : call \in CallsOf(p)}

Datagram(messages, bad) ==
  [bytes |-> RedundancyPacketToBytes(CreateDataMessage(messages), bad),
   carried |-> messages, bad |-> bad]

Loads(p, i, j) == {s \in Seq(Messages(p, i, j)) : Len(s) <= MaxPacket}

Datagrams(p, i, j) == {Datagram(s, bad) : s \in Loads(p, i, j), bad \in BOOLEAN}

LEMMA MessageFacts ==
  ASSUME NEW p \in {ProtocolP, ProtocolLS}, NEW i, NEW j, NEW m \in Messages(p, i, j)
  PROVE  /\ m.length \in Nat /\ m.length <= LengthWithoutPayload + PayloadCapacity
         /\ m.wire = Encode(p, NameOf[i], NameOf[j], m.call)
         /\ m.wire.sender = NameOf[i] /\ m.wire.receiver = NameOf[j]
         /\ IsCall(p, m.call)
<1>1. PICK call \in CallsOf(p) : m = MessageOf(p, i, j, call)
  BY DEF Messages
<1>2. PICK wire : wire = Encode(p, NameOf[i], NameOf[j], call)
  OBVIOUS
<1>3. m.length = wire.length /\ m.wire = wire /\ m.call = call
  BY <1>1, <1>2 DEF MessageOf
<1>4. IsCall(p, call)
  BY CallsAreCalls
<1>5. PICK t \in TypesOf(p) : \E v \in Arguments(p, t) : call = [type |-> t, value |-> v]
  BY <1>4 DEF IsCall
<1>6. PICK v \in Arguments(p, t) : call = [type |-> t, value |-> v]
  BY <1>5
<1>7. PICK payload : payload = PayloadOf(p, call)
  OBVIOUS
<1>8. payload.used \in 0 .. 88
  <2>1. /\ t # VersionResponse => payload.used \in 0 .. 9
        /\ t = VersionResponse => v.checksum \in 0 .. 85 /\ payload.used = v.checksum + 3
    BY <1>6, <1>7, PayloadFacts
  <2>2. CASE t = VersionResponse
    <3>1. PICK c \in 0 .. 85 : c = v.checksum
      BY <2>1, <2>2
    <3> QED
      BY <2>1, <2>2, <3>1
  <2>3. CASE t # VersionResponse
    BY <2>1, <2>3
  <2> QED
    BY <2>2, <2>3
<1>9. /\ wire.sender = NameOf[i] /\ wire.receiver = NameOf[j]
      /\ wire.length = LengthWithoutPayload + payload.used
  BY <1>2, <1>7, EncodeFacts
<1>10. m.length \in Nat /\ m.length <= LengthWithoutPayload + PayloadCapacity
  BY <1>3, <1>8, <1>9 DEF LengthWithoutPayload, PayloadCapacity
<1> QED
  BY <1>2, <1>3, <1>4, <1>9, <1>10

(***************************************************************************)
(* A datagram of the layer is what its receiver reads out of it.           *)
(***************************************************************************)
LEMMA DatagramFacts ==
  ASSUME NEW p \in {ProtocolP, ProtocolLS}, NEW i, NEW j, NEW d \in Datagrams(p, i, j)
  PROVE  /\ d.carried \in Seq(Messages(p, i, j)) /\ d.bad \in BOOLEAN
         /\ ChecksumsCorrect(d.bytes) <=> ~d.bad
         /\ ExtractMessageData(d.bytes.inner.packet.data) = d.carried
<1>1. PICK s \in Loads(p, i, j) : \E bad \in BOOLEAN : d = Datagram(s, bad)
  BY DEF Datagrams
<1>2. PICK bad \in BOOLEAN : d = Datagram(s, bad)
  BY <1>1
<1>3. PICK bytes : bytes = RedundancyPacketToBytes(CreateDataMessage(s), bad)
  OBVIOUS
<1>4. d.bytes = bytes /\ d.carried = s /\ d.bad = bad
  BY <1>2, <1>3 DEF Datagram
<1>5. PICK M : M = Messages(p, i, j)
  OBVIOUS
<1>6. s \in Seq(M) /\ Len(s) <= MaxPacket
  BY <1>5 DEF Loads
<1>7. PICK L \in Nat : L = LengthWithoutPayload + PayloadCapacity
  BY DEF LengthWithoutPayload, PayloadCapacity
<1>8. \A m \in M : m.length \in Nat /\ m.length <= L
  BY <1>5, <1>7, MessageFacts
<1>9. HaveLength(M)
  BY <1>8 DEF HaveLength
<1>10. \A k \in 1 .. Len(s) : s[k].length <= L
  BY <1>6, <1>8
<1>11. HeaderLength + SafetyCodeLength + Len(s) * (2 + L) + 8 + CrcWidth \div 8 <= BufferSize
  <2>1. PICK n \in Nat : n = Len(s) /\ n <= MaxPacket
    BY <1>6
  <2>2. MaxPacket \in Nat
    BY SciAssumption
  <2>3. L = 131 /\ n * (2 + L) = n * 133 /\ MaxPacket * (2 + L) = MaxPacket * 133
    BY <1>7 DEF LengthWithoutPayload, PayloadCapacity
  <2>4. n * 133 <= MaxPacket * 133
    BY <2>1, <2>2
  <2>5. PICK a \in Nat : a = HeaderLength + SafetyCodeLength
    BY PduConstants
  <2>6. PICK w \in Nat : w = CrcWidth \div 8
    BY PduConstants
  <2>7. a + MaxPacket * 133 + 8 + w <= BufferSize /\ BufferSize \in Nat
    <3>1. MaxPacket * (2 + LengthWithoutPayload + PayloadCapacity) = MaxPacket * 133
      BY DEF LengthWithoutPayload, PayloadCapacity
    <3> QED
      BY <2>5, <2>6, <3>1, TelegramsFit, PduConstants
  <2>8. a + n * 133 + 8 + w <= BufferSize
    BY <2>1, <2>2, <2>4, <2>7
  <2> QED
    BY <2>1, <2>3, <2>5, <2>6, <2>8
<1>12. /\ ChecksumsCorrect(bytes) <=> ~bad
       /\ ExtractMessageData(bytes.inner.packet.data) = s
  BY <1>3, <1>6, <1>9, <1>10, <1>11, RoundTrip
<1> QED
  BY <1>4, <1>5, <1>6, <1>12

(***************************************************************************)
(* The inductive invariant.  Names are found exactly as they were told;    *)
(* what is queued, on its way or delivered from i to j was made by i for   *)
(* j, with the names of both, and a datagram is what the factories made of *)
(* its messages.                                                           *)
(***************************************************************************)
PlainInv ==
  /\ protocol \in Protocols
  /\ up \subseteq Peers
  /\ lasterror \in [Live -> BOOLEAN]

NamesInv ==
  /\ names = [i \in Live |-> names[i]]
  /\ told = [i \in Live |-> told[i]]
  /\ \A i \in Live : NamesOK(names[i], told[i])

QueueInv ==
  /\ IsGrid(queue)
  /\ \A i, j \in Live : /\ queue[i][j] \in Seq(Messages(protocol[i], i, j))
                        /\ Len(queue[i][j]) <= QueueSize

LinkInv ==
  /\ IsGrid(link)
  /\ \A i, j \in Live : link[i][j] \in Seq(Datagrams(protocol[i], i, j))

InboxInv ==
  /\ IsGrid(inbox)
  /\ \A i, j \in Live : inbox[i][j] \in Seq(Messages(protocol[j], j, i))

IInv == PlainInv /\ NamesInv /\ QueueInv /\ LinkInv /\ InboxInv /\ HeardAsSent

LEMMA Speaks ==
  ASSUME PlainInv
  PROVE  /\ \A i \in Live : protocol[i] \in {ProtocolP, ProtocolLS}
         /\ \A i \in Live : Calls(i) = CallsOf(protocol[i])
<1>1. protocol \in [Live -> {ProtocolP, ProtocolLS}]
  BY SciAssumption DEF PlainInv
<1> QED
  BY <1>1 DEF Calls, CallsOf

(***************************************************************************)
(* send_telegram puts into the queue to the instance that the name is of.  *)
(***************************************************************************)
LEMMA SendingKeeps ==
  ASSUME PlainInv, QueueInv, NEW i \in Live, NEW m, NEW t, NamesOK(m, t),
         NEW n \in Key, NEW call \in Calls(i), NEW q, q = SendTelegram(queue, m, i, n, call)
  PROVE  /\ IsGrid(q)
         /\ \A a, b \in Live : /\ q[a][b] \in Seq(Messages(protocol[a], a, b))
                               /\ Len(q[a][b]) <= QueueSize
<1>1. PICK id : id = Get(m, n)
  OBVIOUS
<1>2. PICK message : message = [length |-> Encode(protocol[i], NameOf[i], n, call).length,
                                wire |-> Encode(protocol[i], NameOf[i], n, call),
                                call |-> call]
  OBVIOUS
<1>3. q = IF id = MapMissing THEN queue ELSE SrSend(queue, i, id, message)
  BY <1>1, <1>2 DEF SendTelegram
<1>4. CASE q = queue
  BY <1>4 DEF QueueInv
<1>5. CASE q # queue
  <2>1. /\ id # MapMissing /\ id \in Live /\ Len(queue[i][id]) < QueueSize
        /\ q = [queue EXCEPT ![i][id] = Append(queue[i][id], message)]
    BY <1>3, <1>5 DEF SrSend
  <2>2. NameOf[id] = n
    BY <1>1, <2>1, NamesAreFound
  <2>3. message \in Messages(protocol[i], i, id)
    <3>1. message = MessageOf(protocol[i], i, id, call)
      BY <1>2, <2>2 DEF MessageOf
    <3>2. call \in CallsOf(protocol[i])
      BY Speaks
    <3> QED
      BY <3>1, <3>2 DEF Messages
  <2>4. PICK M : M = Messages(protocol[i], i, id)
    OBVIOUS
  <2>5. PICK old : old = queue[i][id]
    OBVIOUS
  <2>6. old \in Seq(M) /\ Len(old) < QueueSize /\ message \in M
    BY <2>1, <2>3, <2>4, <2>5 DEF QueueInv
  <2>7. PICK new : new = Append(old, message)
    OBVIOUS
  <2>8. new \in Seq(M) /\ Len(new) <= QueueSize
    <3>1. new \in Seq(M) /\ Len(new) = Len(old) + 1
      BY <2>6, <2>7
    <3>2. QueueSize \in Nat /\ Len(old) \in Nat
      BY <2>6, SciAssumption
    <3> QED
      BY <2>6, <3>1, <3>2
  <2>9. /\ IsGrid(q) /\ q[i][id] = new
        /\ \A a, b \in Live : a # i \/ b # id => q[a][b] = queue[a][b]
    <3>1. q = With(queue, i, id, new)
      BY <2>1, <2>5, <2>7 DEF With
    <3>2. IsGrid(queue) /\ id \in Live
      BY <2>1 DEF QueueInv
    <3> QED
      BY <3>1, <3>2, GridExcept
  <2>10. ASSUME NEW a \in Live, NEW b \in Live
         PROVE  q[a][b] \in Seq(Messages(protocol[a], a, b)) /\ Len(q[a][b]) <= QueueSize
    <3>1. CASE a = i /\ b = id
      BY <2>4, <2>8, <2>9, <3>1
    <3>2. CASE a # i \/ b # id
      BY <2>9, <3>2 DEF QueueInv
    <3> QED
      BY <3>1, <3>2
  <2> QED
    BY <2>9, <2>10
<1> QED
  BY <1>4, <1>5

\* A send that finds no connection leaves the queues as they are.
LEMMA SendingNowhere ==
  ASSUME NEW i, NEW n, NEW call, {i, Get(names[i], n)} \notin up
  PROVE  SendTelegram(queue, names[i], i, n, call) = queue
BY DEF SendTelegram, SrSend

(***************************************************************************)
(* The initial states.                                                     *)
(***************************************************************************)
LEMMA InitHolds == Init => IInv
<1> SUFFICES ASSUME Init PROVE IInv
  OBVIOUS
<1>1. PlainInv
  BY DEF Init, PlainInv
<1>2. NamesInv
  <2>1. names = [i \in Live |-> New] /\ told = [i \in Live |-> [n \in Key |-> MapMissing]]
    BY DEF Init, NoNames
  <2>2. ASSUME NEW i \in Live PROVE NamesOK(names[i], told[i])
    BY <2>1, NewFacts DEF NamesOK
  <2> QED
    BY <2>1, <2>2 DEF NamesInv
<1>3. QueueInv
  <2>1. ASSUME NEW i \in Live, NEW j \in Live
        PROVE  /\ queue[i][j] \in Seq(Messages(protocol[i], i, j))
               /\ Len(queue[i][j]) <= QueueSize
    <3>1. PICK e : e = <<>>
      OBVIOUS
    <3>2. queue[i][j] = e
      BY <3>1, EmptyGrid DEF Init
    <3>3. PICK S : S = Messages(protocol[i], i, j)
      OBVIOUS
    <3>4. e \in Seq(S) /\ Len(e) = 0
      BY <3>1
    <3>5. QueueSize \in Nat
      BY SciAssumption
    <3> QED
      BY <3>2, <3>3, <3>4, <3>5
  <2> QED
    BY <2>1, EmptyGrid DEF Init, QueueInv
<1>4. LinkInv
  <2>1. ASSUME NEW i \in Live, NEW j \in Live
        PROVE  link[i][j] \in Seq(Datagrams(protocol[i], i, j))
    <3>1. PICK e : e = <<>>
      OBVIOUS
    <3>2. link[i][j] = e
      BY <3>1, EmptyGrid DEF Init
    <3>3. PICK S : S = Datagrams(protocol[i], i, j)
      OBVIOUS
    <3>4. e \in Seq(S)
      BY <3>1
    <3> QED
      BY <3>2, <3>3, <3>4
  <2> QED
    BY <2>1, EmptyGrid DEF Init, LinkInv
<1>5. InboxInv
  <2>1. ASSUME NEW i \in Live, NEW j \in Live
        PROVE  inbox[i][j] \in Seq(Messages(protocol[j], j, i))
    <3>1. PICK e : e = <<>>
      OBVIOUS
    <3>2. inbox[i][j] = e
      BY <3>1, EmptyGrid DEF Init
    <3>3. PICK S : S = Messages(protocol[j], j, i)
      OBVIOUS
    <3>4. e \in Seq(S)
      BY <3>1
    <3> QED
      BY <3>2, <3>3, <3>4
  <2> QED
    BY <2>1, EmptyGrid DEF Init, InboxInv
<1>6. HeardAsSent
  BY DEF Init, HeardAsSent
<1> QED
  BY <1>1, <1>2, <1>3, <1>4, <1>5, <1>6 DEF IInv

(***************************************************************************)
(* One lemma for each action.                                              *)
(***************************************************************************)

\* An entry for one instance leaves the maps of the others as they are.
LEMMA Entered ==
  ASSUME NamesInv, NEW i \in Live, NEW new, NEW first, NamesOK(new, first),
         names' = [names EXCEPT ![i] = new], told' = [told EXCEPT ![i] = first]
  PROVE  NamesInv'
<1>1. /\ names = [a \in Live |-> names[a]] /\ told = [a \in Live |-> told[a]]
      /\ \A a \in Live : NamesOK(names[a], told[a])
  BY DEF NamesInv
<1>2. DOMAIN names = Live /\ DOMAIN told = Live
  BY <1>1
<1>3. /\ names' = [a \in Live |-> names'[a]] /\ names'[i] = new
      /\ \A a \in Live : a # i => names'[a] = names[a]
  BY <1>2
<1>4. /\ told' = [a \in Live |-> told'[a]] /\ told'[i] = first
      /\ \A a \in Live : a # i => told'[a] = told[a]
  BY <1>2
<1>5. \A a \in Live : NamesOK(names'[a], told'[a])
  BY <1>1, <1>3, <1>4
<1> QED
  BY <1>3, <1>4, <1>5 DEF NamesInv, NamesOK

\* The parts that read what an action leaves alone.
LEMMA RestKept ==
  /\ PlainInv /\ protocol' = protocol /\ up' = up /\ lasterror' = lasterror => PlainInv'
  /\ NamesInv /\ names' = names /\ told' = told => NamesInv'
  /\ QueueInv /\ protocol' = protocol /\ queue' = queue => QueueInv'
  /\ LinkInv /\ protocol' = protocol /\ link' = link => LinkInv'
  /\ InboxInv /\ protocol' = protocol /\ inbox' = inbox => InboxInv'
  /\ heard' = Nothing => HeardAsSent'
<1>1. PlainInv /\ protocol' = protocol /\ up' = up /\ lasterror' = lasterror => PlainInv'
  BY DEF PlainInv
<1>2. QueueInv /\ protocol' = protocol /\ queue' = queue => QueueInv'
  BY DEF QueueInv
<1>3. LinkInv /\ protocol' = protocol /\ link' = link => LinkInv'
  BY DEF LinkInv
<1>4. InboxInv /\ protocol' = protocol /\ inbox' = inbox => InboxInv'
  BY DEF InboxInv
<1>5. heard' = Nothing => HeardAsSent'
  BY DEF HeardAsSent
<1>6. NamesInv /\ names' = names /\ told' = told => NamesInv'
  BY DEF NamesInv, NamesOK
<1> QED
  BY <1>1, <1>2, <1>3, <1>4, <1>5, <1>6

LEMMA RegisterKeeps ==
  ASSUME IInv, NEW i \in Live, NEW id \in Directory[i], Register(i, id)
  PROVE  IInv'
<1>1. PlainInv /\ NamesInv /\ QueueInv /\ LinkInv /\ InboxInv
  BY DEF IInv
<1>2. /\ protocol' = protocol /\ up' = up /\ queue' = queue /\ link' = link /\ inbox' = inbox
      /\ lasterror' = lasterror /\ heard' = Nothing
  BY DEF Register
<1>3. PICK m : m = names[i]
  OBVIOUS
<1>4. PICK t : t = told[i]
  OBVIOUS
<1>5. PICK n : n = NameOf[id]
  OBVIOUS
<1>6. PICK new : new = Registered(m, n, id)
  OBVIOUS
<1>7. PICK first : first = ToldFirst(t, n, id)
  OBVIOUS
<1>8. NamesOK(new, first)
  <2>1. NamesOK(m, t)
    BY <1>1, <1>3, <1>4 DEF NamesInv
  <2>2. Registers(m, n, id)
    BY <1>3, <1>5 DEF Register
  <2>3. id \in Id
    BY SciAssumption
  <2> QED
    BY <1>5, <1>6, <1>7, <2>1, <2>2, <2>3, RegisteringKeeps
<1>9. names' = [names EXCEPT ![i] = new] /\ told' = [told EXCEPT ![i] = first]
  BY <1>3, <1>4, <1>5, <1>6, <1>7 DEF Register
<1>10. NamesInv'
  BY <1>1, <1>8, <1>9, Entered
<1> QED
  BY <1>1, <1>2, <1>10, RestKept DEF IInv

LEMMA SendKeeps ==
  ASSUME IInv, NEW i \in Live, NEW id \in Id, NEW call \in Calls(i), Send(i, NameOf[id], call)
  PROVE  IInv'
<1>1. PlainInv /\ NamesInv /\ QueueInv /\ LinkInv /\ InboxInv
  BY DEF IInv
<1>2. PICK n \in Key : n = NameOf[id]
  BY Ids
<1>3. /\ protocol' = protocol /\ names' = names /\ up' = up /\ link' = link /\ inbox' = inbox
      /\ lasterror' = lasterror /\ told' = told /\ heard' = Nothing
      /\ queue' = SendTelegram(queue, names[i], i, n, call)
  BY <1>2 DEF Send
<1>4. NamesOK(names[i], told[i])
  BY <1>1 DEF NamesInv
<1>5. /\ IsGrid(queue')
      /\ \A a, b \in Live : /\ queue'[a][b] \in Seq(Messages(protocol[a], a, b))
                            /\ Len(queue'[a][b]) <= QueueSize
  BY <1>1, <1>3, <1>4, SendingKeeps
<1>6. QueueInv'
  BY <1>3, <1>5 DEF QueueInv
<1> QED
  BY <1>1, <1>3, <1>6, RestKept DEF IInv

LEMMA SendNowhereKeeps ==
  ASSUME IInv, NEW i, NEW n, NEW call, SendNowhere(i, n, call)
  PROVE  IInv'
<1>1. PlainInv /\ NamesInv /\ QueueInv /\ LinkInv /\ InboxInv
  BY DEF IInv
<1>2. /\ protocol' = protocol /\ names' = names /\ up' = up /\ link' = link /\ inbox' = inbox
      /\ lasterror' = lasterror /\ told' = told /\ heard' = Nothing
      /\ queue' = queue
  BY SendingNowhere DEF SendNowhere
<1> QED
  BY <1>1, <1>2, RestKept DEF IInv

LEMMA SmallerOfTwo ==
  ASSUME NEW a \in Nat, NEW b \in Nat
  PROVE  Min({a, b}) \in Nat /\ Min({a, b}) <= a /\ Min({a, b}) <= b
<1>1. \E x \in {a, b} : \A y \in {a, b} : x <= y
  <2>1. CASE a <= b
    BY <2>1
  <2>2. CASE b <= a
    BY <2>2
  <2> QED
    BY <2>1, <2>2
<1>2. PICK S : S = {a, b}
  OBVIOUS
<1>3. Min(S) \in S /\ \A y \in S : Min(S) <= y
  BY <1>1, <1>2 DEF Min
<1> QED
  BY <1>2, <1>3

LEMMA TransmitKeeps ==
  ASSUME IInv, NEW i \in Live, NEW j \in Live, Transmit(i, j)
  PROVE  IInv'
<1>1. PlainInv /\ NamesInv /\ QueueInv /\ LinkInv /\ InboxInv
  BY DEF IInv
<1>2. /\ protocol' = protocol /\ names' = names /\ up' = up /\ inbox' = inbox
      /\ lasterror' = lasterror /\ told' = told /\ heard' = Nothing
  BY DEF Transmit
<1>3. PICK M : M = Messages(protocol[i], i, j)
  OBVIOUS
<1>4. PICK s \in Seq(M) : s = queue[i][j] /\ Len(s) <= QueueSize
  BY <1>1, <1>3 DEF QueueInv
<1>5. PICK n \in 0 .. Len(s) : n = Min({MaxPacket, Len(s)}) /\ n <= MaxPacket
  <2>1. MaxPacket \in Nat /\ Len(s) \in Nat
    BY SciAssumption
  <2> QED
    BY <2>1, SmallerOfTwo
<1>6. PICK messages : messages = SubSeq(s, 1, n)
  OBVIOUS
<1>7. PICK rest : rest = SubSeq(s, n + 1, Len(s))
  OBVIOUS
<1>8. PICK bad \in BOOLEAN : bad = lasterror[i]
  BY <1>1 DEF PlainInv
<1>9. PICK datagram : datagram = Datagram(messages, bad)
  OBVIOUS
<1>10. /\ queue' = [queue EXCEPT ![i][j] = rest]
       /\ link' = [link EXCEPT ![i][j] = Append(link[i][j], datagram)]
  BY <1>4, <1>5, <1>6, <1>7, <1>8, <1>9 DEF Transmit, Datagram
<1>11. /\ messages \in Seq(M) /\ Len(messages) <= MaxPacket
       /\ rest \in Seq(M) /\ Len(rest) <= QueueSize
  <2>1. messages \in Seq(M) /\ Len(messages) = n /\ rest \in Seq(M) /\ Len(rest) = Len(s) - n
    BY <1>6, <1>7, Pieces
  <2>2. QueueSize \in Nat /\ Len(s) \in Nat
    BY SciAssumption
  <2> QED
    BY <1>4, <1>5, <2>1, <2>2
<1>12. QueueInv'
  <2>1. /\ IsGrid(queue') /\ queue'[i][j] = rest
        /\ \A a, b \in Live : a # i \/ b # j => queue'[a][b] = queue[a][b]
    <3>1. queue' = With(queue, i, j, rest)
      BY <1>10 DEF With
    <3>2. IsGrid(queue)
      BY <1>1 DEF QueueInv
    <3> QED
      BY <3>1, <3>2, GridExcept
  <2>2. ASSUME NEW a \in Live, NEW b \in Live
        PROVE  /\ queue'[a][b] \in Seq(Messages(protocol[a], a, b))
               /\ Len(queue'[a][b]) <= QueueSize
    <3>1. CASE a = i /\ b = j
      BY <1>3, <1>11, <2>1, <3>1
    <3>2. CASE a # i \/ b # j
      BY <1>1, <2>1, <3>2 DEF QueueInv
    <3> QED
      BY <3>1, <3>2
  <2> QED
    BY <1>2, <2>1, <2>2 DEF QueueInv
<1>13. LinkInv'
  <2>1. PICK D : D = Datagrams(protocol[i], i, j)
    OBVIOUS
  <2>2. datagram \in D
    <3>1. messages \in Loads(protocol[i], i, j)
      BY <1>3, <1>11 DEF Loads
    <3> QED
      BY <1>8, <1>9, <2>1, <3>1 DEF Datagrams
  <2>3. PICK old \in Seq(D) : old = link[i][j]
    BY <1>1, <2>1 DEF LinkInv
  <2>4. PICK new : new = Append(old, datagram)
    OBVIOUS
  <2>5. new \in Seq(D)
    BY <2>2, <2>4, Pieces
  <2>6. /\ IsGrid(link') /\ link'[i][j] = new
        /\ \A a, b \in Live : a # i \/ b # j => link'[a][b] = link[a][b]
    <3>1. link' = With(link, i, j, new)
      BY <1>10, <2>3, <2>4 DEF With
    <3>2. IsGrid(link)
      BY <1>1 DEF LinkInv
    <3> QED
      BY <3>1, <3>2, GridExcept
  <2>7. ASSUME NEW a \in Live, NEW b \in Live
        PROVE  link'[a][b] \in Seq(Datagrams(protocol[a], a, b))
    <3>1. CASE a = i /\ b = j
      BY <2>1, <2>5, <2>6, <3>1
    <3>2. CASE a # i \/ b # j
      BY <1>1, <2>6, <3>2 DEF LinkInv
    <3> QED
      BY <3>1, <3>2
  <2> QED
    BY <1>2, <2>6, <2>7 DEF LinkInv
<1> QED
  BY <1>1, <1>2, <1>12, <1>13, RestKept DEF IInv

LEMMA ArriveKeeps ==
  ASSUME IInv, NEW i \in Live, NEW j \in Live, Arrive(i, j)
  PROVE  IInv'
<1>1. PlainInv /\ NamesInv /\ QueueInv /\ LinkInv /\ InboxInv
  BY DEF IInv
<1>2. /\ protocol' = protocol /\ names' = names /\ up' = up /\ queue' = queue
      /\ lasterror' = lasterror /\ told' = told /\ heard' = Nothing
  BY DEF Arrive
<1>3. PICK D : D = Datagrams(protocol[j], j, i)
  OBVIOUS
<1>4. PICK s \in Seq(D) : s = link[j][i]
  BY <1>1, <1>3 DEF LinkInv
<1>5. s # <<>>
  BY <1>4 DEF Arrive
<1>6. PICK d : d = Head(s)
  OBVIOUS
<1>7. PICK rest : rest = Tail(s)
  OBVIOUS
<1>8. d \in D /\ rest \in Seq(D)
  BY <1>5, <1>6, <1>7, Pieces
<1>9. PICK messages : messages = ExtractMessageData(d.bytes.inner.packet.data)
  OBVIOUS
<1>10. /\ link' = [link EXCEPT ![j][i] = rest]
       /\ inbox' = inbox \/ inbox' = [inbox EXCEPT ![i][j] = messages]
  BY <1>4, <1>6, <1>7, <1>9 DEF Arrive
<1>11. messages \in Seq(Messages(protocol[j], j, i))
  <2>1. protocol[j] \in {ProtocolP, ProtocolLS}
    BY <1>1, Speaks
  <2> QED
    BY <1>3, <1>8, <1>9, <2>1, DatagramFacts
<1>12. LinkInv'
  <2>1. /\ IsGrid(link') /\ link'[j][i] = rest
        /\ \A a, b \in Live : a # j \/ b # i => link'[a][b] = link[a][b]
    <3>1. link' = With(link, j, i, rest)
      BY <1>10 DEF With
    <3>2. IsGrid(link)
      BY <1>1 DEF LinkInv
    <3> QED
      BY <3>1, <3>2, GridExcept
  <2>2. ASSUME NEW a \in Live, NEW b \in Live
        PROVE  link'[a][b] \in Seq(Datagrams(protocol[a], a, b))
    <3>1. CASE a = j /\ b = i
      BY <1>3, <1>8, <2>1, <3>1
    <3>2. CASE a # j \/ b # i
      BY <1>1, <2>1, <3>2 DEF LinkInv
    <3> QED
      BY <3>1, <3>2
  <2> QED
    BY <1>2, <2>1, <2>2 DEF LinkInv
<1>13. InboxInv'
  <2>1. CASE inbox' = inbox
    BY <1>1, <1>2, <2>1, RestKept
  <2>2. CASE inbox' = [inbox EXCEPT ![i][j] = messages]
    <3>1. /\ IsGrid(inbox') /\ inbox'[i][j] = messages
          /\ \A a, b \in Live : a # i \/ b # j => inbox'[a][b] = inbox[a][b]
      <4>1. inbox' = With(inbox, i, j, messages)
        BY <2>2 DEF With
      <4>2. IsGrid(inbox)
        BY <1>1 DEF InboxInv
      <4> QED
        BY <4>1, <4>2, GridExcept
    <3>2. ASSUME NEW a \in Live, NEW b \in Live
          PROVE  inbox'[a][b] \in Seq(Messages(protocol[b], b, a))
      <4>1. CASE a = i /\ b = j
        BY <1>11, <3>1, <4>1
      <4>2. CASE a # i \/ b # j
        BY <1>1, <3>1, <4>2 DEF InboxInv
      <4> QED
        BY <4>1, <4>2
    <3> QED
      BY <1>2, <3>1, <3>2 DEF InboxInv
  <2> QED
    BY <1>10, <2>1, <2>2
<1> QED
  BY <1>1, <1>2, <1>12, <1>13, RestKept DEF IInv

LEMMA ReceiveShortKeeps ==
  ASSUME IInv, NEW i \in Live, ReceiveShort(i)
  PROVE  IInv'
<1>1. PlainInv /\ NamesInv /\ QueueInv /\ LinkInv /\ InboxInv
  BY DEF IInv
<1>2. /\ protocol' = protocol /\ names' = names /\ up' = up /\ queue' = queue /\ link' = link
      /\ inbox' = inbox /\ told' = told /\ heard' = Nothing
      /\ lasterror' = [lasterror EXCEPT ![i] = TRUE]
  BY DEF ReceiveShort
<1>3. PlainInv'
  BY <1>1, <1>2 DEF PlainInv
<1> QED
  BY <1>1, <1>2, <1>3, RestKept DEF IInv

LEMMA OpenKeeps ==
  ASSUME IInv, NEW i \in Live, NEW j \in Live, Open(i, j)
  PROVE  IInv'
<1>1. PlainInv /\ NamesInv /\ QueueInv /\ LinkInv /\ InboxInv
  BY DEF IInv
<1>2. /\ protocol' = protocol /\ names' = names /\ queue' = queue /\ link' = link
      /\ inbox' = inbox /\ lasterror' = lasterror /\ told' = told /\ heard' = Nothing
      /\ {i, j} \in Peers /\ up' = up \cup {{i, j}}
  BY DEF Open
<1>3. PlainInv'
  BY <1>1, <1>2 DEF PlainInv
<1> QED
  BY <1>1, <1>2, <1>3, RestKept DEF IInv

LEMMA CloseKeeps ==
  ASSUME IInv, NEW i \in Live, NEW j \in Live, Close(i, j)
  PROVE  IInv'
<1>1. PlainInv /\ NamesInv /\ QueueInv /\ LinkInv /\ InboxInv
  BY DEF IInv
<1>2. /\ protocol' = protocol /\ names' = names /\ lasterror' = lasterror /\ told' = told
      /\ heard' = Nothing /\ up' = up \ {{i, j}}
      /\ queue' = Cleared(queue, i, j) /\ link' = Cleared(link, i, j)
      /\ inbox' = Cleared(inbox, i, j)
  BY DEF Close
<1>3. PlainInv'
  BY <1>1, <1>2 DEF PlainInv
<1>4. PICK e : e = NoItems
  OBVIOUS
<1>5. Len(e) <= QueueSize /\ \A S : e \in Seq(S)
  <2>1. Len(e) = 0 /\ QueueSize \in Nat
    BY <1>4, SciAssumption DEF NoItems
  <2> QED
    BY <1>4, <2>1 DEF NoItems
<1>6. QueueInv'
  <2>1. /\ IsGrid(queue')
        /\ \A a, b \in Live : queue'[a][b] = e \/ queue'[a][b] = queue[a][b]
    <3>1. PICK g : g = queue
      OBVIOUS
    <3>2. PICK c : c = queue'
      OBVIOUS
    <3>3. IsGrid(g) /\ c = Cleared(g, i, j)
      BY <1>1, <1>2, <3>1, <3>2 DEF QueueInv
    <3>4. ClearedFrom(c, g)
      BY <3>3, ClearedGrid
    <3> QED
      BY <1>4, <3>1, <3>2, <3>4 DEF ClearedFrom
  <2>2. \A a, b \in Live : /\ queue'[a][b] \in Seq(Messages(protocol[a], a, b))
                          /\ Len(queue'[a][b]) <= QueueSize
    <3>1. \A a, b \in Live : /\ queue[a][b] \in Seq(Messages(protocol[a], a, b))
                            /\ Len(queue[a][b]) <= QueueSize
      BY <1>1 DEF QueueInv
    <3> QED
      BY <1>5, <2>1, <3>1
  <2> QED
    BY <1>2, <2>1, <2>2 DEF QueueInv
<1>7. LinkInv'
  <2>1. /\ IsGrid(link')
        /\ \A a, b \in Live : link'[a][b] = e \/ link'[a][b] = link[a][b]
    <3>1. PICK g : g = link
      OBVIOUS
    <3>2. PICK c : c = link'
      OBVIOUS
    <3>3. IsGrid(g) /\ c = Cleared(g, i, j)
      BY <1>1, <1>2, <3>1, <3>2 DEF LinkInv
    <3>4. ClearedFrom(c, g)
      BY <3>3, ClearedGrid
    <3> QED
      BY <1>4, <3>1, <3>2, <3>4 DEF ClearedFrom
  <2>2. \A a, b \in Live : link'[a][b] \in Seq(Datagrams(protocol[a], a, b))
    BY <1>1, <1>5, <2>1 DEF LinkInv
  <2> QED
    BY <1>2, <2>1, <2>2 DEF LinkInv
<1>8. InboxInv'
  <2>1. /\ IsGrid(inbox')
        /\ \A a, b \in Live : inbox'[a][b] = e \/ inbox'[a][b] = inbox[a][b]
    <3>1. PICK g : g = inbox
      OBVIOUS
    <3>2. PICK c : c = inbox'
      OBVIOUS
    <3>3. IsGrid(g) /\ c = Cleared(g, i, j)
      BY <1>1, <1>2, <3>1, <3>2 DEF InboxInv
    <3>4. ClearedFrom(c, g)
      BY <3>3, ClearedGrid
    <3> QED
      BY <1>4, <3>1, <3>2, <3>4 DEF ClearedFrom
  <2>2. \A a, b \in Live : inbox'[a][b] \in Seq(Messages(protocol[b], b, a))
    BY <1>1, <1>5, <2>1 DEF InboxInv
  <2> QED
    BY <1>2, <2>1, <2>2 DEF InboxInv
<1> QED
  BY <1>1, <1>2, <1>3, <1>6, <1>7, <1>8, RestKept DEF IInv

\* The step of Receive in terms of the message it takes.
Received(i, j, message, call, rest, notice, map) ==
  /\ Mine(protocol[i], message) => Registers(names[i], message.sender, j)
  /\ inbox' = [inbox EXCEPT ![i][j] = rest]
  /\ names' = [names EXCEPT ![i] = map]
  /\ told' = IF Mine(protocol[i], message)
             THEN [told EXCEPT ![i] = ToldFirst(told[i], message.sender, j)]
             ELSE told
  /\ heard' = [at |-> i, sent |-> <<j, call>>, notice |-> notice]
  /\ \/ queue' = queue
     \/ \E answer \in Calls(i) : /\ notice # <<>>
                                /\ queue' = SendTelegram(queue, map, i, message.sender, answer)

LEMMA ReceiveStep ==
  ASSUME NEW i, NEW j, Receive(i, j), NEW first, first = Head(inbox[i][j]),
         NEW message, message = first.wire, NEW rest, rest = Tail(inbox[i][j]),
         NEW notice, notice = Notice(protocol[i], message, Handled[i]),
         NEW map, map = IF Mine(protocol[i], message)
                        THEN Registered(names[i], message.sender, j) ELSE names[i]
  PROVE  Received(i, j, message, first.call, rest, notice, map)
<1>1. Mine(protocol[i], message) => Registers(names[i], message.sender, j)
  BY DEF Receive, Mine
<1>2. inbox' = [inbox EXCEPT ![i][j] = rest]
  BY DEF Receive
<1>3. names' = [names EXCEPT ![i] = map]
  BY DEF Receive, Mine
<1>4. told' = IF Mine(protocol[i], message)
              THEN [told EXCEPT ![i] = ToldFirst(told[i], message.sender, j)]
              ELSE told
  BY DEF Receive, Mine
<1>5. heard' = [at |-> i, sent |-> <<j, first.call>>, notice |-> notice]
  BY DEF Receive, Mine, Notice
<1>6. \/ queue' = queue
      \/ \E answer \in Calls(i) : /\ notice # <<>>
                                 /\ queue' = SendTelegram(queue, map, i, message.sender, answer)
  BY DEF Receive, Mine, Notice
<1> QED
  BY <1>1, <1>2, <1>3, <1>4, <1>5, <1>6 DEF Received

LEMMA ReceiveKeeps ==
  ASSUME IInv, NEW i \in Live, NEW j \in Live, Receive(i, j)
  PROVE  IInv'
<1>1. PlainInv /\ NamesInv /\ QueueInv /\ LinkInv /\ InboxInv
  BY DEF IInv
<1>2. protocol' = protocol /\ up' = up /\ link' = link /\ lasterror' = lasterror
  BY DEF Receive
<1>3. PICK p \in {ProtocolP, ProtocolLS} : p = protocol[i]
  BY <1>1, Speaks
<1>4. PICK q \in {ProtocolP, ProtocolLS} : q = protocol[j]
  BY <1>1, Speaks
<1>5. PICK M : M = Messages(q, j, i)
  OBVIOUS
<1>6. PICK s \in Seq(M) : s = inbox[i][j]
  BY <1>1, <1>4, <1>5 DEF InboxInv
<1>7. s # <<>>
  BY <1>6 DEF Receive
<1>8. PICK first : first = Head(s)
  OBVIOUS
<1>9. PICK rest : rest = Tail(s)
  OBVIOUS
<1>10. first \in M /\ rest \in Seq(M)
  BY <1>7, <1>8, <1>9, Pieces
<1>11. PICK message : message = first.wire
  OBVIOUS
<1>12. PICK call : call = first.call
  OBVIOUS
<1>13. /\ message = Encode(q, NameOf[j], NameOf[i], call)
       /\ message.sender = NameOf[j] /\ IsCall(q, call)
  BY <1>5, <1>10, <1>11, <1>12, MessageFacts
<1>14. PICK n \in Key : n = NameOf[j]
  BY Ids, SciAssumption
<1>15. PICK notice : notice = Notice(p, message, Handled[i])
  OBVIOUS
<1>16. PICK map : map = IF Mine(p, message) THEN Registered(names[i], n, j) ELSE names[i]
  OBVIOUS
<1>17. Received(i, j, message, call, rest, notice, map)
  BY <1>3, <1>6, <1>8, <1>9, <1>11, <1>12, <1>13, <1>14, <1>15, <1>16, ReceiveStep
<1>18. InboxInv'
  <2>1. /\ IsGrid(inbox') /\ inbox'[i][j] = rest
        /\ \A a, b \in Live : a # i \/ b # j => inbox'[a][b] = inbox[a][b]
    <3>1. inbox' = With(inbox, i, j, rest)
      BY <1>17 DEF Received, With
    <3>2. IsGrid(inbox)
      BY <1>1 DEF InboxInv
    <3> QED
      BY <3>1, <3>2, GridExcept
  <2>2. ASSUME NEW a \in Live, NEW b \in Live
        PROVE  inbox'[a][b] \in Seq(Messages(protocol[b], b, a))
    <3>1. CASE a = i /\ b = j
      BY <1>4, <1>5, <1>10, <2>1, <3>1
    <3>2. CASE a # i \/ b # j
      BY <1>1, <2>1, <3>2 DEF InboxInv
    <3> QED
      BY <3>1, <3>2
  <2> QED
    BY <1>2, <2>1, <2>2 DEF InboxInv
<1>19. PICK told1 : told1 = IF Mine(p, message) THEN ToldFirst(told[i], n, j) ELSE told[i]
  OBVIOUS
<1>20. NamesOK(map, told1)
  <2>1. NamesOK(names[i], told[i])
    BY <1>1 DEF NamesInv
  <2>2. CASE ~Mine(p, message)
    BY <1>16, <1>19, <2>1, <2>2
  <2>3. CASE Mine(p, message)
    <3>1. Registers(names[i], n, j)
      BY <1>3, <1>13, <1>14, <1>17, <2>3 DEF Received
    <3>2. j \in Id
      BY SciAssumption
    <3>3. NamesOK(Registered(names[i], n, j), ToldFirst(told[i], n, j))
      BY <1>14, <2>1, <3>1, <3>2, RegisteringKeeps
    <3> QED
      BY <1>16, <1>19, <2>3, <3>3
  <2> QED
    BY <2>2, <2>3
<1>21. NamesInv'
  <2>1. names' = [names EXCEPT ![i] = map]
    BY <1>17 DEF Received
  <2>2. told' = [told EXCEPT ![i] = told1]
    <3>1. told' = IF Mine(p, message)
                  THEN [told EXCEPT ![i] = ToldFirst(told[i], n, j)] ELSE told
      BY <1>3, <1>13, <1>14, <1>17 DEF Received
    <3>2. CASE Mine(p, message)
      BY <1>19, <3>1, <3>2
    <3>3. CASE ~Mine(p, message)
      <4>1. told = [a \in Live |-> told[a]]
        BY <1>1 DEF NamesInv
      <4>2. told = [told EXCEPT ![i] = told[i]]
        BY <4>1
      <4> QED
        BY <1>19, <3>1, <3>3, <4>2
    <3> QED
      BY <3>2, <3>3
  <2> QED
    BY <1>1, <1>20, <2>1, <2>2, Entered
<1>22. QueueInv'
  <2>1. CASE queue' = queue
    BY <1>1, <1>2, <2>1, RestKept
  <2>2. CASE queue' # queue
    <3>1. PICK answer \in Calls(i) : queue' = SendTelegram(queue, map, i, n, answer)
      BY <1>13, <1>14, <1>17, <2>2 DEF Received
    <3>2. /\ IsGrid(queue')
          /\ \A a, b \in Live : /\ queue'[a][b] \in Seq(Messages(protocol[a], a, b))
                                /\ Len(queue'[a][b]) <= QueueSize
      BY <1>1, <1>20, <3>1, SendingKeeps
    <3> QED
      BY <1>2, <3>2 DEF QueueInv
  <2> QED
    BY <2>1, <2>2
<1>23. HeardAsSent'
  <2>1. heard' = [at |-> i, sent |-> <<j, call>>, notice |-> notice]
    BY <1>17 DEF Received
  <2>2. PICK right : right = IF p = q /\ call.type \in Handled[i] /\ Arrives(call)
                             THEN <<n, call.type, Carried(q, call)>> ELSE <<>>
    OBVIOUS
  <2>3. notice = right
    <3>1. PICK handled : handled = Handled[i]
      OBVIOUS
    <3>2. PICK receiver : receiver = NameOf[i]
      OBVIOUS
    <3>3. Notice(p, Encode(q, n, receiver, call), handled)
            = IF p = q /\ call.type \in handled /\ Arrives(call)
              THEN <<n, call.type, Carried(q, call)>> ELSE <<>>
      BY <1>13, TelegramHeard
    <3> QED
      BY <1>13, <1>14, <1>15, <2>2, <3>1, <3>2, <3>3
  <2>4. heard'.at = i /\ heard'.sent[1] = j /\ heard'.sent[2] = call /\ heard'.notice = notice
    BY <2>1
  <2>5. right = IF protocol'[i] = protocol'[j] /\ call.type \in Handled[i] /\ Arrives(call)
                THEN <<NameOf[j], call.type, Carried(protocol'[j], call)>> ELSE <<>>
    BY <1>2, <1>3, <1>4, <1>14, <2>2
  <2> QED
    BY <2>3, <2>4, <2>5 DEF HeardAsSent
<1>24. PlainInv' /\ LinkInv'
  BY <1>1, <1>2, RestKept
<1> QED
  BY <1>18, <1>21, <1>22, <1>23, <1>24 DEF IInv

LEMMA NextKeeps == IInv /\ [Next]_vars => IInv'
<1> SUFFICES ASSUME IInv, [Next]_vars PROVE IInv'
  OBVIOUS
<1>1. CASE UNCHANGED vars
  <2>1. /\ protocol' = protocol /\ names' = names /\ up' = up /\ queue' = queue /\ link' = link
        /\ inbox' = inbox /\ lasterror' = lasterror /\ told' = told /\ heard' = heard
    BY <1>1 DEF vars
  <2>2. HeardAsSent'
    BY <2>1 DEF IInv, HeardAsSent
  <2> QED
    BY <2>1, <2>2, RestKept DEF IInv
<1>2. CASE Next
  <2>1. PICK i \in Live :
           \/ \E id \in Directory[i] : Register(i, id)
           \/ \E id \in Id \ {i} : \E call \in Calls(i) : Send(i, NameOf[id], call)
           \/ \E n, call : SendNowhere(i, n, call)
           \/ \E j \in Live : \/ Open(i, j) \/ Close(i, j)
                            \/ Transmit(i, j) \/ Arrive(i, j) \/ Receive(i, j)
           \/ ReceiveShort(i)
    BY <1>2 DEF Next
  <2>2. CASE \E id \in Directory[i] : Register(i, id)
    BY <2>2, RegisterKeeps
  <2>3. CASE \E id \in Id \ {i} : \E call \in Calls(i) : Send(i, NameOf[id], call)
    BY <2>3, SendKeeps
  <2>4. CASE \E n, call : SendNowhere(i, n, call)
    BY <2>4, SendNowhereKeeps
  <2>5. CASE ReceiveShort(i)
    BY <2>5, ReceiveShortKeeps
  <2>6. ASSUME NEW j \in Live, \/ Open(i, j) \/ Close(i, j)
                              \/ Transmit(i, j) \/ Arrive(i, j) \/ Receive(i, j)
        PROVE  IInv'
    <3>1. CASE Open(i, j)
      BY <3>1, OpenKeeps
    <3>2. CASE Close(i, j)
      BY <3>2, CloseKeeps
    <3>3. CASE Transmit(i, j)
      BY <3>3, TransmitKeeps
    <3>4. CASE Arrive(i, j)
      BY <3>4, ArriveKeeps
    <3>5. CASE Receive(i, j)
      BY <3>5, ReceiveKeeps
    <3> QED
      BY <2>6, <3>1, <3>2, <3>3, <3>4, <3>5
  <2> QED
    BY <2>1, <2>2, <2>3, <2>4, <2>5, <2>6
<1> QED
  BY <1>1, <1>2

\* The inductive invariant holds in every state of the SCI instances, for any
\* number of them, any names, hashes and ids, any telegrams with legal values.
THEOREM Invariance == Spec => []IInv
<1>1. Init => IInv
  BY InitHolds
<1>2. IInv /\ [Next]_vars => IInv'
  BY NextKeeps
<1> QED
  BY <1>1, <1>2, PTL DEF Spec

(***************************************************************************)
(* What the invariant says of the maps.                                    *)
(***************************************************************************)
LEMMA SoundMap ==
  ASSUME NEW m, Sound(m, Id), NEW U, U = InUse(m)
  PROVE  /\ \A s, t \in U : m.slots[s].key = m.slots[t].key => s = t
         /\ m.size = Cardinality(U)
         /\ 2 * m.size <= TableSize(m)
         /\ \A s \in DOMAIN m.slots : Slot(m.slots[s])
<1>1. PICK n \in Nat : SoundArray(m, n, Id)
  BY DEF Sound
<1>2. m \in Arrays(n, Id)
  BY <1>1 DEF SoundArray
<1>3. DOMAIN m.slots = 0 .. n - 1 /\ TableSize(m) = n
  BY <1>2, ArrayFacts
<1>4. ASSUME NEW s \in DOMAIN m.slots
      PROVE  Slot(m.slots[s])
  <2>1. PICK x \in SlotOf(Id) : x = m.slots[s]
    BY <1>2, <1>3, ArrayFacts
  <2>2. x.inUse \in BOOLEAN /\ (x.inUse => x.key \in Key /\ x.data \in Id) /\ (~x.inUse => x = Unused)
    BY ElementFacts
  <2>3. CASE x.inUse
    BY <2>1, <2>2, <2>3 DEF Slot
  <2>4. CASE ~x.inUse
    BY <2>1, <2>2, <2>4 DEF Slot
  <2> QED
    BY <2>2, <2>3, <2>4
<1>5. /\ \A s, t \in U : m.slots[s].key = m.slots[t].key => s = t
      /\ m.size = Cardinality(U) /\ 2 * m.size <= n
  BY <1>1 DEF SoundArray
<1> QED
  BY <1>3, <1>4, <1>5

(***************************************************************************)
(* The properties the run checks.                                          *)
(***************************************************************************)
\* Every variable stays in its type, and no fifo_send holds more than its size.
THEOREM TypeCorrect == Spec => []TypeOK
<1>1. ASSUME IInv PROVE TypeOK
  <2>1. PlainInv /\ NamesInv /\ QueueInv
    BY <1>1 DEF IInv
  <2>2. protocol \in Protocols /\ up \subseteq Peers /\ lasterror \in [Live -> BOOLEAN]
    BY <2>1 DEF PlainInv
  <2>3. ASSUME NEW i \in Live
        PROVE  /\ names[i].size \in 0 .. Cardinality(Key)
               /\ \A s \in DOMAIN names[i].slots : Slot(names[i].slots[s])
    <3>1. PICK m : m = names[i]
      OBVIOUS
    <3>2. Sound(m, Id)
      BY <2>1, <3>1 DEF NamesInv, NamesOK
    <3>3. m.size \in 0 .. Cardinality(Key)
      BY <3>2, SizeBound
    <3>4. \A s \in DOMAIN m.slots : Slot(m.slots[s])
      BY <3>2, SoundMap
    <3> QED
      BY <3>1, <3>3, <3>4
  <2>4. \A i, j \in Live : Len(queue[i][j]) <= QueueSize
    BY <2>1 DEF QueueInv
  <2>5. told \in [Live -> [Key -> Id \cup {MapMissing}]]
    BY <2>1 DEF NamesInv, NamesOK
  <2> QED
    BY <2>2, <2>3, <2>4, <2>5 DEF TypeOK
<1> QED
  BY <1>1, Invariance, PTL

\* hashmap.c under scip.c and scils.c: however the table grew and whatever collided, a
\* name is found with the id it was first registered with, and no other name is found.
THEOREM NamesFound == Spec => []NamesExact
<1>1. ASSUME IInv PROVE NamesExact
  <2>1. \A i \in Live : NamesOK(names[i], told[i])
    BY <1>1 DEF IInv, NamesInv
  <2> QED
    BY <2>1, NamesAreFound DEF NamesExact
<1> QED
  BY <1>1, Invariance, PTL

\* hashmap.c: a name has one slot, the size counts the slots in use, and half of the
\* table stays free.
THEOREM MapsAreSound == Spec => []MapIsSound
<1>1. ASSUME IInv PROVE MapIsSound
  <2>1. ASSUME NEW i \in Live, NEW m, m = names[i], NEW U,
               U = {s \in DOMAIN m.slots : m.slots[s].inUse}
        PROVE  /\ \A s, t \in U : m.slots[s].key = m.slots[t].key => s = t
               /\ m.size = Cardinality(U)
               /\ 2 * m.size <= TableSize(m)
    <3>1. Sound(m, Id)
      BY <1>1, <2>1 DEF IInv, NamesInv, NamesOK
    <3>2. U = InUse(m)
      BY <2>1 DEF InUse
    <3> QED
      BY <3>1, <3>2, SoundMap
  <2> QED
    BY <2>1 DEF MapIsSound
<1> QED
  BY <1>1, Invariance, PTL

\* scip.c, scils.c: what is queued for an instance or has reached it names that
\* instance as the receiver and its sender as the sender, answers included.
THEOREM Routed == Spec => []RoutedByName
<1>1. ASSUME IInv PROVE RoutedByName
  <2>1. PlainInv /\ QueueInv /\ InboxInv
    BY <1>1 DEF IInv
  <2>2. ASSUME NEW i \in Live, NEW j \in Live, NEW p, p = protocol[i],
               NEW s \in Seq(Messages(p, i, j)), NEW k \in 1 .. Len(s)
        PROVE  s[k].wire.receiver = NameOf[j] /\ s[k].wire.sender = NameOf[i]
    <3>1. s[k] \in Messages(p, i, j)
      OBVIOUS
    <3>2. p \in {ProtocolP, ProtocolLS}
      BY <2>1, <2>2, Speaks
    <3> QED
      BY <3>1, <3>2, MessageFacts
  <2>3. ASSUME NEW i \in Live, NEW j \in Live, NEW k \in 1 .. Len(queue[i][j])
        PROVE  queue[i][j][k].wire.receiver = NameOf[j] /\ queue[i][j][k].wire.sender = NameOf[i]
    <3>1. PICK s : s = queue[i][j]
      OBVIOUS
    <3>2. s \in Seq(Messages(protocol[i], i, j)) /\ k \in 1 .. Len(s)
      BY <2>1, <2>3, <3>1 DEF QueueInv
    <3> QED
      BY <2>2, <3>1, <3>2
  <2>4. ASSUME NEW i \in Live, NEW j \in Live, NEW k \in 1 .. Len(inbox[i][j])
        PROVE  inbox[i][j][k].wire.receiver = NameOf[i] /\ inbox[i][j][k].wire.sender = NameOf[j]
    <3>1. PICK s : s = inbox[i][j]
      OBVIOUS
    <3>2. s \in Seq(Messages(protocol[j], j, i)) /\ k \in 1 .. Len(s)
      BY <2>1, <2>4, <3>1 DEF InboxInv
    <3> QED
      BY <2>2, <3>1, <3>2
  <2> QED
    BY <2>3, <2>4 DEF RoutedByName
<1> QED
  BY <1>1, Invariance, PTL

\* rastafactory.c, rastamodule.c: a datagram gives the messages that were put in, one by
\* one and in order, or, of a sender that had an error pending, is accepted by nobody.
THEOREM Decoded == Spec => []DatagramsDecode
<1>1. ASSUME IInv PROVE DatagramsDecode
  <2>1. PlainInv /\ LinkInv
    BY <1>1 DEF IInv
  <2>2. ASSUME NEW i \in Live, NEW j \in Live, NEW k \in 1 .. Len(link[i][j])
        PROVE  LET datagram == link[i][j][k]
               IN  IF datagram.bad
                   THEN ~ChecksumsCorrect(datagram.bytes)
                   ELSE /\ ChecksumsCorrect(datagram.bytes)
                        /\ ExtractMessageData(datagram.bytes.inner.packet.data) = datagram.carried
    <3>1. PICK p \in {ProtocolP, ProtocolLS} : p = protocol[i]
      BY <2>1, Speaks
    <3>2. PICK D : D = Datagrams(p, i, j)
      OBVIOUS
    <3>3. PICK s : s = link[i][j]
      OBVIOUS
    <3>4. s \in Seq(D) /\ k \in 1 .. Len(s)
      BY <2>1, <2>2, <3>1, <3>2, <3>3 DEF LinkInv
    <3>5. PICK d \in D : d = s[k]
      BY <3>4
    <3>6. /\ d.bad \in BOOLEAN /\ (ChecksumsCorrect(d.bytes) <=> ~d.bad)
          /\ ExtractMessageData(d.bytes.inner.packet.data) = d.carried
      BY <3>2, <3>5, DatagramFacts
    <3> QED
      BY <3>3, <3>5, <3>6
  <2> QED
    BY <2>2 DEF DatagramsDecode
<1> QED
  BY <1>1, Invariance, PTL

\* The factories and handlers of sci: a received telegram calls the notification of its
\* type with the name of its sender and the value that was sent, exactly if it can.
THEOREM HeardRight == Spec => []HeardAsSent
<1>1. ASSUME IInv PROVE HeardAsSent
  BY <1>1 DEF IInv
<1> QED
  BY <1>1, Invariance, PTL
=============================================================================
