------------------------------ MODULE Codecs ------------------------------
(***************************************************************************)
(* The codecs of the stack together: what the PDUs of provisioning, network*)
(* PDUs and the messages of the models become as octets, who reads them,   *)
(* and which of them are read as they were sent.                           *)
(***************************************************************************)
EXTENDS OctetStrings, FiniteSets

CONSTANTS VirtualAddressOf(_), LogOf(_), Nid(_), AidOf(_),  \* hashes and a logarithm
          Descriptors, CadenceDescriptors, SettingDescriptors  \* of the device's sensors

Access == INSTANCE AccessMessages
Sensor == INSTANCE SensorMessages
Pb == INSTANCE ProvisioningPdus
Net == INSTANCE NetworkPdus WITH Split <- Access!Split

-----------------------------------------------------------------------------
(* Provisioning. *)

OobSizes(pdu) == {pdu.output_size, pdu.input_size}

(* An action of output or input is two octets of a mask where parse takes  *)
(* one, an octet too many; a size of eight digits is not parsed; a link is *)
(* neither opened nor closed by what emit makes of it; six bits are sent of*)
(* the number of a segment.                                                *)
Readable(pdu) ==
    CASE pdu.kind = "Capabilities" -> 8 \notin OobSizes(pdu)
      [] pdu.kind = "Start" -> pdu.method \in {Pb!No, Pb!Static}
      [] pdu.kind \in {"LinkOpen", "LinkClose"} -> FALSE
      [] pdu.kind = "TransactionStart" -> pdu.seg_n < 64
      [] pdu.kind = "TransactionContinuation" -> pdu.segment_index < 64
      [] OTHER -> TRUE

IsGeneric(pdu) == pdu.kind \in {"LinkOpen", "LinkAck", "LinkClose", "TransactionStart",
                                "TransactionAck", "TransactionContinuation"}
OnLink(pdu) == [link_id |-> <<1, 2, 3, 4>>, transaction_number |-> 128, pdu |-> pdu]

(* It is read as it was sent exactly if it is Readable, and over PB-GATT no *)
(* other than without.                                                     *)
PduReadsBack(pdu) ==
    IF IsGeneric(pdu)
    THEN Pb!ParseAdvertising(Pb!EmitAdvertising(OnLink(pdu))) = <<OnLink(pdu)>> <=> Readable(pdu)
    ELSE /\ Pb!Parse(Pb!Emit(pdu)) = <<pdu>> <=> Readable(pdu)
         /\ Pb!ReceiveGatt(Pb!TransmitGatt(pdu)[1]) = Pb!Parse(Pb!Emit(pdu))

-----------------------------------------------------------------------------
(* Messages of the models. *)

(* What a model of a node reads of a message: a configuration, on-off or   *)
(* battery server, or a sensor server, client or setup server.  A set: each*)
(* model has opcodes of its own, so there is one reading, or none.         *)
SensorPanics(opcode, p) == \E k \in Sensor!Kinds : Sensor!OpcodeOf(k) = opcode /\ Sensor!Panics(k, p)
ReadBySensors(opcode, p) ==
    IF SensorPanics(opcode, p) THEN {} ELSE {Sensor!Parse(opcode, p), Sensor!ParseSetup(opcode, p)} \ {<<>>}
ReadBySome(opcode, p) == Access!Parse(opcode, p) \cup ReadBySensors(opcode, p)

IsAccess(m) == m.kind \notin Sensor!Kinds
OpcodeOf(m) == IF IsAccess(m) THEN Access!OpcodeOf(m.kind) ELSE Sensor!OpcodeOf(m.kind)
EmitParameters(m) == IF IsAccess(m) THEN Access!EmitParameters(m) ELSE Sensor!EmitParameters(m)
EmitAll(m) == OpcodeOf(m) \o EmitParameters(m)   \* AccessMessage::emit

(* Seven bits of a one-octet opcode are sent and six are read.             *)
Survives(m) == Len(OpcodeOf(m)) > 1 \/ OpcodeOf(m)[1] < 64

(* A divisor is shifted as it is sent and not as it is read.               *)
Shifted(m) == <<m.divisor, m.unitless>> \in {<<0, FALSE>>, <<3, TRUE>>}
Unread == {"BeaconStatus", "DefaultTtlStatus", "NodeResetStatus", "CompositionStatus", "AppKeyStatus",
           "AppKeyList", "ModelAppStatus", "PublicationStatus", "SubscriptionStatus", "OnOffGet",
           "OnOffStatus", "OnOffSetUnacknowledged", "BatteryStatus", "NetworkTransmitGet",
           "NetworkTransmitSet", "NetworkTransmitStatus", "DescriptorStatus", "SensorStatus",
           "ColumnStatus", "SeriesStatus", "CadenceStatus", "SettingsStatus", "SettingStatus"}
Kept(m) ==
    CASE m.kind \in Unread -> FALSE
      [] m.kind \in {"ModelAppBind", "ModelAppUnbind"} -> m.app < 256
      [] m.kind = "OnOffSet" -> m.delay = <<>> \/ m.transition # <<>>
      [] m.kind \in {"CadenceSet", "CadenceSetUnacknowledged"} -> Shifted(m)
      [] OTHER -> TRUE

(* The octets of a message, once without what becomes of its opcode.       *)
MessageReadsBack(m) ==
    LET split == Access!Split(EmitAll(m))[1]
    IN  /\ ReadBySome(OpcodeOf(m), EmitParameters(m)) = {<<m>>} <=> Kept(m)
        /\ ReadBySome(split.opcode, split.parameters) = {<<m>>} <=> Kept(m) /\ Survives(m)

-----------------------------------------------------------------------------
(* What a status says, to who knows how it is laid out.                    *)

(* Other tolerances with the same octets.                                  *)
Twins(d) ==
    {t \in {(d.positive % 256) + 256 * high : high \in 0 .. 15}
           \X {256 * (d.negative \div 256) + low : low \in 0 .. 255} :
        /\ t # <<d.positive, d.negative>>
        /\ Sensor!EmitTolerances(t[1], t[2]) = Sensor!EmitTolerances(d.positive, d.negative)}
TolerancesTell(d) == Twins(d) = {} <=> d.positive < 256 /\ d.negative % 256 < 16

(* A header read by the bit that sets the two formats apart.               *)
HeaderOf(d) == Sensor!EmitHeader(d.id, d.size)
HeaderReads(d) ==
    IF HeaderOf(d)[1] < 128
    THEN /\ d.size = HeaderOf(d)[1] \div 8
         /\ d.id = 256 * (HeaderOf(d)[1] % 8) + HeaderOf(d)[2]
    ELSE /\ d.size = HeaderOf(d)[1] % 128
         /\ d.id = 256 * HeaderOf(d)[2] + HeaderOf(d)[3]
HeaderTells(d) ==
    HeaderReads(d) <=> IF d.id < 2048 /\ d.size <= 16 THEN d.size < 16
                       ELSE d.id = 257 * (d.id % 256) /\ d.size < 128

-----------------------------------------------------------------------------
(* What there is to encode. *)

OfLength(n) == {octets \in Seq(Octet) : Len(octets) = n}
Id == Word      \* of a property, a company, a model
Index == Word   \* of a key, of which the mesh uses twelve bits
Unicast == {n \in Word : Access!IsUnicast(n)}

(* The PDUs of provisioning, and of the link under them.                   *)
SimplePdus == [kind : {"InputComplete", "Complete", "LinkAck", "TransactionAck"}]
Invites == [kind : {"Invite"}, attention : Octet]
Failures == [kind : {"Failed"}, error : 0 .. 8]
Capabilities ==
    [kind : {"Capabilities"}, elements : Octet, p256 : BOOLEAN, public_key : BOOLEAN, static : BOOLEAN,
     output_size : 0 .. 8, output : SUBSET Pb!OutputActions,
     input_size : 0 .. 8, input : SUBSET Pb!InputActions]
Starts(methods, actions, sizes) ==
    [kind : {"Start"}, oob_key : BOOLEAN, method : methods, action : actions, size : sizes]
Bodies(kind, n) == [kind : {kind}, body : OfLength(n)]
Opens == [kind : {"LinkOpen"}, uuid : OfLength(16)]
Closes == [kind : {"LinkClose"}, reason : 0 .. 2]
Segment == {octets \in Seq(Octet) : Len(octets) \in 1 .. Pb!MaxSegment}
FirstSegments ==
    [kind : {"TransactionStart"}, seg_n : Octet, total_len : Word, fcs : Octet, data : Segment]
OtherSegments == [kind : {"TransactionContinuation"}, segment_index : Octet, data : Segment]

IsStart(pdu) ==
    \/ pdu \in Starts({Pb!No, Pb!Static}, {<<>>}, {0})
    \/ pdu \in Starts({Pb!Output}, {<<a>> : a \in Pb!OutputActions}, 1 .. 8)
    \/ pdu \in Starts({Pb!Input}, {<<a>> : a \in Pb!InputActions}, 1 .. 8)
IsBody(pdu) ==
    \/ pdu \in Bodies("PublicKey", 64)
    \/ pdu \in Bodies("Confirmation", 16)
    \/ pdu \in Bodies("Random", 16)
    \/ pdu \in Bodies("Data", 33)
IsPdu(pdu) ==
    \/ pdu \in SimplePdus \cup Invites \cup Failures \cup Capabilities
    \/ IsStart(pdu) \/ IsBody(pdu)
    \/ pdu \in Opens \cup Closes \cup FirstSegments \cup OtherSegments

(* Models, as <<id>> of SIG and <<company, id>> of a vendor; elements.     *)
ModelIds == {model \in Seq(Id) : Len(model) \in {1, 2}}
Element == [loc : Id, models : Seq(ModelIds)]
CompositionStatuses ==
    [kind : {"CompositionStatus"}, page : Octet, cid : Id, pid : Id, vid : Id, crpl : Id,
     features : Octet, elements : Seq(Element)]

(* The messages of which there is a reader: an element has a unicast address; *)
(* values are as long as their descriptor says.                            *)
Optional(S) == {some \in Seq(S) : Len(some) <= 1}
SimpleMessages == [kind : {"BeaconGet", "DefaultTtlGet", "NodeReset", "BatteryGet"}]
Switches == [kind : {"BeaconSet"}, on : BOOLEAN]
TimesToLive == [kind : {"DefaultTtlSet"}, ttl : Octet]
Pages == [kind : {"CompositionGet"}, page : Octet]
Binds ==
    [kind : {"ModelAppBind", "ModelAppUnbind"}, element : Unicast, app : Index, model : ModelIds]
OnOffs ==
    [kind : {"OnOffSet"}, on_off : Octet, tid : Octet, transition : Optional(Octet), delay : Optional(Octet)]
Questions == [kind : {"DescriptorGet", "SensorGet"}, only : Optional(Id)]
Identified == [kind : {"CadenceGet", "SettingsGet"}, id : Id]
Columns == [kind : {"ColumnGet"}, id : Id, x : Seq(Octet)]
Series == [kind : {"SeriesGet"}, id : Id, values : {v \in Seq(Seq(Octet)) : Len(v) \in {0, 2}}]
Cadences ==
    [kind : {"CadenceSet", "CadenceSetUnacknowledged"}, id : Id, divisor : 0 .. 127, unitless : BOOLEAN,
     down : Seq(Octet), up : Seq(Octet), interval : Octet, low : Seq(Octet), high : Seq(Octet)]
SettingGets == [kind : {"SettingGet"}, id : Id, setting : Id]
SettingSets ==
    [kind : {"SettingSet", "SettingSetUnacknowledged"}, id : Id, setting : Id, raw : Seq(Octet)]

(* How long the values of a sensor are.                                    *)
XSize(id) == Sensor!The(Sensor!Lookup(id)).x_size
CadenceSize(id) == Sensor!The(Sensor!LookupCadence(id)).size
SettingSize(id, setting) == Sensor!The(Sensor!LookupSetting(id, setting)).size

IsColumn(m) == m \in Columns /\ Sensor!Lookup(m.id) # {} /\ Len(m.x) = XSize(m.id)
IsSeries(m) ==
    /\ m \in Series
    /\ m.values # <<>> => /\ Sensor!Lookup(m.id) # {} /\ XSize(m.id) > 0
                          /\ Len(m.values[1]) = XSize(m.id) /\ Len(m.values[2]) = XSize(m.id)
IsCadence(m) ==
    /\ m \in Cadences /\ Sensor!LookupCadence(m.id) # {}
    /\ \A field \in {m.down, m.up, m.low, m.high} : Len(field) = CadenceSize(m.id)
IsSetting(m) ==
    /\ m \in SettingSets /\ Sensor!LookupSetting(m.id, m.setting) # {}
    /\ Len(m.raw) = SettingSize(m.id, m.setting)

IsMessage(m) ==
    \/ m.kind \in Unread \ {"CompositionStatus"} \/ m \in CompositionStatuses
    \/ m \in SimpleMessages \cup Switches \cup TimesToLive \cup Pages \cup Binds \cup OnOffs
    \/ m \in Questions \cup Identified \cup SettingGets
    \/ IsColumn(m) \/ IsSeries(m) \/ IsCadence(m) \/ IsSetting(m)

(* A sensor that the device has.                                           *)
IsDescriptor(d) ==
    /\ d.id \in Id /\ d.size \in Nat /\ d.x_size \in Nat
    /\ d.positive \in Word /\ d.negative \in Word

(* The parameters of requests that configure keys, publications and         *)
(* subscriptions, in the format of the mesh: an element, an address or a   *)
(* label, an index, a model.  Of adding a subscription also those that are *)
(* long enough for the code.                                               *)
IsUnicast(p, i) == Access!IsUnicast(Number(p[i + 1], p[i]))
RequestKinds == {"AppKeyAdd", "ModelAppBind", "ModelAppUnbind", "PublicationSet", "PublicationVirtualSet",
                 "SubscriptionAdd", "SubscriptionVirtualAdd"}
IsRequest(kind, p) ==
    /\ p \in Seq(Octet)
    /\ \/ kind = "AppKeyAdd" /\ Len(p) = 19
       \/ kind \in {"ModelAppBind", "ModelAppUnbind"} /\ Len(p) \in {6, 8} /\ IsUnicast(p, 1)
       \/ kind = "PublicationSet" /\ Len(p) \in {11, 13} /\ IsUnicast(p, 1) /\ IsUnicast(p, 3)
       \/ kind = "PublicationVirtualSet" /\ Len(p) \in {25, 27} /\ IsUnicast(p, 1)
       \/ kind = "SubscriptionAdd" /\ Len(p) \in {6, 8, 11, 13} /\ IsUnicast(p, 1) /\ IsUnicast(p, 3)
       \/ kind = "SubscriptionVirtualAdd" /\ Len(p) \in {20, 22} /\ IsUnicast(p, 1)

=============================================================================
