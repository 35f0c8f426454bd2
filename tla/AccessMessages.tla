--------------------------- MODULE AccessMessages ---------------------------
(***************************************************************************)
(* The access messages of the configuration, on-off and battery models: the*)
(* bytes a node makes of a message (opcode and emit_parameters) and the    *)
(* message a model makes of bytes (Opcode::split and Model::parse).        *)
(*                                                                         *)
(* A message is a record whose kind names the variant of the enums in the  *)
(* code.  What a model reads is a sequence: one message, or none when parse*)
(* answers None or an error, which the model's task passes over alike.     *)
(* A parse that indexes past its parameters answers neither: see Panics.   *)
(***************************************************************************)
EXTENDS OctetStrings, SequencesExt, FiniteSets

CONSTANT VirtualAddressOf(_)  \* of a label UUID: a hash, with the top bits of a virtual address

IsUnicast(n) == n < \h8000

(* An Option<u8> on the wire: the field is there or it is not.             *)
Optional(p, i) == IF Len(p) >= i THEN <<p[i]>> ELSE <<>>

-----------------------------------------------------------------------------
(* Opcodes.  No build enables the feature that relay.rs is compiled under. *)

BeaconOpcodes ==
    [BeaconGet |-> <<\h80, \h09>>, BeaconSet |-> <<\h80, \h0A>>, BeaconStatus |-> <<\h80, \h0B>>]
DefaultTtlOpcodes ==
    [DefaultTtlGet |-> <<\h80, \h0C>>, DefaultTtlSet |-> <<\h80, \h0D>>, DefaultTtlStatus |-> <<\h80, \h0E>>]
NodeResetOpcodes == [NodeReset |-> <<\h80, \h49>>, NodeResetStatus |-> <<\h80, \h4A>>]
CompositionOpcodes == [CompositionGet |-> <<\h80, \h08>>, CompositionStatus |-> <<\h02>>]
AppKeyOpcodes ==
    [AppKeyAdd |-> <<\h00>>, AppKeyGet |-> <<\h80, \h01>>, AppKeyList |-> <<\h80, \h02>>,
     AppKeyStatus |-> <<\h80, \h03>>]
ModelAppOpcodes ==
    [ModelAppBind |-> <<\h80, \h3D>>, ModelAppStatus |-> <<\h80, \h3E>>, ModelAppUnbind |-> <<\h80, \h3F>>]
PublicationOpcodes ==
    [PublicationSet |-> <<\h03>>, PublicationStatus |-> <<\h80, \h19>>,
     PublicationVirtualSet |-> <<\h80, \h1A>>]
SubscriptionOpcodes ==
    [SubscriptionAdd |-> <<\h80, \h1B>>, SubscriptionStatus |-> <<\h80, \h1F>>,
     SubscriptionVirtualAdd |-> <<\h80, \h20>>]
NetworkTransmitOpcodes ==
    [NetworkTransmitGet |-> <<\h80, \h23>>, NetworkTransmitSet |-> <<\h80, \h24>>,
     NetworkTransmitStatus |-> <<\h80, \h25>>]
OnOffOpcodes ==
    [OnOffGet |-> <<\h82, \h01>>, OnOffSet |-> <<\h82, \h02>>, OnOffSetUnacknowledged |-> <<\h82, \h03>>,
     OnOffStatus |-> <<\h82, \h04>>]
BatteryOpcodes == [BatteryGet |-> <<\h82, \h23>>, BatteryStatus |-> <<\h82, \h24>>]

OpcodeOf(kind) ==
    CASE kind \in DOMAIN BeaconOpcodes          -> BeaconOpcodes[kind]
      [] kind \in DOMAIN DefaultTtlOpcodes      -> DefaultTtlOpcodes[kind]
      [] kind \in DOMAIN NodeResetOpcodes       -> NodeResetOpcodes[kind]
      [] kind \in DOMAIN CompositionOpcodes     -> CompositionOpcodes[kind]
      [] kind \in DOMAIN AppKeyOpcodes          -> AppKeyOpcodes[kind]
      [] kind \in DOMAIN ModelAppOpcodes        -> ModelAppOpcodes[kind]
      [] kind \in DOMAIN PublicationOpcodes     -> PublicationOpcodes[kind]
      [] kind \in DOMAIN SubscriptionOpcodes    -> SubscriptionOpcodes[kind]
      [] kind \in DOMAIN NetworkTransmitOpcodes -> NetworkTransmitOpcodes[kind]
      [] kind \in DOMAIN OnOffOpcodes           -> OnOffOpcodes[kind]
      [] kind \in DOMAIN BatteryOpcodes         -> BatteryOpcodes[kind]

Size(first) == IF first < \h80 THEN 1 ELSE IF first < \hC0 THEN 2 ELSE 3

(* Opcode::split: of a one-octet opcode six bits are kept, of seven sent.  *)
Split(data) ==
    IF data = <<>> \/ Len(data) < Size(data[1]) THEN <<>>
    ELSE <<[opcode |-> IF Size(data[1]) = 1 THEN <<data[1] % 64>> ELSE Slice(data, 1, Size(data[1])),
            parameters |-> From(data, Size(data[1]) + 1)]>>

-----------------------------------------------------------------------------
(* Fields. *)

(* KeyIndex: emit_one puts the high bits of the index in the high nibble of*)
(* the second octet and parse_one takes them from the low one.             *)
EmitOne(index) == <<index % 256, (16 * (index \div 256)) % 256>>
ParseOne(p) == Number(p[2] % 16, p[1])

EmitTwo(first, second) ==
    <<second \div 256, OrHigh(second % 256, first \div 256), first % 256>>
ParseTwo(p) == [net |-> Number(p[2] % 16, p[3]), app |-> Number(p[1], p[2] \div 16)]

(* ModelIdentifier: <<id>> is a SIG model, <<company, id>> a vendor's.     *)
EmitModel(model) == IF Len(model) = 1 THEN Little(model[1]) ELSE Little(model[1]) \o Little(model[2])
ParseModel(p) == [i \in 1 .. Len(p) \div 2 |-> Number(p[2 * i], p[2 * i - 1])]
IsModel(p) == Len(p) \in {2, 4}

(* PublishAddress and SubscriptionAddress: <<n>> is unicast, a label has 16. *)
EmitAddress(address) ==
    Little(IF Len(address) = 1 THEN address[1] ELSE VirtualAddressOf(address))

Retransmit(m) == ((32 * m.count) % 256) + (m.steps % 32)

-----------------------------------------------------------------------------
(* emit_parameters *)

EmitModelApp(m) == Little(m.element) \o EmitOne(m.app) \o EmitModel(m.model)

(* The credential flag is set in the octet that AppKeyIndex::emit put last.*)
EmitPublicationStatus(m) ==
    LET app == EmitOne(m.app)
    IN  <<m.status>> \o Little(m.element) \o EmitAddress(m.address)
        \o <<app[1], IF m.credential THEN WithBit(app[2], 8) ELSE app[2]>>
        \o <<IF m.ttl = <<>> THEN 255 ELSE m.ttl[1], m.period, Retransmit(m)>>
        \o EmitModel(m.model)

EmitSubscriptionStatus(m) ==
    <<m.status>> \o Little(m.element) \o EmitAddress(m.address) \o EmitModel(m.model)

(* AppKeyListMessage: the indexes in pairs, the last alone if it is odd.   *)
EmitAppKeyList(m) ==
    LET n == Len(m.apps)
        Chunk(i) == IF 2 * i <= n THEN EmitTwo(m.apps[2 * i - 1], m.apps[2 * i])
                                  ELSE EmitOne(m.apps[n])
    IN  <<m.status>> \o EmitOne(m.net) \o FlattenSeq([i \in 1 .. (n + 1) \div 2 |-> Chunk(i)])

(* A composition: its elements hold at most four models, and it four elements. *)
MaxElements == 4
MaxModels == 4
Taken(s, max) == Slice(s, 1, IF Len(s) < max THEN Len(s) ELSE max)
(* add_element and add_model.                                              *)
Composed(elements) ==
    Taken([e \in DOMAIN elements |->
              [elements[e] EXCEPT !.models = Taken(@, MaxModels)]], MaxElements)

(* mutant: how many models there are, in two octets each.                  *)
EmitElementWide(element) ==
    LET models == element.models
        Those(n) == {i \in DOMAIN models : Len(models[i]) = n}
        Emitted(n) == [i \in DOMAIN models |-> IF i \in Those(n) THEN EmitModel(models[i]) ELSE <<>>]
    IN  Little(element.loc) \o Octets(Cardinality(Those(1))) \o Octets(Cardinality(Those(2)))
        \o UpToFour(Emitted(1)) \o UpToFour(Emitted(2))
(* An element: its place, how many models of each kind, those of SIG first. *)
EmitElement(element) ==
    LET models == element.models
        Those(n) == {i \in DOMAIN models : Len(models[i]) = n}
        Emitted(n) == [i \in DOMAIN models |-> IF i \in Those(n) THEN EmitModel(models[i]) ELSE <<>>]
    IN  Little(element.loc) \o <<Cardinality(Those(1)), Cardinality(Those(2))>>
        \o UpToFour(Emitted(1)) \o UpToFour(Emitted(2))

EmitComposition(m) ==
    LET elements == Composed(m.elements)
    IN  <<m.page>> \o Octets(m.cid) \o Octets(m.pid) \o Octets(m.vid) \o Octets(m.crpl)
        \o <<m.features, 0>> \o UpToFour([e \in DOMAIN elements |-> EmitElement(elements[e])])

(* Set::emit_parameters: a delay is sent with a transition time only.      *)
EmitOnOffSet(m) ==
    <<m.on_off, m.tid>> \o m.transition \o IF m.transition = <<>> THEN <<>> ELSE m.delay

Three(n) == <<n \div 65536>> \o Octets(n % 65536)
EmitBatteryStatus(m) ==
    <<m.level>> \o Three(m.discharge) \o Three(m.charge)
    \o <<16 * m.presence + 4 * m.indicator + m.charging>>

EmitBeacon(m) == IF m.kind = "BeaconGet" THEN <<>> ELSE <<IF m.on THEN 1 ELSE 0>>
EmitDefaultTtl(m) == IF m.kind = "DefaultTtlGet" THEN <<>> ELSE <<m.ttl>>
EmitNodeReset(m) == <<>>
EmitCompositionMessage(m) == IF m.kind = "CompositionGet" THEN <<m.page>> ELSE EmitComposition(m)
EmitAppKeyStatus(m) == <<m.status>> \o EmitTwo(m.net, m.app)
EmitAppKey(m) == IF m.kind = "AppKeyList" THEN EmitAppKeyList(m) ELSE EmitAppKeyStatus(m)
EmitModelAppStatus(m) == <<m.status>> \o EmitModelApp(m)
EmitModelAppMessage(m) == IF m.kind = "ModelAppStatus" THEN EmitModelAppStatus(m) ELSE EmitModelApp(m)
EmitNetworkTransmit(m) ==
    IF m.kind = "NetworkTransmitGet" THEN <<>> ELSE <<32 * (m.count \div 32) + (m.steps % 32)>>
EmitOnOffStatus(m) == <<m.present, m.target, m.remaining>>
EmitOnOff(m) ==
    CASE m.kind = "OnOffGet"    -> <<>>
      [] m.kind = "OnOffStatus" -> EmitOnOffStatus(m)
      [] OTHER                  -> EmitOnOffSet(m)
EmitBattery(m) == IF m.kind = "BatteryGet" THEN <<>> ELSE EmitBatteryStatus(m)

EmitParameters(m) ==
    CASE m.kind \in DOMAIN BeaconOpcodes          -> EmitBeacon(m)
      [] m.kind \in DOMAIN DefaultTtlOpcodes      -> EmitDefaultTtl(m)
      [] m.kind \in DOMAIN NodeResetOpcodes       -> EmitNodeReset(m)
      [] m.kind \in DOMAIN CompositionOpcodes     -> EmitCompositionMessage(m)
      [] m.kind \in DOMAIN AppKeyOpcodes          -> EmitAppKey(m)
      [] m.kind \in DOMAIN ModelAppOpcodes        -> EmitModelAppMessage(m)
      [] m.kind \in DOMAIN PublicationOpcodes     -> EmitPublicationStatus(m)
      [] m.kind \in DOMAIN SubscriptionOpcodes    -> EmitSubscriptionStatus(m)
      [] m.kind \in DOMAIN NetworkTransmitOpcodes -> EmitNetworkTransmit(m)
      [] m.kind \in DOMAIN OnOffOpcodes           -> EmitOnOff(m)
      [] m.kind \in DOMAIN BatteryOpcodes         -> EmitBattery(m)

-----------------------------------------------------------------------------
(* Model::parse: the message of this kind that the parameters hold, if any.*)

Nullary(kind, p) == IF p = <<>> THEN <<[kind |-> kind]>> ELSE <<>>

ParseBeaconGet(p) == Nullary("BeaconGet", p)
ParseDefaultTtlGet(p) == Nullary("DefaultTtlGet", p)
ParseNodeReset(p) == Nullary("NodeReset", p)
ParseBeaconSet(p) == IF p \in {<<0>>, <<1>>} THEN <<[kind |-> "BeaconSet", on |-> p = <<1>>]>> ELSE <<>>
ParseDefaultTtlSet(p) == IF Len(p) = 1 THEN <<[kind |-> "DefaultTtlSet", ttl |-> p[1]]>> ELSE <<>>
ParseCompositionGet(p) == IF Len(p) = 1 THEN <<[kind |-> "CompositionGet", page |-> p[1]]>> ELSE <<>>

ParseAppKeyAdd(p) ==
    IF Len(p) = 19
    THEN LET keys == ParseTwo(p)
         IN  <<[kind |-> "AppKeyAdd", net |-> keys.net, app |-> keys.app, key |-> From(p, 4)]>>
    ELSE <<>>
ParseAppKeyGet(p) == IF Len(p) = 2 THEN <<[kind |-> "AppKeyGet", net |-> ParseOne(p)]>> ELSE <<>>

ParseModelApp(kind, p) ==
    IF Len(p) >= 6 /\ IsUnicast(Number(p[2], p[1])) /\ IsModel(From(p, 5))
    THEN <<[kind |-> kind, element |-> Number(p[2], p[1]), app |-> ParseOne(Slice(p, 3, 4)),
            model |-> ParseModel(From(p, 5))]>>
    ELSE <<>>

(* The two forms of a publication: the address is p[3..4], a unicast one, or *)
(* the label p[3..18]; whatever follows it is laid out alike.  Both become a *)
(* Set.  The credential flag is a bit of what parse_one takes as the index.*)
ParsePublication(p, address, rest) ==
    IF IsUnicast(Number(p[2], p[1])) /\ IsModel(From(rest, 6))
    THEN <<[kind |-> "PublicationSet", element |-> Number(p[2], p[1]), address |-> address,
            app |-> ParseOne(rest), credential |-> HasBit(rest[2], 8),
            ttl |-> IF rest[3] = 255 THEN <<>> ELSE <<rest[3]>>, period |-> rest[4],
            count |-> rest[5] \div 32, steps |-> rest[5] % 32, model |-> ParseModel(From(rest, 6))]>>
    ELSE <<>>
ParsePublicationSet(p) ==
    IF Len(p) >= 11 /\ IsUnicast(Number(p[4], p[3]))
    THEN ParsePublication(p, <<Number(p[4], p[3])>>, From(p, 5)) ELSE <<>>
ParsePublicationVirtualSet(p) ==
    IF Len(p) >= 25 THEN ParsePublication(p, Slice(p, 3, 18), From(p, 19)) ELSE <<>>

(* A subscription's model is looked for at p[10], which is past the address*)
(* and the model of a message in the mesh format; with a label, at p[19].  *)
ParseSubscription(p, address, model) ==
    IF IsUnicast(Number(p[2], p[1])) /\ IsModel(model)
    THEN <<[kind |-> "SubscriptionAdd", element |-> Number(p[2], p[1]), address |-> address,
            model |-> ParseModel(model)]>>
    ELSE <<>>
ParseSubscriptionAdd(p) ==
    IF Len(p) >= 9 /\ IsUnicast(Number(p[4], p[3]))
    THEN ParseSubscription(p, <<Number(p[4], p[3])>>, From(p, 10)) ELSE <<>>
ParseSubscriptionVirtualAdd(p) ==
    IF Len(p) >= 19 THEN ParseSubscription(p, Slice(p, 3, 18), From(p, 19)) ELSE <<>>

(* mutant: the model is looked for one octet earlier.                      *)
PanicsEarlier(m, p) ==
    /\ m = "SubscriptionAdd" /\ Len(p) \in 6 .. 7
    /\ IsUnicast(Number(p[2], p[1])) /\ IsUnicast(Number(p[4], p[3]))
(* Where parse_add of a subscription slices from past the end of p.        *)
Panics(m, p) ==
    /\ m = "SubscriptionAdd" /\ Len(p) \in 6 .. 8
    /\ IsUnicast(Number(p[2], p[1])) /\ IsUnicast(Number(p[4], p[3]))

(* mutant: a delay is read where a transition time is.                     *)
ParseOnOffSetDelayed(p) ==
    IF Len(p) >= 2
    THEN <<[kind |-> "OnOffSet", on_off |-> p[1], tid |-> p[2],
            transition |-> Optional(p, 3), delay |-> Optional(p, 3)]>>
    ELSE <<>>
(* Set and SetUnacknowledged both become a Set.                            *)
ParseOnOffSet(p) ==
    IF Len(p) >= 2
    THEN <<[kind |-> "OnOffSet", on_off |-> p[1], tid |-> p[2],
            transition |-> Optional(p, 3), delay |-> Optional(p, 4)]>>
    ELSE <<>>

ParseConfiguration(opcode, p) ==
    CASE opcode = BeaconOpcodes.BeaconGet                    -> ParseBeaconGet(p)
      [] opcode = BeaconOpcodes.BeaconSet                    -> ParseBeaconSet(p)
      [] opcode = DefaultTtlOpcodes.DefaultTtlGet            -> ParseDefaultTtlGet(p)
      [] opcode = DefaultTtlOpcodes.DefaultTtlSet            -> ParseDefaultTtlSet(p)
      [] opcode = NodeResetOpcodes.NodeReset                 -> ParseNodeReset(p)
      [] opcode = CompositionOpcodes.CompositionGet          -> ParseCompositionGet(p)
      [] opcode = AppKeyOpcodes.AppKeyAdd                    -> ParseAppKeyAdd(p)
      [] opcode = AppKeyOpcodes.AppKeyGet                    -> ParseAppKeyGet(p)
      [] opcode = ModelAppOpcodes.ModelAppBind               -> ParseModelApp("ModelAppBind", p)
      [] opcode = ModelAppOpcodes.ModelAppUnbind             -> ParseModelApp("ModelAppUnbind", p)
      [] opcode = PublicationOpcodes.PublicationSet          -> ParsePublicationSet(p)
      [] opcode = PublicationOpcodes.PublicationVirtualSet   -> ParsePublicationVirtualSet(p)
      [] opcode = SubscriptionOpcodes.SubscriptionAdd        -> ParseSubscriptionAdd(p)
      [] opcode = SubscriptionOpcodes.SubscriptionVirtualAdd -> ParseSubscriptionVirtualAdd(p)
      [] OTHER                                               -> <<>>

(* GenericOnOffServer reads no Get, which a GenericOnOffClient may send.   *)
ParseOnOff(opcode, p) ==
    IF opcode \in {OnOffOpcodes.OnOffSet, OnOffOpcodes.OnOffSetUnacknowledged} THEN ParseOnOffSet(p) ELSE <<>>

ParseBattery(opcode, p) == IF opcode = BatteryOpcodes.BatteryGet THEN <<[kind |-> "BatteryGet"]>> ELSE <<>>

(* What the three servers read, of which each has opcodes of its own.      *)
Parse(opcode, p) == {ParseConfiguration(opcode, p), ParseOnOff(opcode, p), ParseBattery(opcode, p)} \ {<<>>}

=============================================================================
