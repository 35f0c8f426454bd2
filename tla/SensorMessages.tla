--------------------------- MODULE SensorMessages ---------------------------
(***************************************************************************)
(* The messages of the sensor models, of which a device describes its own  *)
(* sensors (SensorConfig, SensorSetupConfig): their bytes, and what the    *)
(* sensor server, client and setup server read.  Messages, reading and     *)
(* panics are as in AccessMessages; a PropertyId is a number of 16 bits, a *)
(* RawValue a sequence of octets.                                          *)
(***************************************************************************)
EXTENDS OctetStrings, SequencesExt

CONSTANTS Descriptors,         \* C::DESCRIPTORS, a sequence: a sensor's id, size and x_size
          CadenceDescriptors,  \* a set: id and size
          SettingDescriptors,  \* a set: sensor, setting and size
          LogOf(_)             \* log_1_1, a float's logarithm

PropertyAt(p, i) == p[i] + 256 * p[i + 1]
HasProperty(p, i) == Len(p) >= i + 1

SensorOpcodes ==
    [DescriptorGet |-> <<\h82, \h30>>, DescriptorStatus |-> <<\h51>>,
     SensorGet |-> <<\h82, \h31>>, SensorStatus |-> <<\h52>>,
     ColumnGet |-> <<\h82, \h32>>, ColumnStatus |-> <<\h53>>,
     SeriesGet |-> <<\h82, \h33>>, SeriesStatus |-> <<\h54>>]
SetupOpcodes ==
    [CadenceGet |-> <<\h82, \h34>>, CadenceSet |-> <<\h55>>,
     CadenceSetUnacknowledged |-> <<\h56>>, CadenceStatus |-> <<\h57>>,
     SettingsGet |-> <<\h82, \h35>>, SettingsStatus |-> <<\h58>>,
     SettingGet |-> <<\h82, \h36>>, SettingSet |-> <<\h59>>,
     SettingSetUnacknowledged |-> <<\h5A>>, SettingStatus |-> <<\h5B>>]
Kinds == DOMAIN SensorOpcodes \cup DOMAIN SetupOpcodes
OpcodeOf(kind) == IF kind \in DOMAIN SensorOpcodes THEN SensorOpcodes[kind] ELSE SetupOpcodes[kind]

-----------------------------------------------------------------------------
(* What a status says of a sensor. *)

(* mutant: four low bits of the second tolerance, as there is room for.    *)
EmitTolerancesApart(positive, negative) ==
    << positive % 256,
       OrHigh(positive \div 256, negative % 16),
       negative \div 256 >>
(* The tolerances share three octets: the second holds high bits of the one*)
(* and, all eight, low bits of the other.                                  *)
EmitTolerances(positive, negative) ==
    << positive % 256,
       OrHigh(positive \div 256, negative % 256),
       negative \div 256 >>

Period(seconds) == IF seconds = <<>> THEN 0 ELSE LogOf(seconds[1])

EmitDescriptor(d) ==
    Little(d.id) \o EmitTolerances(d.positive, d.negative)
    \o <<d.sampling, Period(d.measurement), Period(d.update)>>

(* The header of a property in a SensorStatus: format A holds eleven bits of *)
(* the id and five of the length, format B twice the low octet of the id.  *)
FormatA(id, size) == id < 2048 /\ size <= 16
EmitHeader(id, size) ==
    IF FormatA(id, size)
    THEN <<8 * size + id \div 256, id % 256>>
    ELSE <<128 + (size % 128), id % 256, id % 256>>

(* data is the application's: what it encodes each property as.            *)
EmitSensors(data) ==
    FlattenSeq([i \in DOMAIN Descriptors |->
                   EmitHeader(Descriptors[i].id, Descriptors[i].size) \o data[i]])

(* The messages that carry a property, and octets or other properties.     *)
EmitOptional(m) == IF m.only = <<>> THEN <<>> ELSE Little(m.only[1])
EmitDescriptorStatus(m) ==
    IF m.missing # <<>> THEN Little(m.missing[1])
    ELSE FlattenSeq([i \in DOMAIN m.descriptors |-> EmitDescriptor(m.descriptors[i])])
EmitSensorStatus(m) == EmitSensors(m.data)
EmitColumnGet(m) == Little(m.id) \o m.x
EmitColumnStatus(m) == Little(m.id) \o m.x \o FlattenSeq(m.values)
EmitSeriesGet(m) == Little(m.id) \o IF m.values = <<>> THEN <<>> ELSE m.values[1] \o m.values[2]
EmitSeriesStatus(m) == Little(m.id) \o FlattenSeq(m.values)
EmitProperty(m) == Little(m.id)
EmitCadence(m) ==
    Little(m.id) \o <<((2 * m.divisor) % 256) + Flag(m.unitless)>>
    \o m.down \o m.up \o <<m.interval>> \o m.low \o m.high
EmitSettingsStatus(m) ==
    Little(m.id) \o FlattenSeq([i \in DOMAIN m.settings |-> Little(m.settings[i])])
EmitSettingGet(m) == Little(m.id) \o Little(m.setting)
EmitSettingSet(m) == Little(m.id) \o Little(m.setting) \o m.raw
EmitSettingStatus(m) ==
    Little(m.id) \o Little(m.setting) \o <<IF m.writable THEN 3 ELSE 1>> \o m.raw

EmitSensorMessage(m) ==
    CASE m.kind \in {"DescriptorGet", "SensorGet"} -> EmitOptional(m)
      [] m.kind = "DescriptorStatus"               -> EmitDescriptorStatus(m)
      [] m.kind = "SensorStatus"                   -> EmitSensorStatus(m)
      [] m.kind = "ColumnGet"                      -> EmitColumnGet(m)
      [] m.kind = "ColumnStatus"                   -> EmitColumnStatus(m)
      [] m.kind = "SeriesGet"                      -> EmitSeriesGet(m)
      [] m.kind = "SeriesStatus"                   -> EmitSeriesStatus(m)
EmitSetupMessage(m) ==
    CASE m.kind \in {"CadenceGet", "SettingsGet"}  -> EmitProperty(m)
      [] m.kind \in {"CadenceSet", "CadenceSetUnacknowledged", "CadenceStatus"} -> EmitCadence(m)
      [] m.kind = "SettingsStatus"                 -> EmitSettingsStatus(m)
      [] m.kind = "SettingGet"                     -> EmitSettingGet(m)
      [] m.kind \in {"SettingSet", "SettingSetUnacknowledged"} -> EmitSettingSet(m)
      [] m.kind = "SettingStatus"                  -> EmitSettingStatus(m)
EmitParameters(m) == IF m.kind \in DOMAIN SensorOpcodes THEN EmitSensorMessage(m) ELSE EmitSetupMessage(m)

-----------------------------------------------------------------------------
(* parse: the message, if any.  Octets past those a message needs are left.*)

Lookup(id) == {Descriptors[i] : i \in {j \in DOMAIN Descriptors : Descriptors[j].id = id}}
LookupCadence(id) == {d \in CadenceDescriptors : d.id = id}
LookupSetting(id, setting) == {d \in SettingDescriptors : d.sensor = id /\ d.setting = setting}
The(found) == CHOOSE d \in found : TRUE

ParseOptional(kind, p) ==
    IF p = <<>> THEN <<[kind |-> kind, only |-> <<>>]>>
    ELSE IF HasProperty(p, 1) THEN <<[kind |-> kind, only |-> <<PropertyAt(p, 1)>>]>>
    ELSE <<>>

ParseProperty(kind, p) ==
    IF HasProperty(p, 1) THEN <<[kind |-> kind, id |-> PropertyAt(p, 1)]>> ELSE <<>>

ParseColumnGet(p) ==
    LET found == Lookup(PropertyAt(p, 1))
    IN  IF HasProperty(p, 1) /\ found # {}
        THEN <<[kind |-> "ColumnGet", id |-> PropertyAt(p, 1),
                x |-> SubSeq(p, 3, 2 + The(found).x_size)]>>
        ELSE <<>>

ParseSeriesGet(p) ==
    LET id == PropertyAt(p, 1)
        size == The(Lookup(id)).x_size
    IN  IF ~ HasProperty(p, 1) THEN <<>>
        ELSE IF Len(p) = 2 THEN <<[kind |-> "SeriesGet", id |-> id, values |-> <<>>]>>
        ELSE IF Lookup(id) = {} THEN <<>>
        ELSE <<[kind |-> "SeriesGet", id |-> id,
                values |-> <<SubSeq(p, 3, 2 + size), SubSeq(p, 3 + size, 2 + 2 * size)>>]>>

(* The divisor is what 0xF7 >> 1 leaves of the octet, which is not shifted.*)
ParseCadenceSet(kind, p) ==
    LET id == PropertyAt(p, 1)
        size == The(LookupCadence(id)).size
        Value(i, after) == SubSeq(p, 4 + i * size + after, 3 + (i + 1) * size + after)
    IN  IF HasProperty(p, 1) /\ LookupCadence(id) # {}
        THEN <<[kind |-> kind, id |-> id, divisor |-> 8 * ((p[3] % 128) \div 8) + (p[3] % 4), unitless |-> p[3] % 2 = 1,
                down |-> Value(0, 0), up |-> Value(1, 0), interval |-> p[4 + 2 * size],
                low |-> Value(2, 1), high |-> Value(3, 1)]>>
        ELSE <<>>

ParseSettingGet(p) ==
    IF HasProperty(p, 3)
    THEN <<[kind |-> "SettingGet", id |-> PropertyAt(p, 1), setting |-> PropertyAt(p, 3)]>>
    ELSE <<>>

ParseSettingSet(kind, p) ==
    LET found == LookupSetting(PropertyAt(p, 1), PropertyAt(p, 3))
    IN  IF HasProperty(p, 3) /\ found # {}
        THEN <<[kind |-> kind, id |-> PropertyAt(p, 1), setting |-> PropertyAt(p, 3),
                raw |-> SubSeq(p, 5, 4 + The(found).size)]>>
        ELSE <<>>

(* Parameters shorter than what the descriptor found for them asks for are *)
(* sliced past their end; so is a cadence of two octets, whatever it is of.*)
Needs(kind, p) ==
    CASE kind = "ColumnGet" /\ Lookup(PropertyAt(p, 1)) # {} ->
            2 + The(Lookup(PropertyAt(p, 1))).x_size
      [] kind = "SeriesGet" /\ Len(p) > 2 /\ Lookup(PropertyAt(p, 1)) # {} ->
            2 + 2 * The(Lookup(PropertyAt(p, 1))).x_size
      [] kind \in {"CadenceSet", "CadenceSetUnacknowledged"} ->
            IF LookupCadence(PropertyAt(p, 1)) = {} THEN 3
            ELSE 4 + 4 * The(LookupCadence(PropertyAt(p, 1))).size
      [] kind \in {"SettingSet", "SettingSetUnacknowledged"} /\ HasProperty(p, 3)
         /\ LookupSetting(PropertyAt(p, 1), PropertyAt(p, 3)) # {} ->
            4 + The(LookupSetting(PropertyAt(p, 1), PropertyAt(p, 3))).size
      [] OTHER -> 2
Panics(kind, p) == HasProperty(p, 1) /\ Len(p) < Needs(kind, p)

(* SensorServer and SensorClient parse alike; SensorSetupServer has the rest. *)
Parse(opcode, p) ==
    CASE opcode = SensorOpcodes.DescriptorGet -> ParseOptional("DescriptorGet", p)
      [] opcode = SensorOpcodes.SensorGet     -> ParseOptional("SensorGet", p)
      [] opcode = SensorOpcodes.ColumnGet     -> ParseColumnGet(p)
      [] opcode = SensorOpcodes.SeriesGet     -> ParseSeriesGet(p)
      [] OTHER                         -> <<>>
ParseSetup(opcode, p) ==
    CASE opcode = SetupOpcodes.CadenceGet  -> ParseProperty("CadenceGet", p)
      [] opcode = SetupOpcodes.CadenceSet  -> ParseCadenceSet("CadenceSet", p)
      [] opcode = SetupOpcodes.CadenceSetUnacknowledged -> ParseCadenceSet("CadenceSetUnacknowledged", p)
      [] opcode = SetupOpcodes.SettingsGet -> ParseProperty("SettingsGet", p)
      [] opcode = SetupOpcodes.SettingGet  -> ParseSettingGet(p)
      [] opcode = SetupOpcodes.SettingSet  -> ParseSettingSet("SettingSet", p)
      [] opcode = SetupOpcodes.SettingSetUnacknowledged -> ParseSettingSet("SettingSetUnacknowledged", p)
      [] OTHER                       -> <<>>
=============================================================================
