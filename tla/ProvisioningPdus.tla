-------------------------- MODULE ProvisioningPdus --------------------------
(***************************************************************************)
(* The PDUs of provisioning and of the bearers that carry them: emit and   *)
(* parse of ProvisioningPDU, of the generic provisioning PDUs of PB-ADV and*)
(* of the proxy PDUs of PB-GATT.  A PDU is a record whose kind names the   *)
(* variant; what is read of octets is a sequence, of one PDU or none (an   *)
(* error).  Keys, confirmations and the like are octets under body.        *)
(***************************************************************************)
EXTENDS OctetStrings

IsFlag(octet) == octet \in {0, 1}
None == <<>>

-----------------------------------------------------------------------------
(* What a device is capable of.  A set of out-of-band actions is a mask of *)
(* sixteen bits on the air, as is the set of algorithms, of which there is *)
(* one; an OOBSize of 0 is NotSupported, and eight digits are not parsed.  *)
Weight == <<1, 2, 4, 8, 16>>
Mask(bits) ==
    LET Of(b) == IF b \in bits THEN Weight[b + 1] ELSE 0 IN Of(0) + Of(1) + Of(2) + Of(3) + Of(4)
Bits(mask, all) == {b \in all : HasBit(mask, Weight[b + 1])}
IsMask(mask, all) == mask = Mask(Bits(mask, all))

EmitAlgorithms(p256) == Octets(Flag(p256))
IsAlgorithms(mask) == IsFlag(mask)
EmitPublicKeyType(available) == <<Flag(available)>>
IsPublicKeyType(octet) == IsFlag(octet)
EmitStaticOob(available) == <<Flag(available)>>
IsStaticOob(octet) == IsFlag(octet)
EmitOobSize(size) == <<size>>
IsOobSize(octet) == octet < 8

OutputActions == 0 .. 4
EmitOutputActions(actions) == Octets(Mask(actions))
ParseOutputActions(mask) == Bits(mask, OutputActions)
IsOutputActions(mask) == IsMask(mask, OutputActions)
InputActions == 0 .. 3
EmitInputActions(actions) == Octets(Mask(actions))
ParseInputActions(mask) == Bits(mask, InputActions)
IsInputActions(mask) == IsMask(mask, InputActions)

EmitCapabilities(c) ==
    <<c.elements>> \o EmitAlgorithms(c.p256) \o EmitPublicKeyType(c.public_key) \o EmitStaticOob(c.static)
    \o EmitOobSize(c.output_size) \o EmitOutputActions(c.output)
    \o EmitOobSize(c.input_size) \o EmitInputActions(c.input)
ParseCapabilities(p) ==
    IF /\ Len(p) = 12
       /\ IsAlgorithms(Number(p[3], p[4])) /\ IsPublicKeyType(p[5]) /\ IsStaticOob(p[6])
       /\ IsOobSize(p[7]) /\ IsOutputActions(Number(p[8], p[9]))
       /\ IsOobSize(p[10]) /\ IsInputActions(Number(p[11], p[12]))
    THEN <<[kind |-> "Capabilities", elements |-> p[2], p256 |-> p[4] = 1, public_key |-> p[5] = 1,
            static |-> p[6] = 1,
            output_size |-> p[7], output |-> ParseOutputActions(Number(p[8], p[9])),
            input_size |-> p[10], input |-> ParseInputActions(Number(p[11], p[12]))]>>
    ELSE <<>>

-----------------------------------------------------------------------------
(* What a provisioner chose of it.  The one action that is named is emitted*)
(* as a mask of sixteen bits, and parsed as an octet that counts it off.   *)
No == 0
Static == 1
Output == 2
Input == 3
IsMethod(octet) == octet \in No .. Input
EmitMethod(method) == <<method>>

EmitAlgorithm == <<0>>
IsAlgorithm(octet) == octet = 0
EmitKeySelected(oob_key) == <<Flag(oob_key)>>
IsKeySelected(octet) == IsFlag(octet)

IsOutputAction(octet) == octet \in OutputActions
IsInputAction(octet) == octet \in InputActions
IsAction(method, octet) ==
    CASE method = Output -> IsOutputAction(octet)
      [] method = Input  -> IsInputAction(octet)
      [] OTHER           -> octet = 0
(* mutant: an action as the octet that parse takes.                        *)
EmitActionOctet(action) == IF action = None THEN <<0>> ELSE action
EmitAction(action) == IF action = None THEN <<0>> ELSE Octets(Weight[action[1] + 1])
ParseAction(method, octet) == IF method \in {Output, Input} THEN <<octet>> ELSE None

IsAuthenticationSize(method, octet) ==
    IF method \in {No, Static} THEN octet = 0 ELSE octet # 0 /\ IsOobSize(octet)

EmitStart(s) ==
    EmitAlgorithm \o EmitKeySelected(s.oob_key) \o EmitMethod(s.method) \o EmitAction(s.action)
    \o EmitOobSize(s.size)
ParseStart(p) ==
    IF /\ Len(p) = 6
       /\ IsAlgorithm(p[2]) /\ IsKeySelected(p[3]) /\ IsMethod(p[4])
       /\ IsAction(p[4], p[5]) /\ IsAuthenticationSize(p[4], p[6])
    THEN <<[kind |-> "Start", oob_key |-> p[3] = 1, method |-> p[4],
            action |-> ParseAction(p[4], p[5]), size |-> p[6]]>>
    ELSE <<>>

-----------------------------------------------------------------------------
(* The other bodies.  Length and type are compared with an OR where an AND *)
(* is meant: the type being right, the length is not looked at.  Of a key, a *)
(* Data or a Failed what comes after is left, and an end too soon is sliced*)
(* past; of a Complete all is left.                                        *)

EmitInvite(pdu) == <<pdu.attention>>
ParseInvite(p) == IF Len(p) = 2 THEN <<[kind |-> "Invite", attention |-> p[2]]>> ELSE <<>>

EmitBody(pdu) == pdu.body
Body(kind, p, length) == <<[kind |-> kind, body |-> SubSeq(p, 2, length + 1)]>>
ParsePublicKey(p) == Body("PublicKey", p, 64)
ParseConfirmation(p) == IF Len(p) = 17 THEN Body("Confirmation", p, 16) ELSE <<>>
ParseRandom(p) == IF Len(p) = 17 THEN Body("Random", p, 16) ELSE <<>>
ParseSealed(p) == Body("Data", p, 33)

IsErrorCode(octet) == octet \in 0 .. 8
EmitErrorCode(code) == <<code>>
EmitFailed(pdu) == EmitErrorCode(pdu.error)
ParseFailed(p) == IF IsErrorCode(p[2]) THEN <<[kind |-> "Failed", error |-> p[2]]>> ELSE <<>>

ParseInputComplete(p) == IF Len(p) = 1 THEN <<[kind |-> "InputComplete"]>> ELSE <<>>
ParseComplete(p) == <<[kind |-> "Complete"]>>

-----------------------------------------------------------------------------
(* ProvisioningPDU *)

TypeOf == [Invite |-> 0, Capabilities |-> 1, Start |-> 2, PublicKey |-> 3, InputComplete |-> 4,
           Confirmation |-> 5, Random |-> 6, Data |-> 7, Complete |-> 8, Failed |-> 9]

Emit(pdu) ==
    <<TypeOf[pdu.kind]>> \o
    CASE pdu.kind = "Invite"                      -> EmitInvite(pdu)
      [] pdu.kind = "Capabilities"                -> EmitCapabilities(pdu)
      [] pdu.kind = "Start"                       -> EmitStart(pdu)
      [] pdu.kind \in {"PublicKey", "Confirmation", "Random", "Data"} -> EmitBody(pdu)
      [] pdu.kind \in {"InputComplete", "Complete"} -> <<>>
      [] pdu.kind = "Failed"                      -> EmitFailed(pdu)

Parse(p) ==
    IF p = <<>> THEN <<>>
    ELSE CASE p[1] = TypeOf.Invite        -> ParseInvite(p)
           [] p[1] = TypeOf.Capabilities  -> ParseCapabilities(p)
           [] p[1] = TypeOf.Start         -> ParseStart(p)
           [] p[1] = TypeOf.PublicKey     -> ParsePublicKey(p)
           [] p[1] = TypeOf.InputComplete -> ParseInputComplete(p)
           [] p[1] = TypeOf.Confirmation  -> ParseConfirmation(p)
           [] p[1] = TypeOf.Random        -> ParseRandom(p)
           [] p[1] = TypeOf.Data          -> ParseSealed(p)
           [] p[1] = TypeOf.Complete      -> ParseComplete(p)
           [] p[1] = TypeOf.Failed        -> ParseFailed(p)
           [] OTHER                       -> <<>>

(* The plaintext of a Data: its key index is sent as zero and never read.  *)
EmitData(d) ==
    d.key \o <<0, 0, Flag(d.refresh) + 2 * Flag(d.update)>> \o d.iv_index \o Octets(d.unicast)
ParseData(p) ==
    IF Len(p) >= 25 /\ p[24] < 128
    THEN <<[key |-> SubSeq(p, 1, 16), refresh |-> p[19] % 2 = 1, update |-> (p[19] \div 2) % 2 = 1,
            iv_index |-> SubSeq(p, 20, 23), unicast |-> Number(p[24], p[25])]>>
    ELSE <<>>

-----------------------------------------------------------------------------
(* PB-ADV: AdvertisingPDU and GenericProvisioningPDU, by the two low bits. *)

PbAdv == 41
MaxSegment == 64   \* Vec<u8, 64>

EmitTransactionStart(g) == <<(4 * g.seg_n) % 256>> \o Octets(g.total_len) \o <<g.fcs>> \o g.data
EmitContinuation(g) == <<((4 * g.segment_index) % 256) + 2>> \o g.data
EmitTransactionAck == <<1>>
(* ProvisioningBearerControl: of a link nothing but its ack is emitted.    *)
EmitBearerControl(g) == IF g.kind = "LinkAck" THEN <<7>> ELSE <<>>

EmitGeneric(g) ==
    CASE g.kind = "TransactionStart"        -> EmitTransactionStart(g)
      [] g.kind = "TransactionAck"          -> EmitTransactionAck
      [] g.kind = "TransactionContinuation" -> EmitContinuation(g)
      [] OTHER                              -> EmitBearerControl(g)

ParseTransactionStart(p) ==
    IF Len(p) \in 5 .. 4 + MaxSegment
    THEN <<[kind |-> "TransactionStart", seg_n |-> p[1] \div 4, total_len |-> Number(p[2], p[3]),
            fcs |-> p[4], data |-> From(p, 5)]>>
    ELSE <<>>
ParseTransactionAck(p) == IF p = <<1>> THEN <<[kind |-> "TransactionAck"]>> ELSE <<>>
ParseContinuation(p) ==
    IF Len(p) \in 2 .. 1 + MaxSegment
    THEN <<[kind |-> "TransactionContinuation", segment_index |-> p[1] \div 4, data |-> From(p, 2)]>>
    ELSE <<>>

ParseLinkOpen(p) == IF Len(p) = 17 THEN <<[kind |-> "LinkOpen", uuid |-> From(p, 2)]>> ELSE <<>>
ParseLinkAck(p) == IF Len(p) = 1 THEN <<[kind |-> "LinkAck"]>> ELSE <<>>
IsReason(octet) == octet \in 0 .. 2
ParseLinkClose(p) ==
    IF Len(p) = 2 /\ IsReason(p[2]) THEN <<[kind |-> "LinkClose", reason |-> p[2]]>> ELSE <<>>
ParseBearerControl(p) ==
    LET opcode == (p[1] % 64) \div 4
    IN  CASE opcode = 0 -> ParseLinkOpen(p)
          [] opcode = 1 -> ParseLinkAck(p)
          [] opcode = 2 -> ParseLinkClose(p)
          [] OTHER      -> <<>>

ParseGeneric(p) ==
    CASE p[1] % 4 = 0 -> ParseTransactionStart(p)
      [] p[1] % 4 = 1 -> ParseTransactionAck(p)
      [] p[1] % 4 = 2 -> ParseContinuation(p)
      [] p[1] % 4 = 3 -> ParseBearerControl(p)

EmitAdvertising(a) ==
    LET octets == <<PbAdv>> \o a.link_id \o <<a.transaction_number>> \o EmitGeneric(a.pdu)
    IN  <<Len(octets)>> \o octets
ParseAdvertising(p) ==
    IF Len(p) >= 8 /\ p[2] = PbAdv /\ ParseGeneric(From(p, 8)) # <<>>
    THEN <<[link_id |-> SubSeq(p, 3, 6), transaction_number |-> p[7],
            pdu |-> ParseGeneric(From(p, 8))[1]]>>
    ELSE <<>>

-----------------------------------------------------------------------------
(* PB-GATT: ProxyPDU, and what the interface makes of a PDU and of a proxy *)
(* PDU.  What comes in parts, a beacon and a configuration are passed over.*)

MaxProxy == 66     \* Vec<u8, 66>
Sar == [Complete |-> 0, First |-> 1, Continuation |-> 2, Last |-> 3]
MessageType == [NetworkPDU |-> 0, MeshBeacon |-> 1, ProxyConfiguration |-> 2, ProvisioningPDU |-> 3]

EmitProxy(proxy) == <<64 * proxy.sar + proxy.message_type>> \o proxy.data
ParseProxy(p) ==
    IF p # <<>> /\ p[1] % 64 < 4 /\ Len(p) <= 1 + MaxProxy
    THEN <<[sar |-> p[1] \div 64, message_type |-> p[1] % 64, data |-> From(p, 2)]>> ELSE <<>>

TransmitGatt(pdu) ==
    IF Len(Emit(pdu)) <= MaxProxy
    THEN <<EmitProxy([sar |-> Sar.Complete, message_type |-> MessageType.ProvisioningPDU, data |-> Emit(pdu)])>>
    ELSE <<>>
ReceiveGatt(p) ==
    LET proxy == ParseProxy(p)
    IN  IF /\ proxy # <<>> /\ proxy[1].sar = Sar.Complete
           /\ proxy[1].message_type = MessageType.ProvisioningPDU
        THEN Parse(proxy[1].data) ELSE <<>>
=============================================================================
