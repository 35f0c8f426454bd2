---------------------------- MODULE NetworkPdus ----------------------------
(***************************************************************************)
(* A network PDU and the layers in it, down to the access message: what    *)
(* each layer adds, what it asks for on the way up, and the metadata that  *)
(* it hands on.  Encryption is symbolic: what was sealed under a key and a *)
(* nonce is opened by the same two and by nothing else.  Optional values   *)
(* are sequences of none or one; a result of the stack is a record whose   *)
(* result is "nothing", "error" or "access".                               *)
(***************************************************************************)
EXTENDS Integers, Sequences

CONSTANTS Nid(_), AidOf(_),  \* k2 and k4: a few bits of a hash of a key
          Split(_)           \* Opcode::split of a message

AccessMic == 4      \* TransMic 32, the one that is ever made, and the NetMic of an access PDU
Seqs == 16777216    \* 24 bits of a sequence number go on the air

-----------------------------------------------------------------------------
(* IvIndex.  Nothing is taken from an index of one: Sub asks for more.     *)

Ivi(iv) == iv % 2
Minus(iv, n) == IF iv > n THEN iv - n ELSE iv
AcceptedIvIndex(iv, ivi) == IF Ivi(iv) = ivi THEN iv ELSE Minus(iv, 1)

(* Address::parse: of its four kinds, the one that is an element's.        *)
IsUnicast(a) == a # 0 /\ a < 32768

(* DeviceInfo.  The difference of two addresses is a u8.                   *)
Difference(a, b) == (a - b) % 256
(* mutant: the difference in full.                                         *)
LocalElementIndexInFull(info, dst) ==
    IF IsUnicast(dst) /\ dst >= info.primary /\ dst - info.primary < info.elements
    THEN <<dst - info.primary>> ELSE <<>>
LocalElementIndex(info, dst) ==
    IF IsUnicast(dst) /\ dst >= info.primary /\ Difference(dst, info.primary) < info.elements
    THEN <<Difference(dst, info.primary)>> ELSE <<>>
LocalElementAddress(info, index) ==
    IF index < info.elements THEN <<info.primary + index>> ELSE <<>>

-----------------------------------------------------------------------------
(* crypto: AES-CCM, and the nonces. *)

Seal(key, nonce, plain) == [key |-> key, nonce |-> nonce, plain |-> plain]
Open(key, nonce, sealed) ==
    IF sealed.key = key /\ sealed.nonce = nonce THEN <<sealed.plain>> ELSE <<>>

NetworkNonce(ctl, ttl, seq, src, iv) ==
    [ctl |-> ctl, ttl |-> ttl, seq |-> seq % Seqs, src |-> src, iv |-> iv]
(* build_nonce, of an ApplicationNonce or a DeviceNonce: aszmic is zero.   *)
AccessNonce(type, seq, src, dst, iv) ==
    [type |-> type, seq |-> seq % Seqs, src |-> src, dst |-> dst, iv |-> iv]

-----------------------------------------------------------------------------
(* The network layer. *)

(* secrets: the handles of the keys with this nid, in the order they lie.  *)
ByNid(keys, nid) == {i \in DOMAIN keys : Nid(keys[i]) = nid}

(* encrypt_network_pdu: the header is hidden under the key and the IV index, *)
(* of which the PDU shows one bit.                                         *)
EncryptNetwork(clear) ==
    [ivi |-> Ivi(clear.iv), nid |-> Nid(clear.key),
     hidden |-> Seal(clear.key, clear.iv,
                     [ctl |-> clear.ctl, ttl |-> clear.ttl, seq |-> clear.seq % Seqs, src |-> clear.src]),
     sealed |-> Seal(clear.key,
                     NetworkNonce(clear.ctl, clear.ttl, clear.seq, clear.src, clear.iv),
                     [dst |-> clear.dst, transport |-> clear.transport])]

(* try_decrypt_network_pdu_with_key: what another key or IV index makes of *)
(* the header is noise, which the MIC refuses.                             *)
TryDecryptWithKey(info, key, handle, iv, pdu) ==
    LET header == Open(key, iv, pdu.hidden)
        h == header[1]
        payload == Open(key, NetworkNonce(h.ctl, h.ttl, h.seq, h.src, iv), pdu.sealed)
    IN  IF header = <<>> \/ h.src >= 32768 \/ payload = <<>> THEN <<>>
        ELSE <<[ctl |-> h.ctl, ttl |-> h.ttl, seq |-> h.seq, src |-> h.src,
                dst |-> payload[1].dst, transport |-> payload[1].transport,
                meta |-> [iv |-> iv, handle |-> handle,
                          local |-> LocalElementIndex(info, payload[1].dst)]]>>

(* try_decrypt_network_pdu: the first key that does.  The verdict of replay*)
(* protection is written into the metadata, which nothing above asks for it. *)
TryDecrypt(node, pdu) ==
    LET iv == AcceptedIvIndex(node.iv, pdu.ivi)
        Try(i) == TryDecryptWithKey(node.info, node.net_keys[i], i, iv, pdu)
        fit == {i \in ByNid(node.net_keys, pdu.nid) : Try(i) # <<>>}
    IN  IF fit = {} THEN <<>> ELSE Try(CHOOSE i \in fit : \A j \in fit : i <= j)

-----------------------------------------------------------------------------
(* The lower transport layer.  A transport PDU is its first octet, and under *)
(* it a header of three octets if it is segmented and what it carries.     *)

Aid(octet) == IF (octet \div 64) % 2 = 1 THEN <<octet % 64>> ELSE <<>>
EmitAid(aid) == IF aid = <<>> THEN 0 ELSE 64 + (aid[1] % 64)
IsControlOpcode(opcode) == opcode \in 0 .. 10

(* LowerPDU::parse answers an error.                                       *)
LowerFails(clear) ==
    \/ clear.transport.size < 2
    \/ clear.ctl /\ ~ IsControlOpcode(clear.transport.first % 128)

(* LowerMetadata::from_network_pdu, and UpperMetadata of an unsegmented PDU. *)
LowerMetadata(clear) ==
    [handle |-> clear.meta.handle, iv |-> clear.meta.iv, local |-> clear.meta.local,
     src |-> clear.src, dst |-> clear.dst, seq |-> clear.seq, ttl |-> clear.ttl]
UpperMetadata(lower, transport) ==
    [handle |-> lower.handle, iv |-> lower.iv, local |-> lower.local, aid |-> Aid(transport.first),
     src |-> lower.src, dst |-> lower.dst, seq |-> lower.seq, ttl |-> lower.ttl]

-----------------------------------------------------------------------------
(* The upper transport layer. *)

(* from_unsegmented.  It has no labels, and apply_label_uuids none to apply: *)
(* add_label_uuid looks for a free slot in a vector that stays empty.      *)
AccessMetadata(upper, key) ==
    [handle |-> upper.handle, iv |-> upper.iv, local |-> upper.local, key |-> key,
     src |-> upper.src, dst |-> upper.dst, ttl |-> upper.ttl]

ByAid(keys, aid) == {k \in keys : AidOf(k) = aid}

Nothing == [result |-> "nothing"]
Error == [result |-> "error"]

(* AccessMessage::parse of what was opened.                                *)
ParseAccess(plain, meta) ==
    IF Split(plain) = <<>> THEN Error
    ELSE [result |-> "access", opcode |-> Split(plain)[1].opcode,
          parameters |-> Split(plain)[1].parameters, meta |-> meta]

(* decrypt_access: with the device key, or the application keys of the AID;*)
(* a PDU that none of them opens is an error, whomever it is for.          *)
DecryptAccess(node, upper, sealed) ==
    LET keys == IF upper.aid = <<>> THEN {node.device_key} ELSE ByAid(node.app_keys, upper.aid[1])
        type == IF upper.aid = <<>> THEN "device" ELSE "application"
        Opened(k) == Open(k, AccessNonce(type, upper.seq, upper.src, upper.dst, upper.iv), sealed)
        fit == {k \in keys : Opened(k) # <<>>}
    IN  IF fit = {} THEN Error
        ELSE LET k == CHOOSE k \in fit : TRUE IN ParseAccess(Opened(k)[1], AccessMetadata(upper, k))

(* process_inbound_network_pdu, of a PDU that is not one of several segments. *)
ProcessInbound(node, pdu) ==
    LET found == TryDecrypt(node, pdu)
        clear == found[1]
    IN  CASE found = <<>>      -> Nothing
          [] found # <<>> /\ LowerFails(clear) -> Error
          [] found # <<>> /\ ~ LowerFails(clear) /\ clear.ctl -> Nothing
          [] OTHER -> DecryptAccess(node, UpperMetadata(LowerMetadata(clear), clear.transport),
                                    clear.transport.body)

-----------------------------------------------------------------------------
(* The way down.  InboundMetadata::reply: back to the source, under the key, *)
(* the network and the IV index of what is answered.                       *)
Reply(meta) == [dst |-> meta.src, handle |-> meta.handle, iv |-> meta.iv, key |-> meta.key]

(* mutant: what is sealed is a buffer of its own.                          *)
EncryptAccessElsewhere(meta, src, seq, plain) ==
    Seal(meta.key, AccessNonce("device", seq, src, meta.dst, meta.iv), <<>>)
(* encrypt_access under a device key, the only one that a reply can name: no *)
(* application key is ever set.                                            *)
EncryptAccess(meta, src, seq, plain) ==
    Seal(meta.key, AccessNonce("device", seq, src, meta.dst, meta.iv), plain)
=============================================================================
