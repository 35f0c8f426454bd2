----------------------------- MODULE PduProofs -----------------------------
(***************************************************************************)
(* What is proved of the codecs: which network PDUs a node reads, and which*)
(* PDUs and messages come back from their octets as they were, for every   *)
(* value of their fields.                                                  *)
(***************************************************************************)
EXTENDS Codecs, FiniteSetTheorems, WellFoundedInduction, TLAPS

(* A node, as Stack::Provisioned holds it.                                 *)
IsNode(node) ==
    /\ node.iv \in Nat
    /\ node.net_keys \in Seq({node.net_keys[i] : i \in 1 .. Len(node.net_keys)})
    /\ node.info.primary \in Nat /\ node.info.elements \in Nat

(* A PDU before it is encrypted.                                           *)
IsClear(clear) == clear.iv \in Nat /\ clear.seq \in Nat /\ clear.src \in Nat

(* The node has its key, and its IV index is one of the two it accepts.    *)
Accepts(iv, other) == other = iv \/ (iv > 1 /\ other = iv - 1)
HasKey(node, key) == \E i \in 1 .. Len(node.net_keys) : node.net_keys[i] = key
ItsNetwork(node, clear) == HasKey(node, clear.key) /\ Accepts(node.iv, clear.iv) /\ clear.src < 32768

-----------------------------------------------------------------------------
(* One bit of an IV index tells apart the two that are accepted, and of    *)
(* those it does not tell apart none is.                                   *)
LEMMA IvIndexOfBit ==
    ASSUME NEW iv \in Nat, NEW other \in Nat
    PROVE  /\ Accepts(iv, other) => Net!AcceptedIvIndex(iv, Net!Ivi(other)) = other
           /\ Net!AcceptedIvIndex(iv, Net!Ivi(other)) = other => Accepts(iv, other)
<1>1. Net!Ivi(iv) \in {0, 1} /\ Net!Ivi(other) \in {0, 1}
  BY DEF Net!Ivi
<1>2. iv > 1 /\ other = iv - 1 => Net!Ivi(iv) # Net!Ivi(other)
  BY DEF Net!Ivi
<1> QED
  BY <1>1, <1>2 DEF Accepts, Net!AcceptedIvIndex, Net!Minus

(* A sequence number on the air is its own remainder.                      *)
LEMMA SeqOnAir ==
    ASSUME NEW n \in Nat
    PROVE  n % Net!Seqs \in Nat /\ (n % Net!Seqs) % Net!Seqs = n % Net!Seqs
BY DEF Net!Seqs

(* What a node that has the key at this handle makes of a PDU.             *)
Received(info, handle, clear) ==
    [ctl |-> clear.ctl, ttl |-> clear.ttl, seq |-> clear.seq % Net!Seqs, src |-> clear.src,
     dst |-> clear.dst, transport |-> clear.transport,
     meta |-> [iv |-> clear.iv, handle |-> handle, local |-> Net!LocalElementIndex(info, clear.dst)]]

(* Try a key: it opens what was sealed with it, under its IV index, from a *)
(* unicast source.                                                         *)
LEMMA WithKey ==
    ASSUME NEW info, NEW key, NEW handle, NEW iv, NEW clear, IsClear(clear)
    PROVE  Net!TryDecryptWithKey(info, key, handle, iv, Net!EncryptNetwork(clear)) =
             IF clear.key = key /\ clear.iv = iv /\ clear.src < 32768
             THEN <<Received(info, handle, clear)>> ELSE <<>>
<1> DEFINE pdu == Net!EncryptNetwork(clear)
           h == [ctl |-> clear.ctl, ttl |-> clear.ttl, seq |-> clear.seq % Net!Seqs, src |-> clear.src]
           nonce == Net!NetworkNonce(clear.ctl, clear.ttl, clear.seq, clear.src, clear.iv)
           inner == [dst |-> clear.dst, transport |-> clear.transport]
<1>1. pdu.hidden = Net!Seal(clear.key, clear.iv, h) /\ pdu.sealed = Net!Seal(clear.key, nonce, inner)
  BY DEF Net!EncryptNetwork
<1>2. Net!Open(key, iv, pdu.hidden) = IF clear.key = key /\ clear.iv = iv THEN <<h>> ELSE <<>>
  BY <1>1 DEF Net!Open, Net!Seal
<1>3. Net!NetworkNonce(h.ctl, h.ttl, h.seq, h.src, clear.iv) = nonce
  BY SeqOnAir DEF Net!NetworkNonce, IsClear
<1>4. Net!Open(clear.key, nonce, pdu.sealed) = <<inner>>
  BY <1>1 DEF Net!Open, Net!Seal
<1>5. h.ctl = clear.ctl /\ h.ttl = clear.ttl /\ h.seq = clear.seq % Net!Seqs /\ h.src = clear.src
      /\ inner.dst = clear.dst /\ inner.transport = clear.transport
  OBVIOUS
<1> HIDE DEF pdu, h, nonce, inner
<1>6. CASE clear.key = key /\ clear.iv = iv
  <2>1. Net!Open(key, iv, pdu.hidden) = <<h>> /\ <<h>>[1] = h /\ <<h>> # <<>>
    BY <1>2, <1>6
  <2>2. /\ Net!Open(key, Net!NetworkNonce(h.ctl, h.ttl, h.seq, h.src, iv), pdu.sealed) = <<inner>>
        /\ <<inner>>[1] = inner /\ <<inner>> # <<>>
    BY <1>3, <1>4, <1>6
  <2>3. clear.src \in Nat
    BY DEF IsClear
  <2> QED
    BY <1>5, <1>6, <2>1, <2>2, <2>3 DEF Net!TryDecryptWithKey, Received, pdu
<1>7. CASE ~ (clear.key = key /\ clear.iv = iv)
  BY <1>2, <1>7 DEF Net!TryDecryptWithKey, pdu
<1> QED
  BY <1>6, <1>7

(* Of handles there is a first.                                            *)
LEMMA FirstOf ==
    ASSUME NEW S, S \subseteq Nat, S # {}
    PROVE  \E i \in S : \A j \in S : i <= j
<1>1. PICK i \in S : \A j \in S : ~ (<<j, i>> \in OpToRel(<, Nat))
  BY NatLessThanWellFounded, WFMin, Zenon
<1>2. \A j \in S : ~ (j < i)
  BY <1>1, Zenon DEF OpToRel
<1> QED
  BY <1>2

-----------------------------------------------------------------------------
(***************************************************************************)
(* A node reads a network PDU exactly if it has the key, the IV index is   *)
(* one of the two it accepts, and the source is an element: whatever other *)
(* keys have the same NID.  What it reads is what was encrypted, with the  *)
(* number that goes on the air, and the handle of that key.                *)
(***************************************************************************)
THEOREM ReadByItsNetwork ==
    ASSUME NEW node, NEW clear, IsNode(node), IsClear(clear)
    PROVE  /\ ~ ItsNetwork(node, clear) => Net!TryDecrypt(node, Net!EncryptNetwork(clear)) = <<>>
           /\ ItsNetwork(node, clear) =>
                 \E i \in 1 .. Len(node.net_keys) :
                    /\ node.net_keys[i] = clear.key
                    /\ Net!TryDecrypt(node, Net!EncryptNetwork(clear)) = <<Received(node.info, i, clear)>>
<1> DEFINE pdu == Net!EncryptNetwork(clear)
           iv == Net!AcceptedIvIndex(node.iv, pdu.ivi)
           Try(i) == Net!TryDecryptWithKey(node.info, node.net_keys[i], i, iv, pdu)
           fit == {i \in Net!ByNid(node.net_keys, pdu.nid) : Try(i) # <<>>}
           read == Net!TryDecrypt(node, pdu)
<1>1. pdu.ivi = Net!Ivi(clear.iv) /\ pdu.nid = Nid(clear.key)
  BY DEF Net!EncryptNetwork
<1>2. clear.iv = iv <=> Accepts(node.iv, clear.iv)
  BY <1>1, IvIndexOfBit DEF IsNode, IsClear
<1>3. DOMAIN node.net_keys = 1 .. Len(node.net_keys) /\ Len(node.net_keys) \in Nat
  BY DEF IsNode
<1>4. \A i : Try(i) = IF clear.key = node.net_keys[i] /\ clear.iv = iv /\ clear.src < 32768
                      THEN <<Received(node.info, i, clear)>> ELSE <<>>
  BY WithKey
<1>5. read = IF fit = {} THEN <<>> ELSE Try(CHOOSE i \in fit : \A j \in fit : i <= j)
  BY DEF Net!TryDecrypt
<1>6. \A r : <<r>> # <<>>
  OBVIOUS
<1> HIDE DEF pdu, iv, Try, read
<1>7. \A i : i \in fit <=> /\ i \in 1 .. Len(node.net_keys) /\ node.net_keys[i] = clear.key
                           /\ clear.iv = iv /\ clear.src < 32768
  <2>1. ASSUME NEW i
        PROVE  i \in fit <=> i \in Net!ByNid(node.net_keys, pdu.nid) /\ Try(i) # <<>>
    OBVIOUS
  <2>2. ASSUME NEW i
        PROVE  i \in Net!ByNid(node.net_keys, pdu.nid)
                 <=> i \in 1 .. Len(node.net_keys) /\ Nid(node.net_keys[i]) = Nid(clear.key)
    BY <1>1, <1>3 DEF Net!ByNid
  <2>3. ASSUME NEW i
        PROVE  Try(i) # <<>> <=> clear.key = node.net_keys[i] /\ clear.iv = iv /\ clear.src < 32768
    BY <1>4, <1>6
  <2> QED
    BY <2>1, <2>2, <2>3
<1>8. fit \subseteq Nat
  BY <1>3, <1>7
<1> HIDE DEF fit
<1>9. CASE ~ ItsNetwork(node, clear)
  <2>1. fit = {}
    BY <1>2, <1>7, <1>9 DEF HasKey, ItsNetwork
  <2> QED
    BY <1>5, <1>9, <2>1 DEF read, pdu
<1>10. CASE ItsNetwork(node, clear)
  <2>1. fit # {}
    BY <1>2, <1>7, <1>10 DEF HasKey, ItsNetwork
  <2>2. PICK i \in fit : read = Try(i)
    BY <1>5, <1>8, <2>1, FirstOf, Zenon
  <2>3. /\ i \in 1 .. Len(node.net_keys) /\ node.net_keys[i] = clear.key
        /\ read = <<Received(node.info, i, clear)>>
    BY <1>4, <1>7, <2>2
  <2> QED
    BY <1>10, <2>3 DEF read, pdu
<1> QED
  BY <1>9, <1>10

-----------------------------------------------------------------------------
(* What becomes of a PDU that is read: the metadata of the three layers.   *)
Meta(info, handle, clear, key) ==
    [handle |-> handle, iv |-> clear.iv, local |-> Net!LocalElementIndex(info, clear.dst), key |-> key,
     src |-> clear.src, dst |-> clear.dst, ttl |-> clear.ttl]

TypeOfKey(clear) == IF Net!Aid(clear.transport.first) = <<>> THEN "device" ELSE "application"
KeysFor(node, clear) == IF Net!Aid(clear.transport.first) = <<>> THEN {node.device_key}
                        ELSE Net!ByAid(node.app_keys, Net!Aid(clear.transport.first)[1])

(* What a PDU has to be sealed with if key is to open it.                  *)
NonceOf(clear) == Net!AccessNonce(TypeOfKey(clear), clear.seq, clear.src, clear.dst, clear.iv)

Upper(received) == Net!UpperMetadata(Net!LowerMetadata(received), received.transport)

OpenedBy(node, clear, key, nonce) == key \in KeysFor(node, clear) /\ nonce = NonceOf(clear)

(* What is lifted of an open PDU is what its sender put there.             *)
LEMMA Lifted ==
    ASSUME NEW info, NEW handle, NEW clear, IsClear(clear), NEW key,
           NEW upper, upper = Upper(Received(info, handle, clear))
    PROVE  /\ Net!AccessMetadata(upper, key) = Meta(info, handle, clear, key)
           /\ upper.aid = Net!Aid(clear.transport.first)
           /\ Net!AccessNonce(TypeOfKey(clear), upper.seq, upper.src, upper.dst, upper.iv) = NonceOf(clear)
<1> DEFINE received == Received(info, handle, clear)
<1>1. /\ received.ctl = clear.ctl /\ received.ttl = clear.ttl /\ received.seq = clear.seq % Net!Seqs
      /\ received.src = clear.src /\ received.dst = clear.dst
      /\ received.transport = clear.transport
      /\ received.meta.iv = clear.iv /\ received.meta.handle = handle
      /\ received.meta.local = Net!LocalElementIndex(info, clear.dst)
  BY DEF Received
<1> HIDE DEF received
<1>2. /\ upper.handle = handle /\ upper.iv = clear.iv
      /\ upper.local = Net!LocalElementIndex(info, clear.dst)
      /\ upper.aid = Net!Aid(clear.transport.first)
      /\ upper.src = clear.src /\ upper.dst = clear.dst
      /\ upper.seq = clear.seq % Net!Seqs /\ upper.ttl = clear.ttl
  BY <1>1 DEF Upper, Net!UpperMetadata, Net!LowerMetadata, received
<1>3. Net!AccessMetadata(upper, key) = Meta(info, handle, clear, key)
  BY <1>2 DEF Net!AccessMetadata, Meta
<1>4. Net!AccessNonce(TypeOfKey(clear), upper.seq, upper.src, upper.dst, upper.iv) = NonceOf(clear)
  BY <1>2, SeqOnAir DEF Net!AccessNonce, NonceOf, IsClear
<1> QED
  BY <1>2, <1>3, <1>4

(* decrypt_access, of what was sealed under some key with some nonce.      *)
LEMMA Decrypted ==
    ASSUME NEW node, NEW handle, NEW clear, IsClear(clear), NEW key, NEW nonce, NEW plain
    PROVE  Net!DecryptAccess(node, Upper(Received(node.info, handle, clear)), Net!Seal(key, nonce, plain)) =
             IF OpenedBy(node, clear, key, nonce)
             THEN Net!ParseAccess(plain, Meta(node.info, handle, clear, key)) ELSE Net!Error
<1> DEFINE upper == Upper(Received(node.info, handle, clear))
           sealed == Net!Seal(key, nonce, plain)
           keys == IF upper.aid = <<>> THEN {node.device_key} ELSE Net!ByAid(node.app_keys, upper.aid[1])
           type == IF upper.aid = <<>> THEN "device" ELSE "application"
           Opened(k) == Net!Open(k, Net!AccessNonce(type, upper.seq, upper.src, upper.dst, upper.iv), sealed)
           fit == {k \in keys : Opened(k) # <<>>}
<1>1. /\ \A k : Net!AccessMetadata(upper, k) = Meta(node.info, handle, clear, k)
      /\ upper.aid = Net!Aid(clear.transport.first)
      /\ Net!AccessNonce(TypeOfKey(clear), upper.seq, upper.src, upper.dst, upper.iv) = NonceOf(clear)
  BY Lifted
<1>2. Net!DecryptAccess(node, upper, sealed) =
        IF fit = {} THEN Net!Error
        ELSE LET k == CHOOSE k \in fit : TRUE IN Net!ParseAccess(Opened(k)[1], Net!AccessMetadata(upper, k))
  BY DEF Net!DecryptAccess
<1> HIDE DEF upper
<1>3. keys = KeysFor(node, clear) /\ type = TypeOfKey(clear)
  BY <1>1 DEF KeysFor, TypeOfKey
<1>4. \A k : Opened(k) = IF key = k /\ nonce = NonceOf(clear) THEN <<plain>> ELSE <<>>
  BY <1>1, <1>3 DEF Net!Open, Net!Seal
<1> HIDE DEF keys, type, Opened
<1>5. CASE OpenedBy(node, clear, key, nonce)
  <2>1. fit = {key}
    BY <1>3, <1>4, <1>5 DEF OpenedBy
  <2>2. Opened(key)[1] = plain
    BY <1>4, <1>5 DEF OpenedBy
  <2> HIDE DEF fit, sealed
  <2>3. (CHOOSE k \in fit : TRUE) = key
    BY <2>1
  <2>4. Net!DecryptAccess(node, upper, sealed) = Net!ParseAccess(plain, Meta(node.info, handle, clear, key))
    BY <1>1, <1>2, <2>1, <2>2, <2>3
  <2> QED
    BY <1>5, <2>4 DEF upper, sealed
<1>6. CASE ~ OpenedBy(node, clear, key, nonce)
  <2>1. fit = {}
    BY <1>3, <1>4, <1>6 DEF OpenedBy
  <2> HIDE DEF fit, sealed
  <2> QED
    BY <1>2, <1>6, <2>1 DEF upper, sealed
<1> QED
  BY <1>5, <1>6

(* The node hears clear, with a body that was sealed so, and makes this of it. *)
Hears(node, clear, key, nonce, plain, heard) ==
    /\ IsNode(node) /\ IsClear(clear)
    /\ clear.transport.body = Net!Seal(key, nonce, plain)
    /\ heard = Net!ProcessInbound(node, Net!EncryptNetwork(clear))

(* process_inbound_network_pdu of a PDU that is read, and of one that is not. *)
LEMMA Processed ==
    ASSUME NEW node, NEW clear, NEW key, NEW nonce, NEW plain, NEW heard,
           Hears(node, clear, key, nonce, plain, heard)
    PROVE  IF ~ ItsNetwork(node, clear) THEN heard = Net!Nothing
           ELSE IF Net!LowerFails(clear) THEN heard = Net!Error
           ELSE IF clear.ctl THEN heard = Net!Nothing
           ELSE IF ~ OpenedBy(node, clear, key, nonce) THEN heard = Net!Error
           ELSE \E i \in 1 .. Len(node.net_keys) :
                   /\ node.net_keys[i] = clear.key
                   /\ heard = Net!ParseAccess(plain, Meta(node.info, i, clear, key))
<1> DEFINE found == Net!TryDecrypt(node, Net!EncryptNetwork(clear))
<1>0. /\ IsNode(node) /\ IsClear(clear)
      /\ clear.transport.body = Net!Seal(key, nonce, plain)
      /\ heard = Net!ProcessInbound(node, Net!EncryptNetwork(clear))
  BY DEF Hears
<1>1. CASE ~ ItsNetwork(node, clear)
  <2>1. found = <<>>
    BY <1>0, <1>1, ReadByItsNetwork
  <2>2. heard = Net!Nothing
    BY <1>0, <2>1 DEF Net!ProcessInbound
  <2> QED
    BY <1>1, <2>2
<1>2. CASE ItsNetwork(node, clear)
  <2>1. PICK i \in 1 .. Len(node.net_keys) : node.net_keys[i] = clear.key
                                             /\ found = <<Received(node.info, i, clear)>>
    BY <1>0, <1>2, ReadByItsNetwork
  <2> DEFINE received == Received(node.info, i, clear)
  <2>2. found # <<>> /\ found[1] = received
    BY <2>1
  <2>3. received.transport = clear.transport /\ received.ctl = clear.ctl
    BY DEF Received
  <2>4. Net!DecryptAccess(node, Upper(received), Net!Seal(key, nonce, plain)) =
          IF OpenedBy(node, clear, key, nonce)
          THEN Net!ParseAccess(plain, Meta(node.info, i, clear, key)) ELSE Net!Error
    BY <1>0, Decrypted, Zenon
  <2> HIDE DEF received, found
  <2>5. Net!LowerFails(received) <=> Net!LowerFails(clear)
    BY <2>3 DEF Net!LowerFails
  <2>6. heard = IF Net!LowerFails(clear) THEN Net!Error
                ELSE IF clear.ctl THEN Net!Nothing
                ELSE Net!DecryptAccess(node, Upper(received), clear.transport.body)
    BY <1>0, <2>2, <2>3, <2>5 DEF Net!ProcessInbound, Upper, found
  <2> QED
    BY <1>0, <1>2, <2>1, <2>4, <2>6
<1> QED
  BY <1>1, <1>2

(* It is given to a model, with what it was sealed with.                   *)
Dispatched(node, clear, key, plain, heard) ==
    \E i \in 1 .. Len(node.net_keys) :
        /\ node.net_keys[i] = clear.key
        /\ heard = Net!ParseAccess(plain, Meta(node.info, i, clear, key))

(* The three cases of opening: with the device key, an application key, or *)
(* neither.                                                                *)
LEMMA DispatchedIfOpened ==
    ASSUME NEW node, NEW clear, NEW key, NEW nonce, NEW plain, NEW heard,
           Hears(node, clear, key, nonce, plain, heard),
           ItsNetwork(node, clear), ~ Net!LowerFails(clear), ~ clear.ctl, OpenedBy(node, clear, key, nonce)
    PROVE  Dispatched(node, clear, key, plain, heard)
BY Processed DEF Dispatched

(***************************************************************************)
(* Of what other nodes seal, a node dispatches nothing but what is sealed  *)
(* under one of its own keys, for the very source, destination, sequence   *)
(* number and IV index with which it came, and in its own network: the     *)
(* address and the number that decide about replays are of the sender.     *)
(* The model is told of the sender and the keys as they are.               *)
(***************************************************************************)
THEOREM DispatchedAsSealed ==
    ASSUME NEW node, NEW clear, NEW key, NEW nonce, NEW plain, NEW heard,
           Hears(node, clear, key, nonce, plain, heard),
           heard.result = "access"
    PROVE  /\ HasKey(node, clear.key) /\ Accepts(node.iv, clear.iv) /\ ~ clear.ctl
           /\ key \in KeysFor(node, clear)
           /\ nonce = NonceOf(clear)
           /\ Access!Split(plain) # <<>>
           /\ heard.opcode = Access!Split(plain)[1].opcode
           /\ heard.parameters = Access!Split(plain)[1].parameters
           /\ heard.meta.src = clear.src /\ heard.meta.dst = clear.dst
           /\ heard.meta.iv = clear.iv /\ heard.meta.key = key
           /\ heard.meta.local = Net!LocalElementIndex(node.info, clear.dst)
           /\ heard.meta.handle \in 1 .. Len(node.net_keys)
           /\ node.net_keys[heard.meta.handle] = clear.key
<1>1. heard # Net!Nothing /\ heard # Net!Error
  BY DEF Net!Nothing, Net!Error
<1>2. ItsNetwork(node, clear) /\ ~ Net!LowerFails(clear) /\ ~ clear.ctl /\ OpenedBy(node, clear, key, nonce)
  BY <1>1, Processed
<1>3. PICK i \in 1 .. Len(node.net_keys) :
         /\ node.net_keys[i] = clear.key
         /\ heard = Net!ParseAccess(plain, Meta(node.info, i, clear, key))
  BY <1>2, DispatchedIfOpened DEF Dispatched
<1>4. Access!Split(plain) # <<>>
  BY <1>1, <1>3 DEF Net!ParseAccess
<1>5. /\ heard.opcode = Access!Split(plain)[1].opcode
      /\ heard.parameters = Access!Split(plain)[1].parameters
      /\ heard.meta = Meta(node.info, i, clear, key)
  BY <1>3, <1>4 DEF Net!ParseAccess
<1>6. /\ heard.meta.src = clear.src /\ heard.meta.dst = clear.dst
      /\ heard.meta.iv = clear.iv /\ heard.meta.key = key
      /\ heard.meta.local = Net!LocalElementIndex(node.info, clear.dst)
      /\ heard.meta.handle = i
  BY <1>5 DEF Meta
<1> QED
  BY <1>2, <1>3, <1>4, <1>5, <1>6 DEF ItsNetwork, OpenedBy

-----------------------------------------------------------------------------
RepliesTo(node, clear, key, to) ==
    /\ to.dst = clear.src /\ to.iv = clear.iv /\ to.key = key
    /\ node.net_keys[to.handle] = clear.key

(* InboundMetadata::reply names who asked, and what it was asked under.    *)
LEMMA ReplyToSender ==
    ASSUME NEW node, NEW clear, NEW key, NEW nonce, NEW plain, NEW heard,
           Hears(node, clear, key, nonce, plain, heard),
           heard.result = "access", NEW to, to = Net!Reply(heard.meta)
    PROVE  RepliesTo(node, clear, key, to)
<1>1. /\ heard.meta.src = clear.src /\ heard.meta.iv = clear.iv /\ heard.meta.key = key
      /\ node.net_keys[heard.meta.handle] = clear.key
  BY DispatchedAsSealed
<1> QED
  BY <1>1 DEF Net!Reply, RepliesTo

(* It is sealed with a device key; a message that parses; what an answer   *)
(* comes with; and who has asked, with the keys it was asked with.         *)
ForDevice(clear) == Net!Aid(clear.transport.first) = <<>>
IsWhole(plain) == Access!Split(plain) # <<>>
IsSender(src, seq, size) == src \in 0 .. 32767 /\ seq \in Nat /\ size \in Nat /\ size >= 2
MayAsk(asker, clear, key) ==
    /\ IsNode(asker) /\ HasKey(asker, clear.key) /\ Accepts(asker.iv, clear.iv)
    /\ asker.device_key = key

(* The network PDU of an answer that fits into one.                        *)
AnswerPdu(node, to, src, seq, size, plain) ==
    [key |-> node.net_keys[to.handle], iv |-> to.iv, ctl |-> FALSE, ttl |-> 127, seq |-> seq,
     src |-> src, dst |-> to.dst,
     transport |-> [first |-> Net!EmitAid(<<>>), size |-> size, body |-> Net!EncryptAccess(to, src, seq, plain)]]

(* It is in order, and the asker opens it.                                 *)
InOrder(asker, out, key, plain) ==
    /\ IsClear(out) /\ out.transport.body = Net!Seal(key, NonceOf(out), plain)
    /\ ItsNetwork(asker, out) /\ ~ Net!LowerFails(out) /\ ~ out.ctl /\ OpenedBy(asker, out, key, NonceOf(out))

(* An answer by the metadata of a request is in order for who has asked.   *)
LEMMA AnswerIsReadable ==
    ASSUME NEW node, NEW clear, IsClear(clear), NEW key, NEW to, RepliesTo(node, clear, key, to),
           NEW asker, MayAsk(asker, clear, key),
           NEW src, NEW seq, NEW size, IsSender(src, seq, size), NEW plain,
           NEW out, out = AnswerPdu(node, to, src, seq, size, plain)
    PROVE  InOrder(asker, out, key, plain) /\ out.src = src /\ out.dst = clear.src
<1> DEFINE sealed == Net!EncryptAccess(to, src, seq, plain)
<1>1. to.dst = clear.src /\ to.iv = clear.iv /\ to.key = key /\ node.net_keys[to.handle] = clear.key
  BY DEF RepliesTo
<1>2. /\ out.key = clear.key /\ out.iv = clear.iv /\ out.ctl = FALSE /\ out.seq = seq
      /\ out.src = src /\ out.dst = clear.src
      /\ out.transport.first = 0 /\ out.transport.size = size
      /\ out.transport.body = sealed
  BY <1>1 DEF AnswerPdu, Net!EmitAid
<1> HIDE DEF sealed
<1>3. IsClear(out) /\ out.src < 32768
  <2>1. clear.iv \in Nat
    BY SMTT(60) DEF IsClear
  <2>2. seq \in Nat /\ src \in Nat /\ src < 32768
    BY SMTT(60) DEF IsSender
  <2>3. out.iv \in Nat /\ out.seq \in Nat /\ out.src \in Nat
    BY <1>2, <2>1, <2>2
  <2>4. out.src < 32768
    BY <1>2, <2>2
  <2> QED
    BY <2>3, <2>4 DEF IsClear
<1>4. ForDevice(out)
  BY <1>2 DEF ForDevice, Net!Aid
<1>5. sealed = Net!Seal(key, NonceOf(out), plain)
  <2>1. NonceOf(out) = Net!AccessNonce("device", seq, src, to.dst, to.iv)
    BY <1>1, <1>2, <1>4 DEF NonceOf, TypeOfKey, ForDevice
  <2> QED
    BY <1>1, <2>1 DEF sealed, Net!EncryptAccess
<1>6. OpenedBy(asker, out, key, NonceOf(out))
  BY <1>4, SMTT(60) DEF KeysFor, OpenedBy, ForDevice, MayAsk
<1>7. ~ Net!LowerFails(out) /\ ~ out.ctl
  BY <1>2 DEF Net!LowerFails, IsSender
<1>8. ItsNetwork(asker, out)
  BY <1>2, <1>3 DEF ItsNetwork, MayAsk
<1> QED
  BY <1>2, <1>3, <1>5, <1>6, <1>7, <1>8 DEF InOrder

(***************************************************************************)
(* Whoever asks under the device key is answered: what a model sends back  *)
(* by the metadata of what it has heard is read by who sent that, from     *)
(* whichever element, with whichever number and also under the IV index    *)
(* before; it is dispatched there to the element that has asked.           *)
(***************************************************************************)
THEOREM AnswerReturns ==
    ASSUME NEW node, NEW clear, NEW key, NEW nonce, NEW plain, NEW heard,
           Hears(node, clear, key, nonce, plain, heard), heard.result = "access",
           NEW asker, MayAsk(asker, clear, key),
           NEW src, NEW seq, NEW size, IsSender(src, seq, size), NEW answer, IsWhole(answer),
           NEW to, to = Net!Reply(heard.meta),
           NEW out, out = AnswerPdu(node, to, src, seq, size, answer),
           NEW back, back = Net!ProcessInbound(asker, Net!EncryptNetwork(out))
    PROVE  /\ back.result = "access"
           /\ back.opcode = Access!Split(answer)[1].opcode
           /\ back.parameters = Access!Split(answer)[1].parameters
           /\ back.meta.src = src
           /\ back.meta.local = Net!LocalElementIndex(asker.info, clear.src)
<1>1. RepliesTo(node, clear, key, to)
  BY ReplyToSender
<1>2. IsClear(clear)
  BY DEF Hears
<1>3. InOrder(asker, out, key, answer) /\ out.src = src /\ out.dst = clear.src
  BY <1>1, <1>2, AnswerIsReadable
<1>4. Hears(asker, out, key, NonceOf(out), answer, back)
  BY <1>3 DEF Hears, InOrder, MayAsk
<1>5. Dispatched(asker, out, key, answer, back)
  <2>1. /\ ItsNetwork(asker, out) /\ ~ Net!LowerFails(out) /\ ~ out.ctl
        /\ OpenedBy(asker, out, key, NonceOf(out))
    BY <1>3 DEF InOrder
  <2> QED
    BY <1>4, <2>1, DispatchedIfOpened
<1>6. PICK i : back = Net!ParseAccess(answer, Meta(asker.info, i, out, key))
  BY <1>5 DEF Dispatched
<1>7. /\ back.result = "access"
      /\ back.opcode = Access!Split(answer)[1].opcode
      /\ back.parameters = Access!Split(answer)[1].parameters
      /\ back.meta = Meta(asker.info, i, out, key)
  BY <1>6 DEF Net!ParseAccess, IsWhole
<1> QED
  BY <1>3, <1>7 DEF Meta

-----------------------------------------------------------------------------
(* A string of n octets: bounds on its length, from which the provers know *)
(* more than from an equation.                                             *)
IsString(s, n) == s \in Seq(Octet) /\ Len(s) <= n /\ Len(s) >= n

(* The length of a string.                                                 *)
LEMMA LengthOf == ASSUME NEW n \in Nat, NEW s, IsString(s, n) PROVE Len(s) = n
BY DEF IsString

(* One octet before others.                                                *)
LEMMA Behind ==
    ASSUME NEW n \in Nat, NEW t, IsString(t, n), NEW a \in Octet
    PROVE  /\ IsString(<<a>> \o t, n + 1)
           /\ (<<a>> \o t)[1] = a
           /\ \A i \in 1 .. n : (<<a>> \o t)[i + 1] = t[i]
           /\ SubSeq(<<a>> \o t, 2, n + 1) = t
BY DEF IsString

(* What follows the first octet.                                           *)
LEMMA RestBehind ==
    ASSUME NEW n \in Nat, NEW t, IsString(t, n), NEW a \in Octet
    PROVE  From(<<a>> \o t, 2) = t
BY DEF IsString, From

-----------------------------------------------------------------------------

(* A mask of actions names each of them.                                   *)
LEMMA MaskReads ==
    ASSUME NEW all \in {Pb!OutputActions, Pb!InputActions}, NEW bits \in SUBSET all
    PROVE  /\ Pb!Mask(bits) \in 0 .. 31
           /\ Pb!Bits(Pb!Mask(bits), all) = bits
<1> DEFINE B(n) == n \in bits
           mask == Pb!Mask(bits)
<1>1. mask = (IF B(0) THEN 1 ELSE 0) + (IF B(1) THEN 2 ELSE 0) + (IF B(2) THEN 4 ELSE 0)
             + (IF B(3) THEN 8 ELSE 0) + (IF B(4) THEN 16 ELSE 0)
  BY DEF Pb!Mask, Pb!Weight
<1> HIDE DEF mask
<1>2. mask \in 0 .. 31
  BY <1>1
<1>3. /\ Pb!HasBit(mask, 1) <=> B(0)
      /\ Pb!HasBit(mask, 2) <=> B(1)
      /\ Pb!HasBit(mask, 4) <=> B(2)
      /\ Pb!HasBit(mask, 8) <=> B(3)
      /\ Pb!HasBit(mask, 16) <=> B(4)
  BY <1>1 DEF Pb!HasBit
<1>4. \A b \in 0 .. 4 : Pb!HasBit(mask, Pb!Weight[b + 1]) <=> b \in bits
  BY <1>3 DEF Pb!Weight
<1>5. all \subseteq 0 .. 4
  BY DEF Pb!OutputActions, Pb!InputActions
<1>6. \A b : b \in Pb!Bits(mask, all) <=> b \in bits
  BY <1>4, <1>5, Zenon DEF Pb!Bits
<1>7. Pb!Bits(mask, all) = bits
  BY <1>6
<1> QED
  BY <1>2, <1>7 DEF mask

(* The octets of the capabilities.                                         *)
LEMMA CapabilitiesOctets ==
    ASSUME NEW c \in Capabilities, NEW p, p = Pb!Emit(c)
    PROVE  /\ IsString(p, 12)
           /\ p[1] = 1 /\ p[2] = c.elements
           /\ p[3] = 0 /\ p[4] = Flag(c.p256) /\ p[5] = Flag(c.public_key) /\ p[6] = Flag(c.static)
           /\ p[7] = c.output_size /\ p[8] = 0 /\ p[9] = Pb!Mask(c.output)
           /\ p[10] = c.input_size /\ p[11] = 0 /\ p[12] = Pb!Mask(c.input)
<1> DEFINE o == Pb!Mask(c.output)
           i == Pb!Mask(c.input)
           s1 == <<c.elements>> \o <<0, Flag(c.p256)>>
           s2 == s1 \o <<Flag(c.public_key)>>
           s3 == s2 \o <<Flag(c.static)>>
           s4 == s3 \o <<c.output_size>>
           s5 == s4 \o <<0, o>>
           s6 == s5 \o <<c.input_size>>
           s7 == s6 \o <<0, i>>
<1>0. c.output \in SUBSET Pb!OutputActions /\ c.input \in SUBSET Pb!InputActions
  BY DEF Capabilities
<1>1. o \in 0 .. 31 /\ i \in 0 .. 31
  BY <1>0, MaskReads
<1>2. /\ c.elements \in Octet /\ c.output_size \in Octet /\ c.input_size \in Octet /\ 0 \in Octet /\ 1 \in Octet
      /\ Flag(c.p256) \in Octet /\ Flag(c.public_key) \in Octet /\ Flag(c.static) \in Octet
      /\ o \in Octet /\ i \in Octet
  BY <1>1 DEF Capabilities, Octet, Flag
<1>3. /\ Pb!EmitAlgorithms(c.p256) = <<0, Flag(c.p256)>>
      /\ Pb!EmitPublicKeyType(c.public_key) = <<Flag(c.public_key)>>
      /\ Pb!EmitStaticOob(c.static) = <<Flag(c.static)>>
  BY DEF Pb!EmitAlgorithms, Pb!EmitPublicKeyType, Pb!EmitStaticOob, Pb!Octets, Pb!Flag, Flag
<1>4. Pb!EmitOutputActions(c.output) = <<0, o>> /\ Pb!EmitInputActions(c.input) = <<0, i>>
  BY <1>1 DEF Pb!EmitOutputActions, Pb!EmitInputActions, Pb!Octets
<1>5. Pb!EmitCapabilities(c) = s7
  BY <1>3, <1>4, SMTT(60) DEF Pb!EmitCapabilities, Pb!EmitOobSize
<1>6. p = <<1>> \o s7
  BY <1>5 DEF Pb!Emit, Pb!TypeOf, Capabilities
<1> HIDE DEF o, i
<1>11. IsString(s1, 3) /\ s1[1] = c.elements /\ s1[2] = 0 /\ s1[3] = Flag(c.p256)
  BY <1>2 DEF IsString
<1> HIDE DEF s1
<1>12. IsString(s2, 4) /\ (\A n \in 1 .. 3 : s2[n] = s1[n]) /\ s2[4] = Flag(c.public_key)
  BY <1>2, <1>11 DEF IsString
<1> HIDE DEF s2
<1>13. IsString(s3, 5) /\ (\A n \in 1 .. 4 : s3[n] = s2[n]) /\ s3[5] = Flag(c.static)
  BY <1>2, <1>12 DEF IsString
<1> HIDE DEF s3
<1>14. IsString(s4, 6) /\ (\A n \in 1 .. 5 : s4[n] = s3[n]) /\ s4[6] = c.output_size
  BY <1>2, <1>13 DEF IsString
<1> HIDE DEF s4
<1>15. IsString(s5, 8) /\ (\A n \in 1 .. 6 : s5[n] = s4[n]) /\ s5[7] = 0 /\ s5[8] = o
  BY <1>2, <1>14 DEF IsString
<1> HIDE DEF s5
<1>16. IsString(s6, 9) /\ (\A n \in 1 .. 8 : s6[n] = s5[n]) /\ s6[9] = c.input_size
  BY <1>2, <1>15, SMTT(60) DEF IsString
<1> HIDE DEF s6
<1>17. IsString(s7, 11) /\ (\A n \in 1 .. 9 : s7[n] = s6[n]) /\ s7[10] = 0 /\ s7[11] = i
  BY <1>2, <1>16, SMTT(60) DEF IsString
<1> HIDE DEF s7
<1>18. IsString(p, 12) /\ p[1] = 1 /\ (\A n \in 1 .. 11 : p[n + 1] = s7[n])
  <2>1. PICK m \in Nat : m = 11
    OBVIOUS
  <2>2. IsString(s7, m)
    BY <1>17, <2>1
  <2>3. IsString(p, m + 1) /\ p[1] = 1 /\ \A n \in 1 .. m : p[n + 1] = s7[n]
    BY <1>2, <1>6, <2>2, Behind
  <2> QED
    BY <2>1, <2>3
<1>19. /\ s7[1] = c.elements /\ s7[2] = 0 /\ s7[3] = Flag(c.p256) /\ s7[4] = Flag(c.public_key)
       /\ s7[5] = Flag(c.static) /\ s7[6] = c.output_size /\ s7[7] = 0 /\ s7[8] = o
       /\ s7[9] = c.input_size
  BY <1>11, <1>12, <1>13, <1>14, <1>15, <1>16, <1>17
<1> QED
  BY <1>17, <1>18, <1>19 DEF o, i
Fits(c) == c.output_size < 8 /\ c.input_size < 8

(* Capabilities are parsed if neither size has eight digits.               *)
LEMMA CapabilitiesParsed ==
    ASSUME NEW c \in Capabilities
    PROVE  Pb!Parse(Pb!Emit(c)) = IF Fits(c) THEN <<c>> ELSE <<>>
<1> DEFINE p == Pb!Emit(c)
           o == Pb!Mask(c.output)
           i == Pb!Mask(c.input)
<1>1. /\ IsString(p, 12)
      /\ p[1] = 1 /\ p[2] = c.elements
      /\ p[3] = 0 /\ p[4] = Flag(c.p256) /\ p[5] = Flag(c.public_key) /\ p[6] = Flag(c.static)
      /\ p[7] = c.output_size /\ p[8] = 0 /\ p[9] = o
      /\ p[10] = c.input_size /\ p[11] = 0 /\ p[12] = i
  BY CapabilitiesOctets
<1>2. Len(p) = 12
  BY <1>1, LengthOf, Zenon
<1>3. c.output \in SUBSET Pb!OutputActions /\ c.input \in SUBSET Pb!InputActions
  BY DEF Capabilities
<1>4. /\ o \in 0 .. 31 /\ Pb!Bits(o, Pb!OutputActions) = c.output
      /\ i \in 0 .. 31 /\ Pb!Bits(i, Pb!InputActions) = c.input
  BY <1>3, MaskReads
<1>5. Pb!IsOutputActions(o) /\ Pb!IsInputActions(i)
  BY <1>4 DEF Pb!IsOutputActions, Pb!IsInputActions, Pb!IsMask
<1> HIDE DEF p, o, i
<1>6. /\ Pb!Number(p[3], p[4]) = Flag(c.p256)
      /\ Pb!Number(p[8], p[9]) = o /\ Pb!Number(p[11], p[12]) = i
  BY <1>1, <1>4 DEF Pb!Number, Flag
<1>7. /\ Pb!IsAlgorithms(Flag(c.p256)) /\ Pb!IsPublicKeyType(p[5]) /\ Pb!IsStaticOob(p[6])
      /\ p[4] = 1 <=> c.p256
      /\ p[5] = 1 <=> c.public_key
      /\ p[6] = 1 <=> c.static
  BY <1>1 DEF Pb!IsAlgorithms, Pb!IsPublicKeyType, Pb!IsStaticOob, Pb!IsFlag, Flag, Capabilities
<1>8. Pb!IsOobSize(p[7]) /\ Pb!IsOobSize(p[10]) <=> Fits(c)
  BY <1>1 DEF Pb!IsOobSize, Fits
<1>9. c = [kind |-> "Capabilities", elements |-> p[2], p256 |-> p[4] = 1, public_key |-> p[5] = 1,
           static |-> p[6] = 1, output_size |-> p[7], output |-> Pb!ParseOutputActions(o),
           input_size |-> p[10], input |-> Pb!ParseInputActions(i)]
  BY <1>1, <1>4, <1>7 DEF Capabilities, Pb!ParseOutputActions, Pb!ParseInputActions
<1>10. Pb!ParseCapabilities(p) = IF Fits(c) THEN <<c>> ELSE <<>>
  BY <1>2, <1>5, <1>6, <1>7, <1>8, <1>9 DEF Pb!ParseCapabilities
<1>11. p # <<>>
  BY <1>1 DEF IsString
<1>12. Pb!Parse(p) = Pb!ParseCapabilities(p)
  BY <1>1, <1>11 DEF Pb!Parse, Pb!TypeOf
<1> QED
  BY <1>10, <1>12 DEF p

(* A Start: six octets, or seven if it names an action.                    *)
LEMMA StartOctets ==
    ASSUME NEW s, IsStart(s), NEW p, p = Pb!Emit(s)
    PROVE  IF s.method \in {Pb!No, Pb!Static}
           THEN /\ IsString(p, 6)
                /\ p[1] = 2 /\ p[2] = 0 /\ p[3] = Flag(s.oob_key) /\ p[4] = s.method
                /\ p[5] = 0 /\ p[6] = 0
           ELSE IsString(p, 7) /\ p[1] = 2
<1> DEFINE head == <<0>> \o <<Flag(s.oob_key)>>
           begun == head \o <<s.method>>
           act == Pb!EmitAction(s.action)
           acted == begun \o act
           body == acted \o <<s.size>>
<1>1. /\ s.kind = "Start" /\ s.method \in 0 .. 3 /\ s.size \in 0 .. 8 /\ s.oob_key \in BOOLEAN
  BY DEF IsStart, Starts, Pb!No, Pb!Static, Pb!Output, Pb!Input
<1>2. p = <<2>> \o body
  BY <1>1, SMTT(60) DEF Pb!Emit, Pb!TypeOf, Pb!EmitStart, Pb!EmitAlgorithm, Pb!EmitKeySelected, Pb!EmitMethod,
              Pb!EmitOobSize, Pb!Flag, Flag
<1>3. /\ Flag(s.oob_key) \in Octet /\ s.method \in Octet /\ s.size \in Octet /\ 0 \in Octet /\ 2 \in Octet
  BY <1>1 DEF Octet, Flag
<1>4. IsString(head, 2) /\ head[1] = 0 /\ head[2] = Flag(s.oob_key)
  BY <1>3 DEF IsString
<1> HIDE DEF head
<1>5. IsString(begun, 3) /\ begun[1] = 0 /\ begun[2] = Flag(s.oob_key) /\ begun[3] = s.method
  BY <1>3, <1>4 DEF IsString
<1> HIDE DEF begun
<1>6. CASE s.method \in {Pb!No, Pb!Static}
  <2>1. act = <<0>> /\ s.size = 0
    BY <1>6 DEF IsStart, Starts, Pb!EmitAction, Pb!None, Pb!No, Pb!Static, Pb!Output, Pb!Input
  <2>2. IsString(act, 1) /\ act[1] = 0
    BY <1>3, <2>1 DEF IsString
  <2> HIDE DEF act
  <2>3. /\ IsString(acted, 4) /\ acted[1] = 0 /\ acted[2] = Flag(s.oob_key) /\ acted[3] = s.method
        /\ acted[4] = 0
    BY <1>5, <2>2 DEF IsString
  <2> HIDE DEF acted
  <2>4. /\ IsString(body, 5) /\ body[1] = 0 /\ body[2] = Flag(s.oob_key) /\ body[3] = s.method
        /\ body[4] = 0 /\ body[5] = 0
    BY <1>3, <2>1, <2>3 DEF IsString
  <2> HIDE DEF body
  <2> QED
    BY <1>2, <1>3, <1>6, <2>4 DEF IsString
<1>7. CASE ~ (s.method \in {Pb!No, Pb!Static})
  <2>1. PICK n \in 0 .. 4 : s.action = <<n>>
    BY <1>7 DEF IsStart, Starts, Pb!OutputActions, Pb!InputActions, Pb!No, Pb!Static, Pb!Output, Pb!Input
  <2>2. Pb!Weight[n + 1] \in {1, 2, 4, 8, 16}
    BY DEF Pb!Weight
  <2>3. act = <<0, Pb!Weight[n + 1]>>
    BY <2>1, <2>2 DEF Pb!EmitAction, Pb!None, Pb!Octets
  <2>4. IsString(act, 2)
    BY <2>2, <2>3 DEF IsString, Octet
  <2> HIDE DEF act
  <2>5. IsString(acted, 5)
    BY <1>5, <2>4 DEF IsString
  <2> HIDE DEF acted
  <2>6. IsString(body, 6)
    BY <1>3, <2>5 DEF IsString
  <2> HIDE DEF body
  <2> QED
    BY <1>2, <1>3, <1>7, <2>6 DEF IsString
<1> QED
  BY <1>6, <1>7

(* A start is parsed if its action is no octet too many: without one.      *)
LEMMA StartParsed ==
    ASSUME NEW s, IsStart(s)
    PROVE  Pb!Parse(Pb!Emit(s)) = IF s.method \in {Pb!No, Pb!Static} THEN <<s>> ELSE <<>>
<1> DEFINE p == Pb!Emit(s)
<1>1. s.method \in {Pb!No, Pb!Static} =>
         /\ IsString(p, 6)
         /\ p[1] = 2 /\ p[2] = 0 /\ p[3] = Flag(s.oob_key) /\ p[4] = s.method
         /\ p[5] = 0 /\ p[6] = 0
  BY StartOctets
<1>2. ~ (s.method \in {Pb!No, Pb!Static}) => IsString(p, 7) /\ p[1] = 2
  BY StartOctets
<1> HIDE DEF p
<1>3. p # <<>> /\ p[1] = 2
  BY <1>1, <1>2 DEF IsString
<1>4. Pb!Parse(p) = Pb!ParseStart(p)
  BY <1>3 DEF Pb!Parse, Pb!TypeOf
<1>5. CASE s.method \in {Pb!No, Pb!Static}
  <2>1. Len(p) = 6
    BY <1>1, <1>5, LengthOf, Zenon
  <2>2. /\ s = [kind |-> "Start", oob_key |-> p[3] = 1, method |-> p[4],
                action |-> Pb!ParseAction(p[4], p[5]), size |-> p[6]]
    BY <1>1, <1>5 DEF IsStart, Starts, Flag, Pb!ParseAction, Pb!No, Pb!Static, Pb!Output, Pb!Input, Pb!None
  <2>3. /\ Pb!IsAlgorithm(p[2]) /\ Pb!IsKeySelected(p[3]) /\ Pb!IsMethod(p[4])
        /\ Pb!IsAction(p[4], p[5]) /\ Pb!IsAuthenticationSize(p[4], p[6])
    BY <1>1, <1>5 DEF Pb!IsAlgorithm, Pb!IsKeySelected, Pb!IsFlag, Flag, Pb!IsMethod, Pb!IsAction,
                      Pb!IsAuthenticationSize, Pb!No, Pb!Static, Pb!Output, Pb!Input
  <2> QED
    BY <1>4, <1>5, <2>1, <2>2, <2>3 DEF Pb!ParseStart, p
<1>6. CASE ~ (s.method \in {Pb!No, Pb!Static})
  <2>0. IsString(p, 7)
    BY <1>2, <1>6
  <2>1. \A n \in Nat : n < 7 => ~ (Len(p) = n)
    BY <2>0 DEF IsString
  <2>2. 6 \in Nat /\ 6 < 7
    OBVIOUS
  <2>3. ~ (Len(p) = 6)
    BY <2>1, <2>2, Zenon
  <2> QED
    BY <1>4, <1>6, <2>3 DEF Pb!ParseStart, p
<1> QED
  BY <1>5, <1>6

-----------------------------------------------------------------------------
(* The other PDUs: an octet for their type, and what follows it.           *)
LEMMA BodyOctets ==
    ASSUME NEW pdu, IsBody(pdu)
    PROVE  \E n \in {16, 33, 64} :
              /\ IsString(pdu.body, n)
              /\ \/ pdu = [kind |-> "PublicKey", body |-> pdu.body] /\ n = 64
                 \/ pdu = [kind |-> "Confirmation", body |-> pdu.body] /\ n = 16
                 \/ pdu = [kind |-> "Random", body |-> pdu.body] /\ n = 16
                 \/ pdu = [kind |-> "Data", body |-> pdu.body] /\ n = 33
<1>1. \A n \in Nat : \A octets \in OfLength(n) : IsString(octets, n)
  BY DEF OfLength, IsString
<1>2. CASE pdu \in Bodies("PublicKey", 64)
  BY <1>1, <1>2 DEF Bodies
<1>3. CASE pdu \in Bodies("Confirmation", 16)
  BY <1>1, <1>3 DEF Bodies
<1>4. CASE pdu \in Bodies("Random", 16)
  BY <1>1, <1>4 DEF Bodies
<1>5. CASE pdu \in Bodies("Data", 33)
  BY <1>1, <1>5 DEF Bodies
<1> QED
  BY <1>2, <1>3, <1>4, <1>5 DEF IsBody

(* A PDU whose body is octets: a key, a confirmation, a random value, the  *)
(* data.                                                                   *)
LEMMA BodyParsed ==
    ASSUME NEW pdu, IsBody(pdu)
    PROVE  /\ \E n \in 1 .. 65 : IsString(Pb!Emit(pdu), n)
           /\ Pb!Parse(Pb!Emit(pdu)) = <<pdu>>
<1>1. PICK n \in {16, 33, 64} :
              /\ IsString(pdu.body, n)
              /\ \/ pdu = [kind |-> "PublicKey", body |-> pdu.body] /\ n = 64
                 \/ pdu = [kind |-> "Confirmation", body |-> pdu.body] /\ n = 16
                 \/ pdu = [kind |-> "Random", body |-> pdu.body] /\ n = 16
                 \/ pdu = [kind |-> "Data", body |-> pdu.body] /\ n = 33
  BY BodyOctets
<1> DEFINE body == pdu.body
           type == Pb!TypeOf[pdu.kind]
           p == <<type>> \o body
<1>2. /\ pdu.kind = "PublicKey" => type = 3
      /\ pdu.kind = "Confirmation" => type = 5
      /\ pdu.kind = "Random" => type = 6
      /\ pdu.kind = "Data" => type = 7
  BY DEF Pb!TypeOf
<1>3. pdu.kind \in {"PublicKey", "Confirmation", "Random", "Data"}
  BY <1>1
<1>4. Pb!Emit(pdu) = p
  BY <1>3 DEF Pb!Emit, Pb!EmitBody
<1>5. type \in Octet
  BY <1>2, <1>3 DEF Octet
<1>51. n \in Nat /\ IsString(body, n)
  BY <1>1
<1> HIDE DEF type, body
<1>6. /\ IsString(p, n + 1) /\ p[1] = type /\ SubSeq(p, 2, n + 1) = body
  BY <1>5, <1>51, Behind
<1>7. n + 1 \in 1 .. 65 /\ (n = 64 => n + 1 = 65) /\ (n = 16 => n + 1 = 17) /\ (n = 33 => n + 1 = 34)
  BY <1>1
<1>8. p # <<>>
  BY <1>6, <1>7 DEF IsString
<1> HIDE DEF p
<1>9. CASE pdu = [kind |-> "PublicKey", body |-> body] /\ n = 64
  <2>1. SubSeq(p, 2, 64 + 1) = body /\ p[1] = 3
    BY <1>2, <1>6, <1>9
  <2>2. Pb!Parse(p) = Pb!ParsePublicKey(p)
    BY <2>1, <1>8 DEF Pb!Parse, Pb!TypeOf
  <2>3. Pb!ParsePublicKey(p) = <<[kind |-> "PublicKey", body |-> body]>>
    BY <2>1, Zenon DEF Pb!ParsePublicKey, Pb!Body
  <2> QED
    BY <2>2, <2>3, <1>4, <1>6, <1>7, <1>9
<1>10. CASE pdu = [kind |-> "Confirmation", body |-> body] /\ n = 16
  <2>1. SubSeq(p, 2, 16 + 1) = body /\ p[1] = 5 /\ IsString(p, 17)
    BY <1>2, <1>6, <1>7, <1>10
  <2>2. Pb!Parse(p) = Pb!ParseConfirmation(p)
    BY <2>1, <1>8 DEF Pb!Parse, Pb!TypeOf
  <2>3. Len(p) = 17
    BY <2>1, LengthOf, Zenon
  <2>4. Pb!ParseConfirmation(p) = <<[kind |-> "Confirmation", body |-> body]>>
    BY <2>1, <2>3, Zenon DEF Pb!ParseConfirmation, Pb!Body
  <2> QED
    BY <2>2, <2>4, <1>4, <1>6, <1>7, <1>10
<1>11. CASE pdu = [kind |-> "Random", body |-> body] /\ n = 16
  <2>1. SubSeq(p, 2, 16 + 1) = body /\ p[1] = 6 /\ IsString(p, 17)
    BY <1>2, <1>6, <1>7, <1>11
  <2>2. Pb!Parse(p) = Pb!ParseRandom(p)
    BY <2>1, <1>8 DEF Pb!Parse, Pb!TypeOf
  <2>3. Len(p) = 17
    BY <2>1, LengthOf, Zenon
  <2>4. Pb!ParseRandom(p) = <<[kind |-> "Random", body |-> body]>>
    BY <2>1, <2>3, Zenon DEF Pb!ParseRandom, Pb!Body
  <2> QED
    BY <2>2, <2>4, <1>4, <1>6, <1>7, <1>11
<1>12. CASE pdu = [kind |-> "Data", body |-> body] /\ n = 33
  <2>1. SubSeq(p, 2, 33 + 1) = body /\ p[1] = 7
    BY <1>2, <1>6, <1>12
  <2>2. Pb!Parse(p) = Pb!ParseSealed(p)
    BY <2>1, <1>8 DEF Pb!Parse, Pb!TypeOf
  <2>3. Pb!ParseSealed(p) = <<[kind |-> "Data", body |-> body]>>
    BY <2>1, Zenon DEF Pb!ParseSealed, Pb!Body
  <2> QED
    BY <2>2, <2>3, <1>4, <1>6, <1>7, <1>12
<1> QED
  BY <1>1, <1>9, <1>10, <1>11, <1>12 DEF body

(* A PDU of an octet or two.                                               *)
LEMMA ShortParsed ==
    ASSUME NEW pdu, pdu \in Invites \cup Failures \cup [kind : {"InputComplete", "Complete"}]
    PROVE  /\ \E n \in 1 .. 65 : IsString(Pb!Emit(pdu), n)
           /\ Pb!Parse(Pb!Emit(pdu)) = <<pdu>>
<1> DEFINE p == Pb!Emit(pdu)
<1>1. CASE pdu \in Invites
  <2>1. pdu = [kind |-> "Invite", attention |-> pdu.attention] /\ pdu.attention \in 0 .. 255
    BY <1>1 DEF Invites, Octet
  <2>6. pdu.kind = "Invite"
    BY <2>1
  <2>7. p = <<0>> \o <<pdu.attention>>
    BY <2>6 DEF Pb!Emit, Pb!TypeOf, Pb!EmitInvite
  <2>2. pdu.attention \in Octet /\ 0 \in Octet
    BY <2>1 DEF Octet
  <2> HIDE DEF p
  <2>4. IsString(p, 2) /\ p[1] = 0 /\ p[2] = pdu.attention
    BY <2>2, <2>7 DEF IsString
  <2>5. Pb!Parse(p) = Pb!ParseInvite(p)
    BY <2>4 DEF Pb!Parse, Pb!TypeOf, IsString
  <2>8. Len(p) = 2
    BY <2>4, LengthOf, Zenon
  <2>9. Pb!ParseInvite(p) = <<pdu>>
    BY <2>1, <2>4, <2>8 DEF Pb!ParseInvite
  <2> QED
    BY <2>4, <2>5, <2>9 DEF p
<1>2. CASE pdu \in Failures
  <2>1. pdu = [kind |-> "Failed", error |-> pdu.error] /\ pdu.error \in 0 .. 8
    BY <1>2 DEF Failures
  <2>6. pdu.kind = "Failed"
    BY <2>1
  <2>7. p = <<9>> \o <<pdu.error>>
    BY <2>6 DEF Pb!Emit, Pb!TypeOf, Pb!EmitFailed, Pb!EmitErrorCode
  <2>2. pdu.error \in Octet /\ 9 \in Octet
    BY <2>1 DEF Octet
  <2> HIDE DEF p
  <2>4. IsString(p, 2) /\ p[1] = 9 /\ p[2] = pdu.error
    BY <2>2, <2>7 DEF IsString
  <2>5. Pb!Parse(p) = Pb!ParseFailed(p)
    BY <2>4 DEF Pb!Parse, Pb!TypeOf, IsString
  <2>8. Len(p) = 2
    BY <2>4, LengthOf, Zenon
  <2>9. Pb!ParseFailed(p) = <<pdu>>
    BY <2>1, <2>4, <2>8 DEF Pb!ParseFailed, Pb!IsErrorCode
  <2> QED
    BY <2>4, <2>5, <2>9 DEF p
<1>3. CASE pdu = [kind |-> "InputComplete"]
  <2>2. p = <<4>>
    BY <1>3 DEF Pb!Emit, Pb!TypeOf
  <2> HIDE DEF p
  <2>3. IsString(p, 1)
    BY <2>2 DEF IsString, Octet
  <2>4. Pb!Parse(p) = Pb!ParseInputComplete(p)
    BY <2>2 DEF Pb!Parse, Pb!TypeOf
  <2>5. Pb!ParseInputComplete(p) = <<pdu>>
    BY <1>3, <2>2 DEF Pb!ParseInputComplete
  <2> QED
    BY <2>3, <2>4, <2>5 DEF p
<1>4. CASE pdu = [kind |-> "Complete"]
  <2>2. p = <<8>>
    BY <1>4 DEF Pb!Emit, Pb!TypeOf
  <2> HIDE DEF p
  <2>3. IsString(p, 1)
    BY <2>2 DEF IsString, Octet
  <2>4. Pb!Parse(p) = Pb!ParseComplete(p)
    BY <2>2 DEF Pb!Parse, Pb!TypeOf
  <2>5. Pb!ParseComplete(p) = <<pdu>>
    BY <1>4, <2>2 DEF Pb!ParseComplete
  <2> QED
    BY <2>3, <2>4, <2>5 DEF p
<1>5. pdu \in [kind : {"InputComplete", "Complete"}] =>
         pdu = [kind |-> "InputComplete"] \/ pdu = [kind |-> "Complete"]
  OBVIOUS
<1> QED
  BY <1>1, <1>2, <1>3, <1>4, <1>5

(* Every PDU of provisioning, by its kind.                                 *)
LEMMA ProvisioningParsed ==
    ASSUME NEW pdu, IsPdu(pdu), ~ IsGeneric(pdu)
    PROVE  /\ \E n \in 1 .. 65 : IsString(Pb!Emit(pdu), n)
           /\ Pb!Parse(Pb!Emit(pdu)) = <<pdu>> <=> Readable(pdu)
<1>0. <<>> # <<pdu>>
  OBVIOUS
<1>1. CASE pdu \in Capabilities
  <2>1. IsString(Pb!Emit(pdu), 12)
    BY <1>1, CapabilitiesOctets
  <2>2. Pb!Parse(Pb!Emit(pdu)) = IF Fits(pdu) THEN <<pdu>> ELSE <<>>
    BY <1>1, CapabilitiesParsed
  <2>3. Fits(pdu) <=> Readable(pdu)
    BY <1>1 DEF Fits, Readable, OobSizes, Capabilities
  <2> QED
    BY <1>0, <2>1, <2>2, <2>3
<1>2. CASE IsStart(pdu)
  <2>1. IsString(Pb!Emit(pdu), 6) \/ IsString(Pb!Emit(pdu), 7)
    BY <1>2, StartOctets
  <2>2. Pb!Parse(Pb!Emit(pdu)) = IF pdu.method \in {Pb!No, Pb!Static} THEN <<pdu>> ELSE <<>>
    BY <1>2, StartParsed
  <2>3. pdu.method \in {Pb!No, Pb!Static} <=> Readable(pdu)
    <3>1. pdu.kind = "Start"
      BY <1>2 DEF IsStart, Starts
    <3> QED
      BY <3>1 DEF Readable
  <2>4. 6 \in 1 .. 65 /\ 7 \in 1 .. 65
    OBVIOUS
  <2> QED
    BY <1>0, <2>1, <2>2, <2>3, <2>4
<1>3. CASE IsBody(pdu)
  <2>1. pdu.kind \in {"PublicKey", "Confirmation", "Random", "Data"}
    BY <1>3 DEF IsBody, Bodies
  <2>2. Readable(pdu)
    BY <2>1 DEF Readable
  <2> QED
    BY <1>3, <2>2, BodyParsed
<1>4. CASE pdu \in Invites \cup Failures \cup [kind : {"InputComplete", "Complete"}]
  <2>1. pdu.kind \in {"Invite", "Failed", "InputComplete", "Complete"}
    BY <1>4 DEF Invites, Failures
  <2>2. Readable(pdu)
    BY <2>1 DEF Readable
  <2> QED
    BY <1>4, <2>2, ShortParsed
<1>5. pdu \in SimplePdus => pdu \in [kind : {"InputComplete", "Complete"}]
  BY DEF SimplePdus, IsGeneric
<1>6. pdu \notin Opens \cup Closes \cup FirstSegments \cup OtherSegments
  <2>1. pdu \in Opens => pdu.kind = "LinkOpen"
    BY DEF Opens
  <2>2. pdu \in Closes => pdu.kind = "LinkClose"
    BY DEF Closes
  <2>3. pdu \in FirstSegments => pdu.kind = "TransactionStart"
    BY DEF FirstSegments
  <2>4. pdu \in OtherSegments => pdu.kind = "TransactionContinuation"
    BY DEF OtherSegments
  <2> QED
    BY <2>1, <2>2, <2>3, <2>4 DEF IsGeneric
<1> QED
  BY <1>1, <1>2, <1>3, <1>4, <1>5, <1>6 DEF IsPdu

(* Over PB-GATT a PDU is read as it is without.                            *)
LEMMA GattParsed ==
    ASSUME NEW pdu, NEW n \in 1 .. 65, IsString(Pb!Emit(pdu), n)
    PROVE  Pb!ReceiveGatt(Pb!TransmitGatt(pdu)[1]) = Pb!Parse(Pb!Emit(pdu))
<1> DEFINE e == Pb!Emit(pdu)
           p == <<3>> \o e
<1>1. Pb!TransmitGatt(pdu) = <<p>>
  <2>1. Len(e) <= Pb!MaxProxy
    BY DEF IsString, Pb!MaxProxy
  <2>2. Pb!Sar.Complete = 0 /\ Pb!MessageType.ProvisioningPDU = 3
    BY DEF Pb!Sar, Pb!MessageType
  <2> HIDE DEF e
  <2>3. Pb!EmitProxy([sar |-> 0, message_type |-> 3, data |-> e]) = p
    BY DEF Pb!EmitProxy
  <2> QED
    BY <2>1, <2>2, <2>3 DEF Pb!TransmitGatt, e
<1> HIDE DEF e
<1>2. IsString(p, n + 1) /\ p[1] = 3 /\ From(p, 2) = e
  <2>1. n \in Nat /\ IsString(e, n) /\ 3 \in Octet
    BY DEF Octet, e
  <2> QED
    BY <2>1, Behind, RestBehind, Zenon
<1>3. p # <<>> /\ Len(p) <= 1 + Pb!MaxProxy
  BY <1>2 DEF IsString, Pb!MaxProxy
<1> HIDE DEF p
<1>4. Pb!From(p, 2) = e
  BY <1>2 DEF Pb!From, From
<1>5. Pb!ParseProxy(p) = <<[sar |-> 0, message_type |-> 3, data |-> e]>>
  BY <1>2, <1>3, <1>4 DEF Pb!ParseProxy
<1>6. Pb!ReceiveGatt(p) = Pb!Parse(e)
  BY <1>5 DEF Pb!ReceiveGatt, Pb!Sar, Pb!MessageType
<1> QED
  BY <1>1, <1>6 DEF e

-----------------------------------------------------------------------------
(* What lies in a string, octet for octet.                                 *)
LEMMA InNat == ASSUME NEW s \in Seq(Octet) PROVE s \in Seq(Nat)
<1>1. ASSUME NEW S, NEW T, S \subseteq T, NEW t \in Seq(S) PROVE t \in Seq(T)
  BY <1>1
<1>2. Octet \subseteq Nat
  BY DEF Octet
<1> QED
  BY <1>1, <1>2, Zenon

(* A slice, by its octets.                                                 *)
LEMMA SliceOf ==
    ASSUME NEW S, NEW p \in Seq(S), NEW t \in Seq(S), NEW i \in Nat, NEW j \in Nat,
           1 <= i, j <= Len(p), j + 1 = i + Len(t),
           \A k \in 1 .. Len(t) : p[i + k - 1] = t[k]
    PROVE  SubSeq(p, i, j) = t
<1>1. Len(t) \in Nat /\ Len(p) \in Nat /\ j - i + 1 = Len(t)
  OBVIOUS
<1>2. SubSeq(p, i, j) = [k \in 1 .. Len(t) |-> p[i + k - 1]]
  BY <1>1
<1>3. \A k \in 1 .. Len(t) : [m \in 1 .. Len(t) |-> p[i + m - 1]][k] = t[k]
  OBVIOUS
<1>4. t = [k \in 1 .. Len(t) |-> t[k]]
  OBVIOUS
<1> QED
  BY <1>2, <1>3, <1>4

(* Over PB-ADV the generic PDU behind the link and the number.             *)
LEMMA AdvertisingParsed ==
    ASSUME NEW pdu, NEW n \in Nat, NEW g, g = Pb!EmitGeneric(pdu), IsString(g, n)
    PROVE  Pb!ParseAdvertising(Pb!EmitAdvertising(OnLink(pdu))) =
              IF n >= 1 /\ Pb!ParseGeneric(g) # <<>>
              THEN <<[OnLink(pdu) EXCEPT !.pdu = Pb!ParseGeneric(g)[1]]>> ELSE <<>>
<1> DEFINE link == <<1, 2, 3, 4>>
           s1 == <<41>> \o link
           s2 == s1 \o <<128>>
           s3 == s2 \o g
           p == <<Len(s3)>> \o s3
<1>1. Pb!EmitAdvertising(OnLink(pdu)) = p
  BY DEF Pb!EmitAdvertising, Pb!PbAdv, OnLink
<1>2. IsString(link, 4) /\ 41 \in Octet /\ 128 \in Octet
  BY DEF IsString, Octet
<1>3. OnLink(pdu) = [link_id |-> link, transaction_number |-> 128, pdu |-> pdu]
  BY DEF OnLink
<1> HIDE DEF link
<1>4. IsString(s1, 5) /\ s1[1] = 41 /\ \A k \in 1 .. 4 : s1[1 + k] = link[k]
  BY <1>2 DEF IsString
<1> HIDE DEF s1
<1>5. IsString(s2, 6) /\ (\A k \in 1 .. 5 : s2[k] = s1[k]) /\ s2[6] = 128
  BY <1>2, <1>4 DEF IsString
<1> HIDE DEF s2
<1>6. /\ IsString(s3, 6 + n) /\ (\A k \in 1 .. 6 : s3[k] = s2[k])
      /\ \A k \in 1 .. n : s3[6 + k] = g[k]
  BY <1>5, SMTT(60) DEF IsString
<1> HIDE DEF s3
<1>12. s3 \in Seq(Nat) /\ Len(s3) \in Nat /\ Len(s3) <= 6 + n /\ Len(s3) >= 6 + n
  <2>1. s3 \in Seq(Octet)
    BY <1>6 DEF IsString
  <2> QED
    BY <2>1, <1>6, InNat DEF IsString
<1>7. /\ p \in Seq(Nat) /\ Len(p) <= 7 + n /\ Len(p) >= 7 + n
      /\ \A k \in 1 .. 6 + n : p[1 + k] = s3[k]
  BY <1>12
<1> HIDE DEF p
<1>81. p[2] = 41
  <2>1. s3[1] = 41
    BY <1>4, <1>5, <1>6
  <2>2. p[1 + 1] = s3[1]
    BY <1>7
  <2> QED
    BY <2>1, <2>2
<1>82. p[7] = 128
  BY <1>5, <1>6, <1>7, SMTT(60)
<1>83. \A k \in 1 .. 4 : p[2 + k] = link[k]
  <2>1. \A k \in 1 .. 4 : s3[1 + k] = link[k]
    BY <1>4, <1>5, <1>6
  <2>2. \A k \in 1 .. 4 : 1 + k \in 1 .. 6 + n
    OBVIOUS
  <2>3. \A k \in 1 .. 4 : p[1 + (1 + k)] = s3[1 + k]
    BY <2>2, <1>7, Zenon
  <2> QED
    BY <2>1, <2>3
<1>9. SubSeq(p, 3, 6) = link
  <2>1. /\ link \in Seq(Nat) /\ Len(link) \in Nat /\ Len(link) <= 4 /\ Len(link) >= 4
    <3>1. link \in Seq(Octet)
      BY <1>2 DEF IsString
    <3> QED
      BY <3>1, <1>2, InNat DEF IsString
  <2>2. PICK i \in Nat : i = 3
    OBVIOUS
  <2>3. PICK j \in Nat : j = 6
    OBVIOUS
  <2>4. 1 <= i /\ j <= Len(p) /\ j + 1 = i + Len(link)
    BY <2>1, <2>2, <2>3, <1>7
  <2>5. \A k \in 1 .. Len(link) : p[i + k - 1] = link[k]
    <3>1. \A k \in 1 .. Len(link) : k \in 1 .. 4 /\ i + k - 1 = 2 + k
      BY <2>1, <2>2
    <3> QED
      BY <3>1, <1>83, Zenon
  <2>6. SubSeq(p, i, j) = link
    BY <2>1, <2>4, <2>5, <1>7, SliceOf, Zenon
  <2> QED
    BY <2>2, <2>3, <2>6
<1>10. Pb!From(p, 8) = g
  <2>1. \A k \in 1 .. n : p[7 + k] = g[k]
    <3>1. \A k \in 1 .. n : 6 + k \in 1 .. 6 + n
      OBVIOUS
    <3>2. \A k \in 1 .. n : p[1 + (6 + k)] = s3[6 + k]
      BY <3>1, <1>7
    <3> QED
      BY <3>2, <1>6
  <2> QED
    BY <1>7, <2>1, SMTT(60) DEF IsString, Pb!From
<1>11. Len(p) >= 8 <=> n >= 1
  BY <1>7
<1> QED
  BY <1>1, <1>3, <1>81, <1>82, <1>9, <1>10, <1>11, SMTT(60) DEF Pb!ParseAdvertising, Pb!PbAdv

-----------------------------------------------------------------------------
(* Over PB-ADV a PDU is read as it was sent if the generic PDU is.         *)
LEMMA LinkReads ==
    ASSUME NEW pdu, NEW n \in Nat, NEW g, g = Pb!EmitGeneric(pdu), IsString(g, n),
           NEW read, n >= 1, Pb!ParseGeneric(g) = <<read>>
    PROVE  Pb!ParseAdvertising(Pb!EmitAdvertising(OnLink(pdu))) = <<OnLink(pdu)>> <=> read = pdu
<1>1. Pb!ParseAdvertising(Pb!EmitAdvertising(OnLink(pdu))) = <<[OnLink(pdu) EXCEPT !.pdu = read]>>
  <2>1. Pb!ParseGeneric(g) # <<>> /\ Pb!ParseGeneric(g)[1] = read
    OBVIOUS
  <2> QED
    BY <2>1, AdvertisingParsed
<1>2. [OnLink(pdu) EXCEPT !.pdu = read] = OnLink(pdu) <=> read = pdu
  BY DEF OnLink
<1> QED
  BY <1>1, <1>2

(* The six bits of a segment's number.                                     *)
LEMMA SixBits ==
    ASSUME NEW n \in Octet
    PROVE  LET first == (4 * n) % 256
           IN  /\ first \in Octet /\ first % 4 = 0 /\ (first \div 4 = n <=> n < 64)
               /\ first + 2 \in Octet /\ (first + 2) % 4 = 2 /\ ((first + 2) \div 4 = n <=> n < 64)
<1>1. (4 * n) % 256 = 4 * (n % 64) /\ n % 64 \in 0 .. 63 /\ (n % 64 = n <=> n < 64)
  BY DEF Octet
<1> DEFINE m == n % 64
<1>2. m \in 0 .. 63
  BY <1>1
<1> HIDE DEF m
<1>3. /\ 4 * m \in Octet /\ (4 * m) % 4 = 0 /\ (4 * m) \div 4 = m
      /\ 4 * m + 2 \in Octet /\ (4 * m + 2) % 4 = 2 /\ (4 * m + 2) \div 4 = m
  BY <1>2, SMTT(60) DEF Octet
<1> QED
  BY <1>1, <1>3 DEF m

(* The two octets of a word.                                               *)
LEMMA InWord == ASSUME NEW n \in Word PROVE n \in Nat /\ n < 65536
BY SMTT(60) DEF Word

(* A number of 16 bits in two octets.                                      *)
LEMMA TwoOctets ==
    ASSUME NEW n \in Word
    PROVE  n \div 256 \in Octet /\ n % 256 \in Octet /\ 256 * (n \div 256) + (n % 256) = n
<1>1. n \in Nat /\ n < 65536
  BY InWord
<1> DEFINE high == n \div 256
           low == n % 256
<1>2. high \in Nat /\ low \in Nat /\ low < 256 /\ n = 256 * high + low
  BY <1>1
<1> HIDE DEF high, low
<1>3. high < 256
  BY <1>1, <1>2
<1>4. \A m \in Nat : m < 256 => m \in Octet
  BY DEF Octet
<1> QED
  BY <1>2, <1>3, <1>4 DEF high, low

(* The length of a segment.                                                *)
LEMMA SegmentLength ==
    ASSUME NEW data \in Segment
    PROVE  \E m \in Nat : m >= 1 /\ m <= 64 /\ IsString(data, m)
<1>1. data \in Seq(Octet) /\ Len(data) \in 1 .. 64
  BY DEF Segment, Pb!MaxSegment
<1>2. \A m \in 1 .. 64 : m \in Nat /\ m >= 1 /\ m <= 64 /\ m <= m
  OBVIOUS
<1>3. Len(data) \in Nat /\ Len(data) >= 1 /\ Len(data) <= 64 /\ Len(data) <= Len(data)
  BY <1>1, <1>2, Zenon
<1>4. IsString(data, Len(data))
  BY <1>1, <1>3 DEF IsString
<1> QED
  BY <1>3, <1>4

(* Every generic PDU comes back if it is Readable.                         *)
LEMMA GenericReads ==
    ASSUME NEW pdu, IsPdu(pdu), IsGeneric(pdu)
    PROVE  Pb!ParseAdvertising(Pb!EmitAdvertising(OnLink(pdu))) = <<OnLink(pdu)>> <=> Readable(pdu)
<1> DEFINE g == Pb!EmitGeneric(pdu)
<1>1. CASE pdu.kind \in {"LinkOpen", "LinkClose"}
  <2>1. g = <<>>
    BY <1>1 DEF Pb!EmitGeneric, Pb!EmitBearerControl
  <2>2. IsString(g, 0)
    BY <2>1 DEF IsString
  <2>3. Pb!ParseAdvertising(Pb!EmitAdvertising(OnLink(pdu))) = <<>>
    BY <2>2, AdvertisingParsed
  <2>4. ~ Readable(pdu)
    BY <1>1 DEF Readable
  <2>5. <<>> # <<OnLink(pdu)>>
    OBVIOUS
  <2> QED
    BY <2>3, <2>4, <2>5
<1>2. CASE pdu = [kind |-> "LinkAck"]
  <2>1. g = <<7>>
    BY <1>2 DEF Pb!EmitGeneric, Pb!EmitBearerControl
  <2>2. IsString(g, 1)
    BY <2>1 DEF IsString, Octet
  <2>3. Pb!ParseGeneric(g) = <<pdu>>
    BY <2>1, <1>2 DEF Pb!ParseGeneric, Pb!ParseBearerControl, Pb!ParseLinkAck
  <2>4. Readable(pdu)
    BY <1>2 DEF Readable
  <2> QED
    BY <2>2, <2>3, <2>4, LinkReads
<1>3. CASE pdu = [kind |-> "TransactionAck"]
  <2>1. g = <<1>>
    BY <1>3 DEF Pb!EmitGeneric, Pb!EmitTransactionAck
  <2>2. IsString(g, 1)
    BY <2>1 DEF IsString, Octet
  <2>3. Pb!ParseGeneric(g) = <<pdu>>
    BY <2>1, <1>3 DEF Pb!ParseGeneric, Pb!ParseTransactionAck
  <2>4. Readable(pdu)
    BY <1>3 DEF Readable
  <2> QED
    BY <2>2, <2>3, <2>4, LinkReads
<1>4. CASE pdu \in FirstSegments
  <2> DEFINE n == pdu.seg_n
             t == pdu.total_len
             data == pdu.data
             first == (4 * n) % 256
             th == t \div 256
             tl == t % 256
             s1 == <<first>> \o <<th, tl>>
             s2 == s1 \o <<pdu.fcs>>
             s3 == s2 \o data
  <2>1. /\ pdu = [kind |-> "TransactionStart", seg_n |-> n, total_len |-> t, fcs |-> pdu.fcs, data |-> data]
        /\ n \in Octet /\ t \in Word /\ pdu.fcs \in Octet /\ data \in Segment
    BY <1>4 DEF FirstSegments
  <2>2. g = s3
    BY <2>1 DEF Pb!EmitGeneric, Pb!EmitTransactionStart, Pb!Octets
  <2>3. t \div 256 \in Octet /\ t % 256 \in Octet /\ 256 * (t \div 256) + (t % 256) = t
    BY <2>1, TwoOctets
  <2>4. first \in Octet /\ first % 4 = 0 /\ (first \div 4 = n <=> n < 64)
    BY <2>1, SixBits
  <2>5. PICK m \in Nat : m >= 1 /\ m <= 64 /\ IsString(data, m)
    BY <2>1, SegmentLength
  <2>31. th \in Octet /\ tl \in Octet
    BY <2>3
  <2>32. 256 * th + tl = t
    BY <2>3
  <2> HIDE DEF n, t, data, first, g, th, tl
  <2>6. IsString(s1, 3) /\ s1[1] = first /\ s1[2] = th /\ s1[3] = tl
    BY <2>31, <2>4 DEF IsString
  <2> HIDE DEF s1
  <2>7. IsString(s2, 4) /\ (\A k \in 1 .. 3 : s2[k] = s1[k]) /\ s2[4] = pdu.fcs
    BY <2>1, <2>6 DEF IsString
  <2> HIDE DEF s2
  <2>8. IsString(s3, 4 + m) /\ (\A k \in 1 .. 4 : s3[k] = s2[k]) /\ (\A k \in 1 .. m : s3[4 + k] = data[k])
    BY <2>5, <2>7 DEF IsString
  <2> HIDE DEF s3
  <2>9. Pb!From(s3, 5) = data
    BY <2>5, <2>8 DEF IsString, Pb!From
  <2>10. s3[1] = first /\ s3[2] = th /\ s3[3] = tl /\ s3[4] = pdu.fcs
    BY <2>6, <2>7, <2>8
  <2>11. Pb!Number(s3[2], s3[3]) = t
    BY <2>32, <2>10 DEF Pb!Number
  <2>12. Len(s3) \in 5 .. 4 + Pb!MaxSegment
    <3>1. Len(s3) \in Nat /\ Len(s3) >= 5 /\ Len(s3) <= 68
      BY <2>5, <2>8 DEF IsString
    <3>2. \A k \in Nat : k >= 5 /\ k <= 68 => k \in 5 .. 4 + Pb!MaxSegment
      BY DEF Pb!MaxSegment
    <3> QED
      BY <3>1, <3>2, Zenon
  <2> DEFINE read == [kind |-> "TransactionStart", seg_n |-> first \div 4, total_len |-> t,
                      fcs |-> pdu.fcs, data |-> data]
  <2>13. Pb!ParseTransactionStart(s3) = <<read>>
    BY <2>9, <2>10, <2>11, <2>12 DEF Pb!ParseTransactionStart
  <2>14. Pb!ParseGeneric(s3) = <<read>>
    BY <2>4, <2>10, <2>13 DEF Pb!ParseGeneric
  <2>15. read = pdu <=> first \div 4 = n
    BY <2>1
  <2>16. Readable(pdu) <=> n < 64
    BY <2>1 DEF Readable, n
  <2>17. g = Pb!EmitGeneric(pdu) /\ 4 + m \in Nat /\ 4 + m >= 1 /\ IsString(g, 4 + m)
    BY <2>2, <2>8 DEF g
  <2> HIDE DEF read
  <2>18. Pb!ParseAdvertising(Pb!EmitAdvertising(OnLink(pdu))) = <<OnLink(pdu)>> <=> read = pdu
    BY <2>2, <2>14, <2>17, LinkReads
  <2> QED
    BY <2>4, <2>15, <2>16, <2>18
<1>5. CASE pdu \in OtherSegments
  <2> DEFINE n == pdu.segment_index
             data == pdu.data
             first == ((4 * n) % 256) + 2
             p == <<first>> \o data
  <2>1. /\ pdu = [kind |-> "TransactionContinuation", segment_index |-> n, data |-> data]
        /\ n \in Octet /\ data \in Segment
    BY <1>5 DEF OtherSegments
  <2>2. g = p
    BY <2>1 DEF Pb!EmitGeneric, Pb!EmitContinuation
  <2>4. first \in Octet /\ first % 4 = 2 /\ (first \div 4 = n <=> n < 64)
    BY <2>1, SixBits
  <2>5. PICK m \in Nat : m >= 1 /\ m <= 64 /\ IsString(data, m)
    BY <2>1, SegmentLength
  <2> HIDE DEF n, data, first, g
  <2>6. m \in Nat /\ IsString(p, m + 1) /\ p[1] = first /\ From(p, 2) = data
    BY <2>4, <2>5, Behind, RestBehind
  <2> HIDE DEF p
  <2>9. Pb!From(p, 2) = data
    BY <2>6 DEF From, Pb!From
  <2>12. Len(p) \in 2 .. 1 + Pb!MaxSegment
    <3>1. Len(p) \in Nat /\ Len(p) >= 2 /\ Len(p) <= 65
      BY <2>5, <2>6 DEF IsString
    <3>2. \A k \in Nat : k >= 2 /\ k <= 65 => k \in 2 .. 1 + Pb!MaxSegment
      BY DEF Pb!MaxSegment
    <3> QED
      BY <3>1, <3>2, Zenon
  <2> DEFINE read == [kind |-> "TransactionContinuation", segment_index |-> first \div 4, data |-> data]
  <2>13. Pb!ParseContinuation(p) = <<read>>
    BY <2>6, <2>9, <2>12 DEF Pb!ParseContinuation
  <2>14. Pb!ParseGeneric(p) = <<read>>
    BY <2>4, <2>6, <2>13 DEF Pb!ParseGeneric
  <2>15. read = pdu <=> first \div 4 = n
    BY <2>1
  <2>16. Readable(pdu) <=> n < 64
    BY <2>1 DEF Readable, n
  <2>17. g = Pb!EmitGeneric(pdu) /\ m + 1 \in Nat /\ m + 1 >= 1 /\ IsString(g, m + 1)
    BY <2>2, <2>6 DEF g
  <2> HIDE DEF read
  <2>18. Pb!ParseAdvertising(Pb!EmitAdvertising(OnLink(pdu))) = <<OnLink(pdu)>> <=> read = pdu
    BY <2>2, <2>14, <2>17, LinkReads
  <2> QED
    BY <2>4, <2>15, <2>16, <2>18
<1>6. pdu.kind \in {"LinkOpen", "LinkClose"} \/ pdu = [kind |-> "LinkAck"] \/ pdu = [kind |-> "TransactionAck"]
      \/ pdu \in FirstSegments \/ pdu \in OtherSegments
  <2>1. pdu \in Opens => pdu.kind = "LinkOpen"
    BY DEF Opens
  <2>2. pdu \in Closes => pdu.kind = "LinkClose"
    BY DEF Closes
  <2>3. pdu \in SimplePdus => pdu = [kind |-> "LinkAck"] \/ pdu = [kind |-> "TransactionAck"]
    BY DEF SimplePdus, IsGeneric
  <2>4. pdu \notin Invites \cup Failures \cup Capabilities
    BY DEF IsGeneric, Invites, Failures, Capabilities
  <2>5. ~ IsStart(pdu) /\ ~ IsBody(pdu)
    BY DEF IsGeneric, IsStart, IsBody, Starts, Bodies
  <2> QED
    BY <2>1, <2>2, <2>3, <2>4, <2>5 DEF IsPdu
<1> QED
  BY <1>1, <1>2, <1>3, <1>4, <1>5, <1>6

(***************************************************************************)
(* A PDU of provisioning is read as it was sent, over either bearer,       *)
(* exactly if it is Readable, whatever its fields.                         *)
(***************************************************************************)
THEOREM PdusReadBack == ASSUME NEW pdu, IsPdu(pdu) PROVE PduReadsBack(pdu)
<1>1. CASE IsGeneric(pdu)
  BY <1>1, GenericReads DEF PduReadsBack
<1>2. CASE ~ IsGeneric(pdu)
  <2>1. PICK n \in 1 .. 65 : IsString(Pb!Emit(pdu), n)
    BY <1>2, ProvisioningParsed
  <2>2. Pb!ReceiveGatt(Pb!TransmitGatt(pdu)[1]) = Pb!Parse(Pb!Emit(pdu))
    BY <2>1, GattParsed
  <2> QED
    BY <1>2, <2>2, ProvisioningParsed DEF PduReadsBack
<1> QED
  BY <1>1, <1>2

-----------------------------------------------------------------------------
(* The bits of four.                                                       *)
Nibble == 0 .. 15

(* Four bits are a nibble.                                                 *)
LEMMA NibbleBits ==
    ASSUME NEW n \in Nibble
    PROVE  /\ n = (IF Sensor!HasBit(n, 1) THEN 1 ELSE 0) + (IF Sensor!HasBit(n, 2) THEN 2 ELSE 0)
                  + (IF Sensor!HasBit(n, 4) THEN 4 ELSE 0) + (IF Sensor!HasBit(n, 8) THEN 8 ELSE 0)
BY DEF Nibble, Sensor!HasBit

(* Bits are combined within the nibble; nothing is lost only to zero.      *)
LEMMA OrNibbles ==
    ASSUME NEW a \in Nibble, NEW b \in Nibble
    PROVE  /\ Sensor!OrNibble(a, b) \in Nibble
           /\ a = 0 => Sensor!OrNibble(a, b) = b
           /\ b = 0 => Sensor!OrNibble(a, b) = a
           /\ Sensor!OrNibble(a, b) = 0 => a = 0 /\ b = 0
<1> DEFINE A(w) == Sensor!HasBit(a, w)
           B(w) == Sensor!HasBit(b, w)
           Bit(w) == IF A(w) \/ B(w) THEN w ELSE 0
<1>1. Sensor!OrNibble(a, b) = Bit(1) + Bit(2) + Bit(4) + Bit(8)
  BY DEF Sensor!OrNibble
<1>2. /\ a = (IF A(1) THEN 1 ELSE 0) + (IF A(2) THEN 2 ELSE 0) + (IF A(4) THEN 4 ELSE 0) + (IF A(8) THEN 8 ELSE 0)
      /\ b = (IF B(1) THEN 1 ELSE 0) + (IF B(2) THEN 2 ELSE 0) + (IF B(4) THEN 4 ELSE 0) + (IF B(8) THEN 8 ELSE 0)
  BY NibbleBits
<1> HIDE DEF A, B
<1>3. /\ Sensor!OrNibble(a, b) \in Nibble
      /\ Sensor!OrNibble(a, b) = 0 => a = 0 /\ b = 0
  BY <1>1, <1>2 DEF Nibble
<1>4. a = 0 => ~ A(1) /\ ~ A(2) /\ ~ A(4) /\ ~ A(8)
  BY <1>2
<1>5. b = 0 => ~ B(1) /\ ~ B(2) /\ ~ B(4) /\ ~ B(8)
  BY <1>2
<1>6. /\ a = 0 => Sensor!OrNibble(a, b) = b
      /\ b = 0 => Sensor!OrNibble(a, b) = a
  BY <1>1, <1>2, <1>4, <1>5
<1> QED
  BY <1>3, <1>6

(* A word in octets, an octet in halves.                                   *)
LEMMA WordParts ==
    ASSUME NEW n \in Word
    PROVE  \E high \in Octet, up \in Nibble, low \in Nibble :
              /\ n = 256 * high + 16 * up + low
              /\ n \div 256 = high /\ n % 256 = 16 * up + low
              /\ (n % 256) \div 16 = up /\ (n % 256) % 16 = low
<1> DEFINE high == n \div 256
           octet == n % 256
           up == octet \div 16
           low == octet % 16
<1>1. high \in Octet /\ octet \in Octet /\ 256 * high + octet = n
  BY TwoOctets
<1> HIDE DEF high, octet
<1>2. up \in Nibble /\ low \in Nibble /\ octet = 16 * up + low
  BY <1>1 DEF Octet, Nibble
<1>3. n = 256 * high + 16 * up + low
  BY <1>1, <1>2 DEF Octet, Nibble
<1> QED
  BY <1>1, <1>2, <1>3 DEF high, octet

(* The three octets.                                                       *)
Shared(a, b) == Sensor!OrNibble(a, b)

(* The three octets of the two tolerances.                                 *)
LEMMA TolerancesOctets ==
    ASSUME NEW p \in Nat, NEW n \in Nat, NEW high \in Octet, NEW octet \in Octet, NEW nh \in Octet,
           NEW up \in Nibble, NEW low \in Nibble,
           p = 256 * high + octet, n = 256 * nh + 16 * up + low
    PROVE  Sensor!EmitTolerances(p, n) = <<octet, 16 * Shared(high % 16, up) + low, nh>>
<1> USE DEF Octet, Nibble
<1>1. p \div 256 = high /\ p % 256 = octet
  BY Z3
<1>2. n \div 256 = nh /\ n % 256 = 16 * up + low
  BY Z3
<1>3. (16 * up + low) \div 16 = up /\ (16 * up + low) % 16 = low
  OBVIOUS
<1> QED
  BY <1>1, <1>2, <1>3 DEF Sensor!EmitTolerances, Sensor!OrHigh, Shared

-----------------------------------------------------------------------------
(***************************************************************************)
(* Two sensors whose tolerances differ are told apart by their descriptors *)
(* exactly if the positive one is below 256 and the negative one, modulo   *)
(* 256, below 16.                                                          *)
(***************************************************************************)
THEOREM TolerancesTold ==
    ASSUME NEW d, d.positive \in Word, d.negative \in Word PROVE TolerancesTell(d)
<1>1. PICK high \in Octet, u \in Nibble, l \in Nibble :
         /\ d.positive = 256 * high + 16 * u + l
         /\ d.positive % 256 = 16 * u + l
  BY WordParts
<1> DEFINE octet == 16 * u + l
<1>2. octet \in Octet /\ d.positive % 256 = octet /\ d.positive = 256 * high + octet
  BY <1>1 DEF Octet, Nibble
<1>3. PICK nh \in Octet, up \in Nibble, low \in Nibble :
         /\ d.negative = 256 * nh + 16 * up + low
         /\ d.negative \div 256 = nh /\ d.negative % 256 = 16 * up + low
  BY WordParts
<1> HIDE DEF octet
<1>4. /\ d.positive \in Nat /\ d.negative \in Nat
      /\ d.positive < 256 <=> high = 0
      /\ d.negative % 256 < 16 <=> up = 0
  <2>1. d.positive \in Nat /\ d.negative \in Nat
    BY InWord
  <2>2. d.positive < 256 <=> high = 0
    BY <1>2 DEF Octet
  <2>3. d.negative % 256 < 16 <=> up = 0
    BY <1>3 DEF Nibble
  <2> QED
    BY <2>1, <2>2, <2>3
<1> DEFINE Emitted(p, n) == Sensor!EmitTolerances(p, n)
           o == Shared(high % 16, up)
           Sent == Emitted(d.positive, d.negative)
           Some == {octet + 256 * h : h \in 0 .. 15} \X {256 * nh + k : k \in 0 .. 255}
<1>5. high % 16 \in Nibble
  BY DEF Octet, Nibble
<1>6. Sent = <<octet, 16 * o + low, nh>>
  BY <1>2, <1>3, <1>4, TolerancesOctets
<1>7. o \in Nibble
  BY <1>5, OrNibbles DEF Shared
<1>8. Twins(d) = {t \in Some : t # <<d.positive, d.negative>> /\ Emitted(t[1], t[2]) = Sent}
  BY <1>2, <1>3 DEF Twins
<1>9. \A h \in Nibble, v, w \in Nibble :
         LET p == octet + 256 * h
             n == 256 * nh + (16 * v + w)
         IN  /\ <<p, n>> \in Some
             /\ Emitted(p, n) = <<octet, 16 * Shared(h, v) + w, nh>>
  <2> TAKE h \in Nibble, v, w \in Nibble
  <2> DEFINE p == octet + 256 * h
             n == 256 * nh + (16 * v + w)
  <2>1. 16 * v + w \in 0 .. 255 /\ h \in 0 .. 15
    BY DEF Nibble
  <2>2. <<p, n>> \in Some
    BY <2>1, Zenon
  <2>3. /\ p \in Nat /\ n \in Nat /\ h \in Octet /\ h % 16 = h
        /\ p = 256 * h + octet /\ n = 256 * nh + 16 * v + w
    BY <1>2 DEF Octet, Nibble
  <2> HIDE DEF p, n
  <2>4. Emitted(p, n) = <<octet, 16 * Shared(h % 16, v) + w, nh>>
    BY <2>3, <1>2, TolerancesOctets, SMTT(60)
  <2> QED
    BY <2>2, <2>3, <2>4 DEF p, n
<1> HIDE DEF Emitted, o, Sent
<1>10. CASE high = 0 /\ up = 0
  <2>1. o = 0
    <3>1. high % 16 = 0 /\ 0 \in Nibble
      BY <1>10 DEF Nibble
    <3> QED
      BY <1>5, <1>10, <3>1, OrNibbles DEF o, Shared
  <2>2. ASSUME NEW t \in Some, Emitted(t[1], t[2]) = Sent PROVE t = <<d.positive, d.negative>>
    <3>1. PICK h \in 0 .. 15, k \in 0 .. 255 : t = <<octet + 256 * h, 256 * nh + k>>
      BY <2>2
    <3>2. PICK v \in Nibble, w \in Nibble : k = 16 * v + w
      <4>1. k \div 16 \in Nibble /\ k % 16 \in Nibble /\ k = 16 * (k \div 16) + (k % 16)
        BY DEF Nibble
      <4> QED
        BY <4>1
    <3>3. h \in Nibble
      BY DEF Nibble
    <3>4. Emitted(t[1], t[2]) = <<octet, 16 * Shared(h, v) + w, nh>>
      BY <3>1, <3>2, <3>3, <1>9
    <3>5. 16 * Shared(h, v) + w = low
      BY <3>4, <2>1, <2>2, <1>6 DEF Nibble
    <3>6. Shared(h, v) \in Nibble
      BY <3>3, OrNibbles DEF Shared
    <3>7. Shared(h, v) = 0 /\ w = low
      BY <3>5, <3>6 DEF Nibble
    <3>8. h = 0 /\ v = 0
      BY <3>3, <3>7, OrNibbles DEF Shared
    <3> QED
      BY <3>1, <3>2, <3>7, <3>8, <1>2, <1>3, <1>10, SMTT(60) DEF Octet, Nibble
  <2>3. Twins(d) = {}
    BY <2>2, <1>8
  <2> QED
    BY <2>3, <1>4, <1>10 DEF TolerancesTell
<1>11. CASE high # 0
  <2> DEFINE t == <<octet, 256 * nh + (16 * o + low)>>
  <2>1. 0 \in Nibble /\ Shared(0, o) = o
    <3>1. 0 \in Nibble
      BY DEF Nibble
    <3> QED
      BY <3>1, <1>7, OrNibbles DEF Shared
  <2>2. t \in Some /\ Emitted(t[1], t[2]) = <<octet, 16 * o + low, nh>>
    <3>1. octet + 256 * 0 = octet
      BY <1>2 DEF Octet
    <3>2. /\ <<octet + 256 * 0, 256 * nh + (16 * o + low)>> \in Some
          /\ Emitted(octet + 256 * 0, 256 * nh + (16 * o + low)) = <<octet, 16 * Shared(0, o) + low, nh>>
      BY <2>1, <1>7, <1>9
    <3> QED
      BY <3>1, <3>2, <2>1
  <2>3. t # <<d.positive, d.negative>>
    <3>1. octet # d.positive
      BY <1>2, <1>11 DEF Octet
    <3> QED
      BY <3>1
  <2>4. Twins(d) # {}
    BY <2>2, <2>3, <1>6, <1>8
  <2> QED
    BY <2>4, <1>4, <1>11 DEF TolerancesTell
<1>12. CASE up # 0
  <2> DEFINE t == <<octet + 256 * o, 256 * nh + (16 * 0 + low)>>
  <2>1. 0 \in Nibble /\ Shared(o, 0) = o
    <3>1. 0 \in Nibble
      BY DEF Nibble
    <3> QED
      BY <3>1, <1>7, OrNibbles DEF Shared
  <2>2. t \in Some /\ Emitted(t[1], t[2]) = <<octet, 16 * o + low, nh>>
    BY <2>1, <1>7, <1>9
  <2>3. t # <<d.positive, d.negative>>
    <3>1. 256 * nh + (16 * 0 + low) # d.negative
      BY <1>3, <1>12 DEF Octet, Nibble
    <3> QED
      BY <3>1
  <2>4. Twins(d) # {}
    BY <2>2, <2>3, <1>6, <1>8
  <2> QED
    BY <2>4, <1>4, <1>12 DEF TolerancesTell
<1> QED
  BY <1>10, <1>11, <1>12

(***************************************************************************)
(* The header of a value names its sensor and its size in exactly these    *)
(* ranges.                                                                 *)
(***************************************************************************)
THEOREM HeadersTold ==
    ASSUME NEW d, d.id \in Word, d.size \in Nat PROVE HeaderTells(d)
<1> DEFINE high == d.id \div 256
           low == d.id % 256
<1>1. high \in Octet /\ low \in Octet /\ 256 * high + low = d.id
  BY TwoOctets
<1> HIDE DEF high, low
<1>2. CASE d.id < 2048 /\ d.size <= 16
  <2>1. HeaderOf(d) = <<8 * d.size + high, low>>
    BY <1>2 DEF HeaderOf, Sensor!EmitHeader, Sensor!FormatA, high, low
  <2>2. high \in 0 .. 7
    BY <1>1, <1>2 DEF Octet
  <2>3. 8 * d.size + high < 128 <=> d.size < 16
    BY <2>2
  <2>4. (8 * d.size + high) \div 8 = d.size /\ (8 * d.size + high) % 8 = high
    BY <2>2, <1>2
  <2>5. CASE d.size < 16
    BY <1>1, <1>2, <2>1, <2>3, <2>4, <2>5 DEF HeaderTells, HeaderReads
  <2>6. CASE ~ (d.size < 16)
    <3>1. d.size = 16
      BY <1>2, <2>6
    <3>2. HeaderOf(d)[1] = 128 + high /\ HeaderOf(d)[1] % 128 = high
      BY <2>1, <2>2, <3>1
    <3>3. ~ (HeaderOf(d)[1] < 128) /\ high # 16
      BY <2>2, <3>2
    <3> QED
      BY <1>2, <3>1, <3>2, <3>3 DEF HeaderTells, HeaderReads
  <2> QED
    BY <2>5, <2>6
<1>3. CASE ~ (d.id < 2048 /\ d.size <= 16)
  <2>1. HeaderOf(d) = <<128 + (d.size % 128), low, low>>
    BY <1>3 DEF HeaderOf, Sensor!EmitHeader, Sensor!FormatA, low
  <2> DEFINE s == d.size % 128
  <2>2. s \in 0 .. 127 /\ (s = d.size <=> d.size < 128)
    OBVIOUS
  <2>21. d.id % 256 = low
    BY DEF low
  <2> HIDE DEF s
  <2>3. ~ (128 + s < 128) /\ (128 + s) % 128 = s
    BY <2>2
  <2>4. 257 * low = 256 * low + low
    BY <1>1 DEF Octet
  <2>5. HeaderOf(d)[1] = 128 + s /\ HeaderOf(d)[2] = low /\ HeaderOf(d)[3] = low
    BY <2>1 DEF s
  <2> QED
    BY <1>3, <2>2, <2>21, <2>3, <2>4, <2>5 DEF HeaderTells, HeaderReads
<1> QED
  BY <1>2, <1>3

-----------------------------------------------------------------------------
(* At most n octets.                                                       *)
UpTo(s, n) == s \in Seq(Octet) /\ Len(s) <= n

(* Bounds of lengths add up.                                               *)
LEMMA UpToTogether ==
    ASSUME NEW n \in Nat, NEW m \in Nat, NEW s, NEW t, UpTo(s, n), UpTo(t, m), NEW k \in Nat, k = n + m
    PROVE  UpTo(s \o t, k)
BY DEF UpTo

(* The bounds of an octet, two, none.                                      *)
LEMMA UpToOctets ==
    /\ \A a \in Octet : UpTo(<<a>>, 1)
    /\ \A a, b \in Octet : UpTo(<<a, b>>, 2)
    /\ UpTo(<<>>, 0)
BY DEF UpTo

(* A word takes two octets.                                                *)
LEMMA UpToWord ==
    ASSUME NEW n \in Word
    PROVE  UpTo(Access!Little(n), 2) /\ UpTo(Access!Octets(n), 2)
<1>1. n \div 256 \in Octet /\ n % 256 \in Octet
  BY TwoOctets
<1> QED
  BY <1>1, UpToOctets DEF Access!Little, Access!Octets

(* Parts of which each is as long as it is.                                *)
LEMMA PartsTogether ==
    ASSUME NEW parts, NEW a \in Nat, NEW b \in Nat, NEW c \in Nat, NEW d \in Nat,
           UpTo(Access!Part(parts, 1), a), UpTo(Access!Part(parts, 2), b),
           UpTo(Access!Part(parts, 3), c), UpTo(Access!Part(parts, 4), d)
    PROVE  UpTo(Access!UpToFour(parts), a + b + c + d)
BY DEF Access!UpToFour, UpTo

(* A model in two octets or in four.                                       *)
LEMMA ModelLength ==
    ASSUME NEW model \in ModelIds
    PROVE  /\ Len(model) = 1 => UpTo(Access!EmitModel(model), 2)
           /\ Len(model) # 1 => Len(model) = 2 /\ UpTo(Access!EmitModel(model), 4)
<1>1. model \in Seq(Word) /\ (Len(model) = 1 \/ Len(model) = 2)
  BY DEF ModelIds, Id
<1>2. CASE Len(model) = 1
  <2>1. model[1] \in Word
    BY <1>1, <1>2
  <2> QED
    BY <2>1, <1>2, UpToWord DEF Access!EmitModel
<1>3. CASE Len(model) # 1
  <2>1. model[1] \in Word /\ model[2] \in Word
    BY <1>1, <1>3
  <2>2. UpTo(Access!Little(model[1]), 2) /\ UpTo(Access!Little(model[2]), 2)
    BY <2>1, UpToWord
  <2>3. UpTo(Access!Little(model[1]) \o Access!Little(model[2]), 4)
    BY <2>2, UpToTogether
  <2> QED
    BY <2>3, <1>1, <1>3 DEF Access!EmitModel
<1> QED
  BY <1>2, <1>3

(* How many of up to four, in an octet.                                    *)
LEMMA SameCardinality == ASSUME NEW S PROVE Access!Cardinality(S) = Cardinality(S)
BY DEF Access!Cardinality, Cardinality, Access!IsFiniteSet, IsFiniteSet

(* Models are counted in one octet.                                        *)
LEMMA HowMany ==
    ASSUME NEW n \in 0 .. 4, NEW S, S \subseteq 1 .. n
    PROVE  Cardinality(S) \in Octet
<1>1. IsFiniteSet(1 .. n) /\ Cardinality(1 .. n) = n
  <2>1. n \in Int /\ (1 > n => n = 0) /\ (1 <= n => n - 1 + 1 = n)
    OBVIOUS
  <2> QED
    BY <2>1, FS_Interval
<1>2. Cardinality(S) \in Nat /\ Cardinality(S) <= n
  BY <1>1, FS_Subset, FS_CardinalityType, Zenon
<1> QED
  BY <1>2 DEF Octet

(* An element of at most four models is twenty octets at most.             *)
LEMMA ElementLength ==
    ASSUME NEW element, element.loc \in Word, NEW n \in 0 .. 4,
           element.models \in Seq(ModelIds), Len(element.models) = n
    PROVE  UpTo(Access!EmitElement(element), 20)
<1> DEFINE models == element.models
           Those(k) == {i \in DOMAIN models : Len(models[i]) = k}
           Emitted(k) == [i \in DOMAIN models |-> IF i \in Those(k) THEN Access!EmitModel(models[i]) ELSE <<>>]
           one(i) == IF i \in Those(1) THEN 2 ELSE 0
           two(i) == IF i \in Those(2) THEN 4 ELSE 0
<1>1. DOMAIN models = 1 .. n /\ \A i \in 1 .. n : models[i] \in ModelIds
  OBVIOUS
<1>2. Cardinality(Those(1)) \in Octet /\ Cardinality(Those(2)) \in Octet
  <2>1. Those(1) \subseteq 1 .. n /\ Those(2) \subseteq 1 .. n
    BY <1>1
  <2> HIDE DEF Those
  <2> QED
    BY <2>1, HowMany, SMTT(60)
<1>3. Access!EmitElement(element) =
         Access!Little(element.loc) \o <<Cardinality(Those(1)), Cardinality(Those(2))>>
         \o Access!UpToFour(Emitted(1)) \o Access!UpToFour(Emitted(2))
  BY SameCardinality DEF Access!EmitElement
<1>4. \A i \in 1 .. 4 : UpTo(Access!Part(Emitted(1), i), one(i)) /\ UpTo(Access!Part(Emitted(2), i), two(i))
  <2> TAKE i \in 1 .. 4
  <2>1. Len(Emitted(1)) = n /\ Len(Emitted(2)) = n
    BY <1>1
  <2>2. CASE i <= n
    <3>1. models[i] \in ModelIds /\ i \in DOMAIN models
      BY <2>2, <1>1
    <3>2. Access!Part(Emitted(1), i) = Emitted(1)[i] /\ Access!Part(Emitted(2), i) = Emitted(2)[i]
      BY <2>1, <2>2 DEF Access!Part
    <3>3. Emitted(1)[i] = (IF i \in Those(1) THEN Access!EmitModel(models[i]) ELSE <<>>)
      BY <3>1
    <3>4. Emitted(2)[i] = (IF i \in Those(2) THEN Access!EmitModel(models[i]) ELSE <<>>)
      BY <3>1
    <3>5. i \in Those(1) <=> Len(models[i]) = 1
      BY <3>1
    <3>6. i \in Those(2) <=> Len(models[i]) = 2
      BY <3>1
    <3> HIDE DEF Those, Emitted, models
    <3>7. i \in Those(1) => UpTo(Access!EmitModel(models[i]), 2)
      BY <3>1, <3>5, ModelLength
    <3>8. i \in Those(2) => UpTo(Access!EmitModel(models[i]), 4)
      <4>1. i \in Those(2) => Len(models[i]) # 1
        BY <3>6, SMTT(60)
      <4> QED
        BY <4>1, <3>1, ModelLength
    <3> QED
      BY <3>2, <3>3, <3>4, <3>7, <3>8, UpToOctets
  <2>3. CASE ~ (i <= n)
    <3>1. Access!Part(Emitted(1), i) = <<>> /\ Access!Part(Emitted(2), i) = <<>>
      BY <2>1, <2>3 DEF Access!Part
    <3>2. i \notin Those(1) /\ i \notin Those(2)
      BY <2>3, <1>1
    <3> HIDE DEF Those, Emitted, models
    <3> QED
      BY <3>1, <3>2, UpToOctets
  <2> QED
    BY <2>2, <2>3
<1>5. \A i \in 1 .. 4 : one(i) \in Nat /\ two(i) \in Nat /\ one(i) + two(i) <= 4
  OBVIOUS
<1> HIDE DEF models, Those, Emitted, one, two
<1>6. /\ UpTo(Access!UpToFour(Emitted(1)), one(1) + one(2) + one(3) + one(4))
      /\ UpTo(Access!UpToFour(Emitted(2)), two(1) + two(2) + two(3) + two(4))
  <2>1. one(1) \in Nat /\ one(2) \in Nat /\ one(3) \in Nat /\ one(4) \in Nat
    BY <1>5
  <2>2. two(1) \in Nat /\ two(2) \in Nat /\ two(3) \in Nat /\ two(4) \in Nat
    BY <1>5
  <2>3. /\ UpTo(Access!Part(Emitted(1), 1), one(1)) /\ UpTo(Access!Part(Emitted(1), 2), one(2))
        /\ UpTo(Access!Part(Emitted(1), 3), one(3)) /\ UpTo(Access!Part(Emitted(1), 4), one(4))
    BY <1>4
  <2>4. /\ UpTo(Access!Part(Emitted(2), 1), two(1)) /\ UpTo(Access!Part(Emitted(2), 2), two(2))
        /\ UpTo(Access!Part(Emitted(2), 3), two(3)) /\ UpTo(Access!Part(Emitted(2), 4), two(4))
    BY <1>4
  <2>5. UpTo(Access!UpToFour(Emitted(1)), one(1) + one(2) + one(3) + one(4))
    BY <2>1, <2>3, PartsTogether, Zenon
  <2>6. UpTo(Access!UpToFour(Emitted(2)), two(1) + two(2) + two(3) + two(4))
    BY <2>2, <2>4, PartsTogether, Zenon
  <2> QED
    BY <2>5, <2>6
<1> DEFINE s == Access!Little(element.loc)
           u == <<Cardinality(Those(1)), Cardinality(Those(2))>>
           v == Access!UpToFour(Emitted(1))
           w == Access!UpToFour(Emitted(2))
<1>7. UpTo(s, 2) /\ UpTo(u, 2)
  BY <1>2, UpToWord, UpToOctets
<1> HIDE DEF s, u, v, w
<1>8. v \in Seq(Octet) /\ w \in Seq(Octet) /\ Len(v) + Len(w) <= 16
  <2>1. one(1) + two(1) <= 4 /\ one(2) + two(2) <= 4 /\ one(3) + two(3) <= 4 /\ one(4) + two(4) <= 4
    BY <1>5
  <2>2. /\ one(1) \in Nat /\ one(2) \in Nat /\ one(3) \in Nat /\ one(4) \in Nat
        /\ two(1) \in Nat /\ two(2) \in Nat /\ two(3) \in Nat /\ two(4) \in Nat
    BY <1>5
  <2>3. /\ v \in Seq(Octet) /\ Len(v) <= one(1) + one(2) + one(3) + one(4)
        /\ w \in Seq(Octet) /\ Len(w) <= two(1) + two(2) + two(3) + two(4)
    BY <1>6 DEF UpTo, v, w
  <2>4. Len(v) \in Nat /\ Len(w) \in Nat
    BY <2>3
  <2>6. Len(v) + Len(w) <= 16
    <3>1. PICK x \in Nat : x = Len(v) /\ x <= one(1) + one(2) + one(3) + one(4)
      BY <2>3, <2>4
    <3>2. PICK y \in Nat : y = Len(w) /\ y <= two(1) + two(2) + two(3) + two(4)
      BY <2>3, <2>4
    <3>4. x <= one(1) + one(2) + one(3) + one(4) /\ y <= two(1) + two(2) + two(3) + two(4)
      BY <3>1, <3>2
    <3>3. x + y <= 16
      BY ONLY <2>1, <2>2, <3>4, x \in Nat, y \in Nat
    <3> QED
      BY <3>1, <3>2, <3>3
  <2> QED
    BY <2>3, <2>6
<1>9. UpTo(s \o u \o v \o w, 20)
  BY <1>7, <1>8 DEF UpTo
<1> QED
  BY <1>3, <1>9 DEF s, u, v, w

-----------------------------------------------------------------------------
(* The kinds of the tables of opcodes, and their opcodes.                  *)
LEMMA AccessTables ==
    /\ DOMAIN Access!BeaconOpcodes = {"BeaconGet", "BeaconSet", "BeaconStatus"}
    /\ DOMAIN Access!DefaultTtlOpcodes = {"DefaultTtlGet", "DefaultTtlSet", "DefaultTtlStatus"}
    /\ DOMAIN Access!NodeResetOpcodes = {"NodeReset", "NodeResetStatus"}
    /\ DOMAIN Access!CompositionOpcodes = {"CompositionGet", "CompositionStatus"}
    /\ DOMAIN Access!AppKeyOpcodes = {"AppKeyAdd", "AppKeyGet", "AppKeyList", "AppKeyStatus"}
    /\ DOMAIN Access!ModelAppOpcodes = {"ModelAppBind", "ModelAppStatus", "ModelAppUnbind"}
    /\ DOMAIN Access!PublicationOpcodes = {"PublicationSet", "PublicationStatus", "PublicationVirtualSet"}
    /\ DOMAIN Access!SubscriptionOpcodes = {"SubscriptionAdd", "SubscriptionStatus", "SubscriptionVirtualAdd"}
    /\ DOMAIN Access!NetworkTransmitOpcodes = {"NetworkTransmitGet", "NetworkTransmitSet", "NetworkTransmitStatus"}
    /\ DOMAIN Access!OnOffOpcodes = {"OnOffGet", "OnOffSet", "OnOffSetUnacknowledged", "OnOffStatus"}
    /\ DOMAIN Access!BatteryOpcodes = {"BatteryGet", "BatteryStatus"}
BY DEF Access!BeaconOpcodes, Access!DefaultTtlOpcodes, Access!NodeResetOpcodes,
       Access!CompositionOpcodes, Access!AppKeyOpcodes, Access!ModelAppOpcodes,
       Access!PublicationOpcodes, Access!SubscriptionOpcodes, Access!NetworkTransmitOpcodes,
       Access!OnOffOpcodes, Access!BatteryOpcodes

(* The opcodes of the configuration, on-off and battery models.            *)
LEMMA AccessOpcodes ==
    /\ Access!OpcodeOf("BeaconGet") = <<128, 9>>
    /\ Access!OpcodeOf("BeaconSet") = <<128, 10>>
    /\ Access!OpcodeOf("BeaconStatus") = <<128, 11>>
    /\ Access!OpcodeOf("DefaultTtlGet") = <<128, 12>>
    /\ Access!OpcodeOf("DefaultTtlSet") = <<128, 13>>
    /\ Access!OpcodeOf("DefaultTtlStatus") = <<128, 14>>
    /\ Access!OpcodeOf("NodeReset") = <<128, 73>>
    /\ Access!OpcodeOf("NodeResetStatus") = <<128, 74>>
    /\ Access!OpcodeOf("CompositionGet") = <<128, 8>>
    /\ Access!OpcodeOf("CompositionStatus") = <<2>>
    /\ Access!OpcodeOf("AppKeyAdd") = <<0>>
    /\ Access!OpcodeOf("AppKeyGet") = <<128, 1>>
    /\ Access!OpcodeOf("AppKeyList") = <<128, 2>>
    /\ Access!OpcodeOf("AppKeyStatus") = <<128, 3>>
    /\ Access!OpcodeOf("ModelAppBind") = <<128, 61>>
    /\ Access!OpcodeOf("ModelAppStatus") = <<128, 62>>
    /\ Access!OpcodeOf("ModelAppUnbind") = <<128, 63>>
    /\ Access!OpcodeOf("PublicationSet") = <<3>>
    /\ Access!OpcodeOf("PublicationStatus") = <<128, 25>>
    /\ Access!OpcodeOf("PublicationVirtualSet") = <<128, 26>>
    /\ Access!OpcodeOf("SubscriptionAdd") = <<128, 27>>
    /\ Access!OpcodeOf("SubscriptionStatus") = <<128, 31>>
    /\ Access!OpcodeOf("SubscriptionVirtualAdd") = <<128, 32>>
    /\ Access!OpcodeOf("NetworkTransmitGet") = <<128, 35>>
    /\ Access!OpcodeOf("NetworkTransmitSet") = <<128, 36>>
    /\ Access!OpcodeOf("NetworkTransmitStatus") = <<128, 37>>
    /\ Access!OpcodeOf("OnOffGet") = <<130, 1>>
    /\ Access!OpcodeOf("OnOffSet") = <<130, 2>>
    /\ Access!OpcodeOf("OnOffSetUnacknowledged") = <<130, 3>>
    /\ Access!OpcodeOf("OnOffStatus") = <<130, 4>>
    /\ Access!OpcodeOf("BatteryGet") = <<130, 35>>
    /\ Access!OpcodeOf("BatteryStatus") = <<130, 36>>
BY DEF Access!OpcodeOf, Access!BeaconOpcodes, Access!DefaultTtlOpcodes, Access!NodeResetOpcodes,
       Access!CompositionOpcodes, Access!AppKeyOpcodes, Access!ModelAppOpcodes,
       Access!PublicationOpcodes, Access!SubscriptionOpcodes, Access!NetworkTransmitOpcodes,
       Access!OnOffOpcodes, Access!BatteryOpcodes

(* The kinds of the sensor models.                                         *)
LEMMA SensorTables ==
    /\ DOMAIN Sensor!SensorOpcodes = {"DescriptorGet", "DescriptorStatus", "SensorGet", "SensorStatus", "ColumnGet",
          "ColumnStatus", "SeriesGet", "SeriesStatus"}
    /\ DOMAIN Sensor!SetupOpcodes = {"CadenceGet", "CadenceSet", "CadenceSetUnacknowledged", "CadenceStatus",
          "SettingsGet", "SettingsStatus", "SettingGet", "SettingSet",
          "SettingSetUnacknowledged", "SettingStatus"}
BY DEF Sensor!SensorOpcodes, Sensor!SetupOpcodes

(* The opcodes of the sensor models.                                       *)
LEMMA SensorOpcodes ==
    /\ Sensor!OpcodeOf("DescriptorGet") = <<130, 48>>
    /\ Sensor!OpcodeOf("DescriptorStatus") = <<81>>
    /\ Sensor!OpcodeOf("SensorGet") = <<130, 49>>
    /\ Sensor!OpcodeOf("SensorStatus") = <<82>>
    /\ Sensor!OpcodeOf("ColumnGet") = <<130, 50>>
    /\ Sensor!OpcodeOf("ColumnStatus") = <<83>>
    /\ Sensor!OpcodeOf("SeriesGet") = <<130, 51>>
    /\ Sensor!OpcodeOf("SeriesStatus") = <<84>>
    /\ Sensor!OpcodeOf("CadenceGet") = <<130, 52>>
    /\ Sensor!OpcodeOf("CadenceSet") = <<85>>
    /\ Sensor!OpcodeOf("CadenceSetUnacknowledged") = <<86>>
    /\ Sensor!OpcodeOf("CadenceStatus") = <<87>>
    /\ Sensor!OpcodeOf("SettingsGet") = <<130, 53>>
    /\ Sensor!OpcodeOf("SettingsStatus") = <<88>>
    /\ Sensor!OpcodeOf("SettingGet") = <<130, 54>>
    /\ Sensor!OpcodeOf("SettingSet") = <<89>>
    /\ Sensor!OpcodeOf("SettingSetUnacknowledged") = <<90>>
    /\ Sensor!OpcodeOf("SettingStatus") = <<91>>
BY DEF Sensor!OpcodeOf, Sensor!SensorOpcodes, Sensor!SetupOpcodes

-----------------------------------------------------------------------------

(* What is taken of a sequence is its front, of so many at most.           *)
LEMMA AtMost ==
    ASSUME NEW S, NEW s \in Seq(S), NEW max \in Nat
    PROVE  /\ Access!Taken(s, max) \in Seq(S)
           /\ Len(Access!Taken(s, max)) <= max /\ Len(Access!Taken(s, max)) <= Len(s)
           /\ \A i \in DOMAIN Access!Taken(s, max) : i \in DOMAIN s /\ Access!Taken(s, max)[i] = s[i]
BY DEF Access!Taken, Access!Slice

(* Four elements of four models: what is left of what is declared.         *)
Composable(element) == element \in Element /\ Len(element.models) <= 4

(* add_element and add_model leave four of each at most.                   *)
LEMMA ComposedOf ==
    ASSUME NEW elements \in Seq(Element)
    PROVE  /\ Access!Composed(elements) \in Seq(Element)
           /\ Len(Access!Composed(elements)) <= 4
           /\ \A i \in DOMAIN Access!Composed(elements) : Composable(Access!Composed(elements)[i])
<1> DEFINE Cut(e) == [elements[e] EXCEPT !.models = Access!Taken(@, Access!MaxModels)]
           cut == [e \in DOMAIN elements |-> Cut(e)]
<1>1. ASSUME NEW e \in DOMAIN elements PROVE Composable(Cut(e))
  <2>1. elements[e] \in Element
    OBVIOUS
  <2>2. elements[e].models \in Seq(ModelIds)
    BY <2>1 DEF Element
  <2>3. /\ Access!Taken(elements[e].models, Access!MaxModels) \in Seq(ModelIds)
        /\ Len(Access!Taken(elements[e].models, Access!MaxModels)) <= 4
    BY <2>2, AtMost DEF Access!MaxModels
  <2>4. Cut(e).models = Access!Taken(elements[e].models, Access!MaxModels)
    BY <2>1 DEF Element
  <2>5. Cut(e) \in Element
    BY <2>1, <2>3, Zenon DEF Element
  <2> QED
    BY <2>3, <2>4, <2>5 DEF Composable
<1>2. cut \in Seq(Element) /\ \A e \in DOMAIN cut : cut[e] = Cut(e)
  BY <1>1 DEF Composable
<1>3. Access!Composed(elements) = Access!Taken(cut, 4)
  BY DEF Access!Composed, Access!MaxElements
<1> HIDE DEF cut
<1>4. /\ Access!Taken(cut, 4) \in Seq(Element)
      /\ Len(Access!Taken(cut, 4)) <= 4
      /\ \A i \in DOMAIN Access!Taken(cut, 4) : i \in DOMAIN cut /\ Access!Taken(cut, 4)[i] = cut[i]
  BY <1>2, AtMost
<1>5. \A i \in DOMAIN Access!Taken(cut, 4) : Access!Taken(cut, 4)[i] = Cut(i) /\ i \in DOMAIN elements
  BY <1>2, <1>4, Zenon DEF cut
<1>6. \A i \in DOMAIN Access!Taken(cut, 4) : Composable(Access!Taken(cut, 4)[i])
  BY <1>1, <1>5
<1> QED
  BY <1>3, <1>4, <1>6

(* An element of a composition, or what stands for none.                   *)
LEMMA ElementsLength ==
    ASSUME NEW elements \in Seq(Element)
    PROVE  LET composed == Access!Composed(elements)
           IN  UpTo(Access!UpToFour([e \in DOMAIN composed |-> Access!EmitElement(composed[e])]), 80)
<1> DEFINE composed == Access!Composed(elements)
           parts == [e \in DOMAIN composed |-> Access!EmitElement(composed[e])]
<1>1. /\ composed \in Seq(Element) /\ Len(composed) <= 4
      /\ \A i \in DOMAIN composed : Composable(composed[i])
  BY ComposedOf
<1> HIDE DEF composed
<1>2. \A i : UpTo(Access!Part(parts, i), 20) \/ ~ (i \in Nat) \/ i = 0
  <2> SUFFICES ASSUME NEW i \in Nat, i # 0 PROVE UpTo(Access!Part(parts, i), 20)
    OBVIOUS
  <2>1. Len(parts) = Len(composed)
    BY <1>1
  <2>2. CASE i <= Len(parts)
    <3>1. i \in DOMAIN composed
      BY <1>1, <2>1, <2>2
    <3>2. Access!Part(parts, i) = Access!EmitElement(composed[i])
      BY <2>2, <3>1 DEF Access!Part
    <3>3. Composable(composed[i])
      BY <1>1, <3>1
    <3>4. /\ composed[i].loc \in Word /\ composed[i].models \in Seq(ModelIds)
          /\ Len(composed[i].models) <= 4
      BY <3>3 DEF Composable, Element, Id
    <3> DEFINE n == Len(composed[i].models)
    <3>5. n \in 0 .. 4
      <4>1. n \in Nat /\ n <= 4
        BY <3>4
      <4> HIDE DEF n
      <4> QED
        BY <4>1
    <3> QED
      BY <3>2, <3>4, <3>5, ElementLength
  <2>3. CASE ~ (i <= Len(parts))
    <3>1. UpTo(<<>>, 20)
      BY DEF UpTo
    <3> QED
      BY <2>3, <3>1 DEF Access!Part
  <2> QED
    BY <2>2, <2>3
<1> HIDE DEF parts
<1>3. /\ UpTo(Access!Part(parts, 1), 20) /\ UpTo(Access!Part(parts, 2), 20)
      /\ UpTo(Access!Part(parts, 3), 20) /\ UpTo(Access!Part(parts, 4), 20)
  BY <1>2
<1>4. UpTo(Access!UpToFour(parts), 20 + 20 + 20 + 20)
  BY <1>3, PartsTogether
<1> QED
  BY <1>4 DEF parts, composed

(* A composition, whatever a device declares, is ninety-two octets at most.*)
LEMMA CompositionLength ==
    ASSUME NEW m \in CompositionStatuses
    PROVE  /\ OpcodeOf(m) = <<2>>
           /\ UpTo(EmitParameters(m), 91)
           /\ UpTo(EmitAll(m), 92)
<1>1. m.kind = "CompositionStatus"
  BY DEF CompositionStatuses
<1>2. OpcodeOf(m) = <<2>> /\ EmitParameters(m) = Access!EmitComposition(m)
  <2>1. IsAccess(m)
    BY <1>1, SensorTables DEF IsAccess, Sensor!Kinds
  <2>2. Access!OpcodeOf("CompositionStatus") = <<2>>
    BY AccessOpcodes
  <2>3. Access!EmitParameters(m) = Access!EmitComposition(m)
    BY <1>1, AccessTables DEF Access!EmitParameters, Access!EmitCompositionMessage
  <2> QED
    BY <1>1, <2>1, <2>2, <2>3 DEF OpcodeOf, EmitParameters
<1>3. m.elements \in Seq(Element) /\ m.page \in Octet /\ m.features \in Octet
      /\ m.cid \in Word /\ m.pid \in Word /\ m.vid \in Word /\ m.crpl \in Word
  BY DEF CompositionStatuses, Id
<1> DEFINE composed == Access!Composed(m.elements)
           elements == Access!UpToFour([e \in DOMAIN composed |-> Access!EmitElement(composed[e])])
           s1 == <<m.page>> \o Access!Octets(m.cid)
           s2 == s1 \o Access!Octets(m.pid)
           s3 == s2 \o Access!Octets(m.vid)
           s4 == s3 \o Access!Octets(m.crpl)
           s5 == s4 \o <<m.features, 0>>
           s6 == s5 \o elements
<1>4. UpTo(elements, 80)
  BY <1>3, ElementsLength
<1>5. EmitParameters(m) = s6
  BY <1>2 DEF Access!EmitComposition
<1> HIDE DEF elements
<1>6. UpTo(<<m.page>>, 1) /\ UpTo(<<m.features, 0>>, 2)
  <2>1. 0 \in Octet
    BY DEF Octet
  <2> QED
    BY <2>1, <1>3, UpToOctets
<1>7. /\ UpTo(Access!Octets(m.cid), 2) /\ UpTo(Access!Octets(m.pid), 2)
      /\ UpTo(Access!Octets(m.vid), 2) /\ UpTo(Access!Octets(m.crpl), 2)
  BY <1>3, UpToWord
<1>8. UpTo(s1, 3)
  BY <1>6, <1>7, UpToTogether
<1> HIDE DEF s1
<1>9. UpTo(s2, 5)
  BY <1>8, <1>7, UpToTogether
<1> HIDE DEF s2
<1>10. UpTo(s3, 7)
  BY <1>9, <1>7, UpToTogether
<1> HIDE DEF s3
<1>11. UpTo(s4, 9)
  BY <1>10, <1>7, UpToTogether
<1> HIDE DEF s4
<1>12. UpTo(s5, 11)
  BY <1>11, <1>6, UpToTogether
<1> HIDE DEF s5
<1>13. UpTo(s6, 91)
  BY <1>12, <1>4, UpToTogether
<1> HIDE DEF s6
<1>14. UpTo(<<2>>, 1)
  <2>1. 2 \in Octet
    BY DEF Octet
  <2> QED
    BY <2>1, UpToOctets
<1>15. UpTo(<<2>> \o s6, 92)
  BY <1>13, <1>14, UpToTogether
<1> QED
  BY <1>2, <1>5, <1>13, <1>15 DEF EmitAll

-----------------------------------------------------------------------------

(* A sequence of octets is a string of its length.                         *)
LEMMA StringOf == ASSUME NEW p \in Seq(Octet) PROVE \A n \in Nat : Len(p) = n => IsString(p, n)
BY DEF IsString

(* What is left of a string.                                               *)
LEMMA RestString ==
    ASSUME NEW n \in Nat, NEW p, IsString(p, n), NEW i \in Nat, NEW m \in Nat, 1 <= i, n + 1 = i + m
    PROVE  /\ IsString(From(p, i), m) /\ \A k \in 1 .. m : From(p, i)[k] = p[i + k - 1]
           /\ Access!From(p, i) = From(p, i)
BY DEF IsString, From, Access!From

(* Strings are equal octet by octet.                                       *)
LEMMA SameStrings ==
    ASSUME NEW n \in Nat, NEW s, IsString(s, n), NEW t, IsString(t, n)
    PROVE  s = t <=> \A k \in 1 .. n : s[k] = t[k]
BY DEF IsString

-----------------------------------------------------------------------------
(* An opcode of one octet, of which six bits are read, or of two.          *)
Short(opcode) == IsString(opcode, 1) /\ opcode[1] < 128
Long(opcode) == IsString(opcode, 2) /\ 128 <= opcode[1] /\ opcode[1] < 192
SplitOf(opcode) == IF Short(opcode) THEN <<opcode[1] % 64>> ELSE opcode

(* Opcode::split of an opcode of one octet...                              *)
LEMMA SplitShort ==
    ASSUME NEW a \in Octet, a < 128, NEW p \in Seq(Octet)
    PROVE  Access!Split(<<a>> \o p) = <<[opcode |-> <<a % 64>>, parameters |-> p]>>
<1> DEFINE all == <<a>> \o p
<1>1. all \in Seq(Octet) /\ Len(all) = Len(p) + 1 /\ all[1] = a /\ SubSeq(all, 2, Len(all)) = p
      /\ Len(p) \in Nat
  OBVIOUS
<1> HIDE DEF all
<1>2. all # <<>> /\ ~ (Len(all) < 1)
  BY <1>1
<1>3. Access!Size(all[1]) = 1 /\ all[1] % 64 = a % 64 /\ SubSeq(all, 1 + 1, Len(all)) = p
  BY <1>1 DEF Access!Size
<1>4. Access!Split(all) = <<[opcode |-> <<a % 64>>, parameters |-> p]>>
  BY <1>2, <1>3, Zenon DEF Access!Split, Access!From
<1> QED
  BY <1>4 DEF all

(* ... and of two.                                                         *)
LEMMA SplitLong ==
    ASSUME NEW a \in Octet, NEW b \in Octet, 128 <= a, a < 192, NEW p \in Seq(Octet)
    PROVE  Access!Split(<<a, b>> \o p) = <<[opcode |-> <<a, b>>, parameters |-> p]>>
<1> DEFINE all == <<a, b>> \o p
<1>1. all \in Seq(Octet) /\ Len(all) = Len(p) + 2 /\ all[1] = a /\ all[2] = b
      /\ SubSeq(all, 3, Len(all)) = p /\ Len(p) \in Nat
  OBVIOUS
<1> HIDE DEF all
<1>2. all # <<>> /\ ~ (Len(all) < 2)
  BY <1>1
<1>3. Access!Size(all[1]) = 2 /\ SubSeq(all, 2 + 1, Len(all)) = p
  BY <1>1 DEF Access!Size, Octet
<1> DEFINE two == <<a, b>>
<1>4. two \in Seq(Octet) /\ Len(two) = 2 /\ two[1] = a /\ two[2] = b
  OBVIOUS
<1> HIDE DEF two
<1>5. SubSeq(all, 1, 2) = two
  <2>1. PICK n \in Nat : n = 2
    OBVIOUS
  <2>2. 1 <= 1 /\ n <= Len(all) /\ n + 1 = 1 + Len(two)
    BY <1>1, <1>4, <2>1
  <2>3. \A k \in 1 .. Len(two) : all[1 + k - 1] = two[k]
    BY <1>1, <1>4
  <2>4. SubSeq(all, 1, n) = two
    BY <1>1, <1>4, <2>2, <2>3, SliceOf
  <2> QED
    BY <2>1, <2>4
<1> DEFINE size == Access!Size(all[1])
<1>6. size # 1 /\ ~ (Len(all) < size) /\ SubSeq(all, 1, size) = two /\ SubSeq(all, size + 1, Len(all)) = p
  BY <1>2, <1>3, <1>5
<1> HIDE DEF size
<1>7. Access!Split(all) = <<[opcode |-> two, parameters |-> p]>>
  BY <1>2, <1>6, Zenon DEF Access!Split, Access!From, Access!Slice, size
<1> QED
  BY <1>7 DEF all, two

(* Of which kinds there are messages.                                      *)
LEMMA KindsOfMessages ==
    ASSUME NEW m, IsMessage(m)
    PROVE  \/ m.kind \in Unread
           \/ m.kind \in {"BeaconGet", "DefaultTtlGet", "NodeReset", "BatteryGet", "BeaconSet", "DefaultTtlSet",
                          "CompositionGet", "ModelAppBind", "ModelAppUnbind", "OnOffSet"}
           \/ m.kind \in {"DescriptorGet", "SensorGet", "CadenceGet", "SettingsGet", "SettingGet", "ColumnGet",
                          "SeriesGet", "CadenceSet", "CadenceSetUnacknowledged", "SettingSet",
                          "SettingSetUnacknowledged"}
BY DEF IsMessage, CompositionStatuses, Unread, SimpleMessages, Switches, TimesToLive, Pages, Binds, OnOffs,
       Questions, Identified, SettingGets, IsColumn, Columns, IsSeries, Series, IsCadence, Cadences, IsSetting,
       SettingSets

(* Each is sent with an opcode of one octet or two.                        *)
LEMMA AccessOpcodeSizes ==
    /\ Long(Access!OpcodeOf("BeaconGet"))
    /\ Long(Access!OpcodeOf("BeaconSet"))
    /\ Long(Access!OpcodeOf("BeaconStatus"))
    /\ Long(Access!OpcodeOf("DefaultTtlGet"))
    /\ Long(Access!OpcodeOf("DefaultTtlSet"))
    /\ Long(Access!OpcodeOf("DefaultTtlStatus"))
    /\ Long(Access!OpcodeOf("NodeReset"))
    /\ Long(Access!OpcodeOf("NodeResetStatus"))
    /\ Long(Access!OpcodeOf("CompositionGet"))
    /\ Short(Access!OpcodeOf("CompositionStatus"))
    /\ Short(Access!OpcodeOf("AppKeyAdd"))
    /\ Long(Access!OpcodeOf("AppKeyGet"))
    /\ Long(Access!OpcodeOf("AppKeyList"))
    /\ Long(Access!OpcodeOf("AppKeyStatus"))
    /\ Long(Access!OpcodeOf("ModelAppBind"))
    /\ Long(Access!OpcodeOf("ModelAppStatus"))
    /\ Long(Access!OpcodeOf("ModelAppUnbind"))
    /\ Short(Access!OpcodeOf("PublicationSet"))
    /\ Long(Access!OpcodeOf("PublicationStatus"))
    /\ Long(Access!OpcodeOf("PublicationVirtualSet"))
    /\ Long(Access!OpcodeOf("SubscriptionAdd"))
    /\ Long(Access!OpcodeOf("SubscriptionStatus"))
    /\ Long(Access!OpcodeOf("SubscriptionVirtualAdd"))
    /\ Long(Access!OpcodeOf("NetworkTransmitGet"))
    /\ Long(Access!OpcodeOf("NetworkTransmitSet"))
    /\ Long(Access!OpcodeOf("NetworkTransmitStatus"))
    /\ Long(Access!OpcodeOf("OnOffGet"))
    /\ Long(Access!OpcodeOf("OnOffSet"))
    /\ Long(Access!OpcodeOf("OnOffSetUnacknowledged"))
    /\ Long(Access!OpcodeOf("OnOffStatus"))
    /\ Long(Access!OpcodeOf("BatteryGet"))
    /\ Long(Access!OpcodeOf("BatteryStatus"))
<1>1. /\ Long(Access!OpcodeOf("BeaconGet"))
      /\ Long(Access!OpcodeOf("BeaconSet"))
      /\ Long(Access!OpcodeOf("BeaconStatus"))
      /\ Long(Access!OpcodeOf("DefaultTtlGet"))
      /\ Long(Access!OpcodeOf("DefaultTtlSet"))
      /\ Long(Access!OpcodeOf("DefaultTtlStatus"))
  <2>1. /\ Access!OpcodeOf("BeaconGet") = <<128, 9>>
        /\ Access!OpcodeOf("BeaconSet") = <<128, 10>>
        /\ Access!OpcodeOf("BeaconStatus") = <<128, 11>>
        /\ Access!OpcodeOf("DefaultTtlGet") = <<128, 12>>
        /\ Access!OpcodeOf("DefaultTtlSet") = <<128, 13>>
        /\ Access!OpcodeOf("DefaultTtlStatus") = <<128, 14>>
    BY AccessOpcodes
  <2>2. /\ Long(<<128, 9>>) /\ Long(<<128, 10>>) /\ Long(<<128, 11>>)
        /\ Long(<<128, 12>>) /\ Long(<<128, 13>>) /\ Long(<<128, 14>>)
    BY DEF Short, Long, IsString, Octet
  <2> QED
    BY <2>1, <2>2
<1>2. /\ Long(Access!OpcodeOf("NodeReset"))
      /\ Long(Access!OpcodeOf("NodeResetStatus"))
      /\ Long(Access!OpcodeOf("CompositionGet"))
      /\ Short(Access!OpcodeOf("CompositionStatus"))
      /\ Short(Access!OpcodeOf("AppKeyAdd"))
      /\ Long(Access!OpcodeOf("AppKeyGet"))
  <2>1. /\ Access!OpcodeOf("NodeReset") = <<128, 73>>
        /\ Access!OpcodeOf("NodeResetStatus") = <<128, 74>>
        /\ Access!OpcodeOf("CompositionGet") = <<128, 8>>
        /\ Access!OpcodeOf("CompositionStatus") = <<2>>
        /\ Access!OpcodeOf("AppKeyAdd") = <<0>>
        /\ Access!OpcodeOf("AppKeyGet") = <<128, 1>>
    BY AccessOpcodes
  <2>2. /\ Long(<<128, 73>>) /\ Long(<<128, 74>>) /\ Long(<<128, 8>>)
        /\ Short(<<2>>) /\ Short(<<0>>) /\ Long(<<128, 1>>)
    BY DEF Short, Long, IsString, Octet
  <2> QED
    BY <2>1, <2>2
<1>3. /\ Long(Access!OpcodeOf("AppKeyList"))
      /\ Long(Access!OpcodeOf("AppKeyStatus"))
      /\ Long(Access!OpcodeOf("ModelAppBind"))
      /\ Long(Access!OpcodeOf("ModelAppStatus"))
      /\ Long(Access!OpcodeOf("ModelAppUnbind"))
      /\ Short(Access!OpcodeOf("PublicationSet"))
  <2>1. /\ Access!OpcodeOf("AppKeyList") = <<128, 2>>
        /\ Access!OpcodeOf("AppKeyStatus") = <<128, 3>>
        /\ Access!OpcodeOf("ModelAppBind") = <<128, 61>>
        /\ Access!OpcodeOf("ModelAppStatus") = <<128, 62>>
        /\ Access!OpcodeOf("ModelAppUnbind") = <<128, 63>>
        /\ Access!OpcodeOf("PublicationSet") = <<3>>
    BY AccessOpcodes
  <2>2. /\ Long(<<128, 2>>) /\ Long(<<128, 3>>) /\ Long(<<128, 61>>)
        /\ Long(<<128, 62>>) /\ Long(<<128, 63>>) /\ Short(<<3>>)
    BY DEF Short, Long, IsString, Octet
  <2> QED
    BY <2>1, <2>2
<1>4. /\ Long(Access!OpcodeOf("PublicationStatus"))
      /\ Long(Access!OpcodeOf("PublicationVirtualSet"))
      /\ Long(Access!OpcodeOf("SubscriptionAdd"))
      /\ Long(Access!OpcodeOf("SubscriptionStatus"))
      /\ Long(Access!OpcodeOf("SubscriptionVirtualAdd"))
      /\ Long(Access!OpcodeOf("NetworkTransmitGet"))
  <2>1. /\ Access!OpcodeOf("PublicationStatus") = <<128, 25>>
        /\ Access!OpcodeOf("PublicationVirtualSet") = <<128, 26>>
        /\ Access!OpcodeOf("SubscriptionAdd") = <<128, 27>>
        /\ Access!OpcodeOf("SubscriptionStatus") = <<128, 31>>
        /\ Access!OpcodeOf("SubscriptionVirtualAdd") = <<128, 32>>
        /\ Access!OpcodeOf("NetworkTransmitGet") = <<128, 35>>
    BY AccessOpcodes
  <2>2. /\ Long(<<128, 25>>) /\ Long(<<128, 26>>) /\ Long(<<128, 27>>)
        /\ Long(<<128, 31>>) /\ Long(<<128, 32>>) /\ Long(<<128, 35>>)
    BY DEF Short, Long, IsString, Octet
  <2> QED
    BY <2>1, <2>2
<1>5. /\ Long(Access!OpcodeOf("NetworkTransmitSet"))
      /\ Long(Access!OpcodeOf("NetworkTransmitStatus"))
      /\ Long(Access!OpcodeOf("OnOffGet"))
      /\ Long(Access!OpcodeOf("OnOffSet"))
      /\ Long(Access!OpcodeOf("OnOffSetUnacknowledged"))
      /\ Long(Access!OpcodeOf("OnOffStatus"))
  <2>1. /\ Access!OpcodeOf("NetworkTransmitSet") = <<128, 36>>
        /\ Access!OpcodeOf("NetworkTransmitStatus") = <<128, 37>>
        /\ Access!OpcodeOf("OnOffGet") = <<130, 1>>
        /\ Access!OpcodeOf("OnOffSet") = <<130, 2>>
        /\ Access!OpcodeOf("OnOffSetUnacknowledged") = <<130, 3>>
        /\ Access!OpcodeOf("OnOffStatus") = <<130, 4>>
    BY AccessOpcodes
  <2>2. /\ Long(<<128, 36>>) /\ Long(<<128, 37>>) /\ Long(<<130, 1>>)
        /\ Long(<<130, 2>>) /\ Long(<<130, 3>>) /\ Long(<<130, 4>>)
    BY DEF Short, Long, IsString, Octet
  <2> QED
    BY <2>1, <2>2
<1>6. /\ Long(Access!OpcodeOf("BatteryGet"))
      /\ Long(Access!OpcodeOf("BatteryStatus"))
  <2>1. /\ Access!OpcodeOf("BatteryGet") = <<130, 35>>
        /\ Access!OpcodeOf("BatteryStatus") = <<130, 36>>
    BY AccessOpcodes
  <2>2. /\ Long(<<130, 35>>) /\ Long(<<130, 36>>)
    BY DEF Short, Long, IsString, Octet
  <2> QED
    BY <2>1, <2>2
<1> QED
  BY <1>1, <1>2, <1>3, <1>4, <1>5, <1>6

(* How long the opcodes of the sensor models are.                          *)
LEMMA SensorOpcodeSizes ==
    /\ Long(Sensor!OpcodeOf("DescriptorGet"))
    /\ Short(Sensor!OpcodeOf("DescriptorStatus"))
    /\ Long(Sensor!OpcodeOf("SensorGet"))
    /\ Short(Sensor!OpcodeOf("SensorStatus"))
    /\ Long(Sensor!OpcodeOf("ColumnGet"))
    /\ Short(Sensor!OpcodeOf("ColumnStatus"))
    /\ Long(Sensor!OpcodeOf("SeriesGet"))
    /\ Short(Sensor!OpcodeOf("SeriesStatus"))
    /\ Long(Sensor!OpcodeOf("CadenceGet"))
    /\ Short(Sensor!OpcodeOf("CadenceSet"))
    /\ Short(Sensor!OpcodeOf("CadenceSetUnacknowledged"))
    /\ Short(Sensor!OpcodeOf("CadenceStatus"))
    /\ Long(Sensor!OpcodeOf("SettingsGet"))
    /\ Short(Sensor!OpcodeOf("SettingsStatus"))
    /\ Long(Sensor!OpcodeOf("SettingGet"))
    /\ Short(Sensor!OpcodeOf("SettingSet"))
    /\ Short(Sensor!OpcodeOf("SettingSetUnacknowledged"))
    /\ Short(Sensor!OpcodeOf("SettingStatus"))
<1>1. /\ Long(<<130, 48>>) /\ Short(<<81>>) /\ Long(<<130, 49>>) /\ Short(<<82>>) /\ Long(<<130, 50>>)
      /\ Short(<<83>>) /\ Long(<<130, 51>>) /\ Short(<<84>>) /\ Long(<<130, 52>>) /\ Short(<<85>>)
      /\ Short(<<86>>) /\ Short(<<87>>) /\ Long(<<130, 53>>) /\ Short(<<88>>) /\ Long(<<130, 54>>)
      /\ Short(<<89>>) /\ Short(<<90>>) /\ Short(<<91>>)
  BY DEF Short, Long, IsString, Octet
<1> QED
  BY <1>1, SensorOpcodes, SMTT(60)

(* No opcode has three octets.                                             *)
LEMMA OpcodeOfMessage ==
    ASSUME NEW m, IsMessage(m)
    PROVE  Short(OpcodeOf(m)) \/ Long(OpcodeOf(m))
<1>5. CASE m.kind \in Sensor!Kinds
  <2>1. Short(Sensor!OpcodeOf(m.kind)) \/ Long(Sensor!OpcodeOf(m.kind))
    BY <1>5, SensorOpcodeSizes, SensorTables DEF Sensor!Kinds
  <2> QED
    BY <1>5, <2>1 DEF OpcodeOf, IsAccess
<1>6. CASE m.kind \notin Sensor!Kinds
  <2>1. Short(Access!OpcodeOf(m.kind)) \/ Long(Access!OpcodeOf(m.kind))
    BY <1>6, KindsOfMessages, AccessOpcodeSizes, SensorTables DEF Unread, Sensor!Kinds
  <2> QED
    BY <1>6, <2>1 DEF OpcodeOf, IsAccess
<1> QED
  BY <1>5, <1>6

(* Such an opcode as a tuple.                                              *)
LEMMA ShortOf ==
    ASSUME NEW op, Short(op) PROVE \E a \in Octet : a < 128 /\ op = <<a>>
<1>1. op \in Seq(Octet) /\ Len(op) = 1
  BY LengthOf, Zenon DEF Short, IsString
<1>2. op[1] \in Octet /\ op[1] < 128
  BY <1>1 DEF Short
<1>3. op = <<op[1]>>
  BY <1>1
<1> QED
  BY <1>2, <1>3

(* An opcode of two octets is none of one.                                 *)
LEMMA LongOf ==
    ASSUME NEW op, Long(op)
    PROVE  /\ \E a, b \in Octet : 128 <= a /\ a < 192 /\ op = <<a, b>>
           /\ ~ Short(op)
<1>1. op \in Seq(Octet) /\ Len(op) = 2
  BY LengthOf, Zenon DEF Long, IsString
<1>2. op[1] \in Octet /\ op[2] \in Octet
  BY <1>1
<1>3. 128 <= op[1] /\ op[1] < 192
  BY DEF Long
<1>4. ~ Short(op)
  BY <1>2, <1>3 DEF Short, Octet
<1>5. op = <<op[1], op[2]>>
  BY <1>1
<1> QED
  BY <1>2, <1>3, <1>4, <1>5

(* What is read of a message: its parameters as they are, and of an opcode *)
(* of one octet what is left of it.                                        *)
LEMMA SplitMessage ==
    ASSUME NEW m, IsMessage(m), EmitParameters(m) \in Seq(Octet)
    PROVE  /\ Access!Split(EmitAll(m)) =
                 <<[opcode |-> SplitOf(OpcodeOf(m)), parameters |-> EmitParameters(m)]>>
           /\ SplitOf(OpcodeOf(m)) = OpcodeOf(m) <=> Survives(m)
           /\ EmitAll(m) \in Seq(Octet)
<1> DEFINE p == EmitParameters(m)
<1>1. CASE Short(OpcodeOf(m))
  <2>1. PICK a \in Octet : a < 128 /\ OpcodeOf(m) = <<a>>
    BY <1>1, ShortOf
  <2>2. SplitOf(OpcodeOf(m)) = <<a % 64>>
    BY <1>1, <2>1 DEF SplitOf
  <2>3. Survives(m) <=> a < 64
    BY <2>1 DEF Survives
  <2>4. a % 64 = a <=> a < 64
    BY DEF Octet
  <2>5. <<a % 64>> = <<a>> <=> a % 64 = a
    OBVIOUS
  <2>6. EmitAll(m) = <<a>> \o p
    BY <2>1 DEF EmitAll
  <2> QED
    BY <2>1, <2>2, <2>3, <2>4, <2>5, <2>6, SplitShort
<1>2. CASE ~ Short(OpcodeOf(m))
  <2>1. PICK a \in Octet, b \in Octet : 128 <= a /\ a < 192 /\ OpcodeOf(m) = <<a, b>>
    BY <1>2, OpcodeOfMessage, LongOf
  <2>2. SplitOf(OpcodeOf(m)) = <<a, b>>
    BY <1>2, <2>1 DEF SplitOf
  <2>3. Survives(m)
    BY <2>1 DEF Survives
  <2>6. EmitAll(m) = <<a, b>> \o p
    BY <2>1 DEF EmitAll
  <2> QED
    BY <2>1, <2>2, <2>3, <2>6, SplitLong
<1> QED
  BY <1>1, <1>2

-----------------------------------------------------------------------------
(* Two strings, one after the other.                                       *)
Joined(r, s, t, n, m) ==
    IsString(r, n + m) /\ (\A i \in 1 .. n : r[i] = s[i]) /\ (\A i \in 1 .. m : r[n + i] = t[i])

(* Two strings one after the other.                                        *)
LEMMA StringsTogether ==
    ASSUME NEW n \in Nat, NEW m \in Nat, NEW s, NEW t, IsString(s, n), IsString(t, m)
    PROVE  Joined(s \o t, s, t, n, m)
<1>1. s \in Seq(Octet) /\ t \in Seq(Octet) /\ Len(s) = n /\ Len(t) = m
  BY DEF IsString
<1>2. s \o t \in Seq(Octet) /\ Len(s \o t) = n + m
  BY <1>1
<1>3. \A i \in 1 .. n : (s \o t)[i] = s[i]
  BY <1>1
<1>4. \A i \in 1 .. m : (s \o t)[n + i] = t[i]
  BY <1>1
<1> QED
  BY <1>2, <1>3, <1>4 DEF IsString, Joined

(* A string at the front of another.                                       *)
LEMMA FrontOf ==
    ASSUME NEW n \in Nat, NEW m \in Nat, n <= m, NEW s, NEW t, IsString(s, n), IsString(t, m),
           \A i \in 1 .. n : t[i] = s[i]
    PROVE  SubSeq(t, 1, n) = s
<1>1. s \in Seq(Octet) /\ t \in Seq(Octet) /\ Len(s) = n /\ Len(t) = m
  BY DEF IsString
<1>2. 1 <= 1 /\ n <= Len(t) /\ n + 1 = 1 + Len(s) /\ 1 \in Nat
  BY <1>1
<1>3. \A k \in 1 .. Len(s) : t[1 + k - 1] = s[k]
  BY <1>1
<1> QED
  BY <1>1, <1>2, <1>3, SliceOf

(* Two octets as a string.                                                 *)
LEMMA Pair ==
    ASSUME NEW a \in Octet, NEW b \in Octet
    PROVE  IsString(<<a, b>>, 2) /\ <<a, b>>[1] = a /\ <<a, b>>[2] = b /\ <<0>> \in Seq(Octet)
BY DEF IsString, Octet

-----------------------------------------------------------------------------
(* Which parse is which.                                                   *)
LEMMA RequestParsers ==
    ASSUME NEW p
    PROVE  /\ Access!ParseConfiguration(<<0>>, p) = Access!ParseAppKeyAdd(p)
           /\ Access!ParseConfiguration(<<128, 61>>, p) = Access!ParseModelApp("ModelAppBind", p)
           /\ Access!ParseConfiguration(<<128, 63>>, p) = Access!ParseModelApp("ModelAppUnbind", p)
           /\ Access!ParseConfiguration(<<3>>, p) = Access!ParsePublicationSet(p)
           /\ Access!ParseConfiguration(<<128, 26>>, p) = Access!ParsePublicationVirtualSet(p)
           /\ Access!ParseConfiguration(<<128, 27>>, p) = Access!ParseSubscriptionAdd(p)
           /\ Access!ParseConfiguration(<<128, 32>>, p) = Access!ParseSubscriptionVirtualAdd(p)
BY DEF Access!ParseConfiguration, Access!BeaconOpcodes, Access!DefaultTtlOpcodes, Access!NodeResetOpcodes,
       Access!CompositionOpcodes, Access!AppKeyOpcodes, Access!ModelAppOpcodes, Access!PublicationOpcodes,
       Access!SubscriptionOpcodes

(* Two octets or four name a model, which is looked for m octets before the*)
(* end of a string of n.                                                   *)
LEMMA ModelIsRead ==
    ASSUME NEW q, IsString(q, 2) \/ IsString(q, 4) PROVE Access!IsModel(q)
<1>1. Len(q) = 2 \/ Len(q) = 4
  BY LengthOf, 2 \in Nat, 4 \in Nat, Zenon
<1> QED
  BY <1>1, Zenon DEF Access!IsModel

LEMMA ModelAtEnd ==
    ASSUME NEW n \in Nat, NEW p, IsString(p, n), NEW i \in Nat, 1 <= i, n + 1 = i + 2 \/ n + 1 = i + 4
    PROVE  Access!IsModel(Access!From(p, i))
<1>1. CASE n + 1 = i + 2
  BY <1>1, RestString, ModelIsRead
<1>2. CASE n + 1 = i + 4
  BY <1>2, RestString, ModelIsRead
<1> QED
  BY <1>1, <1>2

(* What follows the address of a publication ends in its model.            *)
LEMMA PublicationIsRead ==
    ASSUME NEW n \in Nat, NEW p, IsString(p, n), NEW i \in Nat, 1 <= i, n + 1 = i + 7 \/ n + 1 = i + 9,
           NEW address, Access!IsUnicast(Access!Number(p[2], p[1]))
    PROVE  Access!ParsePublication(p, address, Access!From(p, i)) # <<>>
<1> DEFINE rest == Access!From(p, i)
<1>1. PICK m \in Nat : n + 1 = i + m /\ (m = 7 \/ m = 9)
  OBVIOUS
<1>2. IsString(rest, m)
  BY <1>1, RestString
<1>3. PICK k \in Nat : k = 6 /\ (m + 1 = k + 2 \/ m + 1 = k + 4)
  BY <1>1
<1> HIDE DEF rest
<1>4. Access!IsModel(Access!From(rest, k))
  BY <1>2, <1>3, ModelAtEnd
<1>5. Access!IsModel(Access!From(rest, 6))
  BY <1>3, <1>4
<1> QED
  BY <1>5, Zenon DEF Access!ParsePublication, rest

(* Every request in the format of the mesh is read, but the adding of a    *)
(* subscription that halts the device.                                     *)
LEMMA RequestIsRead ==
    ASSUME NEW kind \in RequestKinds, NEW p, IsRequest(kind, p),
           kind = "SubscriptionAdd" => ~ (Len(p) \in {6, 8})
    PROVE  Access!ParseConfiguration(Access!OpcodeOf(kind), p) # <<>>
<1>1. p \in Seq(Octet)
  BY DEF IsRequest
<1>2. PICK n \in Nat : IsString(p, n) /\ Len(p) = n
  <2>1. Len(p) \in Nat
    BY <1>1
  <2> QED
    BY <1>1, <2>1, StringOf, Zenon
<1>3. \A i \in {1, 3} : IsUnicast(p, i) => Access!IsUnicast(Access!Number(p[i + 1], p[i]))
  BY DEF IsUnicast, Number, Access!Number
<1>4. CASE kind = "AppKeyAdd"
  <2>1. Len(p) = 19
    BY <1>4, Zenon DEF IsRequest
  <2>2. Access!ParseAppKeyAdd(p) # <<>>
    BY <2>1, Zenon DEF Access!ParseAppKeyAdd
  <2>3. Access!ParseConfiguration(Access!OpcodeOf(kind), p) = Access!ParseAppKeyAdd(p)
    BY <1>4, AccessOpcodes, RequestParsers, Zenon
  <2> QED
    BY <2>2, <2>3, Zenon
<1>5. CASE kind \in {"ModelAppBind", "ModelAppUnbind"}
  <2>1. (n = 6 \/ n = 8) /\ IsUnicast(p, 1)
    BY <1>2, <1>5, Zenon DEF IsRequest
  <2>2. Access!IsUnicast(Access!Number(p[2], p[1]))
    BY <1>3, <2>1
  <2>3. PICK i \in Nat : i = 5
    OBVIOUS
  <2>4. Access!IsModel(Access!From(p, i))
    BY <1>2, <2>1, <2>3, ModelAtEnd
  <2>5. Len(p) >= 6
    BY <1>2, <2>1
  <2>6. Access!ParseModelApp(kind, p) # <<>>
    BY <2>2, <2>3, <2>4, <2>5, Zenon DEF Access!ParseModelApp
  <2>7. Access!ParseConfiguration(Access!OpcodeOf(kind), p) = Access!ParseModelApp(kind, p)
    <3>1. CASE kind = "ModelAppBind"
      BY <3>1, AccessOpcodes, RequestParsers, Zenon
    <3>2. CASE kind = "ModelAppUnbind"
      BY <3>2, AccessOpcodes, RequestParsers, Zenon
    <3> QED
      BY <1>5, <3>1, <3>2
  <2> QED
    BY <2>6, <2>7, Zenon
<1>6. CASE kind = "PublicationSet"
  <2>1. (n = 11 \/ n = 13) /\ IsUnicast(p, 1) /\ IsUnicast(p, 3)
    BY <1>2, <1>6, Zenon DEF IsRequest
  <2>2. Access!IsUnicast(Access!Number(p[2], p[1])) /\ Access!IsUnicast(Access!Number(p[4], p[3]))
    BY <1>3, <2>1
  <2>3. PICK i \in Nat : i = 5
    OBVIOUS
  <2>4. Access!ParsePublication(p, <<Access!Number(p[4], p[3])>>, Access!From(p, i)) # <<>>
    BY <1>2, <2>1, <2>2, <2>3, PublicationIsRead
  <2>5. Len(p) >= 11
    BY <1>2, <2>1
  <2>6. Access!ParsePublicationSet(p) # <<>>
    BY <2>2, <2>3, <2>4, <2>5, Zenon DEF Access!ParsePublicationSet
  <2>7. Access!ParseConfiguration(Access!OpcodeOf(kind), p) = Access!ParsePublicationSet(p)
    BY <1>6, AccessOpcodes, RequestParsers, Zenon
  <2> QED
    BY <2>6, <2>7, Zenon
<1>7. CASE kind = "PublicationVirtualSet"
  <2>1. (n = 25 \/ n = 27) /\ IsUnicast(p, 1)
    BY <1>2, <1>7, Zenon DEF IsRequest
  <2>2. Access!IsUnicast(Access!Number(p[2], p[1]))
    BY <1>3, <2>1
  <2>3. PICK i \in Nat : i = 19
    OBVIOUS
  <2>4. Access!ParsePublication(p, Access!Slice(p, 3, 18), Access!From(p, i)) # <<>>
    BY <1>2, <2>1, <2>2, <2>3, PublicationIsRead
  <2>5. Len(p) >= 25
    BY <1>2, <2>1
  <2>6. Access!ParsePublicationVirtualSet(p) # <<>>
    BY <2>3, <2>4, <2>5, Zenon DEF Access!ParsePublicationVirtualSet
  <2>7. Access!ParseConfiguration(Access!OpcodeOf(kind), p) = Access!ParsePublicationVirtualSet(p)
    BY <1>7, AccessOpcodes, RequestParsers, Zenon
  <2> QED
    BY <2>6, <2>7, Zenon
<1>8. CASE kind = "SubscriptionAdd"
  <2>1. Len(p) \in {6, 8, 11, 13} /\ IsUnicast(p, 1) /\ IsUnicast(p, 3)
    BY <1>8, Zenon DEF IsRequest
  <2>2. n = 11 \/ n = 13
    BY <1>2, <1>8, <2>1
  <2>3. Access!IsUnicast(Access!Number(p[2], p[1])) /\ Access!IsUnicast(Access!Number(p[4], p[3]))
    BY <1>3, <2>1
  <2>4. PICK i \in Nat : i = 10
    OBVIOUS
  <2>5. Access!IsModel(Access!From(p, i))
    BY <1>2, <2>2, <2>4, ModelAtEnd
  <2>6. Len(p) >= 9
    BY <1>2, <2>2
  <2>7. Access!ParseSubscriptionAdd(p) # <<>>
    BY <2>3, <2>4, <2>5, <2>6, Zenon DEF Access!ParseSubscriptionAdd, Access!ParseSubscription
  <2>8. Access!ParseConfiguration(Access!OpcodeOf(kind), p) = Access!ParseSubscriptionAdd(p)
    BY <1>8, AccessOpcodes, RequestParsers, Zenon
  <2> QED
    BY <2>7, <2>8, Zenon
<1>9. CASE kind = "SubscriptionVirtualAdd"
  <2>1. (n = 20 \/ n = 22) /\ IsUnicast(p, 1)
    BY <1>2, <1>9, Zenon DEF IsRequest
  <2>2. Access!IsUnicast(Access!Number(p[2], p[1]))
    BY <1>3, <2>1
  <2>3. PICK i \in Nat : i = 19
    OBVIOUS
  <2>4. Access!IsModel(Access!From(p, i))
    BY <1>2, <2>1, <2>3, ModelAtEnd
  <2>5. Len(p) >= 19
    BY <1>2, <2>1
  <2>6. Access!ParseSubscriptionVirtualAdd(p) # <<>>
    BY <2>2, <2>3, <2>4, <2>5, Zenon DEF Access!ParseSubscriptionVirtualAdd, Access!ParseSubscription
  <2>7. Access!ParseConfiguration(Access!OpcodeOf(kind), p) = Access!ParseSubscriptionVirtualAdd(p)
    BY <1>9, AccessOpcodes, RequestParsers, Zenon
  <2> QED
    BY <2>6, <2>7, Zenon
<1> QED
  BY <1>4, <1>5, <1>6, <1>7, <1>8, <1>9 DEF RequestKinds

-----------------------------------------------------------------------------
(* An opcode as a number.                                                  *)
Code(op) == IF Len(op) = 1 THEN op[1] ELSE 256 * op[1] + op[2]

(* The number of an opcode of one octet and of two.                        *)
LEMMA CodeOfTuple ==
    /\ \A a \in Nat : Code(<<a>>) = a
    /\ \A a, b \in Nat : Code(<<a, b>>) = 256 * a + b
BY DEF Code

(* The opcodes of the configuration, on-off and battery models, as         *)
(* numbers.                                                                *)
LEMMA AccessCodes ==
    /\ Code(Access!OpcodeOf("BeaconGet")) = 32777
    /\ Code(Access!OpcodeOf("BeaconSet")) = 32778
    /\ Code(Access!OpcodeOf("BeaconStatus")) = 32779
    /\ Code(Access!OpcodeOf("DefaultTtlGet")) = 32780
    /\ Code(Access!OpcodeOf("DefaultTtlSet")) = 32781
    /\ Code(Access!OpcodeOf("DefaultTtlStatus")) = 32782
    /\ Code(Access!OpcodeOf("NodeReset")) = 32841
    /\ Code(Access!OpcodeOf("NodeResetStatus")) = 32842
    /\ Code(Access!OpcodeOf("CompositionGet")) = 32776
    /\ Code(Access!OpcodeOf("CompositionStatus")) = 2
    /\ Code(Access!OpcodeOf("AppKeyList")) = 32770
    /\ Code(Access!OpcodeOf("AppKeyStatus")) = 32771
    /\ Code(Access!OpcodeOf("ModelAppBind")) = 32829
    /\ Code(Access!OpcodeOf("ModelAppStatus")) = 32830
    /\ Code(Access!OpcodeOf("ModelAppUnbind")) = 32831
    /\ Code(Access!OpcodeOf("PublicationStatus")) = 32793
    /\ Code(Access!OpcodeOf("SubscriptionStatus")) = 32799
    /\ Code(Access!OpcodeOf("NetworkTransmitGet")) = 32803
    /\ Code(Access!OpcodeOf("NetworkTransmitSet")) = 32804
    /\ Code(Access!OpcodeOf("NetworkTransmitStatus")) = 32805
    /\ Code(Access!OpcodeOf("OnOffGet")) = 33281
    /\ Code(Access!OpcodeOf("OnOffSet")) = 33282
    /\ Code(Access!OpcodeOf("OnOffSetUnacknowledged")) = 33283
    /\ Code(Access!OpcodeOf("OnOffStatus")) = 33284
    /\ Code(Access!OpcodeOf("BatteryGet")) = 33315
    /\ Code(Access!OpcodeOf("BatteryStatus")) = 33316
<1>1. Code(<<128, 9>>) = 32777
  BY CodeOfTuple
<1>2. Code(<<128, 10>>) = 32778
  BY CodeOfTuple
<1>3. Code(<<128, 11>>) = 32779
  BY CodeOfTuple
<1>4. Code(<<128, 12>>) = 32780
  BY CodeOfTuple
<1>5. Code(<<128, 13>>) = 32781
  BY CodeOfTuple
<1>6. Code(<<128, 14>>) = 32782
  BY CodeOfTuple
<1>7. Code(<<128, 73>>) = 32841
  BY CodeOfTuple
<1>8. Code(<<128, 74>>) = 32842
  BY CodeOfTuple
<1>9. Code(<<128, 8>>) = 32776
  BY CodeOfTuple
<1>10. Code(<<2>>) = 2
  BY CodeOfTuple
<1>11. Code(<<128, 2>>) = 32770
  BY CodeOfTuple
<1>12. Code(<<128, 3>>) = 32771
  BY CodeOfTuple
<1>13. Code(<<128, 61>>) = 32829
  BY CodeOfTuple
<1>14. Code(<<128, 62>>) = 32830
  BY CodeOfTuple
<1>15. Code(<<128, 63>>) = 32831
  BY CodeOfTuple
<1>16. Code(<<128, 25>>) = 32793
  BY CodeOfTuple
<1>17. Code(<<128, 31>>) = 32799
  BY CodeOfTuple
<1>18. Code(<<128, 35>>) = 32803
  BY CodeOfTuple
<1>19. Code(<<128, 36>>) = 32804
  BY CodeOfTuple
<1>20. Code(<<128, 37>>) = 32805
  BY CodeOfTuple
<1>21. Code(<<130, 1>>) = 33281
  BY CodeOfTuple
<1>22. Code(<<130, 2>>) = 33282
  BY CodeOfTuple
<1>23. Code(<<130, 3>>) = 33283
  BY CodeOfTuple
<1>24. Code(<<130, 4>>) = 33284
  BY CodeOfTuple
<1>25. Code(<<130, 35>>) = 33315
  BY CodeOfTuple
<1>26. Code(<<130, 36>>) = 33316
  BY CodeOfTuple
<1>27. Code(Access!OpcodeOf("BeaconGet")) = 32777
  BY ONLY AccessOpcodes, <1>1, SMTT(60)
<1>28. Code(Access!OpcodeOf("BeaconSet")) = 32778
  BY ONLY AccessOpcodes, <1>2, SMTT(60)
<1>29. Code(Access!OpcodeOf("BeaconStatus")) = 32779
  BY ONLY AccessOpcodes, <1>3, SMTT(60)
<1>30. Code(Access!OpcodeOf("DefaultTtlGet")) = 32780
  BY ONLY AccessOpcodes, <1>4, SMTT(60)
<1>31. Code(Access!OpcodeOf("DefaultTtlSet")) = 32781
  BY ONLY AccessOpcodes, <1>5, SMTT(60)
<1>32. Code(Access!OpcodeOf("DefaultTtlStatus")) = 32782
  BY ONLY AccessOpcodes, <1>6, SMTT(60)
<1>33. Code(Access!OpcodeOf("NodeReset")) = 32841
  BY ONLY AccessOpcodes, <1>7, SMTT(60)
<1>34. Code(Access!OpcodeOf("NodeResetStatus")) = 32842
  BY ONLY AccessOpcodes, <1>8
<1>35. Code(Access!OpcodeOf("CompositionGet")) = 32776
  BY ONLY AccessOpcodes, <1>9, SMTT(60)
<1>36. Code(Access!OpcodeOf("CompositionStatus")) = 2
  BY ONLY AccessOpcodes, <1>10
<1>37. Code(Access!OpcodeOf("AppKeyList")) = 32770
  BY ONLY AccessOpcodes, <1>11, SMTT(60)
<1>38. Code(Access!OpcodeOf("AppKeyStatus")) = 32771
  BY ONLY AccessOpcodes, <1>12
<1>39. Code(Access!OpcodeOf("ModelAppBind")) = 32829
  BY ONLY AccessOpcodes, <1>13, SMTT(60)
<1>40. Code(Access!OpcodeOf("ModelAppStatus")) = 32830
  BY ONLY AccessOpcodes, <1>14, SMTT(60)
<1>41. Code(Access!OpcodeOf("ModelAppUnbind")) = 32831
  BY ONLY AccessOpcodes, <1>15, SMTT(60)
<1>42. Code(Access!OpcodeOf("PublicationStatus")) = 32793
  BY ONLY AccessOpcodes, <1>16
<1>43. Code(Access!OpcodeOf("SubscriptionStatus")) = 32799
  BY ONLY AccessOpcodes, <1>17, SMTT(60)
<1>44. Code(Access!OpcodeOf("NetworkTransmitGet")) = 32803
  BY ONLY AccessOpcodes, <1>18, SMTT(60)
<1>45. Code(Access!OpcodeOf("NetworkTransmitSet")) = 32804
  BY ONLY AccessOpcodes, <1>19
<1>46. Code(Access!OpcodeOf("NetworkTransmitStatus")) = 32805
  BY ONLY AccessOpcodes, <1>20, SMTT(60)
<1>47. Code(Access!OpcodeOf("OnOffGet")) = 33281
  BY ONLY AccessOpcodes, <1>21
<1>48. Code(Access!OpcodeOf("OnOffSet")) = 33282
  BY ONLY AccessOpcodes, <1>22, SMTT(60)
<1>49. Code(Access!OpcodeOf("OnOffSetUnacknowledged")) = 33283
  BY ONLY AccessOpcodes, <1>23, SMTT(60)
<1>50. Code(Access!OpcodeOf("OnOffStatus")) = 33284
  BY ONLY AccessOpcodes, <1>24, SMTT(60)
<1>51. Code(Access!OpcodeOf("BatteryGet")) = 33315
  BY ONLY AccessOpcodes, <1>25, SMTT(60)
<1>52. Code(Access!OpcodeOf("BatteryStatus")) = 33316
  BY ONLY AccessOpcodes, <1>26, SMTT(60)
<1> QED
  BY ONLY <1>27, <1>28, <1>29, <1>30, <1>31, <1>32, <1>33, <1>34, <1>35, <1>36, <1>37, <1>38, <1>39,
       <1>40, <1>41, <1>42, <1>43, <1>44, <1>45, <1>46, <1>47, <1>48, <1>49, <1>50, <1>51, <1>52

(* The opcodes of the sensor models, as numbers.                           *)
LEMMA SensorCodes ==
    /\ Code(Sensor!OpcodeOf("DescriptorGet")) = 33328
    /\ Code(Sensor!OpcodeOf("DescriptorStatus")) = 81
    /\ Code(Sensor!OpcodeOf("SensorGet")) = 33329
    /\ Code(Sensor!OpcodeOf("SensorStatus")) = 82
    /\ Code(Sensor!OpcodeOf("ColumnGet")) = 33330
    /\ Code(Sensor!OpcodeOf("ColumnStatus")) = 83
    /\ Code(Sensor!OpcodeOf("SeriesGet")) = 33331
    /\ Code(Sensor!OpcodeOf("SeriesStatus")) = 84
    /\ Code(Sensor!OpcodeOf("CadenceGet")) = 33332
    /\ Code(Sensor!OpcodeOf("CadenceSet")) = 85
    /\ Code(Sensor!OpcodeOf("CadenceSetUnacknowledged")) = 86
    /\ Code(Sensor!OpcodeOf("CadenceStatus")) = 87
    /\ Code(Sensor!OpcodeOf("SettingsGet")) = 33333
    /\ Code(Sensor!OpcodeOf("SettingsStatus")) = 88
    /\ Code(Sensor!OpcodeOf("SettingGet")) = 33334
    /\ Code(Sensor!OpcodeOf("SettingSet")) = 89
    /\ Code(Sensor!OpcodeOf("SettingSetUnacknowledged")) = 90
    /\ Code(Sensor!OpcodeOf("SettingStatus")) = 91
<1>1. Code(<<130, 48>>) = 33328
  BY CodeOfTuple
<1>2. Code(<<81>>) = 81
  BY CodeOfTuple
<1>3. Code(<<130, 49>>) = 33329
  BY CodeOfTuple
<1>4. Code(<<82>>) = 82
  BY CodeOfTuple
<1>5. Code(<<130, 50>>) = 33330
  BY CodeOfTuple
<1>6. Code(<<83>>) = 83
  BY CodeOfTuple
<1>7. Code(<<130, 51>>) = 33331
  BY CodeOfTuple
<1>8. Code(<<84>>) = 84
  BY CodeOfTuple
<1>9. Code(<<130, 52>>) = 33332
  BY CodeOfTuple
<1>10. Code(<<85>>) = 85
  BY CodeOfTuple
<1>11. Code(<<86>>) = 86
  BY CodeOfTuple
<1>12. Code(<<87>>) = 87
  BY CodeOfTuple
<1>13. Code(<<130, 53>>) = 33333
  BY CodeOfTuple
<1>14. Code(<<88>>) = 88
  BY CodeOfTuple
<1>15. Code(<<130, 54>>) = 33334
  BY CodeOfTuple
<1>16. Code(<<89>>) = 89
  BY CodeOfTuple
<1>17. Code(<<90>>) = 90
  BY CodeOfTuple
<1>18. Code(<<91>>) = 91
  BY CodeOfTuple
<1>19. Code(Sensor!OpcodeOf("DescriptorGet")) = 33328
  BY ONLY SensorOpcodes, <1>1
<1>20. Code(Sensor!OpcodeOf("DescriptorStatus")) = 81
  BY ONLY SensorOpcodes, <1>2
<1>21. Code(Sensor!OpcodeOf("SensorGet")) = 33329
  BY ONLY SensorOpcodes, <1>3
<1>22. Code(Sensor!OpcodeOf("SensorStatus")) = 82
  BY ONLY SensorOpcodes, <1>4
<1>23. Code(Sensor!OpcodeOf("ColumnGet")) = 33330
  BY ONLY SensorOpcodes, <1>5
<1>24. Code(Sensor!OpcodeOf("ColumnStatus")) = 83
  BY ONLY SensorOpcodes, <1>6
<1>25. Code(Sensor!OpcodeOf("SeriesGet")) = 33331
  BY ONLY SensorOpcodes, <1>7
<1>26. Code(Sensor!OpcodeOf("SeriesStatus")) = 84
  BY ONLY SensorOpcodes, <1>8
<1>27. Code(Sensor!OpcodeOf("CadenceGet")) = 33332
  BY ONLY SensorOpcodes, <1>9
<1>28. Code(Sensor!OpcodeOf("CadenceSet")) = 85
  BY ONLY SensorOpcodes, <1>10
<1>29. Code(Sensor!OpcodeOf("CadenceSetUnacknowledged")) = 86
  BY ONLY SensorOpcodes, <1>11
<1>30. Code(Sensor!OpcodeOf("CadenceStatus")) = 87
  BY ONLY SensorOpcodes, <1>12
<1>31. Code(Sensor!OpcodeOf("SettingsGet")) = 33333
  BY ONLY SensorOpcodes, <1>13
<1>32. Code(Sensor!OpcodeOf("SettingsStatus")) = 88
  BY ONLY SensorOpcodes, <1>14
<1>33. Code(Sensor!OpcodeOf("SettingGet")) = 33334
  BY ONLY SensorOpcodes, <1>15
<1>34. Code(Sensor!OpcodeOf("SettingSet")) = 89
  BY ONLY SensorOpcodes, <1>16
<1>35. Code(Sensor!OpcodeOf("SettingSetUnacknowledged")) = 90
  BY ONLY SensorOpcodes, <1>17
<1>36. Code(Sensor!OpcodeOf("SettingStatus")) = 91
  BY ONLY SensorOpcodes, <1>18
<1> QED
  BY ONLY <1>19, <1>20, <1>21, <1>22, <1>23, <1>24, <1>25, <1>26, <1>27, <1>28, <1>29, <1>30, <1>31,
       <1>32, <1>33, <1>34, <1>35, <1>36

(* The opcodes that the servers read.                                      *)
ConfigurationCodes ==
    {32777, 32778, 32780, 32781, 32841, 32776, 0, 32769, 32829, 32831, 3, 32794, 32795, 32800}
OnOffCodes == {33282, 33283}
BatteryCodes == {33315}
SensorCodesRead == {33328, 33329, 33330, 33331}
SetupCodesRead == {33332, 85, 86, 33333, 33334, 89, 90}

(* The configuration server reads no other opcode, ...                     *)
LEMMA ConfigurationReads ==
    ASSUME NEW op, NEW p, Code(op) \notin ConfigurationCodes
    PROVE  Access!ParseConfiguration(op, p) = <<>>
<1>1. /\ op # <<128, 9>> /\ op # <<128, 10>> /\ op # <<128, 12>> /\ op # <<128, 13>> /\ op # <<128, 73>>
      /\ op # <<128, 8>> /\ op # <<0>> /\ op # <<128, 1>> /\ op # <<128, 61>> /\ op # <<128, 63>>
      /\ op # <<3>> /\ op # <<128, 26>> /\ op # <<128, 27>> /\ op # <<128, 32>>
  BY CodeOfTuple DEF ConfigurationCodes
<1> QED
  BY ONLY <1>1 DEF Access!ParseConfiguration, Access!BeaconOpcodes, Access!DefaultTtlOpcodes, Access!NodeResetOpcodes,
       Access!CompositionOpcodes, Access!AppKeyOpcodes, Access!ModelAppOpcodes,
       Access!PublicationOpcodes, Access!SubscriptionOpcodes

(* ... nor does the on-off server, ...                                     *)
LEMMA OnOffReads ==
    ASSUME NEW op, NEW p, Code(op) \notin OnOffCodes
    PROVE  Access!ParseOnOff(op, p) = <<>>
<1>1. op # <<130, 2>> /\ op # <<130, 3>>
  BY CodeOfTuple DEF OnOffCodes
<1> QED
  BY ONLY <1>1 DEF Access!ParseOnOff, Access!OnOffOpcodes

(* ... the battery server, ...                                             *)
LEMMA BatteryReads ==
    ASSUME NEW op, NEW p, Code(op) \notin BatteryCodes
    PROVE  Access!ParseBattery(op, p) = <<>>
<1>1. op # <<130, 35>>
  BY CodeOfTuple DEF BatteryCodes
<1> QED
  BY ONLY <1>1 DEF Access!ParseBattery, Access!BatteryOpcodes

(* ... the sensor server or client, ...                                    *)
LEMMA SensorReads ==
    ASSUME NEW op, NEW p, Code(op) \notin SensorCodesRead
    PROVE  Sensor!Parse(op, p) = <<>>
<1>1. op # <<130, 48>> /\ op # <<130, 49>> /\ op # <<130, 50>> /\ op # <<130, 51>>
  BY CodeOfTuple DEF SensorCodesRead
<1> QED
  BY ONLY <1>1 DEF Sensor!Parse, Sensor!SensorOpcodes

(* ... or the sensor setup server.                                         *)
LEMMA SetupReads ==
    ASSUME NEW op, NEW p, Code(op) \notin SetupCodesRead
    PROVE  Sensor!ParseSetup(op, p) = <<>>
<1>1. /\ op # <<130, 52>> /\ op # <<85>> /\ op # <<86>> /\ op # <<130, 53>> /\ op # <<130, 54>>
      /\ op # <<89>> /\ op # <<90>>
  BY CodeOfTuple DEF SetupCodesRead
<1> QED
  BY ONLY <1>1 DEF Sensor!ParseSetup, Sensor!SetupOpcodes

(* What is read of it is what one of the readers makes of it, if any does. *)
ReadsOnly(op, p, read) == \A m : ReadBySome(op, p) = {<<m>>} <=> read = <<m>>
ReadsNothing(op, p) == \A m : ReadBySome(op, p) # {<<m>>}

(* Of three readers and a set of others, one has something.                *)
LEMMA SomeRead ==
    ASSUME NEW a, NEW b, NEW c, NEW D, NEW z, NEW m
    PROVE  LET some == ({a, b, c} \ {z}) \cup D
           IN  m # z => /\ a = z /\ b = z /\ c = z /\ D = {} => some # {m}
                        /\ b = z /\ c = z /\ D = {} => (some = {m} <=> a = m)
                        /\ a = z /\ c = z /\ D = {} => (some = {m} <=> b = m)
                        /\ a = z /\ b = z /\ D = {} => (some = {m} <=> c = m)
                        /\ a = z /\ b = z /\ c = z => (some = {m} <=> D = {m})
OBVIOUS

(* Of two readers one has something.                                       *)
LEMMA TwoRead ==
    ASSUME NEW a, NEW b, NEW z, NEW m
    PROVE  m # z => /\ b = z => ({a, b} \ {z} = {m} <=> a = m)
                    /\ a = z => ({a, b} \ {z} = {m} <=> b = m)
                    /\ a = z /\ b = z => {a, b} \ {z} = {}
OBVIOUS

(* If no more than one reader makes something of it, that is what is read. *)
LEMMA ReadByOne ==
    ASSUME NEW op, NEW p
    PROVE  LET sensors == ReadBySensors(op, p)
               a == Access!ParseConfiguration(op, p)
               b == Access!ParseOnOff(op, p)
               c == Access!ParseBattery(op, p)
               d == Sensor!Parse(op, p)
               e == Sensor!ParseSetup(op, p)
           IN  /\ a = <<>> /\ b = <<>> /\ c = <<>> /\ d = <<>> /\ e = <<>> => ReadsNothing(op, p)
               /\ b = <<>> /\ c = <<>> /\ d = <<>> /\ e = <<>> => ReadsOnly(op, p, a)
               /\ a = <<>> /\ c = <<>> /\ d = <<>> /\ e = <<>> => ReadsOnly(op, p, b)
               /\ a = <<>> /\ b = <<>> /\ d = <<>> /\ e = <<>> => ReadsOnly(op, p, c)
               /\ ~ SensorPanics(op, p) =>
                     /\ a = <<>> /\ b = <<>> /\ c = <<>> /\ e = <<>> => ReadsOnly(op, p, d)
                     /\ a = <<>> /\ b = <<>> /\ c = <<>> /\ d = <<>> => ReadsOnly(op, p, e)
<1> DEFINE sensors == ReadBySensors(op, p)
           a == Access!ParseConfiguration(op, p)
           b == Access!ParseOnOff(op, p)
           c == Access!ParseBattery(op, p)
           d == Sensor!Parse(op, p)
           e == Sensor!ParseSetup(op, p)
<1>1. PICK z : z = <<>>
  OBVIOUS
<1>2. \A m : <<m>> # z
  BY <1>1
<1>3. ReadBySome(op, p) = ({a, b, c} \ {z}) \cup sensors
  BY <1>1 DEF ReadBySome, Access!Parse
<1>4. sensors = IF SensorPanics(op, p) THEN {} ELSE {d, e} \ {z}
  BY <1>1 DEF ReadBySensors
<1> HIDE DEF a, b, c, d, e, sensors
<1>5. d = z /\ e = z => sensors = {}
  BY <1>4
<1>6. ~ SensorPanics(op, p) =>
         \A m : /\ e = z => (sensors = {<<m>>} <=> d = <<m>>)
                /\ d = z => (sensors = {<<m>>} <=> e = <<m>>)
  <2> SUFFICES ASSUME ~ SensorPanics(op, p), NEW m
               PROVE  /\ e = z => (sensors = {<<m>>} <=> d = <<m>>)
                      /\ d = z => (sensors = {<<m>>} <=> e = <<m>>)
    OBVIOUS
  <2>1. PICK y : y = <<m>>
    BY Zenon
  <2>2. y # z
    BY <1>2, <2>1
  <2>3. sensors = {d, e} \ {z}
    BY <1>4
  <2>4. /\ e = z => (sensors = {y} <=> d = y)
        /\ d = z => (sensors = {y} <=> e = y)
    BY ONLY <2>2, <2>3, TwoRead
  <2> QED
    BY ONLY <2>1, <2>4
<1>7. \A m : /\ a = z /\ b = z /\ c = z /\ sensors = {} => ReadBySome(op, p) # {<<m>>}
             /\ b = z /\ c = z /\ sensors = {} => (ReadBySome(op, p) = {<<m>>} <=> a = <<m>>)
             /\ a = z /\ c = z /\ sensors = {} => (ReadBySome(op, p) = {<<m>>} <=> b = <<m>>)
             /\ a = z /\ b = z /\ sensors = {} => (ReadBySome(op, p) = {<<m>>} <=> c = <<m>>)
             /\ a = z /\ b = z /\ c = z => (ReadBySome(op, p) = {<<m>>} <=> sensors = {<<m>>})
  <2> TAKE m
  <2>1. PICK y : y = <<m>>
    BY Zenon
  <2>2. y # z
    BY <1>2, <2>1
  <2>3. /\ a = z /\ b = z /\ c = z /\ sensors = {} => ReadBySome(op, p) # {y}
        /\ b = z /\ c = z /\ sensors = {} => (ReadBySome(op, p) = {y} <=> a = y)
        /\ a = z /\ c = z /\ sensors = {} => (ReadBySome(op, p) = {y} <=> b = y)
        /\ a = z /\ b = z /\ sensors = {} => (ReadBySome(op, p) = {y} <=> c = y)
        /\ a = z /\ b = z /\ c = z => (ReadBySome(op, p) = {y} <=> sensors = {y})
    BY ONLY <1>3, <2>2, SomeRead
  <2> QED
    BY ONLY <2>1, <2>3
<1>8. /\ a = z /\ b = z /\ c = z /\ d = z /\ e = z => ReadsNothing(op, p)
      /\ b = z /\ c = z /\ d = z /\ e = z => ReadsOnly(op, p, a)
      /\ a = z /\ c = z /\ d = z /\ e = z => ReadsOnly(op, p, b)
      /\ a = z /\ b = z /\ d = z /\ e = z => ReadsOnly(op, p, c)
  BY ONLY <1>5, <1>7, Zenon DEF ReadsOnly, ReadsNothing
<1>9. ~ SensorPanics(op, p) =>
         /\ a = z /\ b = z /\ c = z /\ e = z => ReadsOnly(op, p, d)
         /\ a = z /\ b = z /\ c = z /\ d = z => ReadsOnly(op, p, e)
  BY ONLY <1>6, <1>7, Zenon DEF ReadsOnly
<1> QED
  BY ONLY <1>1, <1>8, <1>9 DEF a, b, c, d, e, sensors

(* ... which the number of its opcode tells.                               *)
LEMMA ReadByCode ==
    ASSUME NEW op, NEW p
    PROVE  /\ Code(op) \in ConfigurationCodes => ReadsOnly(op, p, Access!ParseConfiguration(op, p))
           /\ Code(op) \in OnOffCodes => ReadsOnly(op, p, Access!ParseOnOff(op, p))
           /\ Code(op) \in BatteryCodes => ReadsOnly(op, p, Access!ParseBattery(op, p))
           /\ Code(op) \in SensorCodesRead /\ ~ SensorPanics(op, p) => ReadsOnly(op, p, Sensor!Parse(op, p))
           /\ Code(op) \in SetupCodesRead /\ ~ SensorPanics(op, p) => ReadsOnly(op, p, Sensor!ParseSetup(op, p))
           /\ Code(op) \notin ConfigurationCodes \cup OnOffCodes \cup BatteryCodes \cup SensorCodesRead \cup SetupCodesRead
              => ReadsNothing(op, p)
<1> DEFINE n == Code(op)
<1>1. /\ n \in ConfigurationCodes => n \notin OnOffCodes /\ n \notin BatteryCodes /\ n \notin SensorCodesRead /\ n \notin SetupCodesRead
      /\ n \in OnOffCodes => n \notin ConfigurationCodes /\ n \notin BatteryCodes /\ n \notin SensorCodesRead /\ n \notin SetupCodesRead
      /\ n \in BatteryCodes => n \notin ConfigurationCodes /\ n \notin OnOffCodes /\ n \notin SensorCodesRead /\ n \notin SetupCodesRead
      /\ n \in SensorCodesRead => n \notin ConfigurationCodes /\ n \notin OnOffCodes /\ n \notin BatteryCodes /\ n \notin SetupCodesRead
      /\ n \in SetupCodesRead => n \notin ConfigurationCodes /\ n \notin OnOffCodes /\ n \notin BatteryCodes /\ n \notin SensorCodesRead
  <2> HIDE DEF n
  <2> QED
    BY DEF ConfigurationCodes, OnOffCodes, BatteryCodes, SensorCodesRead, SetupCodesRead
<1>2. /\ n \notin ConfigurationCodes => Access!ParseConfiguration(op, p) = <<>>
      /\ n \notin OnOffCodes => Access!ParseOnOff(op, p) = <<>>
      /\ n \notin BatteryCodes => Access!ParseBattery(op, p) = <<>>
      /\ n \notin SensorCodesRead => Sensor!Parse(op, p) = <<>>
      /\ n \notin SetupCodesRead => Sensor!ParseSetup(op, p) = <<>>
  BY ConfigurationReads, OnOffReads, BatteryReads, SensorReads, SetupReads
<1> QED
  BY ONLY <1>1, <1>2, ReadByOne

(* What is written of the messages that are read, and who reads it.        *)
LEMMA AccessParameters ==
    ASSUME NEW m
    PROVE  /\ m.kind \in {"BeaconGet", "BeaconSet"} => Access!EmitParameters(m) = Access!EmitBeacon(m)
           /\ m.kind \in {"DefaultTtlGet", "DefaultTtlSet"} => Access!EmitParameters(m) = Access!EmitDefaultTtl(m)
           /\ m.kind = "NodeReset" => Access!EmitParameters(m) = Access!EmitNodeReset(m)
           /\ m.kind = "CompositionGet" => Access!EmitParameters(m) = Access!EmitCompositionMessage(m)
           /\ m.kind \in {"ModelAppBind", "ModelAppUnbind"} =>
                 Access!EmitParameters(m) = Access!EmitModelAppMessage(m)
           /\ m.kind = "OnOffSet" => Access!EmitParameters(m) = Access!EmitOnOff(m)
           /\ m.kind = "BatteryGet" => Access!EmitParameters(m) = Access!EmitBattery(m)
BY AccessTables DEF Access!EmitParameters

(* Which parse reads which opcode.                                         *)
LEMMA AccessParsers ==
    ASSUME NEW p
    PROVE  /\ Access!ParseConfiguration(Access!OpcodeOf("BeaconGet"), p) = Access!ParseBeaconGet(p)
           /\ Access!ParseConfiguration(Access!OpcodeOf("BeaconSet"), p) = Access!ParseBeaconSet(p)
           /\ Access!ParseConfiguration(Access!OpcodeOf("DefaultTtlGet"), p) = Access!ParseDefaultTtlGet(p)
           /\ Access!ParseConfiguration(Access!OpcodeOf("DefaultTtlSet"), p) = Access!ParseDefaultTtlSet(p)
           /\ Access!ParseConfiguration(Access!OpcodeOf("NodeReset"), p) = Access!ParseNodeReset(p)
           /\ Access!ParseConfiguration(Access!OpcodeOf("CompositionGet"), p) = Access!ParseCompositionGet(p)
           /\ Access!ParseConfiguration(Access!OpcodeOf("ModelAppBind"), p) = Access!ParseModelApp("ModelAppBind", p)
           /\ Access!ParseConfiguration(Access!OpcodeOf("ModelAppUnbind"), p) = Access!ParseModelApp("ModelAppUnbind", p)
           /\ Access!ParseOnOff(Access!OpcodeOf("OnOffSet"), p) = Access!ParseOnOffSet(p)
           /\ Access!ParseOnOff(Access!OpcodeOf("OnOffSetUnacknowledged"), p) = Access!ParseOnOffSet(p)
           /\ Access!ParseBattery(Access!OpcodeOf("BatteryGet"), p) = <<[kind |-> "BatteryGet"]>>
<1>1. /\ Access!ParseConfiguration(<<128, 9>>, p) = Access!ParseBeaconGet(p)
      /\ Access!ParseConfiguration(<<128, 10>>, p) = Access!ParseBeaconSet(p)
      /\ Access!ParseConfiguration(<<128, 12>>, p) = Access!ParseDefaultTtlGet(p)
      /\ Access!ParseConfiguration(<<128, 13>>, p) = Access!ParseDefaultTtlSet(p)
      /\ Access!ParseConfiguration(<<128, 73>>, p) = Access!ParseNodeReset(p)
      /\ Access!ParseConfiguration(<<128, 8>>, p) = Access!ParseCompositionGet(p)
  BY SMTT(60) DEF Access!ParseConfiguration, Access!BeaconOpcodes, Access!DefaultTtlOpcodes, Access!NodeResetOpcodes,
       Access!CompositionOpcodes, Access!AppKeyOpcodes, Access!ModelAppOpcodes,
       Access!PublicationOpcodes, Access!SubscriptionOpcodes
<1>2. /\ Access!ParseOnOff(<<130, 2>>, p) = Access!ParseOnOffSet(p)
      /\ Access!ParseOnOff(<<130, 3>>, p) = Access!ParseOnOffSet(p)
      /\ Access!ParseBattery(<<130, 35>>, p) = <<[kind |-> "BatteryGet"]>>
  BY DEF Access!ParseOnOff, Access!OnOffOpcodes, Access!ParseBattery, Access!BatteryOpcodes
<1>3. /\ Access!ParseConfiguration(<<128, 61>>, p) = Access!ParseModelApp("ModelAppBind", p)
      /\ Access!ParseConfiguration(<<128, 63>>, p) = Access!ParseModelApp("ModelAppUnbind", p)
  BY RequestParsers
<1>4. /\ Access!OpcodeOf("BeaconGet") = <<128, 9>> /\ Access!OpcodeOf("BeaconSet") = <<128, 10>>
      /\ Access!OpcodeOf("DefaultTtlGet") = <<128, 12>> /\ Access!OpcodeOf("DefaultTtlSet") = <<128, 13>>
      /\ Access!OpcodeOf("NodeReset") = <<128, 73>> /\ Access!OpcodeOf("CompositionGet") = <<128, 8>>
  BY AccessOpcodes
<1>5. /\ Access!OpcodeOf("ModelAppBind") = <<128, 61>> /\ Access!OpcodeOf("ModelAppUnbind") = <<128, 63>>
      /\ Access!OpcodeOf("OnOffSet") = <<130, 2>> /\ Access!OpcodeOf("OnOffSetUnacknowledged") = <<130, 3>>
      /\ Access!OpcodeOf("BatteryGet") = <<130, 35>>
  BY AccessOpcodes
<1>6. /\ Access!ParseConfiguration(Access!OpcodeOf("BeaconGet"), p) = Access!ParseBeaconGet(p)
      /\ Access!ParseConfiguration(Access!OpcodeOf("BeaconSet"), p) = Access!ParseBeaconSet(p)
      /\ Access!ParseConfiguration(Access!OpcodeOf("DefaultTtlGet"), p) = Access!ParseDefaultTtlGet(p)
      /\ Access!ParseConfiguration(Access!OpcodeOf("DefaultTtlSet"), p) = Access!ParseDefaultTtlSet(p)
      /\ Access!ParseConfiguration(Access!OpcodeOf("NodeReset"), p) = Access!ParseNodeReset(p)
      /\ Access!ParseConfiguration(Access!OpcodeOf("CompositionGet"), p) = Access!ParseCompositionGet(p)
  BY ONLY <1>1, <1>4
<1>7. /\ Access!ParseConfiguration(Access!OpcodeOf("ModelAppBind"), p) = Access!ParseModelApp("ModelAppBind", p)
      /\ Access!ParseConfiguration(Access!OpcodeOf("ModelAppUnbind"), p) = Access!ParseModelApp("ModelAppUnbind", p)
      /\ Access!ParseOnOff(Access!OpcodeOf("OnOffSet"), p) = Access!ParseOnOffSet(p)
      /\ Access!ParseOnOff(Access!OpcodeOf("OnOffSetUnacknowledged"), p) = Access!ParseOnOffSet(p)
      /\ Access!ParseBattery(Access!OpcodeOf("BatteryGet"), p) = <<[kind |-> "BatteryGet"]>>
  BY ONLY <1>2, <1>3, <1>5
<1> QED
  BY ONLY <1>6, <1>7

(* What is written of the messages of the sensor models that are read.     *)
LEMMA SensorParameters ==
    ASSUME NEW m
    PROVE  /\ m.kind \in {"DescriptorGet", "SensorGet"} => Sensor!EmitParameters(m) = Sensor!EmitOptional(m)
           /\ m.kind = "ColumnGet" => Sensor!EmitParameters(m) = Sensor!EmitColumnGet(m)
           /\ m.kind = "SeriesGet" => Sensor!EmitParameters(m) = Sensor!EmitSeriesGet(m)
           /\ m.kind \in {"CadenceGet", "SettingsGet"} => Sensor!EmitParameters(m) = Sensor!EmitProperty(m)
           /\ m.kind \in {"CadenceSet", "CadenceSetUnacknowledged"} =>
                 Sensor!EmitParameters(m) = Sensor!EmitCadence(m)
           /\ m.kind = "SettingGet" => Sensor!EmitParameters(m) = Sensor!EmitSettingGet(m)
           /\ m.kind \in {"SettingSet", "SettingSetUnacknowledged"} =>
                 Sensor!EmitParameters(m) = Sensor!EmitSettingSet(m)
BY SensorTables DEF Sensor!EmitParameters, Sensor!EmitSensorMessage, Sensor!EmitSetupMessage

(* Which parse reads which opcode of the sensor models.                    *)
LEMMA SensorParsers ==
    ASSUME NEW p
    PROVE  /\ Sensor!Parse(Sensor!OpcodeOf("DescriptorGet"), p) = Sensor!ParseOptional("DescriptorGet", p)
           /\ Sensor!Parse(Sensor!OpcodeOf("SensorGet"), p) = Sensor!ParseOptional("SensorGet", p)
           /\ Sensor!Parse(Sensor!OpcodeOf("ColumnGet"), p) = Sensor!ParseColumnGet(p)
           /\ Sensor!Parse(Sensor!OpcodeOf("SeriesGet"), p) = Sensor!ParseSeriesGet(p)
           /\ Sensor!ParseSetup(Sensor!OpcodeOf("CadenceGet"), p) = Sensor!ParseProperty("CadenceGet", p)
           /\ Sensor!ParseSetup(Sensor!OpcodeOf("SettingsGet"), p) = Sensor!ParseProperty("SettingsGet", p)
           /\ Sensor!ParseSetup(Sensor!OpcodeOf("SettingGet"), p) = Sensor!ParseSettingGet(p)
           /\ \A kind \in {"CadenceSet", "CadenceSetUnacknowledged"} :
                 Sensor!ParseSetup(Sensor!OpcodeOf(kind), p) = Sensor!ParseCadenceSet(kind, p)
           /\ \A kind \in {"SettingSet", "SettingSetUnacknowledged"} :
                 Sensor!ParseSetup(Sensor!OpcodeOf(kind), p) = Sensor!ParseSettingSet(kind, p)
<1>1. /\ Sensor!Parse(Sensor!OpcodeOf("DescriptorGet"), p) = Sensor!ParseOptional("DescriptorGet", p)
      /\ Sensor!Parse(Sensor!OpcodeOf("SensorGet"), p) = Sensor!ParseOptional("SensorGet", p)
      /\ Sensor!Parse(Sensor!OpcodeOf("ColumnGet"), p) = Sensor!ParseColumnGet(p)
      /\ Sensor!Parse(Sensor!OpcodeOf("SeriesGet"), p) = Sensor!ParseSeriesGet(p)
  BY DEF Sensor!Parse, Sensor!OpcodeOf, Sensor!SensorOpcodes
<1>2. /\ Sensor!OpcodeOf("CadenceGet") = <<130, 52>> /\ Sensor!OpcodeOf("SettingsGet") = <<130, 53>>
      /\ Sensor!OpcodeOf("SettingGet") = <<130, 54>> /\ Sensor!OpcodeOf("CadenceSet") = <<85>>
      /\ Sensor!OpcodeOf("CadenceSetUnacknowledged") = <<86>> /\ Sensor!OpcodeOf("SettingSet") = <<89>>
      /\ Sensor!OpcodeOf("SettingSetUnacknowledged") = <<90>>
  BY SensorOpcodes
<1>3. /\ Sensor!ParseSetup(<<130, 52>>, p) = Sensor!ParseProperty("CadenceGet", p)
      /\ Sensor!ParseSetup(<<130, 53>>, p) = Sensor!ParseProperty("SettingsGet", p)
      /\ Sensor!ParseSetup(<<130, 54>>, p) = Sensor!ParseSettingGet(p)
      /\ Sensor!ParseSetup(<<85>>, p) = Sensor!ParseCadenceSet("CadenceSet", p)
      /\ Sensor!ParseSetup(<<86>>, p) = Sensor!ParseCadenceSet("CadenceSetUnacknowledged", p)
      /\ Sensor!ParseSetup(<<89>>, p) = Sensor!ParseSettingSet("SettingSet", p)
      /\ Sensor!ParseSetup(<<90>>, p) = Sensor!ParseSettingSet("SettingSetUnacknowledged", p)
  BY DEF Sensor!ParseSetup, Sensor!SetupOpcodes
<1>4. /\ Sensor!ParseSetup(Sensor!OpcodeOf("CadenceGet"), p) = Sensor!ParseProperty("CadenceGet", p)
      /\ Sensor!ParseSetup(Sensor!OpcodeOf("SettingsGet"), p) = Sensor!ParseProperty("SettingsGet", p)
      /\ Sensor!ParseSetup(Sensor!OpcodeOf("SettingGet"), p) = Sensor!ParseSettingGet(p)
  BY ONLY <1>2, <1>3
<1>5. /\ Sensor!ParseSetup(Sensor!OpcodeOf("CadenceSet"), p) = Sensor!ParseCadenceSet("CadenceSet", p)
      /\ Sensor!ParseSetup(Sensor!OpcodeOf("CadenceSetUnacknowledged"), p)
           = Sensor!ParseCadenceSet("CadenceSetUnacknowledged", p)
      /\ Sensor!ParseSetup(Sensor!OpcodeOf("SettingSet"), p) = Sensor!ParseSettingSet("SettingSet", p)
      /\ Sensor!ParseSetup(Sensor!OpcodeOf("SettingSetUnacknowledged"), p)
           = Sensor!ParseSettingSet("SettingSetUnacknowledged", p)
  BY ONLY <1>2, <1>3
<1> QED
  BY <1>1, <1>4, <1>5

(* Its opcode and parameters are those of its model.                       *)
LEMMA WhoseMessage ==
    ASSUME NEW m
    PROVE  /\ m.kind \in Sensor!Kinds => /\ OpcodeOf(m) = Sensor!OpcodeOf(m.kind)
                                         /\ EmitParameters(m) = Sensor!EmitParameters(m)
           /\ m.kind \notin Sensor!Kinds => /\ OpcodeOf(m) = Access!OpcodeOf(m.kind)
                                            /\ EmitParameters(m) = Access!EmitParameters(m)
           /\ Sensor!Kinds = {"DescriptorGet", "DescriptorStatus", "SensorGet", "SensorStatus", "ColumnGet",
                              "ColumnStatus", "SeriesGet", "SeriesStatus", "CadenceGet", "CadenceSet",
                              "CadenceSetUnacknowledged", "CadenceStatus", "SettingsGet", "SettingsStatus",
                              "SettingGet", "SettingSet", "SettingSetUnacknowledged", "SettingStatus"}
<1>1. /\ m.kind \in Sensor!Kinds => /\ OpcodeOf(m) = Sensor!OpcodeOf(m.kind)
                                    /\ EmitParameters(m) = Sensor!EmitParameters(m)
      /\ m.kind \notin Sensor!Kinds => /\ OpcodeOf(m) = Access!OpcodeOf(m.kind)
                                       /\ EmitParameters(m) = Access!EmitParameters(m)
  BY DEF OpcodeOf, EmitParameters, IsAccess
<1> QED
  BY <1>1, SensorTables DEF Sensor!Kinds

(* The readers read of a message what they should.                         *)
MessageRead(m) == ReadBySome(OpcodeOf(m), EmitParameters(m)) = {<<m>>} <=> Kept(m)

(* It is enough to know the one reader and what it makes of the            *)
(* parameters.                                                             *)
LEMMA ReadOfMessage ==
    ASSUME NEW m, NEW read, ReadsOnly(OpcodeOf(m), EmitParameters(m), read), read = <<m>> <=> Kept(m)
    PROVE  MessageRead(m)
BY DEF ReadsOnly, MessageRead

(* Which reader it is.                                                     *)
LEMMA ReaderOfAccess ==
    ASSUME NEW m
    PROVE  LET p == EmitParameters(m)
               q == Access!EmitParameters(m)
           IN  /\ m.kind = "BeaconGet" => p = q /\ ReadsOnly(OpcodeOf(m), p, Access!ParseBeaconGet(p))
               /\ m.kind = "BeaconSet" => p = q /\ ReadsOnly(OpcodeOf(m), p, Access!ParseBeaconSet(p))
               /\ m.kind = "DefaultTtlGet" => p = q /\ ReadsOnly(OpcodeOf(m), p, Access!ParseDefaultTtlGet(p))
               /\ m.kind = "DefaultTtlSet" => p = q /\ ReadsOnly(OpcodeOf(m), p, Access!ParseDefaultTtlSet(p))
               /\ m.kind = "NodeReset" => p = q /\ ReadsOnly(OpcodeOf(m), p, Access!ParseNodeReset(p))
               /\ m.kind = "CompositionGet" => p = q /\ ReadsOnly(OpcodeOf(m), p, Access!ParseCompositionGet(p))
               /\ m.kind \in {"ModelAppBind", "ModelAppUnbind"} =>
                     p = q /\ ReadsOnly(OpcodeOf(m), p, Access!ParseModelApp(m.kind, p))
               /\ m.kind \in {"OnOffSet", "OnOffSetUnacknowledged"} =>
                     p = q /\ ReadsOnly(OpcodeOf(m), p, Access!ParseOnOffSet(p))
               /\ m.kind = "BatteryGet" => p = q /\ ReadsOnly(OpcodeOf(m), p, <<[kind |-> "BatteryGet"]>>)
<1> DEFINE p == EmitParameters(m)
           q == Access!EmitParameters(m)
           op == OpcodeOf(m)
           n == Code(op)
           kinds == {"BeaconGet", "BeaconSet", "DefaultTtlGet", "DefaultTtlSet", "NodeReset", "CompositionGet",
                     "ModelAppBind", "ModelAppUnbind", "OnOffSet", "OnOffSetUnacknowledged", "BatteryGet"}
<1>1. m.kind \in kinds => p = q /\ op = Access!OpcodeOf(m.kind)
  BY WhoseMessage
<1>2. /\ m.kind = "BeaconGet" => n = 32777
      /\ m.kind = "BeaconSet" => n = 32778
      /\ m.kind = "DefaultTtlGet" => n = 32780
      /\ m.kind = "DefaultTtlSet" => n = 32781
      /\ m.kind = "NodeReset" => n = 32841
      /\ m.kind = "CompositionGet" => n = 32776
  BY <1>1, AccessCodes
<1>3. /\ m.kind = "ModelAppBind" => n = 32829
      /\ m.kind = "ModelAppUnbind" => n = 32831
      /\ m.kind = "OnOffSet" => n = 33282
      /\ m.kind = "OnOffSetUnacknowledged" => n = 33283
      /\ m.kind = "BatteryGet" => n = 33315
  BY <1>1, AccessCodes
<1>4. m.kind \in kinds =>
         \/ m.kind \in {"OnOffSet", "OnOffSetUnacknowledged"} /\ n \in OnOffCodes
         \/ m.kind = "BatteryGet" /\ n \in BatteryCodes
         \/ m.kind \notin {"OnOffSet", "OnOffSetUnacknowledged", "BatteryGet"} /\ n \in ConfigurationCodes
  <2> HIDE DEF n
  <2> QED
    BY <1>2, <1>3 DEF ConfigurationCodes, OnOffCodes, BatteryCodes
<1>5. /\ n \in ConfigurationCodes => ReadsOnly(op, p, Access!ParseConfiguration(op, p))
      /\ n \in OnOffCodes => ReadsOnly(op, p, Access!ParseOnOff(op, p))
      /\ n \in BatteryCodes => ReadsOnly(op, p, Access!ParseBattery(op, p))
  BY ReadByCode
<1> HIDE DEF n, p, q, op
<1>6. /\ m.kind = "BeaconGet" => p = q /\ ReadsOnly(op, p, Access!ParseBeaconGet(p))
      /\ m.kind = "BeaconSet" => p = q /\ ReadsOnly(op, p, Access!ParseBeaconSet(p))
      /\ m.kind = "DefaultTtlGet" => p = q /\ ReadsOnly(op, p, Access!ParseDefaultTtlGet(p))
      /\ m.kind = "DefaultTtlSet" => p = q /\ ReadsOnly(op, p, Access!ParseDefaultTtlSet(p))
      /\ m.kind = "NodeReset" => p = q /\ ReadsOnly(op, p, Access!ParseNodeReset(p))
      /\ m.kind = "CompositionGet" => p = q /\ ReadsOnly(op, p, Access!ParseCompositionGet(p))
  BY ONLY <1>1, <1>4, <1>5, AccessParsers
<1>7. /\ m.kind = "ModelAppBind" => p = q /\ ReadsOnly(op, p, Access!ParseModelApp("ModelAppBind", p))
      /\ m.kind = "ModelAppUnbind" => p = q /\ ReadsOnly(op, p, Access!ParseModelApp("ModelAppUnbind", p))
      /\ m.kind = "OnOffSet" => p = q /\ ReadsOnly(op, p, Access!ParseOnOffSet(p))
      /\ m.kind = "OnOffSetUnacknowledged" => p = q /\ ReadsOnly(op, p, Access!ParseOnOffSet(p))
  BY ONLY <1>1, <1>4, <1>5, AccessParsers
<1>8. m.kind = "BatteryGet" => p = q /\ ReadsOnly(op, p, <<[kind |-> "BatteryGet"]>>)
  <2>1. Access!ParseBattery(Access!OpcodeOf("BatteryGet"), p) = <<[kind |-> "BatteryGet"]>>
    BY AccessParsers
  <2> DEFINE read == <<[kind |-> "BatteryGet"]>>
  <2> HIDE DEF read
  <2>2. Access!ParseBattery(Access!OpcodeOf("BatteryGet"), p) = read
    BY <2>1 DEF read
  <2>3. m.kind = "BatteryGet" => p = q /\ ReadsOnly(op, p, read)
    BY ONLY <1>1, <1>4, <1>5, <2>2
  <2> QED
    BY ONLY <2>3 DEF read
<1> QED
  BY ONLY <1>6, <1>7, <1>8 DEF p, q, op

(* Messages without fields, or with one.                                   *)
LEMMA SimpleRead ==
    ASSUME NEW m, m \in SimpleMessages PROVE MessageRead(m)
<1>1. m = [kind |-> m.kind] /\ m.kind \in {"BeaconGet", "DefaultTtlGet", "NodeReset", "BatteryGet"} /\ Kept(m)
  BY DEF SimpleMessages, Kept, Unread
<1>2. /\ m.kind = "BeaconGet" => Access!EmitParameters(m) = <<>>
      /\ m.kind = "DefaultTtlGet" => Access!EmitParameters(m) = <<>>
      /\ m.kind = "NodeReset" => Access!EmitParameters(m) = <<>>
  BY AccessParameters DEF Access!EmitBeacon, Access!EmitDefaultTtl, Access!EmitNodeReset
<1>3. /\ Access!ParseBeaconGet(<<>>) = <<[kind |-> "BeaconGet"]>>
      /\ Access!ParseDefaultTtlGet(<<>>) = <<[kind |-> "DefaultTtlGet"]>>
      /\ Access!ParseNodeReset(<<>>) = <<[kind |-> "NodeReset"]>>
  BY DEF Access!ParseBeaconGet, Access!ParseDefaultTtlGet, Access!ParseNodeReset, Access!Nullary
<1>4. \A kind : m.kind = kind => <<[kind |-> kind]>> = <<m>>
  BY <1>1
<1>5. CASE m.kind = "BeaconGet"
  <2>1. ReadsOnly(OpcodeOf(m), EmitParameters(m), <<[kind |-> "BeaconGet"]>>)
    BY <1>2, <1>3, <1>5, ReaderOfAccess
  <2>2. <<[kind |-> "BeaconGet"]>> = <<m>>
    BY <1>4, <1>5
  <2> QED
    BY <1>1, <2>1, <2>2, ReadOfMessage
<1>6. CASE m.kind = "DefaultTtlGet"
  <2>1. ReadsOnly(OpcodeOf(m), EmitParameters(m), <<[kind |-> "DefaultTtlGet"]>>)
    BY <1>2, <1>3, <1>6, ReaderOfAccess
  <2>2. <<[kind |-> "DefaultTtlGet"]>> = <<m>>
    BY <1>4, <1>6
  <2> QED
    BY <1>1, <2>1, <2>2, ReadOfMessage
<1>7. CASE m.kind = "NodeReset"
  <2>1. ReadsOnly(OpcodeOf(m), EmitParameters(m), <<[kind |-> "NodeReset"]>>)
    BY <1>2, <1>3, <1>7, ReaderOfAccess
  <2>2. <<[kind |-> "NodeReset"]>> = <<m>>
    BY <1>4, <1>7
  <2> QED
    BY <1>1, <2>1, <2>2, ReadOfMessage
<1>8. CASE m.kind = "BatteryGet"
  <2>1. ReadsOnly(OpcodeOf(m), EmitParameters(m), <<[kind |-> "BatteryGet"]>>)
    BY <1>8, ReaderOfAccess
  <2>2. <<[kind |-> "BatteryGet"]>> = <<m>>
    BY <1>4, <1>8
  <2> QED
    BY <1>1, <2>1, <2>2, ReadOfMessage
<1> QED
  BY <1>1, <1>5, <1>6, <1>7, <1>8

(* A switch, a time to live, a page.                                       *)
LEMMA OneFieldRead ==
    ASSUME NEW m, m \in Switches \cup TimesToLive \cup Pages PROVE MessageRead(m)
<1>0. Kept(m)
  BY DEF Switches, TimesToLive, Pages, Kept, Unread
<1>1. CASE m \in Switches
  <2>1. m.kind = "BeaconSet" /\ m.on \in BOOLEAN /\ m = [kind |-> "BeaconSet", on |-> m.on]
    BY <1>1 DEF Switches
  <2>2. Access!EmitParameters(m) = <<IF m.on THEN 1 ELSE 0>>
    BY <2>1, AccessParameters DEF Access!EmitBeacon
  <2>3. Access!ParseBeaconSet(<<IF m.on THEN 1 ELSE 0>>) = <<[kind |-> "BeaconSet", on |-> m.on]>>
    BY <2>1 DEF Access!ParseBeaconSet
  <2>4. Access!ParseBeaconSet(<<IF m.on THEN 1 ELSE 0>>) = <<m>>
    BY <2>1, <2>3
  <2>5. ReadsOnly(OpcodeOf(m), EmitParameters(m), <<m>>)
    BY <2>1, <2>2, <2>4, ReaderOfAccess
  <2> QED
    BY <1>0, <2>5, ReadOfMessage
<1>2. CASE m \in TimesToLive
  <2>1. m.kind = "DefaultTtlSet" /\ m = [kind |-> "DefaultTtlSet", ttl |-> m.ttl]
    BY <1>2 DEF TimesToLive
  <2>2. Access!EmitParameters(m) = <<m.ttl>>
    BY <2>1, AccessParameters DEF Access!EmitDefaultTtl
  <2>3. Access!ParseDefaultTtlSet(<<m.ttl>>) = <<[kind |-> "DefaultTtlSet", ttl |-> m.ttl]>>
    BY DEF Access!ParseDefaultTtlSet
  <2>4. Access!ParseDefaultTtlSet(<<m.ttl>>) = <<m>>
    BY <2>1, <2>3
  <2>5. ReadsOnly(OpcodeOf(m), EmitParameters(m), <<m>>)
    BY <2>1, <2>2, <2>4, ReaderOfAccess
  <2> QED
    BY <1>0, <2>5, ReadOfMessage
<1>3. CASE m \in Pages
  <2>1. m.kind = "CompositionGet" /\ m = [kind |-> "CompositionGet", page |-> m.page]
    BY <1>3 DEF Pages
  <2>2. Access!EmitParameters(m) = <<m.page>>
    BY <2>1, AccessParameters DEF Access!EmitCompositionMessage
  <2>3. Access!ParseCompositionGet(<<m.page>>) = <<[kind |-> "CompositionGet", page |-> m.page]>>
    BY DEF Access!ParseCompositionGet
  <2>4. Access!ParseCompositionGet(<<m.page>>) = <<m>>
    BY <2>1, <2>3
  <2>5. ReadsOnly(OpcodeOf(m), EmitParameters(m), <<m>>)
    BY <2>1, <2>2, <2>4, ReaderOfAccess
  <2> QED
    BY <1>0, <2>5, ReadOfMessage
<1> QED
  BY <1>1, <1>2, <1>3

(* No model reads a status, nor the Get of a model without a reader.       *)
LEMMA UnreadRead ==
    ASSUME NEW m, m.kind \in Unread PROVE MessageRead(m)
<1> DEFINE p == EmitParameters(m)
           op == OpcodeOf(m)
           n == Code(op)
           known == ConfigurationCodes \cup OnOffCodes \cup BatteryCodes \cup SensorCodesRead \cup SetupCodesRead
<1>1. ~ Kept(m)
  BY DEF Kept, Unread
<1>2. CASE m.kind = "OnOffSetUnacknowledged"
  <2>1. ReadsOnly(op, p, Access!ParseOnOffSet(p))
    BY <1>2, ReaderOfAccess
  <2>2. Access!ParseOnOffSet(p) # <<m>>
    <3>1. Access!ParseOnOffSet(p) = <<>> \/ \E r : r.kind = "OnOffSet" /\ Access!ParseOnOffSet(p) = <<r>>
      BY DEF Access!ParseOnOffSet
    <3>2. \A r : r.kind = "OnOffSet" => r # m
      BY <1>2
    <3> QED
      BY <3>1, <3>2
  <2> QED
    BY <1>1, <2>1, <2>2, ReadOfMessage
<1>3. CASE m.kind # "OnOffSetUnacknowledged"
  <2>1. m.kind \notin Sensor!Kinds =>
           /\ m.kind = "BeaconStatus" => n = 32779
           /\ m.kind = "DefaultTtlStatus" => n = 32782
           /\ m.kind = "NodeResetStatus" => n = 32842
           /\ m.kind = "CompositionStatus" => n = 2
           /\ m.kind = "AppKeyStatus" => n = 32771
           /\ m.kind = "AppKeyList" => n = 32770
           /\ m.kind = "ModelAppStatus" => n = 32830
           /\ m.kind = "PublicationStatus" => n = 32793
           /\ m.kind = "SubscriptionStatus" => n = 32799
    BY WhoseMessage, AccessCodes
  <2>2. m.kind \notin Sensor!Kinds =>
           /\ m.kind = "OnOffGet" => n = 33281
           /\ m.kind = "OnOffStatus" => n = 33284
           /\ m.kind = "BatteryStatus" => n = 33316
           /\ m.kind = "NetworkTransmitGet" => n = 32803
           /\ m.kind = "NetworkTransmitSet" => n = 32804
           /\ m.kind = "NetworkTransmitStatus" => n = 32805
    BY WhoseMessage, AccessCodes
  <2>3. m.kind \in Sensor!Kinds =>
           /\ m.kind = "DescriptorStatus" => n = 81
           /\ m.kind = "SensorStatus" => n = 82
           /\ m.kind = "ColumnStatus" => n = 83
           /\ m.kind = "SeriesStatus" => n = 84
           /\ m.kind = "CadenceStatus" => n = 87
           /\ m.kind = "SettingsStatus" => n = 88
           /\ m.kind = "SettingStatus" => n = 91
    BY WhoseMessage, SensorCodes
  <2> HIDE DEF n
  <2>4. n \in {32779, 32782, 32842, 2, 32771, 32770, 32830, 32793, 32799, 33281, 33284, 33316, 32803, 32804, 32805,
               81, 82, 83, 84, 87, 88, 91}
    <3>1. m.kind \notin Sensor!Kinds =>
            \/ m.kind \in {"BeaconStatus", "DefaultTtlStatus", "NodeResetStatus", "CompositionStatus", "AppKeyStatus",
                           "AppKeyList", "ModelAppStatus", "PublicationStatus", "SubscriptionStatus"}
            \/ m.kind \in {"OnOffGet", "OnOffStatus", "BatteryStatus", "NetworkTransmitGet", "NetworkTransmitSet",
                           "NetworkTransmitStatus"}
      BY <1>3, WhoseMessage DEF Unread
    <3>2. m.kind \in Sensor!Kinds =>
            m.kind \in {"DescriptorStatus", "SensorStatus", "ColumnStatus", "SeriesStatus", "CadenceStatus",
                        "SettingsStatus", "SettingStatus"}
      BY WhoseMessage DEF Unread
    <3> QED
      BY ONLY <2>1, <2>2, <2>3, <3>1, <3>2
  <2>5. n \notin known
    BY ONLY <2>4 DEF ConfigurationCodes, OnOffCodes, BatteryCodes, SensorCodesRead, SetupCodesRead
  <2>6. ReadsNothing(op, p)
    BY <2>5, ReadByCode DEF n
  <2> QED
    BY <1>1, <2>6 DEF ReadsNothing, MessageRead
<1> QED
  BY <1>2, <1>3

(* A field that is left out, or one octet.                                 *)
LEMMA OptionalOctet ==
    ASSUME NEW some \in Optional(Octet)
    PROVE  some = <<>> \/ \E t \in Octet : some = <<t>>
<1>1. some \in Seq(Octet) /\ Len(some) <= 1
  BY DEF Optional
<1>2. CASE some # <<>>
  <2>1. Len(some) >= 1 /\ some[1] \in Octet
    BY <1>1, <1>2
  <2>2. PICK t \in Octet : t = some[1]
    BY <2>1
  <2>3. PICK n \in Nat : n = 1
    OBVIOUS
  <2>4. IsString(some, n) /\ IsString(<<t>>, n) /\ \A k \in 1 .. n : some[k] = <<t>>[k]
    <3>1. IsString(some, n)
      BY <1>1, <2>1, <2>3 DEF IsString
    <3>2. IsString(<<t>>, n) /\ <<t>>[1] = t
      BY <2>3 DEF IsString
    <3>3. \A k \in 1 .. n : k = 1
      BY <2>3
    <3> QED
      BY <2>2, <3>1, <3>2, <3>3
  <2>5. some = <<t>>
    BY ONLY <2>3, <2>4, SameStrings
  <2> QED
    BY <2>5
<1> QED
  BY <1>2

(* The delay of a message comes back if there is a transition before it.   *)
LEMMA OnOffRead ==
    ASSUME NEW m, m \in OnOffs PROVE MessageRead(m)
<1> DEFINE p == Access!EmitParameters(m)
           read == [kind |-> "OnOffSet", on_off |-> p[1], tid |-> p[2],
                    transition |-> Access!Optional(p, 3), delay |-> Access!Optional(p, 4)]
           later == IF m.transition = <<>> THEN <<>> ELSE m.delay
<1>1. /\ m = [kind |-> "OnOffSet", on_off |-> m.on_off, tid |-> m.tid, transition |-> m.transition, delay |-> m.delay]
      /\ m.kind = "OnOffSet"
      /\ m.on_off \in Octet /\ m.tid \in Octet /\ m.transition \in Optional(Octet) /\ m.delay \in Optional(Octet)
  BY DEF OnOffs
<1>2. p = <<m.on_off, m.tid>> \o m.transition \o later
  <2>1. p = Access!EmitOnOffSet(m)
    BY <1>1, AccessParameters DEF Access!EmitOnOff
  <2> QED
    BY <2>1 DEF Access!EmitOnOffSet
<1>3. /\ \/ m.transition = <<>>
         \/ \E t \in Octet : m.transition = <<t>>
      /\ \/ m.delay = <<>>
         \/ \E d \in Octet : m.delay = <<d>>
  BY <1>1, OptionalOctet
<1>4. ASSUME m.transition = <<>> PROVE
      /\ Len(p) >= 2 /\ p[1] = m.on_off /\ p[2] = m.tid
      /\ Access!Optional(p, 3) = m.transition
      /\ Access!Optional(p, 4) = later
  <2>1. p = <<m.on_off, m.tid>>
    BY <1>1, <1>2, <1>4
  <2> HIDE DEF p
  <2> QED
    BY <1>4, <2>1 DEF Access!Optional
<1>5. ASSUME NEW t \in Octet, m.transition = <<t>> PROVE
      /\ Len(p) >= 2 /\ p[1] = m.on_off /\ p[2] = m.tid
      /\ Access!Optional(p, 3) = m.transition
      /\ Access!Optional(p, 4) = later
  <2>1. CASE m.delay = <<>>
    <3>1. Len(p) = 3 /\ p[1] = m.on_off /\ p[2] = m.tid /\ p[3] = t
      <4>1. later = <<>>
        BY <2>1
      <4>2. p = <<m.on_off, m.tid>> \o <<t>> \o <<>>
        BY ONLY <1>2, <1>5, <4>1, Zenon
      <4>3. \A a, b : LET q == <<a, b>> \o <<t>> \o <<>> IN Len(q) = 3 /\ q[1] = a /\ q[2] = b /\ q[3] = t
        OBVIOUS
      <4> QED
        BY ONLY <4>2, <4>3
    <3> HIDE DEF p
    <3> QED
      BY <1>5, <2>1, <3>1 DEF Access!Optional
  <2>2. ASSUME NEW d \in Octet, m.delay = <<d>> PROVE
      /\ Len(p) >= 2 /\ p[1] = m.on_off /\ p[2] = m.tid
      /\ Access!Optional(p, 3) = m.transition
      /\ Access!Optional(p, 4) = later
    <3>1. Len(p) = 4 /\ p[1] = m.on_off /\ p[2] = m.tid /\ p[3] = t /\ p[4] = d
      <4>1. <<t>> # <<>>
        OBVIOUS
      <4>2. later = <<d>>
        BY ONLY <1>5, <2>2, <4>1
      <4>3. p = <<m.on_off, m.tid>> \o <<t>> \o <<d>>
        BY ONLY <1>2, <1>5, <4>2, Zenon
      <4>4. \A a, b : LET q == <<a, b>> \o <<t>> \o <<d>>
                    IN  Len(q) = 4 /\ q[1] = a /\ q[2] = b /\ q[3] = t /\ q[4] = d
        OBVIOUS
      <4> QED
        BY ONLY <4>3, <4>4
    <3> HIDE DEF p
    <3> QED
      BY <1>5, <2>2, <3>1 DEF Access!Optional
  <2> QED
    BY <1>3, <2>1, <2>2
<1> HIDE DEF p
<1>6. /\ Len(p) >= 2 /\ p[1] = m.on_off /\ p[2] = m.tid
      /\ Access!Optional(p, 3) = m.transition
      /\ Access!Optional(p, 4) = later
  BY <1>3, <1>4, <1>5
<1>7. Access!ParseOnOffSet(p) = <<read>>
  BY <1>6 DEF Access!ParseOnOffSet
<1>8. read = m <=> later = m.delay
  BY <1>1, <1>6
<1>9. later = m.delay <=> Kept(m)
  BY <1>1 DEF Kept, Unread
<1>10. <<read>> = <<m>> <=> Kept(m)
  BY <1>8, <1>9
<1>11. ReadsOnly(OpcodeOf(m), EmitParameters(m), <<read>>)
  BY <1>1, <1>7, ReaderOfAccess DEF p
<1> QED
  BY <1>10, <1>11, ReadOfMessage

(* Of the index of a key that is bound eight bits come back.               *)
LEMMA IndexRead ==
    ASSUME NEW app \in Word, NEW s, s[1] = Access!EmitOne(app)[1], s[2] = Access!EmitOne(app)[2]
    PROVE  /\ Access!ParseOne(s) = app <=> app < 256
           /\ Access!EmitOne(app)[1] \in Octet /\ Access!EmitOne(app)[2] \in Octet
<1>1. PICK high \in Octet, low \in Octet : high = app \div 256 /\ low = app % 256 /\ 256 * high + low = app
  BY TwoOctets
<1>2. high \in Nat /\ high < 256 /\ low \in Nat /\ low < 256
  BY DEF Octet
<1>3. (16 * high) % 256 \in Octet /\ ((16 * high) % 256) % 16 = 0
  <2>1. (16 * high) % 256 = 16 * (high % 16) /\ high % 16 \in Nat /\ high % 16 < 16
    BY <1>2
  <2>2. PICK r \in Nat : r = high % 16 /\ r < 16
    BY <2>1
  <2>3. 16 * r \in Octet /\ (16 * r) % 16 = 0
    BY <2>2 DEF Octet
  <2> QED
    BY <2>1, <2>2, <2>3
<1>4. Access!EmitOne(app)[1] = low /\ Access!EmitOne(app)[2] = (16 * high) % 256
  BY <1>1 DEF Access!EmitOne
<1>5. Access!ParseOne(s) = low
  <2>1. s[1] = low /\ s[2] % 16 = 0
    BY <1>3, <1>4
  <2>2. Access!ParseOne(s) = 256 * 0 + low
    BY <2>1 DEF Access!ParseOne, Access!Number
  <2> QED
    BY <1>2, <2>2
<1>6. low = app <=> app < 256
  BY <1>1, <1>2
<1> QED
  BY <1>1, <1>3, <1>4, <1>5, <1>6

-----------------------------------------------------------------------------
(* Where a string is in another.                                           *)
Holds(p, n, t, k) == IsString(t, k) /\ n + k <= Len(p) /\ \A i \in 1 .. k : p[n + i] = t[i]

(* What is written last is held, and so is still what was written before.  *)
LEMMA HeldTogether ==
    ASSUME NEW n \in Nat, NEW s, IsString(s, n), NEW m \in Nat, NEW t, IsString(t, m)
    PROVE  /\ IsString(s \o t, n + m)
           /\ Holds(s \o t, n, t, m)
           /\ Holds(s \o t, 0, s, n)
           /\ \A u : \A i, k \in Nat : Holds(s, i, u, k) => Holds(s \o t, i, u, k)
<1> DEFINE r == s \o t
<1>1. s \in Seq(Octet) /\ t \in Seq(Octet) /\ Len(s) = n /\ Len(t) = m
  BY DEF IsString
<1>2. IsString(r, n + m) /\ Len(r) = n + m
  BY <1>1 DEF IsString
<1>3. \A i \in 1 .. n : r[i] = s[i]
  BY <1>1
<1>4. \A i \in 1 .. m : r[n + i] = t[i]
  BY <1>1
<1> HIDE DEF r
<1>5. Holds(r, n, t, m) /\ Holds(r, 0, s, n)
  BY <1>1, <1>2, <1>3, <1>4 DEF Holds
<1>6. ASSUME NEW i \in Nat, NEW k \in Nat, NEW u, Holds(s, i, u, k) PROVE Holds(r, i, u, k)
  <2>1. i + k <= n /\ \A j \in 1 .. k : s[i + j] = u[j]
    BY <1>1, <1>6 DEF Holds
  <2>2. \A j \in 1 .. k : i + j \in 1 .. n
    BY <2>1
  <2>3. \A j \in 1 .. k : r[i + j] = u[j]
    BY <1>3, <2>1, <2>2
  <2>4. i + k <= Len(r)
    BY <1>2, <2>1
  <2> QED
    BY <1>6, <2>3, <2>4 DEF Holds
<1> QED
  BY ONLY <1>2, <1>5, <1>6 DEF r

(* It is found there.                                                      *)
Found(p, i, j, t) == SubSeq(p, i, j) = t

(* A string that is held is the slice there.                               *)
LEMMA HeldSlice ==
    ASSUME NEW p, NEW n \in Nat, NEW t, NEW k \in Nat, NEW l \in Nat, IsString(p, l), Holds(p, n, t, k)
    PROVE  \A i, j \in Nat : i = n + 1 /\ j = n + k => Found(p, i, j, t)
<1>1. /\ p \in Seq(Octet) /\ t \in Seq(Octet) /\ Len(t) = k /\ n + k <= Len(p)
      /\ \A i \in 1 .. k : p[n + i] = t[i]
  BY DEF Holds, IsString
<1> SUFFICES ASSUME NEW i \in Nat, NEW j \in Nat, i = n + 1, j = n + k PROVE Found(p, i, j, t)
  OBVIOUS
<1>2. 1 <= i /\ j <= Len(p) /\ j + 1 = i + Len(t)
  BY <1>1
<1>3. \A h \in 1 .. Len(t) : p[i + h - 1] = t[h]
  <2> TAKE h \in 1 .. Len(t)
  <2>1. h \in 1 .. k /\ i + h - 1 = n + h
    BY <1>1
  <2> QED
    BY <1>1, <2>1
<1> QED
  BY <1>1, <1>2, <1>3, SliceOf DEF Found

(* Two octets, or one.                                                     *)
LEMMA HeldPair ==
    ASSUME NEW p, NEW n \in Nat, NEW a, NEW b, Holds(p, n, <<a, b>>, 2)
    PROVE  p[n + 1] = a /\ p[n + 2] = b /\ n + 2 <= Len(p)
<1>1. 1 \in 1 .. 2 /\ 2 \in 1 .. 2 /\ <<a, b>>[1] = a /\ <<a, b>>[2] = b
  OBVIOUS
<1> QED
  BY <1>1 DEF Holds

(* One octet that is held.                                                 *)
LEMMA HeldOctet ==
    ASSUME NEW p, NEW n \in Nat, NEW a, Holds(p, n, <<a>>, 1)
    PROVE  p[n + 1] = a
<1>1. 1 \in 1 .. 1 /\ <<a>>[1] = a
  OBVIOUS
<1> QED
  BY <1>1 DEF Holds

(* The identifier of a model comes back.                                   *)
LEMMA ModelReads ==
    ASSUME NEW model \in ModelIds
    PROVE  \E k \in {2, 4} : /\ IsString(Access!EmitModel(model), k)
                             /\ Access!IsModel(Access!EmitModel(model))
                             /\ Access!ParseModel(Access!EmitModel(model)) = model
<1> DEFINE q == Access!EmitModel(model)
<1>1. model \in Seq(Word) /\ (Len(model) = 1 \/ Len(model) = 2)
  BY DEF ModelIds, Id
<1>2. CASE Len(model) = 1
  <2>1. PICK id \in Word : id = model[1]
    BY <1>1, <1>2
  <2>2. PICK low \in Octet, high \in Octet : low = id % 256 /\ high = id \div 256 /\ 256 * high + low = id
    BY TwoOctets
  <2>3. q = <<low, high>>
    BY <1>2, <2>1, <2>2 DEF Access!EmitModel, Access!Little
  <2> HIDE DEF q
  <2>4. Len(q) = 2 /\ q[1] = low /\ q[2] = high
    BY <2>3
  <2>5. Access!ParseModel(q) = [i \in 1 .. 1 |-> Access!Number(q[2 * i], q[2 * i - 1])]
    BY <2>4 DEF Access!ParseModel
  <2>6. \A i \in 1 .. 1 : Access!Number(q[2 * i], q[2 * i - 1]) = model[i]
    BY <2>1, <2>2, <2>4 DEF Access!Number
  <2>7. model = [i \in 1 .. 1 |-> model[i]]
    BY <1>1, <1>2
  <2>8. Access!ParseModel(q) = model
    BY <2>5, <2>6, <2>7
  <2>9. IsString(q, 2) /\ Access!IsModel(q)
    BY <2>3, <2>4, Pair DEF Access!IsModel
  <2> QED
    BY <2>8, <2>9 DEF q
<1>3. CASE Len(model) = 2
  <2>1. PICK id \in Word, of \in Word : id = model[1] /\ of = model[2]
    BY <1>1, <1>3, SMTT(60)
  <2>2. PICK low \in Octet, high \in Octet : low = id % 256 /\ high = id \div 256 /\ 256 * high + low = id
    BY TwoOctets
  <2>3. PICK low2 \in Octet, high2 \in Octet : low2 = of % 256 /\ high2 = of \div 256 /\ 256 * high2 + low2 = of
    BY TwoOctets
  <2>4. Access!Little(id) = <<low, high>> /\ Access!Little(of) = <<low2, high2>>
    BY <2>2, <2>3 DEF Access!Little
  <2>5. q = <<low, high>> \o <<low2, high2>>
    <3>1. Len(model) # 1
      BY <1>3
    <3>2. q = Access!Little(id) \o Access!Little(of)
      BY ONLY <2>1, <3>1 DEF Access!EmitModel, q
    <3> QED
      BY ONLY <2>4, <3>2
  <2>6. Len(q) = 4 /\ q[1] = low /\ q[2] = high /\ q[3] = low2 /\ q[4] = high2 /\ q \in Seq(Octet)
    BY <2>5
  <2> HIDE DEF q
  <2>7. Access!ParseModel(q) = [i \in 1 .. 2 |-> Access!Number(q[2 * i], q[2 * i - 1])]
    BY <2>6 DEF Access!ParseModel
  <2>8. \A i \in 1 .. 2 : Access!Number(q[2 * i], q[2 * i - 1]) = model[i]
    <3>1. Access!Number(q[2 * 1], q[2 * 1 - 1]) = model[1] /\ Access!Number(q[2 * 2], q[2 * 2 - 1]) = model[2]
      BY <2>1, <2>2, <2>3, <2>6 DEF Access!Number
    <3>2. \A i \in 1 .. 2 : i = 1 \/ i = 2
      OBVIOUS
    <3> QED
      BY <3>1, <3>2
  <2>9. model = [i \in 1 .. 2 |-> model[i]]
    BY <1>1, <1>3
  <2>10. Access!ParseModel(q) = model
    BY <2>7, <2>8, <2>9
  <2>11. IsString(q, 4) /\ Access!IsModel(q)
    BY <2>6 DEF Access!IsModel, IsString
  <2> QED
    BY <2>10, <2>11 DEF q
<1> QED
  BY <1>1, <1>2, <1>3

(* What is left of the index of a key, and the model, of a message that    *)
(* binds them.                                                             *)
LEMMA BindRead ==
    ASSUME NEW m, m \in Binds PROVE MessageRead(m)
<1> DEFINE l == Access!Little(m.element)
           one == Access!EmitOne(m.app)
           q == Access!EmitModel(m.model)
           p == l \o one \o q
           slice == Access!Slice(p, 3, 4)
           read == [kind |-> m.kind, element |-> Access!Number(p[2], p[1]), app |-> Access!ParseOne(slice),
                    model |-> Access!ParseModel(Access!From(p, 5))]
<1>1. /\ m = [kind |-> m.kind, element |-> m.element, app |-> m.app, model |-> m.model]
      /\ m.kind \in {"ModelAppBind", "ModelAppUnbind"}
      /\ m.element \in Word /\ Access!IsUnicast(m.element) /\ m.app \in Word /\ m.model \in ModelIds
  BY DEF Binds, Unicast, Index
<1>2. Access!EmitParameters(m) = p
  BY <1>1, AccessParameters, Zenon DEF Access!EmitModelAppMessage, Access!EmitModelApp
<1>3. PICK a \in Octet, b \in Octet : a = m.element % 256 /\ b = m.element \div 256 /\ 256 * b + a = m.element
  BY <1>1, TwoOctets
<1>4. l = <<a, b>>
  BY <1>3 DEF Access!Little
<1>5. PICK c \in Octet, d \in Octet : c = one[1] /\ d = one[2]
  BY <1>1, IndexRead
<1>6. one = <<c, d>>
  BY <1>5 DEF Access!EmitOne
<1>7. PICK k \in {2, 4} : IsString(q, k) /\ Access!IsModel(q) /\ Access!ParseModel(q) = m.model
  BY <1>1, ModelReads
<1>8. /\ IsString(p, k + 4)
      /\ Holds(p, 0, l, 2) /\ Holds(p, 2, one, 2) /\ Holds(p, 4, q, k)
  <2> HIDE DEF l, one, q, p
  <2>1. IsString(l, 2) /\ IsString(one, 2)
    BY <1>4, <1>6, Pair
  <2>2. PICK two \in Nat, four \in Nat, n \in Nat, zero \in Nat : two = 2 /\ four = 4 /\ n = k + 4 /\ zero = 0
    BY <1>7
  <2>3. IsString(l, two) /\ IsString(one, two) /\ IsString(q, k) /\ k \in Nat
    BY <1>7, <2>1, <2>2
  <2>4. IsString(l \o one, two + two) /\ Holds(l \o one, 0, l, two) /\ Holds(l \o one, two, one, two)
    BY ONLY <2>3, HeldTogether
  <2>5. two + two = four /\ four + k = n
    BY ONLY <1>7, <2>2
  <2>6. IsString(l \o one, four) /\ Holds(l \o one, zero, l, two) /\ Holds(l \o one, two, one, two)
    BY ONLY <2>2, <2>4, <2>5
  <2> DEFINE h == l \o one
  <2> HIDE DEF h
  <2>7. IsString(h, four) /\ Holds(h, zero, l, two) /\ Holds(h, two, one, two)
    BY ONLY <2>6 DEF h
  <2>8. /\ IsString(h \o q, four + k) /\ Holds(h \o q, four, q, k)
        /\ Holds(h \o q, zero, l, two) /\ Holds(h \o q, two, one, two)
    BY ONLY <2>3, <2>7, HeldTogether
  <2>9. p = h \o q
    BY ONLY DEF p, h
  <2>10. IsString(p, n) /\ Holds(p, zero, l, two) /\ Holds(p, two, one, two) /\ Holds(p, four, q, k)
    BY ONLY <2>5, <2>8, <2>9
  <2> QED
    BY ONLY <2>2, <2>10
<1> HIDE DEF p, q, l, one
<1>9. p[1] = a /\ p[2] = b
  BY <1>4, <1>8, HeldPair
<1>10. Access!Number(p[2], p[1]) = m.element
  BY <1>3, <1>9 DEF Access!Number
<1>11. slice = one
  <2>1. PICK two \in Nat, n \in Nat, i \in Nat, j \in Nat : two = 2 /\ n = k + 4 /\ i = 3 /\ j = 4
    BY <1>7
  <2>2. i = two + 1 /\ j = two + two
    BY ONLY <2>1
  <2>3. IsString(p, n) /\ Holds(p, two, one, two)
    BY ONLY <1>8, <2>1
  <2>4. Found(p, i, j, one)
    BY ONLY <1>7, <2>1, <2>2, <2>3, HeldSlice
  <2> QED
    BY ONLY <2>1, <2>4 DEF Access!Slice, Found, slice
<1>12. Access!From(p, 5) = q /\ Len(p) >= 6
  <2>1. PICK four \in Nat, n \in Nat, i \in Nat : four = 4 /\ n = k + 4 /\ i = 5
    BY <1>7
  <2>2. i = four + 1 /\ n = four + k /\ k \in Nat
    BY ONLY <1>7, <2>1
  <2>3. IsString(p, n) /\ Holds(p, four, q, k)
    BY ONLY <1>8, <2>1
  <2>4. Found(p, i, n, q)
    BY ONLY <1>7, <2>1, <2>2, <2>3, HeldSlice
  <2>5. Len(p) = n
    BY ONLY <2>3, LengthOf
  <2>6. n >= 6
    BY ONLY <1>7, <2>1
  <2> QED
    BY ONLY <2>1, <2>4, <2>5, <2>6 DEF Access!From, Found
<1>13. Access!ParseModelApp(m.kind, p) = <<read>>
  BY <1>1, <1>7, <1>10, <1>12 DEF Access!ParseModelApp
<1>14. read = m <=> m.app < 256
  <2>1. Access!ParseOne(slice) = m.app <=> m.app < 256
    BY <1>1, <1>11, IndexRead DEF one
  <2>2. read = [kind |-> m.kind, element |-> m.element, app |-> Access!ParseOne(slice), model |-> m.model]
    BY ONLY <1>7, <1>10, <1>12
  <2> HIDE DEF read, slice
  <2> QED
    BY ONLY <1>1, <2>1, <2>2
<1>15. Kept(m) <=> m.app < 256
  BY <1>1 DEF Kept, Unread
<1> HIDE DEF read
<1>16. <<read>> = <<m>> <=> Kept(m)
  BY ONLY <1>14, <1>15
<1>17. ReadsOnly(OpcodeOf(m), EmitParameters(m), <<read>>)
  BY <1>1, <1>2, <1>13, ReaderOfAccess
<1> QED
  BY <1>16, <1>17, ReadOfMessage

(* The sensors have opcodes of their own.                                  *)
LEMMA OwnPanics ==
    ASSUME NEW kind \in Sensor!Kinds, NEW p, ~ Sensor!Panics(kind, p)
    PROVE  ~ SensorPanics(Sensor!OpcodeOf(kind), p)
<1>1. \A a, b \in Sensor!Kinds : Code(Sensor!OpcodeOf(a)) = Code(Sensor!OpcodeOf(b)) => a = b
  BY SensorCodes, SensorTables DEF Sensor!Kinds
<1>2. \A a \in Sensor!Kinds : Sensor!OpcodeOf(a) = Sensor!OpcodeOf(kind) => a = kind
  BY <1>1
<1> QED
  BY <1>2 DEF SensorPanics

(* Which reader it is.                                                     *)
LEMMA ReaderOfSensor ==
    ASSUME NEW m, m.kind \in Sensor!Kinds, ~ Sensor!Panics(m.kind, Sensor!EmitParameters(m))
    PROVE  LET p == Sensor!EmitParameters(m)
           IN  /\ m.kind = "DescriptorGet" =>
                     ReadsOnly(OpcodeOf(m), EmitParameters(m), Sensor!ParseOptional("DescriptorGet", p))
               /\ m.kind = "SensorGet" =>
                     ReadsOnly(OpcodeOf(m), EmitParameters(m), Sensor!ParseOptional("SensorGet", p))
               /\ m.kind = "ColumnGet" => ReadsOnly(OpcodeOf(m), EmitParameters(m), Sensor!ParseColumnGet(p))
               /\ m.kind = "SeriesGet" => ReadsOnly(OpcodeOf(m), EmitParameters(m), Sensor!ParseSeriesGet(p))
               /\ m.kind = "CadenceGet" =>
                     ReadsOnly(OpcodeOf(m), EmitParameters(m), Sensor!ParseProperty("CadenceGet", p))
               /\ m.kind = "SettingsGet" =>
                     ReadsOnly(OpcodeOf(m), EmitParameters(m), Sensor!ParseProperty("SettingsGet", p))
               /\ m.kind = "SettingGet" => ReadsOnly(OpcodeOf(m), EmitParameters(m), Sensor!ParseSettingGet(p))
               /\ m.kind \in {"CadenceSet", "CadenceSetUnacknowledged"} =>
                     ReadsOnly(OpcodeOf(m), EmitParameters(m), Sensor!ParseCadenceSet(m.kind, p))
               /\ m.kind \in {"SettingSet", "SettingSetUnacknowledged"} =>
                     ReadsOnly(OpcodeOf(m), EmitParameters(m), Sensor!ParseSettingSet(m.kind, p))
<1> DEFINE p == Sensor!EmitParameters(m)
           op == OpcodeOf(m)
           n == Code(op)
<1>1. EmitParameters(m) = p /\ op = Sensor!OpcodeOf(m.kind)
  BY WhoseMessage
<1>2. ~ SensorPanics(op, p)
  BY <1>1, OwnPanics
<1>3. /\ m.kind = "DescriptorGet" => n = 33328
      /\ m.kind = "SensorGet" => n = 33329
      /\ m.kind = "ColumnGet" => n = 33330
      /\ m.kind = "SeriesGet" => n = 33331
  BY <1>1, SensorCodes
<1>4. /\ m.kind = "CadenceGet" => n = 33332
      /\ m.kind = "CadenceSet" => n = 85
      /\ m.kind = "CadenceSetUnacknowledged" => n = 86
      /\ m.kind = "SettingsGet" => n = 33333
      /\ m.kind = "SettingGet" => n = 33334
      /\ m.kind = "SettingSet" => n = 89
      /\ m.kind = "SettingSetUnacknowledged" => n = 90
  BY <1>1, SensorCodes
<1>5. /\ n \in SensorCodesRead => ReadsOnly(op, p, Sensor!Parse(op, p))
      /\ n \in SetupCodesRead => ReadsOnly(op, p, Sensor!ParseSetup(op, p))
  BY <1>2, ReadByCode
<1> HIDE DEF n, p, op
<1>6. m.kind \in {"DescriptorGet", "SensorGet", "ColumnGet", "SeriesGet"} => n \in SensorCodesRead
  BY <1>3 DEF SensorCodesRead
<1>7. m.kind \in {"CadenceGet", "CadenceSet", "CadenceSetUnacknowledged", "SettingsGet", "SettingGet", "SettingSet",
                  "SettingSetUnacknowledged"} => n \in SetupCodesRead
  BY <1>4 DEF SetupCodesRead
<1>8. /\ m.kind = "DescriptorGet" => ReadsOnly(op, p, Sensor!ParseOptional("DescriptorGet", p))
      /\ m.kind = "SensorGet" => ReadsOnly(op, p, Sensor!ParseOptional("SensorGet", p))
      /\ m.kind = "ColumnGet" => ReadsOnly(op, p, Sensor!ParseColumnGet(p))
      /\ m.kind = "SeriesGet" => ReadsOnly(op, p, Sensor!ParseSeriesGet(p))
  BY ONLY <1>1, <1>5, <1>6, SensorParsers
<1>9. /\ m.kind = "CadenceGet" => ReadsOnly(op, p, Sensor!ParseProperty("CadenceGet", p))
      /\ m.kind = "SettingsGet" => ReadsOnly(op, p, Sensor!ParseProperty("SettingsGet", p))
      /\ m.kind = "SettingGet" => ReadsOnly(op, p, Sensor!ParseSettingGet(p))
  BY ONLY <1>1, <1>5, <1>7, SensorParsers
<1>10. /\ m.kind \in {"CadenceSet", "CadenceSetUnacknowledged"} => ReadsOnly(op, p, Sensor!ParseCadenceSet(m.kind, p))
       /\ m.kind \in {"SettingSet", "SettingSetUnacknowledged"} => ReadsOnly(op, p, Sensor!ParseSettingSet(m.kind, p))
  BY ONLY <1>1, <1>5, <1>7, SensorParsers
<1> QED
  BY ONLY <1>1, <1>8, <1>9, <1>10 DEF p, op

-----------------------------------------------------------------------------

(* Sequences are equal element by element.                                 *)
LEMMA SameSequences ==
    ASSUME NEW S, NEW n \in Nat, NEW s \in Seq(S), Len(s) = n, NEW t \in Seq(S), Len(t) = n,
           \A k \in 1 .. n : s[k] = t[k]
    PROVE  s = t
OBVIOUS

(* A field that is left out, or one identifier.                            *)
LEMMA OptionalId ==
    ASSUME NEW some \in Optional(Id)
    PROVE  some = <<>> \/ \E t \in Word : some = <<t>>
<1>1. some \in Seq(Word) /\ Len(some) <= 1
  BY DEF Optional, Id
<1>2. CASE some # <<>>
  <2>1. Len(some) >= 1 /\ Len(some) \in Nat
    BY <1>1, <1>2
  <2>2. PICK n \in Nat : n = 1
    OBVIOUS
  <2>3. Len(some) = n /\ \A k \in 1 .. n : k = 1
    <3>1. PICK l \in Nat : l = Len(some)
      BY <2>1
    <3>2. l <= 1 /\ l >= 1
      BY ONLY <1>1, <2>1, <3>1
    <3>3. l = n /\ \A k \in 1 .. n : k = 1
      BY ONLY <2>2, <3>1, <3>2
    <3> QED
      BY ONLY <3>1, <3>3
  <2>4. some[1] \in Word
    BY <1>1, <2>1
  <2>5. PICK t \in Word : t = some[1]
    BY <2>4
  <2>6. <<t>> \in Seq(Word) /\ Len(<<t>>) = n /\ <<t>>[1] = t
    BY <2>2
  <2>7. \A k \in 1 .. n : some[k] = <<t>>[k]
    BY <2>3, <2>5, <2>6
  <2>8. some = <<t>>
    BY ONLY <1>1, <2>3, <2>6, <2>7, SameSequences
  <2> QED
    BY <2>8
<1> QED
  BY <1>2

(* The identifier of a property comes back.                                *)
LEMMA PropertyOctets ==
    ASSUME NEW id \in Word
    PROVE  IsString(Sensor!Little(id), 2)
<1>1. PICK a \in Octet, b \in Octet : a = id % 256 /\ b = id \div 256
  BY TwoOctets
<1>2. Sensor!Little(id) = <<a, b>>
  BY <1>1 DEF Sensor!Little
<1> QED
  BY <1>2, Pair

(* ... wherever it is held.                                                *)
LEMMA PropertyReads ==
    ASSUME NEW id \in Word, NEW n \in Nat, NEW p, p \in Seq(Octet), Holds(p, n, Sensor!Little(id), 2)
    PROVE  \A i \in Nat : i = n + 1 => Sensor!PropertyAt(p, i) = id /\ Sensor!HasProperty(p, i)
<1>1. PICK a \in Octet, b \in Octet : a = id % 256 /\ b = id \div 256 /\ 256 * b + a = id
  BY TwoOctets
<1>2. Sensor!Little(id) = <<a, b>>
  BY <1>1 DEF Sensor!Little
<1>3. p[n + 1] = a /\ p[n + 2] = b /\ n + 2 <= Len(p)
  BY <1>2, HeldPair
<1> SUFFICES ASSUME NEW i \in Nat, i = n + 1 PROVE Sensor!PropertyAt(p, i) = id /\ Sensor!HasProperty(p, i)
  OBVIOUS
<1>4. i + 1 = n + 2
  OBVIOUS
<1>5. p[i] = a /\ p[i + 1] = b /\ i + 1 <= Len(p)
  BY <1>3, <1>4
<1>6. a + 256 * b = id
  BY <1>1
<1>7. Sensor!PropertyAt(p, i) = id
  BY <1>5, <1>6 DEF Sensor!PropertyAt
<1>8. PICK l \in Nat : l = Len(p)
  OBVIOUS
<1>9. l >= i + 1
  BY <1>5, <1>8
<1> QED
  BY <1>7, <1>8, <1>9 DEF Sensor!HasProperty

(* A string holds itself.                                                  *)
LEMMA HeldWhole ==
    ASSUME NEW n \in Nat, NEW p, IsString(p, n)
    PROVE  \A zero \in Nat : zero = 0 => Holds(p, zero, p, n)
BY DEF Holds, IsString

(* How many octets are asked for.                                          *)
LEMMA NeedsTwo ==
    ASSUME NEW kind \in {"DescriptorGet", "SensorGet", "CadenceGet", "SettingsGet", "SettingGet"}, NEW p
    PROVE  Sensor!Needs(kind, p) = 2
BY DEF Sensor!Needs

(* A message that is no more than its property.                            *)
LEMMA PropertyRead ==
    ASSUME NEW kind, NEW id \in Word
    PROVE  LET p == Sensor!Little(id)
           IN  /\ Sensor!ParseOptional(kind, p) = <<[kind |-> kind, only |-> <<id>>]>>
               /\ Sensor!ParseProperty(kind, p) = <<[kind |-> kind, id |-> id]>>
               /\ Len(p) = 2
<1> DEFINE p == Sensor!Little(id)
<1>1. IsString(p, 2)
  BY PropertyOctets
<1>2. PICK two \in Nat, zero \in Nat, one \in Nat : two = 2 /\ zero = 0 /\ one = 1
  OBVIOUS
<1>3. IsString(p, two) /\ p \in Seq(Octet)
  BY <1>1, <1>2 DEF IsString
<1>4. Holds(p, zero, p, two)
  BY ONLY <1>2, <1>3, HeldWhole
<1>5. Holds(p, zero, Sensor!Little(id), 2)
  BY ONLY <1>2, <1>4 DEF p
<1>6. one = zero + 1
  BY ONLY <1>2
<1>7. Sensor!PropertyAt(p, one) = id /\ Sensor!HasProperty(p, one)
  BY ONLY <1>2, <1>3, <1>5, <1>6, PropertyReads
<1>8. Len(p) = 2
  BY ONLY <1>2, <1>3, LengthOf, Zenon
<1>9. p # <<>>
  BY <1>8 DEF Sensor!Little
<1> HIDE DEF p
<1>10. Sensor!PropertyAt(p, 1) = id /\ Sensor!HasProperty(p, 1)
  BY ONLY <1>2, <1>7
<1>11. /\ Sensor!ParseOptional(kind, p) = <<[kind |-> kind, only |-> <<id>>]>>
       /\ Sensor!ParseProperty(kind, p) = <<[kind |-> kind, id |-> id]>>
  BY <1>9, <1>10 DEF Sensor!ParseOptional, Sensor!ParseProperty
<1> QED
  BY <1>8, <1>11 DEF p

(* Questions about all properties or about one, and about what is kept of  *)
(* one.                                                                    *)
LEMMA IdentifiedRead ==
    ASSUME NEW m, m \in Identified PROVE MessageRead(m)
<1> DEFINE p == Sensor!EmitParameters(m)
<1>1. m = [kind |-> m.kind, id |-> m.id] /\ m.kind \in {"CadenceGet", "SettingsGet"} /\ m.id \in Word
  BY DEF Identified, Id
<1>2. p = Sensor!Little(m.id)
  BY <1>1, SensorParameters DEF Sensor!EmitProperty
<1>3. Sensor!ParseProperty(m.kind, p) = <<m>> /\ Len(p) = 2
  <2>1. Sensor!ParseProperty(m.kind, p) = <<[kind |-> m.kind, id |-> m.id]>> /\ Len(p) = 2
    BY <1>1, <1>2, PropertyRead
  <2> QED
    BY <1>1, <2>1
<1>4. ~ Sensor!Panics(m.kind, p)
  BY <1>1, <1>3, NeedsTwo DEF Sensor!Panics
<1>5. m.kind \in Sensor!Kinds
  BY <1>1, WhoseMessage
<1> HIDE DEF p
<1>6. ReadsOnly(OpcodeOf(m), EmitParameters(m), Sensor!ParseProperty(m.kind, p))
  <2>1. m.kind = "CadenceGet" => ReadsOnly(OpcodeOf(m), EmitParameters(m), Sensor!ParseProperty("CadenceGet", p))
    BY <1>4, <1>5, ReaderOfSensor DEF p
  <2>2. m.kind = "SettingsGet" => ReadsOnly(OpcodeOf(m), EmitParameters(m), Sensor!ParseProperty("SettingsGet", p))
    BY <1>4, <1>5, ReaderOfSensor DEF p
  <2> QED
    BY <1>1, <2>1, <2>2
<1>7. Kept(m)
  BY <1>1 DEF Kept, Unread
<1> QED
  BY <1>3, <1>6, <1>7, ReadOfMessage

(* A question about all properties, or about one.                          *)
LEMMA QuestionRead ==
    ASSUME NEW m, m \in Questions PROVE MessageRead(m)
<1> DEFINE p == Sensor!EmitParameters(m)
<1>1. m = [kind |-> m.kind, only |-> m.only] /\ m.kind \in {"DescriptorGet", "SensorGet"} /\ m.only \in Optional(Id)
  BY DEF Questions
<1>2. p = IF m.only = <<>> THEN <<>> ELSE Sensor!Little(m.only[1])
  BY <1>1, SensorParameters DEF Sensor!EmitOptional
<1>3. Sensor!ParseOptional(m.kind, p) = <<m>> /\ ~ Sensor!Panics(m.kind, p)
  <2>1. CASE m.only = <<>>
    <3>1. p = <<>>
      BY <1>2, <2>1
    <3>2. Sensor!ParseOptional(m.kind, p) = <<[kind |-> m.kind, only |-> <<>>]>>
      BY <3>1 DEF Sensor!ParseOptional
    <3>3. ~ Sensor!HasProperty(p, 1)
      BY <3>1 DEF Sensor!HasProperty
    <3> QED
      BY <1>1, <2>1, <3>2, <3>3 DEF Sensor!Panics
  <2>2. ASSUME NEW id \in Word, m.only = <<id>>
        PROVE  Sensor!ParseOptional(m.kind, p) = <<m>> /\ ~ Sensor!Panics(m.kind, p)
    <3>1. m.only # <<>> /\ m.only[1] = id
      BY <2>2
    <3>2. p = Sensor!Little(id)
      BY <1>2, <3>1
    <3>3. Sensor!ParseOptional(m.kind, p) = <<[kind |-> m.kind, only |-> <<id>>]>> /\ Len(p) = 2
      BY <3>2, PropertyRead
    <3>4. ~ Sensor!Panics(m.kind, p)
      BY <1>1, <3>3, NeedsTwo DEF Sensor!Panics
    <3>5. m = [kind |-> m.kind, only |-> <<id>>]
      BY ONLY <1>1, <2>2
    <3>6. <<m>> = <<[kind |-> m.kind, only |-> <<id>>]>>
      BY ONLY <3>5
    <3> QED
      BY ONLY <3>3, <3>4, <3>6
  <2> QED
    BY <1>1, <2>1, <2>2, OptionalId
<1>4. m.kind \in Sensor!Kinds
  BY <1>1, WhoseMessage
<1> HIDE DEF p
<1>5. ReadsOnly(OpcodeOf(m), EmitParameters(m), Sensor!ParseOptional(m.kind, p))
  <2>1. m.kind = "DescriptorGet" => ReadsOnly(OpcodeOf(m), EmitParameters(m), Sensor!ParseOptional("DescriptorGet", p))
    BY <1>3, <1>4, ReaderOfSensor DEF p
  <2>2. m.kind = "SensorGet" => ReadsOnly(OpcodeOf(m), EmitParameters(m), Sensor!ParseOptional("SensorGet", p))
    BY <1>3, <1>4, ReaderOfSensor DEF p
  <2> QED
    BY <1>1, <2>1, <2>2
<1>6. Kept(m)
  BY <1>1 DEF Kept, Unread
<1> QED
  BY <1>3, <1>5, <1>6, ReadOfMessage

-----------------------------------------------------------------------------

(* What a held string holds is held.                                       *)
LEMMA HeldInside ==
    ASSUME NEW p, NEW n \in Nat, NEW r, NEW l \in Nat, Holds(p, n, r, l), NEW i \in Nat, NEW u, NEW k \in Nat,
           Holds(r, i, u, k)
    PROVE  \A j \in Nat : j = n + i => Holds(p, j, u, k)
<1> SUFFICES ASSUME NEW j \in Nat, j = n + i PROVE Holds(p, j, u, k)
  OBVIOUS
<1>1. /\ n + l <= Len(p) /\ \A h \in 1 .. l : p[n + h] = r[h]
      /\ IsString(u, k) /\ i + k <= Len(r) /\ \A h \in 1 .. k : r[i + h] = u[h]
      /\ Len(r) = l
  BY LengthOf DEF Holds
<1>2. \A h \in 1 .. k : i + h \in 1 .. l /\ j + h = n + (i + h)
  BY <1>1
<1>3. \A h \in 1 .. k : p[j + h] = u[h]
  BY <1>1, <1>2
<1>4. j + k <= Len(p)
  <2>1. i + k <= l
    BY ONLY <1>1
  <2>2. j + k <= n + l
    BY <2>1
  <2>3. PICK z : z = Len(p)
    BY Zenon
  <2>4. n + l <= z
    BY ONLY <1>1, <2>3
  <2> QED
    BY <1>1, <2>2
<1> QED
  BY <1>1, <1>3, <1>4 DEF Holds

(* What a message of a property begins with.                               *)
LEMMA Headed ==
    ASSUME NEW id \in Word, NEW k \in Nat, NEW r, IsString(r, k), NEW p, p = Sensor!Little(id) \o r
    PROVE  /\ Sensor!PropertyAt(p, 1) = id /\ Sensor!HasProperty(p, 1)
           /\ IsString(p, 2 + k) /\ Holds(p, 2, r, k) /\ Found(p, 3, 2 + k, r)
<1>1. PICK zero \in Nat, one \in Nat, two \in Nat, three \in Nat, n \in Nat :
         zero = 0 /\ one = 1 /\ two = 2 /\ three = 3 /\ n = 2 + k
  OBVIOUS
<1>2. IsString(Sensor!Little(id), two)
  BY ONLY <1>1, PropertyOctets
<1> DEFINE l == Sensor!Little(id)
<1> HIDE DEF l
<1>3. IsString(l, two) /\ p = l \o r
  BY <1>2 DEF l
<1>4. IsString(p, two + k) /\ Holds(p, two, r, k) /\ Holds(p, 0, l, two)
  BY ONLY <1>1, <1>3, IsString(r, k), k \in Nat, HeldTogether
<1>5. two + k = n /\ three = two + 1 /\ n = two + k /\ one = zero + 1
  BY ONLY <1>1
<1>6. IsString(p, n) /\ Holds(p, zero, Sensor!Little(id), 2) /\ p \in Seq(Octet)
  BY ONLY <1>1, <1>4, <1>5 DEF l, IsString
<1>7. Sensor!PropertyAt(p, one) = id /\ Sensor!HasProperty(p, one)
  BY ONLY <1>1, <1>5, <1>6, id \in Word, PropertyReads
<1>8. Found(p, three, n, r)
  BY ONLY <1>1, <1>4, <1>5, <1>6, k \in Nat, HeldSlice
<1> QED
  BY ONLY <1>1, <1>4, <1>6, <1>7, <1>8

(* The raw value of a column comes back.                                   *)
LEMMA ColumnRead ==
    ASSUME NEW m, IsColumn(m) PROVE MessageRead(m)
<1> DEFINE p == Sensor!EmitParameters(m)
<1>1. m = [kind |-> m.kind, id |-> m.id, x |-> m.x] /\ m.kind = "ColumnGet" /\ m.id \in Word /\ m.x \in Seq(Octet)
  BY DEF IsColumn, Columns, Id
<1>2. Sensor!Lookup(m.id) # {} /\ Len(m.x) = XSize(m.id)
  BY DEF IsColumn
<1>3. PICK k \in Nat : k = Len(m.x)
  BY <1>1
<1>4. IsString(m.x, k)
  BY <1>1, <1>3, StringOf
<1>5. p = Sensor!Little(m.id) \o m.x
  BY <1>1, SensorParameters, Zenon DEF Sensor!EmitColumnGet
<1> HIDE DEF p
<1>6. /\ Sensor!PropertyAt(p, 1) = m.id /\ Sensor!HasProperty(p, 1)
      /\ IsString(p, 2 + k) /\ Found(p, 3, 2 + k, m.x)
  BY <1>1, <1>4, <1>5, Headed, Zenon
<1>7. Sensor!The(Sensor!Lookup(m.id)).x_size = k
  BY <1>2, <1>3 DEF XSize
<1>8. SubSeq(p, 3, 2 + Sensor!The(Sensor!Lookup(m.id)).x_size) = m.x
  BY ONLY <1>6, <1>7 DEF Found
<1>9. Sensor!ParseColumnGet(p) = <<m>>
  <2> DEFINE read == [kind |-> "ColumnGet", id |-> m.id, x |-> m.x]
  <2>1. Sensor!ParseColumnGet(p) = <<read>>
    BY ONLY <1>2, <1>6, <1>8, Zenon DEF Sensor!ParseColumnGet
  <2>2. read = m
    BY ONLY <1>1
  <2> HIDE DEF read
  <2> QED
    BY ONLY <2>1, <2>2
<1>10. ~ Sensor!Panics(m.kind, p)
  <2>1. Sensor!Needs("ColumnGet", p) = 2 + Sensor!The(Sensor!Lookup(m.id)).x_size
    BY <1>2, <1>6 DEF Sensor!Needs
  <2>2. Sensor!Needs("ColumnGet", p) = 2 + k
    BY ONLY <1>7, <2>1
  <2>3. Len(p) >= 2 + k /\ Len(p) \in Nat
    BY <1>6 DEF IsString
  <2> QED
    BY <1>1, <2>2, <2>3 DEF Sensor!Panics
<1>11. m.kind \in Sensor!Kinds
  BY <1>1, WhoseMessage
<1>12. ReadsOnly(OpcodeOf(m), EmitParameters(m), Sensor!ParseColumnGet(p))
  BY <1>1, <1>10, <1>11, ReaderOfSensor DEF p
<1>13. Kept(m)
  BY <1>1 DEF Kept, Unread
<1> QED
  BY <1>9, <1>12, <1>13, ReadOfMessage

(* The parameters of a message of a property, a setting and octets.        *)
HasTwo(p, id, setting, r) == p = Sensor!Little(id) \o Sensor!Little(setting) \o r

(* A message of a property and a setting, and what follows them.           *)
LEMMA TwoHeaded ==
    ASSUME NEW id \in Word, NEW setting \in Word, NEW k \in Nat, NEW r, IsString(r, k),
           NEW p, HasTwo(p, id, setting, r)
    PROVE  /\ Sensor!PropertyAt(p, 1) = id /\ Sensor!PropertyAt(p, 3) = setting
           /\ Sensor!HasProperty(p, 1) /\ Sensor!HasProperty(p, 3)
           /\ IsString(p, 4 + k) /\ Found(p, 5, 4 + k, r)
<1>1. PICK zero \in Nat, one \in Nat, two \in Nat, three \in Nat, four \in Nat, five \in Nat, n \in Nat :
         zero = 0 /\ one = 1 /\ two = 2 /\ three = 3 /\ four = 4 /\ five = 5 /\ n = 4 + k
  OBVIOUS
<1>2. IsString(Sensor!Little(id), two) /\ IsString(Sensor!Little(setting), two)
  BY ONLY <1>1, PropertyOctets, id \in Word, setting \in Word
<1> DEFINE l == Sensor!Little(id)
           s == Sensor!Little(setting)
           h == l \o s
<1> HIDE DEF l, s
<1>3. IsString(l, two) /\ IsString(s, two) /\ p = h \o r
  BY <1>2 DEF l, s, h, HasTwo
<1>4. IsString(h, two + two) /\ Holds(h, two, s, two) /\ Holds(h, 0, l, two)
  BY ONLY <1>1, <1>3, HeldTogether
<1> HIDE DEF h
<1>5. two + two = four /\ four + k = n /\ five = four + 1 /\ n = four + k /\ one = zero + 1 /\ three = two + 1
  BY ONLY <1>1
<1>6. IsString(h, four) /\ Holds(h, two, s, two) /\ Holds(h, zero, l, two)
  BY ONLY <1>1, <1>4, <1>5
<1>7. IsString(p, four + k) /\ Holds(p, four, r, k) /\ Holds(p, two, s, two) /\ Holds(p, zero, l, two)
  BY ONLY <1>1, <1>3, <1>6, IsString(r, k), k \in Nat, HeldTogether
<1>8. /\ IsString(p, n) /\ Holds(p, zero, Sensor!Little(id), 2) /\ Holds(p, two, Sensor!Little(setting), 2)
      /\ p \in Seq(Octet)
  BY ONLY <1>1, <1>5, <1>7 DEF l, s, IsString
<1>9. /\ Sensor!PropertyAt(p, one) = id /\ Sensor!HasProperty(p, one)
      /\ Sensor!PropertyAt(p, three) = setting /\ Sensor!HasProperty(p, three)
  BY ONLY <1>1, <1>5, <1>8, id \in Word, setting \in Word, PropertyReads
<1>10. Found(p, five, n, r)
  BY ONLY <1>1, <1>5, <1>7, <1>8, k \in Nat, HeldSlice
<1> QED
  BY ONLY <1>1, <1>8, <1>9, <1>10

(* The raw value of a setting comes back.                                  *)
LEMMA SettingRead ==
    ASSUME NEW m, IsSetting(m) PROVE MessageRead(m)
<1> DEFINE p == Sensor!EmitParameters(m)
<1>1. /\ m = [kind |-> m.kind, id |-> m.id, setting |-> m.setting, raw |-> m.raw]
      /\ m.kind \in {"SettingSet", "SettingSetUnacknowledged"}
      /\ m.id \in Word /\ m.setting \in Word /\ m.raw \in Seq(Octet)
  BY DEF IsSetting, SettingSets, Id
<1>2. Sensor!LookupSetting(m.id, m.setting) # {} /\ Len(m.raw) = SettingSize(m.id, m.setting)
  BY DEF IsSetting
<1>3. PICK k \in Nat : k = Len(m.raw)
  BY <1>1
<1>4. IsString(m.raw, k)
  BY <1>1, <1>3, StringOf
<1>5. HasTwo(p, m.id, m.setting, m.raw)
  BY <1>1, SensorParameters, Zenon DEF Sensor!EmitSettingSet, HasTwo
<1> HIDE DEF p
<1>6. /\ Sensor!PropertyAt(p, 1) = m.id /\ Sensor!PropertyAt(p, 3) = m.setting
      /\ Sensor!HasProperty(p, 1) /\ Sensor!HasProperty(p, 3)
      /\ IsString(p, 4 + k) /\ Found(p, 5, 4 + k, m.raw)
  BY <1>1, <1>4, <1>5, TwoHeaded
<1>7. Sensor!The(Sensor!LookupSetting(m.id, m.setting)).size = k
  BY <1>2, <1>3 DEF SettingSize
<1>8. SubSeq(p, 5, 4 + Sensor!The(Sensor!LookupSetting(m.id, m.setting)).size) = m.raw
  BY ONLY <1>6, <1>7 DEF Found
<1>9. Sensor!ParseSettingSet(m.kind, p) = <<m>>
  <2> DEFINE read == [kind |-> m.kind, id |-> m.id, setting |-> m.setting, raw |-> m.raw]
  <2>1. Sensor!ParseSettingSet(m.kind, p) = <<read>>
    BY ONLY <1>2, <1>6, <1>8, Zenon DEF Sensor!ParseSettingSet
  <2>2. read = m
    BY ONLY <1>1
  <2> HIDE DEF read
  <2> QED
    BY ONLY <2>1, <2>2
<1>10. ~ Sensor!Panics(m.kind, p)
  <2>1. Sensor!Needs(m.kind, p) = 4 + Sensor!The(Sensor!LookupSetting(m.id, m.setting)).size
    BY <1>1, <1>2, <1>6 DEF Sensor!Needs
  <2>2. Sensor!Needs(m.kind, p) = 4 + k
    BY ONLY <1>7, <2>1
  <2>3. Len(p) >= 4 + k /\ Len(p) \in Nat
    BY <1>6 DEF IsString
  <2> QED
    BY <1>1, <2>2, <2>3 DEF Sensor!Panics
<1>11. m.kind \in Sensor!Kinds
  BY <1>1, WhoseMessage
<1>12. ReadsOnly(OpcodeOf(m), EmitParameters(m), Sensor!ParseSettingSet(m.kind, p))
  BY <1>1, <1>10, <1>11, ReaderOfSensor DEF p
<1>13. Kept(m)
  BY <1>1 DEF Kept, Unread
<1> QED
  BY <1>9, <1>12, <1>13, ReadOfMessage

(* A question about a setting comes back.                                  *)
LEMMA SettingGetRead ==
    ASSUME NEW m, m \in SettingGets PROVE MessageRead(m)
<1> DEFINE p == Sensor!EmitParameters(m)
<1>1. /\ m = [kind |-> m.kind, id |-> m.id, setting |-> m.setting] /\ m.kind = "SettingGet"
      /\ m.id \in Word /\ m.setting \in Word
  BY DEF SettingGets, Id
<1>2. PICK none : none = <<>>
  OBVIOUS
<1>3. PICK k \in Nat : k = 0
  OBVIOUS
<1>4. IsString(none, k)
  BY <1>2, <1>3 DEF IsString
<1>5. HasTwo(p, m.id, m.setting, none)
  <2>1. p = Sensor!Little(m.id) \o Sensor!Little(m.setting)
    BY <1>1, SensorParameters, Zenon DEF Sensor!EmitSettingGet
  <2> DEFINE h == Sensor!Little(m.id) \o Sensor!Little(m.setting)
  <2>2. IsString(Sensor!Little(m.id), 2) /\ IsString(Sensor!Little(m.setting), 2)
    BY <1>1, PropertyOctets
  <2>3. h \in Seq(Octet)
    BY <2>2 DEF IsString
  <2> HIDE DEF h
  <2>4. h \o none = h
    BY <1>2, <2>3
  <2>5. p = h
    BY ONLY <2>1 DEF h
  <2> QED
    BY ONLY <2>4, <2>5 DEF h, HasTwo
<1> HIDE DEF p
<1>6. /\ Sensor!PropertyAt(p, 1) = m.id /\ Sensor!PropertyAt(p, 3) = m.setting
      /\ Sensor!HasProperty(p, 1) /\ Sensor!HasProperty(p, 3)
      /\ IsString(p, 4 + k)
  BY <1>1, <1>4, <1>5, TwoHeaded
<1>7. Sensor!ParseSettingGet(p) = <<m>>
  <2> DEFINE read == [kind |-> "SettingGet", id |-> m.id, setting |-> m.setting]
  <2>1. Sensor!ParseSettingGet(p) = <<read>>
    BY ONLY <1>6 DEF Sensor!ParseSettingGet
  <2>2. read = m
    BY ONLY <1>1
  <2> HIDE DEF read
  <2> QED
    BY ONLY <2>1, <2>2
<1>8. ~ Sensor!Panics(m.kind, p)
  <2>1. Sensor!Needs(m.kind, p) = 2
    BY <1>1, NeedsTwo
  <2>2. Len(p) >= 4 + k /\ Len(p) \in Nat
    BY <1>6 DEF IsString
  <2> QED
    BY <2>1, <2>2 DEF Sensor!Panics
<1>9. m.kind \in Sensor!Kinds
  BY <1>1, WhoseMessage
<1>10. ReadsOnly(OpcodeOf(m), EmitParameters(m), Sensor!ParseSettingGet(p))
  BY <1>1, <1>8, <1>9, ReaderOfSensor DEF p
<1>11. Kept(m)
  BY <1>1 DEF Kept, Unread
<1> QED
  BY <1>7, <1>10, <1>11, ReadOfMessage

-----------------------------------------------------------------------------
(* A question about a series comes back, with its bounds if it has them.   *)
LEMMA SeriesRead ==
    ASSUME NEW m, IsSeries(m) PROVE MessageRead(m)
<1> DEFINE p == Sensor!EmitParameters(m)
<1>1. /\ m = [kind |-> m.kind, id |-> m.id, values |-> m.values] /\ m.kind = "SeriesGet" /\ m.id \in Word
      /\ m.values \in Seq(Seq(Octet)) /\ (Len(m.values) = 0 \/ Len(m.values) = 2)
  BY DEF IsSeries, Series, Id
<1>2. p = Sensor!Little(m.id) \o IF m.values = <<>> THEN <<>> ELSE m.values[1] \o m.values[2]
  BY <1>1, SensorParameters, Zenon DEF Sensor!EmitSeriesGet
<1>3. CASE m.values = <<>>
  <2>1. PICK none : none = <<>>
    OBVIOUS
  <2>2. PICK k \in Nat : k = 0
    OBVIOUS
  <2>3. IsString(none, k)
    BY <2>1, <2>2 DEF IsString
  <2>4. p = Sensor!Little(m.id) \o none
    BY ONLY <1>2, <1>3, <2>1
  <2> HIDE DEF p
  <2>5. /\ Sensor!PropertyAt(p, 1) = m.id /\ Sensor!HasProperty(p, 1)
        /\ IsString(p, 2 + k)
    BY <1>1, <2>3, <2>4, Headed, Zenon
  <2>6. Len(p) = 2
    <3>1. PICK two \in Nat : two = 2
      OBVIOUS
    <3>2. 2 + k = two
      BY <2>2, <3>1
    <3>3. IsString(p, two)
      BY ONLY <2>5, <3>2
    <3> QED
      BY ONLY <3>1, <3>3, LengthOf, Zenon
  <2>7. Sensor!ParseSeriesGet(p) = <<[kind |-> "SeriesGet", id |-> m.id, values |-> <<>>]>>
    BY ONLY <2>5, <2>6 DEF Sensor!ParseSeriesGet
  <2>8. Sensor!Needs("SeriesGet", p) = 2
    BY <2>6 DEF Sensor!Needs
  <2>9. ~ Sensor!Panics(m.kind, p)
    BY <1>1, <2>6, <2>8 DEF Sensor!Panics
  <2>10. [kind |-> "SeriesGet", id |-> m.id, values |-> <<>>] = m
    BY ONLY <1>1, <1>3
  <2>11. Sensor!ParseSeriesGet(p) = <<m>>
    BY ONLY <2>7, <2>10
  <2>12. m.kind \in Sensor!Kinds
    BY <1>1, WhoseMessage
  <2>13. ReadsOnly(OpcodeOf(m), EmitParameters(m), Sensor!ParseSeriesGet(p))
    BY <1>1, <2>9, <2>12, ReaderOfSensor DEF p
  <2>14. Kept(m)
    BY <1>1 DEF Kept, Unread
  <2> QED
    BY <2>11, <2>13, <2>14, ReadOfMessage
<1>4. CASE m.values # <<>>
  <2> DEFINE a == m.values[1]
             b == m.values[2]
             r == a \o b
  <2>1. /\ Sensor!Lookup(m.id) # {} /\ XSize(m.id) > 0
        /\ Len(a) = XSize(m.id) /\ Len(b) = XSize(m.id)
    BY <1>4 DEF IsSeries
  <2>2. Len(m.values) = 2
    BY <1>1, <1>4
  <2>3. a \in Seq(Octet) /\ b \in Seq(Octet)
    BY <1>1, <2>2
  <2>4. PICK s \in Nat : s = Len(a)
    BY <2>3
  <2>5. p = Sensor!Little(m.id) \o r
    BY ONLY <1>2, <1>4, Zenon
  <2>6. m.values = <<a, b>>
    <3>1. PICK two \in Nat : two = 2
      OBVIOUS
    <3>2. Len(m.values) = two /\ Len(<<a, b>>) = two /\ <<a, b>> \in Seq(Seq(Octet))
      BY <2>2, <2>3, <3>1
    <3>3. <<a, b>>[1] = m.values[1] /\ <<a, b>>[2] = m.values[2]
      OBVIOUS
    <3>4. \A k \in 1 .. two : k = 1 \/ k = 2
      BY <3>1
    <3>5. \A k \in 1 .. two : m.values[k] = <<a, b>>[k]
      BY <3>3, <3>4
    <3> QED
      BY ONLY <1>1, <3>1, <3>2, <3>5, SameSequences
  <2> HIDE DEF a, b
  <2>7. IsString(a, s) /\ IsString(b, s) /\ s > 0
    BY <2>1, <2>3, <2>4, StringOf
  <2>8. PICK zero \in Nat, two \in Nat, three \in Nat, end \in Nat, next \in Nat, last \in Nat, double \in Nat :
           /\ zero = 0 /\ two = 2 /\ three = 3 /\ end = 2 + s /\ next = 3 + s /\ last = 2 + 2 * s /\ double = s + s
    BY ONLY s \in Nat
  <2>9. IsString(r, s + s) /\ Holds(r, 0, a, s) /\ Holds(r, s, b, s)
    BY ONLY <2>4, <2>7, HeldTogether, Zenon
  <2> HIDE DEF r, p
  <2>10. IsString(r, double) /\ Holds(r, zero, a, s) /\ Holds(r, s, b, s)
    BY ONLY <2>8, <2>9
  <2>11. /\ Sensor!PropertyAt(p, 1) = m.id /\ Sensor!HasProperty(p, 1)
         /\ IsString(p, 2 + double) /\ Holds(p, 2, r, double)
    BY ONLY <1>1, <2>5, <2>8, <2>10, Headed, Zenon
  <2>12. two = two + zero /\ end = two + s /\ three = two + 1 /\ next = end + 1 /\ last = end + s /\ 2 + double = last
    BY ONLY <2>4, <2>8
  <2>13. IsString(p, last) /\ Holds(p, two, r, double)
    BY ONLY <2>8, <2>11, <2>12
  <2>14. Holds(p, two, a, s) /\ Holds(p, end, b, s)
    BY ONLY <2>4, <2>8, <2>10, <2>12, <2>13, HeldInside, Zenon
  <2>15. Found(p, three, end, a) /\ Found(p, next, last, b)
    BY ONLY <2>4, <2>8, <2>12, <2>13, <2>14, HeldSlice
  <2>16. Sensor!The(Sensor!Lookup(m.id)).x_size = s
    BY ONLY <2>1, <2>4 DEF XSize
  <2>17. Len(p) = last /\ last > 2
    <3>1. Len(p) = last
      BY ONLY <2>8, <2>13, LengthOf
    <3> QED
      BY ONLY <2>4, <2>7, <2>8, <3>1
  <2>18. SubSeq(p, 3, 2 + s) = a /\ SubSeq(p, 3 + s, 2 + 2 * s) = b
    BY ONLY <2>8, <2>15 DEF Found
  <2>19. Sensor!ParseSeriesGet(p) = <<[kind |-> "SeriesGet", id |-> m.id, values |-> <<a, b>>]>>
    <3>1. Len(p) # 2
      BY ONLY <2>8, <2>17
    <3>2. Sensor!ParseSeriesGet(p) =
             <<[kind |-> "SeriesGet", id |-> m.id,
                values |-> <<SubSeq(p, 3, 2 + s), SubSeq(p, 3 + s, 2 + 2 * s)>>]>>
      BY ONLY <2>1, <2>11, <2>16, <3>1, Zenon DEF Sensor!ParseSeriesGet
    <3> QED
      BY ONLY <2>18, <3>2, Zenon
  <2>20. [kind |-> "SeriesGet", id |-> m.id, values |-> <<a, b>>] = m
    BY ONLY <1>1, <2>6
  <2>21. Sensor!ParseSeriesGet(p) = <<m>>
    BY ONLY <2>19, <2>20
  <2>22. ~ Sensor!Panics(m.kind, p)
    <3>1. Sensor!Needs("SeriesGet", p) = 2 + 2 * Sensor!The(Sensor!Lookup(m.id)).x_size
      <4>1. Len(p) > 2
        BY ONLY <2>17
      <4> QED
        BY <2>1, <2>11, <4>1, Zenon DEF Sensor!Needs
    <3>2. Sensor!Needs("SeriesGet", p) = last
      BY ONLY <2>8, <2>16, <3>1
    <3>3. ~ (last < last)
      BY ONLY <2>8
    <3> QED
      BY ONLY <1>1, <2>17, <3>2, <3>3 DEF Sensor!Panics
  <2>23. m.kind \in Sensor!Kinds
    BY <1>1, WhoseMessage
  <2>24. ReadsOnly(OpcodeOf(m), EmitParameters(m), Sensor!ParseSeriesGet(p))
    BY <1>1, <2>22, <2>23, ReaderOfSensor DEF p
  <2>25. Kept(m)
    BY <1>1 DEF Kept, Unread
  <2> QED
    BY <2>21, <2>24, <2>25, ReadOfMessage
<1> QED
  BY <1>3, <1>4

-----------------------------------------------------------------------------
(* A divisor is doubled as it is sent, which is undone of two of them.     *)
LEMMA ShiftReads ==
    ASSUME NEW d \in 0 .. 127, NEW f \in {0, 1}, NEW o, o = ((2 * d) % 256) + f
    PROVE  /\ o \in Octet
           /\ o % 2 = 1 <=> f = 1
           /\ 8 * ((o % 128) \div 8) + (o % 4) = d <=> (d = 0 /\ f = 0) \/ (d = 3 /\ f = 1)
<1>1. PICK a \in Nat, b \in Nat, c \in Nat : a < 2 /\ b < 16 /\ c < 4 /\ d = 64 * a + 4 * b + c
  <2> DEFINE a == d \div 64
             e == d % 64
             b == e \div 4
             c == e % 4
  <2>1. a \in Nat /\ a < 2 /\ e \in Nat /\ e < 64 /\ d = 64 * a + e
    OBVIOUS
  <2> HIDE DEF a, e
  <2>2. b \in Nat /\ b < 16 /\ c \in Nat /\ c < 4 /\ e = 4 * b + c
    BY <2>1
  <2> HIDE DEF b, c
  <2> QED
    BY <2>1, <2>2
<1>2. o = 2 * d + f
  <2>1. (2 * d) % 256 = 2 * d
    OBVIOUS
  <2> QED
    BY <2>1
<1>3. PICK e \in Nat : e = 2 * c + f /\ e < 8
  BY <1>1
<1>4. o = 128 * a + (8 * b + e) /\ 8 * b + e < 128 /\ 8 * b + e \in Nat
  BY <1>1, <1>2, <1>3
<1>5. o % 128 = 8 * b + e
  BY <1>1, <1>3, <1>4
<1>6. (8 * b + e) \div 8 = b
  BY <1>1, <1>3
<1>7. o % 4 = e % 4
  <2>1. o = 4 * (32 * a + 2 * b) + e
    BY <1>1, <1>3, <1>4
  <2>2. PICK h \in Nat : h = 32 * a + 2 * b
    BY <1>1
  <2>3. (4 * h + e) % 4 = e % 4
    BY <1>3, <2>2
  <2> QED
    BY <2>1, <2>2, <2>3
<1>8. o \in Octet
  BY <1>2 DEF Octet
<1>9. o % 2 = 1 <=> f = 1
  BY <1>2
<1>10. 8 * ((o % 128) \div 8) + (o % 4) = 8 * b + (e % 4)
  BY <1>5, <1>6, <1>7
<1>11. 8 * b + (e % 4) = d <=> (d = 0 /\ f = 0) \/ (d = 3 /\ f = 1)
  <2>1. PICK g \in Nat : g = e % 4 /\ g < 4 /\ (e = g \/ e = g + 4)
    BY <1>3
  <2> QED
    BY <1>1, <1>3, <2>1
<1> QED
  BY <1>8, <1>9, <1>10, <1>11

(* Where the values of a cadence are.                                      *)
IsCadenceOf(p, id, o, s, down, up, interval, low, high) ==
    /\ p = Sensor!Little(id) \o <<o>> \o down \o up \o <<interval>> \o low \o high
    /\ IsString(down, s) /\ IsString(up, s) /\ IsString(low, s) /\ IsString(high, s)
CadenceFound(p, id, o, s, down, up, interval, low, high) ==
    /\ Sensor!PropertyAt(p, 1) = id /\ Sensor!HasProperty(p, 1)
    /\ IsString(p, 4 + 4 * s) /\ p[3] = o /\ p[4 + 2 * s] = interval
    /\ Found(p, 4, 3 + s, down) /\ Found(p, 4 + s, 3 + 2 * s, up)
    /\ Found(p, 5 + 2 * s, 4 + 3 * s, low) /\ Found(p, 5 + 3 * s, 4 + 4 * s, high)

(* All that parse reads of a cadence is where emit_parameters has put it.  *)
LEMMA CadenceHolds ==
    ASSUME NEW p, NEW id \in Word, NEW o \in Octet, NEW s \in Nat, NEW down, NEW up, NEW interval \in Octet,
           NEW low, NEW high, IsCadenceOf(p, id, o, s, down, up, interval, low, high)
    PROVE  CadenceFound(p, id, o, s, down, up, interval, low, high)
<1> DEFINE l == Sensor!Little(id)
           x == <<o>>
           y == <<interval>>
           h1 == l \o x
           h2 == h1 \o down
           h3 == h2 \o up
           h4 == h3 \o y
           h5 == h4 \o low
<1>1. p = h5 \o high
  BY DEF IsCadenceOf
<1>2. IsString(down, s) /\ IsString(up, s) /\ IsString(low, s) /\ IsString(high, s)
  BY DEF IsCadenceOf
<1>3. PICK zero \in Nat, one \in Nat, two \in Nat, three \in Nat, four \in Nat, n2 \in Nat, n3 \in Nat, n4 \in Nat,
           n5 \in Nat, n6 \in Nat, m2 \in Nat, m4 \in Nat, m5 \in Nat :
         /\ zero = 0 /\ one = 1 /\ two = 2 /\ three = 3 /\ four = 4
         /\ n2 = 3 + s /\ n3 = 3 + 2 * s /\ n4 = 4 + 2 * s /\ n5 = 4 + 3 * s /\ n6 = 4 + 4 * s
         /\ m2 = 4 + s /\ m4 = 5 + 2 * s /\ m5 = 5 + 3 * s
  OBVIOUS
<1>4. /\ two + one = three /\ three + s = n2 /\ n2 + s = n3 /\ n3 + one = n4 /\ n4 + s = n5 /\ n5 + s = n6
      /\ one = zero + 1 /\ four = three + 1 /\ m2 = n2 + 1 /\ m4 = n4 + 1 /\ m5 = n5 + 1
  BY ONLY <1>3, s \in Nat
<1>5. IsString(l, two) /\ IsString(x, one) /\ IsString(y, one)
  <2>1. IsString(l, two)
    BY ONLY <1>3, PropertyOctets, id \in Word
  <2>2. IsString(x, one) /\ IsString(y, one)
    BY <1>3 DEF IsString
  <2> QED
    BY <2>1, <2>2
<1> HIDE DEF l, x, y
<1>6. IsString(h1, two + one) /\ Holds(h1, two, x, one) /\ Holds(h1, 0, l, two)
  BY ONLY <1>3, <1>5, HeldTogether
<1> HIDE DEF h1
<1>7. IsString(h1, three) /\ Holds(h1, two, x, one) /\ Holds(h1, zero, l, two)
  BY ONLY <1>3, <1>4, <1>6
<1>8. IsString(h2, three + s) /\ Holds(h2, three, down, s) /\ Holds(h2, two, x, one) /\ Holds(h2, zero, l, two)
  BY ONLY <1>2, <1>3, <1>7, s \in Nat, HeldTogether
<1> HIDE DEF h2
<1>9. IsString(h2, n2) /\ Holds(h2, three, down, s) /\ Holds(h2, two, x, one) /\ Holds(h2, zero, l, two)
  BY ONLY <1>4, <1>8
<1>10. /\ IsString(h3, n2 + s) /\ Holds(h3, n2, up, s)
       /\ Holds(h3, three, down, s) /\ Holds(h3, two, x, one) /\ Holds(h3, zero, l, two)
  BY ONLY <1>2, <1>3, <1>9, s \in Nat, HeldTogether
<1> HIDE DEF h3
<1>11. /\ IsString(h3, n3) /\ Holds(h3, n2, up, s)
       /\ Holds(h3, three, down, s) /\ Holds(h3, two, x, one) /\ Holds(h3, zero, l, two)
  BY ONLY <1>4, <1>10
<1>12. /\ IsString(h4, n3 + one) /\ Holds(h4, n3, y, one) /\ Holds(h4, n2, up, s)
       /\ Holds(h4, three, down, s) /\ Holds(h4, two, x, one) /\ Holds(h4, zero, l, two)
  BY ONLY <1>3, <1>5, <1>11, s \in Nat, HeldTogether
<1> HIDE DEF h4
<1>13. /\ IsString(h4, n4) /\ Holds(h4, n3, y, one) /\ Holds(h4, n2, up, s)
       /\ Holds(h4, three, down, s) /\ Holds(h4, two, x, one) /\ Holds(h4, zero, l, two)
  BY ONLY <1>4, <1>12
<1>14. /\ IsString(h5, n4 + s) /\ Holds(h5, n4, low, s) /\ Holds(h5, n3, y, one) /\ Holds(h5, n2, up, s)
       /\ Holds(h5, three, down, s) /\ Holds(h5, two, x, one) /\ Holds(h5, zero, l, two)
  BY ONLY <1>2, <1>3, <1>13, s \in Nat, HeldTogether
<1> HIDE DEF h5
<1>15. /\ IsString(h5, n5) /\ Holds(h5, n4, low, s) /\ Holds(h5, n3, y, one) /\ Holds(h5, n2, up, s)
       /\ Holds(h5, three, down, s) /\ Holds(h5, two, x, one) /\ Holds(h5, zero, l, two)
  BY ONLY <1>4, <1>14
<1>16. /\ IsString(p, n5 + s) /\ Holds(p, n5, high, s) /\ Holds(p, n4, low, s) /\ Holds(p, n3, y, one)
       /\ Holds(p, n2, up, s) /\ Holds(p, three, down, s) /\ Holds(p, two, x, one) /\ Holds(p, zero, l, two)
  BY ONLY <1>1, <1>2, <1>3, <1>15, s \in Nat, HeldTogether
<1>17. /\ IsString(p, n6) /\ Holds(p, n5, high, s) /\ Holds(p, n4, low, s) /\ Holds(p, n3, y, one)
       /\ Holds(p, n2, up, s) /\ Holds(p, three, down, s) /\ Holds(p, two, x, one) /\ Holds(p, zero, l, two)
       /\ p \in Seq(Octet)
  BY ONLY <1>4, <1>16 DEF IsString
<1>18. Sensor!PropertyAt(p, one) = id /\ Sensor!HasProperty(p, one)
  <2>1. Holds(p, zero, Sensor!Little(id), 2)
    BY ONLY <1>3, <1>17 DEF l
  <2> QED
    BY ONLY <1>3, <1>4, <1>17, <2>1, id \in Word, PropertyReads
<1>19. Found(p, four, n2, down) /\ Found(p, m2, n3, up)
  BY ONLY <1>3, <1>4, <1>17, s \in Nat, HeldSlice
<1>20. Found(p, m4, n5, low) /\ Found(p, m5, n6, high)
  BY ONLY <1>3, <1>4, <1>17, s \in Nat, HeldSlice
<1>21. p[two + 1] = o /\ p[n3 + 1] = interval
  <2>1. Holds(p, two, <<o>>, 1) /\ Holds(p, n3, <<interval>>, 1)
    BY ONLY <1>3, <1>17 DEF x, y
  <2> QED
    BY ONLY <1>3, <2>1, HeldOctet
<1>22. p[3] = o /\ p[4 + 2 * s] = interval
  <2>1. two + 1 = 3 /\ n3 + 1 = 4 + 2 * s
    BY ONLY <1>3, s \in Nat
  <2> QED
    BY ONLY <1>21, <2>1
<1> QED
  BY ONLY <1>3, <1>17, <1>18, <1>19, <1>20, <1>22 DEF CadenceFound

-----------------------------------------------------------------------------
(* A cadence comes back exactly with one of the divisors that do.          *)
LEMMA CadenceRead ==
    ASSUME NEW m, IsCadence(m) PROVE MessageRead(m)
<1> DEFINE p == Sensor!EmitParameters(m)
           f == Sensor!Flag(m.unitless)
           o == ((2 * m.divisor) % 256) + f
           back == 8 * ((o % 128) \div 8) + (o % 4)
           read == [kind |-> m.kind, id |-> m.id, divisor |-> back, unitless |-> o % 2 = 1, down |-> m.down,
                    up |-> m.up, interval |-> m.interval, low |-> m.low, high |-> m.high]
<1>1. /\ m = [kind |-> m.kind, id |-> m.id, divisor |-> m.divisor, unitless |-> m.unitless, down |-> m.down,
              up |-> m.up, interval |-> m.interval, low |-> m.low, high |-> m.high]
      /\ m.kind \in {"CadenceSet", "CadenceSetUnacknowledged"}
      /\ m.id \in Word /\ m.divisor \in 0 .. 127 /\ m.unitless \in BOOLEAN /\ m.interval \in Octet
      /\ m.down \in Seq(Octet) /\ m.up \in Seq(Octet) /\ m.low \in Seq(Octet) /\ m.high \in Seq(Octet)
  BY DEF IsCadence, Cadences, Id
<1>2. /\ Sensor!LookupCadence(m.id) # {}
      /\ Len(m.down) = CadenceSize(m.id) /\ Len(m.up) = CadenceSize(m.id)
      /\ Len(m.low) = CadenceSize(m.id) /\ Len(m.high) = CadenceSize(m.id)
  BY DEF IsCadence
<1>3. PICK s \in Nat : s = Len(m.down)
  BY <1>1, SMTT(60)
<1>4. IsString(m.down, s) /\ IsString(m.up, s) /\ IsString(m.low, s) /\ IsString(m.high, s)
  <2>1. Len(m.up) = s /\ Len(m.low) = s /\ Len(m.high) = s
    BY ONLY <1>2, <1>3
  <2> QED
    BY ONLY <1>1, <1>3, <2>1, StringOf
<1>5. f \in {0, 1} /\ (f = 1 <=> m.unitless)
  BY <1>1 DEF Sensor!Flag
<1>6. p = Sensor!Little(m.id) \o <<o>> \o m.down \o m.up \o <<m.interval>> \o m.low \o m.high
  BY <1>1, SensorParameters, Zenon DEF Sensor!EmitCadence
<1>7. /\ o \in Octet
      /\ o % 2 = 1 <=> f = 1
      /\ back = m.divisor <=> (m.divisor = 0 /\ f = 0) \/ (m.divisor = 3 /\ f = 1)
  <2>1. PICK d \in 0 .. 127, g \in {0, 1} : d = m.divisor /\ g = f
    BY <1>1, <1>5, SMTT(60)
  <2> HIDE DEF f
  <2>2. o = ((2 * d) % 256) + g
    BY <2>1
  <2> HIDE DEF o
  <2>3. /\ o \in Octet
        /\ o % 2 = 1 <=> g = 1
        /\ 8 * ((o % 128) \div 8) + (o % 4) = d <=> (d = 0 /\ g = 0) \/ (d = 3 /\ g = 1)
    BY <2>2, ShiftReads
  <2> QED
    BY ONLY <2>1, <2>3 DEF back
<1> HIDE DEF p, o, f
<1>8. IsCadenceOf(p, m.id, o, s, m.down, m.up, m.interval, m.low, m.high)
  BY ONLY <1>4, <1>6 DEF IsCadenceOf
<1>9. /\ Sensor!PropertyAt(p, 1) = m.id /\ Sensor!HasProperty(p, 1)
      /\ IsString(p, 4 + 4 * s) /\ p[3] = o /\ p[4 + 2 * s] = m.interval
      /\ Found(p, 4, 3 + s, m.down) /\ Found(p, 4 + s, 3 + 2 * s, m.up)
      /\ Found(p, 5 + 2 * s, 4 + 3 * s, m.low) /\ Found(p, 5 + 3 * s, 4 + 4 * s, m.high)
  <2>1. PICK id \in Word, interval \in Octet, sent \in Octet : id = m.id /\ interval = m.interval /\ sent = o
    BY ONLY <1>1, <1>7
  <2>2. PICK down, up, low, high : down = m.down /\ up = m.up /\ low = m.low /\ high = m.high
    OBVIOUS
  <2>3. IsCadenceOf(p, id, sent, s, down, up, interval, low, high)
    BY ONLY <1>8, <2>1, <2>2
  <2>4. CadenceFound(p, id, sent, s, down, up, interval, low, high)
    BY ONLY <2>1, <2>3, s \in Nat, CadenceHolds
  <2> QED
    BY ONLY <2>1, <2>2, <2>4 DEF CadenceFound
<1>10. Sensor!The(Sensor!LookupCadence(m.id)).size = s
  BY ONLY <1>2, <1>3 DEF CadenceSize
<1>11. Sensor!ParseCadenceSet(m.kind, p) = <<read>>
  <2> DEFINE there == [kind |-> m.kind, id |-> m.id, divisor |-> 8 * ((p[3] % 128) \div 8) + (p[3] % 4),
                       unitless |-> p[3] % 2 = 1,
                       down |-> SubSeq(p, 4 + 0 * s + 0, 3 + (0 + 1) * s + 0),
                       up |-> SubSeq(p, 4 + 1 * s + 0, 3 + (1 + 1) * s + 0), interval |-> p[4 + 2 * s],
                       low |-> SubSeq(p, 4 + 2 * s + 1, 3 + (2 + 1) * s + 1),
                       high |-> SubSeq(p, 4 + 3 * s + 1, 3 + (3 + 1) * s + 1)]
  <2>1. Sensor!ParseCadenceSet(m.kind, p) = <<there>>
    <3> DEFINE id == Sensor!PropertyAt(p, 1)
               size == Sensor!The(Sensor!LookupCadence(id)).size
               Value(i, after) == SubSeq(p, 4 + i * size + after, 3 + (i + 1) * size + after)
               raw == [kind |-> m.kind, id |-> id, divisor |-> 8 * ((p[3] % 128) \div 8) + (p[3] % 4),
                       unitless |-> p[3] % 2 = 1,
                       down |-> Value(0, 0), up |-> Value(1, 0), interval |-> p[4 + 2 * size],
                       low |-> Value(2, 1), high |-> Value(3, 1)]
    <3>1. Sensor!HasProperty(p, 1) /\ Sensor!LookupCadence(id) # {}
      BY ONLY <1>2, <1>9
    <3>2. Sensor!ParseCadenceSet(m.kind, p) = IF Sensor!HasProperty(p, 1) /\ Sensor!LookupCadence(id) # {}
                                              THEN <<raw>> ELSE <<>>
      BY ONLY DEF Sensor!ParseCadenceSet
    <3>3. id = m.id
      BY ONLY <1>9
    <3>4. size = s
      BY ONLY <1>10, <3>3
    <3> HIDE DEF id, size
    <3>5. raw = there
      BY ONLY <3>3, <3>4
    <3> HIDE DEF raw, there
    <3> QED
      BY ONLY <3>1, <3>2, <3>5
  <2>2. /\ 4 + 0 * s + 0 = 4 /\ 3 + (0 + 1) * s + 0 = 3 + s
        /\ 4 + 1 * s + 0 = 4 + s /\ 3 + (1 + 1) * s + 0 = 3 + 2 * s
        /\ 4 + 2 * s + 1 = 5 + 2 * s /\ 3 + (2 + 1) * s + 1 = 4 + 3 * s
        /\ 4 + 3 * s + 1 = 5 + 3 * s /\ 3 + (3 + 1) * s + 1 = 4 + 4 * s
    BY ONLY s \in Nat
  <2>3. /\ SubSeq(p, 4 + 0 * s + 0, 3 + (0 + 1) * s + 0) = m.down
        /\ SubSeq(p, 4 + 1 * s + 0, 3 + (1 + 1) * s + 0) = m.up
        /\ SubSeq(p, 4 + 2 * s + 1, 3 + (2 + 1) * s + 1) = m.low
        /\ SubSeq(p, 4 + 3 * s + 1, 3 + (3 + 1) * s + 1) = m.high
    BY ONLY <1>9, <2>2, Zenon DEF Found
  <2>4. there = read
    BY ONLY <1>9, <2>3, Zenon
  <2> HIDE DEF there, read
  <2> QED
    BY ONLY <2>1, <2>4
<1>12. ~ Sensor!Panics(m.kind, p)
  <2>1. Sensor!Needs(m.kind, p) = 4 + 4 * Sensor!The(Sensor!LookupCadence(m.id)).size
    BY <1>1, <1>2, <1>9, Zenon DEF Sensor!Needs
  <2>2. PICK n \in Nat : n = 4 + 4 * s
    BY ONLY s \in Nat
  <2>3. Sensor!Needs(m.kind, p) = n
    BY ONLY <1>10, <2>1, <2>2
  <2>4. Len(p) = n
    BY ONLY <1>9, <2>2, LengthOf
  <2>5. ~ (n < n)
    BY ONLY n \in Nat
  <2> QED
    BY ONLY <2>3, <2>4, <2>5 DEF Sensor!Panics
<1>13. read = m <=> (m.divisor = 0 /\ f = 0) \/ (m.divisor = 3 /\ f = 1)
  <2>1. read.unitless = m.unitless
    BY ONLY <1>1, <1>5, <1>7
  <2>2. read = [kind |-> m.kind, id |-> m.id, divisor |-> back, unitless |-> m.unitless, down |-> m.down,
                up |-> m.up, interval |-> m.interval, low |-> m.low, high |-> m.high]
    BY ONLY <2>1
  <2>3. read = m <=> back = m.divisor
    <3> HIDE DEF read, back
    <3> QED
      BY ONLY <1>1, <2>2
  <2> HIDE DEF read, back
  <2> QED
    BY ONLY <1>7, <2>3
<1>14. Kept(m) <=> (m.divisor = 0 /\ f = 0) \/ (m.divisor = 3 /\ f = 1)
  <2>1. Kept(m) <=> Shifted(m)
    BY <1>1 DEF Kept, Unread
  <2>2. Shifted(m) <=> (m.divisor = 0 /\ ~ m.unitless) \/ (m.divisor = 3 /\ m.unitless)
    BY ONLY <1>1, Zenon DEF Shifted
  <2>3. f = 0 <=> ~ m.unitless
    BY ONLY <1>5
  <2> QED
    BY ONLY <1>5, <2>1, <2>2, <2>3
<1>15. m.kind \in Sensor!Kinds
  BY <1>1, WhoseMessage
<1>16. ReadsOnly(OpcodeOf(m), EmitParameters(m), Sensor!ParseCadenceSet(m.kind, p))
  BY <1>1, <1>12, <1>15, ReaderOfSensor DEF p
<1> HIDE DEF read
<1>17. <<read>> = <<m>> <=> Kept(m)
  BY ONLY <1>13, <1>14
<1>18. Sensor!ParseCadenceSet(m.kind, p) = <<m>> <=> Kept(m)
  BY ONLY <1>11, <1>17
<1> QED
  BY ONLY <1>16, <1>18, ReadOfMessage

-----------------------------------------------------------------------------
(* Every message that there is.                                            *)
LEMMA EveryMessageRead ==
    ASSUME NEW m, IsMessage(m) PROVE MessageRead(m)
<1>1. CASE m.kind \in Unread
  BY <1>1, UnreadRead
<1>2. CASE m \in CompositionStatuses
  <2>1. m.kind \in Unread
    BY <1>2 DEF CompositionStatuses, Unread
  <2> QED
    BY <2>1, UnreadRead
<1>3. CASE m \in SimpleMessages \cup Switches \cup TimesToLive \cup Pages \cup Binds \cup OnOffs
  BY <1>3, SimpleRead, OneFieldRead, BindRead, OnOffRead
<1>4. CASE m \in Questions \cup Identified \cup SettingGets
  BY <1>4, QuestionRead, IdentifiedRead, SettingGetRead
<1>5. CASE IsColumn(m) \/ IsSeries(m) \/ IsCadence(m) \/ IsSetting(m)
  BY <1>5, ColumnRead, SeriesRead, CadenceRead, SettingRead
<1> QED
  BY <1>1, <1>2, <1>3, <1>4, <1>5 DEF IsMessage

(* What six bits of seven are, of the opcodes of one octet: no opcode.     *)
LEMMA ShortCodes ==
    ASSUME NEW m, IsMessage(m), ~ Survives(m), NEW p
    PROVE  ReadsNothing(SplitOf(OpcodeOf(m)), p)
<1> DEFINE op == OpcodeOf(m)
           cut == SplitOf(op)
<1>1. Short(op) \/ Long(op)
  BY OpcodeOfMessage
<1>2. Len(op) <= 1 /\ op[1] >= 64 /\ Short(op)
  <2>1. ~ Long(op)
    <3>1. Long(op) => Len(op) > 1
      BY DEF Long, IsString
    <3> QED
      BY <3>1 DEF Survives
  <2>2. Short(op)
    BY <1>1, <2>1
  <2>3. op[1] \in Octet
    BY <2>2 DEF Short, IsString
  <2>4. ~ (op[1] < 64)
    BY DEF Survives
  <2> QED
    <3>1. PICK b \in Octet : b = op[1]
      BY <2>3
    <3>2. ~ (b < 64)
      BY ONLY <2>4, <3>1
    <3>3. b >= 64
      BY ONLY <3>1, <3>2 DEF Octet
    <3>4. Len(op) <= 1
      BY ONLY <2>2 DEF Short, IsString
    <3> QED
      BY ONLY <2>2, <3>1, <3>3, <3>4
<1>3. PICK a \in Octet : a < 128 /\ op = <<a>>
  BY <1>2, ShortOf
<1>4. a >= 64
  BY <1>2, <1>3
<1>5. cut = <<a % 64>>
  BY <1>2, <1>3 DEF SplitOf
<1>6. Code(op) = a
  BY <1>3, CodeOfTuple DEF Octet
<1>7. Code(cut) = a - 64
  <2>1. a % 64 = a - 64 /\ a % 64 \in Nat
    BY <1>3, <1>4 DEF Octet
  <2> QED
    BY <1>5, <2>1, CodeOfTuple
<1>8. a \in 81 .. 91
  <2> DEFINE n == Code(op)
  <2>1. m.kind \in Sensor!Kinds => op = Sensor!OpcodeOf(m.kind)
    BY WhoseMessage
  <2>2. m.kind \notin Sensor!Kinds => op = Access!OpcodeOf(m.kind)
    BY WhoseMessage
  <2> DEFINE long == {"DescriptorGet", "SensorGet", "ColumnGet", "SeriesGet", "CadenceGet", "SettingsGet", "SettingGet"}
  <2>3. m.kind \in Sensor!Kinds => m.kind \in long \/ n \in 81 .. 91
    BY <2>1, SensorCodes, WhoseMessage
  <2>4. m.kind \notin long
    <3>1. m.kind \in long => Long(Sensor!OpcodeOf(m.kind))
      BY SensorOpcodeSizes
    <3>2. m.kind \in long => m.kind \in Sensor!Kinds
      BY WhoseMessage
    <3> QED
      BY <1>2, <2>1, <3>1, <3>2, LongOf
  <2>5. m.kind \in Sensor!Kinds
    <3> SUFFICES ASSUME m.kind \notin Sensor!Kinds PROVE FALSE
      OBVIOUS
    <3>1. op = Access!OpcodeOf(m.kind)
      BY <2>2
    <3>2. m.kind \in (Unread \ Sensor!Kinds) \cup {"BeaconGet", "DefaultTtlGet", "NodeReset", "BatteryGet", "BeaconSet", "DefaultTtlSet",
                          "CompositionGet", "ModelAppBind", "ModelAppUnbind", "OnOffSet"}
      BY KindsOfMessages, WhoseMessage
    <3>3. m.kind = "CompositionStatus" \/ Long(op)
      BY <3>1, <3>2, AccessOpcodeSizes, WhoseMessage DEF Unread
    <3>4. m.kind = "CompositionStatus" => a = 2
      BY <1>6, <3>1, AccessCodes
    <3> QED
      BY <1>2, <1>4, <3>3, <3>4, LongOf
  <2> QED
    BY <1>6, <2>3, <2>4, <2>5
<1> HIDE DEF cut
<1>9. Code(cut) \in 17 .. 27
  BY <1>7, <1>8
<1>10. Code(cut) \notin ConfigurationCodes \cup OnOffCodes \cup BatteryCodes \cup SensorCodesRead \cup SetupCodesRead
  BY <1>9 DEF ConfigurationCodes, OnOffCodes, BatteryCodes, SensorCodesRead, SetupCodesRead
<1> QED
  BY <1>10, ReadByCode DEF cut

(* A peer's models read a message as it was sent exactly if its opcode is  *)
(* not cut (Opcode::split keeps six bits of one octet), they read messages *)
(* of that kind, and its fields are kept by emit_parameters and parse.     *)
THEOREM MessagesReadBack ==
    ASSUME NEW m, IsMessage(m), EmitParameters(m) \in Seq(Octet)
    PROVE  MessageReadsBack(m)
<1> DEFINE split == Access!Split(EmitAll(m))[1]
           p == EmitParameters(m)
<1>1. split.opcode = SplitOf(OpcodeOf(m)) /\ split.parameters = p
  <2>1. Access!Split(EmitAll(m)) = <<[opcode |-> SplitOf(OpcodeOf(m)), parameters |-> EmitParameters(m)]>>
    BY SplitMessage
  <2>2. split = [opcode |-> SplitOf(OpcodeOf(m)), parameters |-> EmitParameters(m)]
    BY <2>1
  <2> HIDE DEF split
  <2> QED
    BY <2>2
<1>2. SplitOf(OpcodeOf(m)) = OpcodeOf(m) <=> Survives(m)
  BY SplitMessage
<1>3. ReadBySome(OpcodeOf(m), p) = {<<m>>} <=> Kept(m)
  BY EveryMessageRead DEF MessageRead
<1>4. ~ Survives(m) => ReadBySome(SplitOf(OpcodeOf(m)), p) # {<<m>>}
  BY ShortCodes, Zenon DEF ReadsNothing
<1>5. ReadBySome(SplitOf(OpcodeOf(m)), p) = {<<m>>} <=> Kept(m) /\ Survives(m)
  <2>1. CASE Survives(m)
    BY <1>2, <1>3, <2>1
  <2>2. CASE ~ Survives(m)
    BY <1>4, <2>2
  <2> QED
    BY <2>1, <2>2
<1> HIDE DEF split
<1>6. ReadBySome(split.opcode, split.parameters) = {<<m>>} <=> Kept(m) /\ Survives(m)
  BY ONLY <1>1, <1>5
<1> QED
  BY ONLY <1>3, <1>6 DEF MessageReadsBack, split, p
=============================================================================
