------------------------------- MODULE Stack -------------------------------
(***************************************************************************)
(* The stack of a device from its provisioning on: the PDUs with which it  *)
(* is provisioned, the network PDUs it hears as a node, up to the message  *)
(* that is dispatched, what the models make of messages, and the answers   *)
(* they send, down to the PDUs that OutboundSegmentation cuts them into.   *)
(* The order of what happens is left open; what goes through each          *)
(* conversion of the way, up or down, is exact.                            *)
(*                                                                         *)
(* Messages that come in several segments are left to InboundSegmentation, *)
(* tasks and channels to Dispatch, what a restart brings to DriverStorage. *)
(***************************************************************************)
EXTENDS OutboundSegmentation, Codecs

CONSTANTS Elements,         \* what the device declares: a location and models for each element
          Pdus,             \* that the two sides of provisioning send
          Provisionings,    \* data of provisioning, as they are sent
          Frames,           \* what other nodes, and this one, put on the air
          Requests,         \* messages for the configuration server, in octets
          Sayings           \* messages that the application's models send

(* What a device is provisioned with: a primary address that is unicast,   *)
(* or zero.                                                                *)
IsProvisioning(data) ==
    /\ data \in [key : OfLength(16), refresh : BOOLEAN, update : BOOLEAN, iv_index : OfLength(4),
                 unicast : Word]
    /\ data.unicast < 32768

(* What is on the air: keys are any values; a source is unicast, or zero;  *)
(* opcode counts in a control message, aid, plain and key in another.      *)
IsFrame(f) ==
    /\ f.iv \in Nat /\ f.ctl \in BOOLEAN /\ f.opcode \in 0 .. 127 /\ f.seq \in Nat
    /\ f.src \in Word /\ f.src < 32768 /\ f.dst \in Word
    /\ f.aid = <<>> \/ f.aid \in OfLength(1)
    /\ f.plain \in Seq(Octet)

(* A model is of an element that is declared, and what it says fits into   *)
(* what it is said in.                                                     *)
IsSaying(saying) ==
    /\ saying.element \in 0 .. Len(Elements) - 1
    /\ IsMessage(saying.message)
    /\ EmitParameters(saying.message) \in Seq(Octet)
    /\ Len(EmitAll(saying.message)) + Net!AccessMic <= 380

ASSUME StackAssumption ==
    /\ \A i \in DOMAIN Descriptors : IsDescriptor(Descriptors[i])
    /\ \A d \in CadenceDescriptors : d.size \in Nat
    /\ \A d \in SettingDescriptors : d.size \in Nat
    /\ Elements \in Seq(Element) /\ Elements # <<>>
    /\ \A pdu \in Pdus : IsPdu(pdu)
    /\ \A data \in Provisionings : IsProvisioning(data)
    /\ \A f \in Frames : IsFrame(f)
    /\ \A octets \in Requests : \E kind \in RequestKinds :
          \E p \in {From(octets, Len(Access!OpcodeOf(kind)) + 1)} :
             octets = Access!OpcodeOf(kind) \o p /\ IsRequest(kind, p)
    /\ \A saying \in Sayings : IsSaying(saying)

VARIABLES node,     \* what Stack::Provisioned holds, once there is one
          running,  \* run_driver has not returned an error
          last      \* what went through a conversion last, and what came of it

device == <<vars, node, running, last>>

None == <<>>
Idle == [what |-> "idle"]

StackInit == Init /\ node = None /\ running = TRUE /\ last = Idle

(* The model takes one conversation at a time, though what was converted   *)
(* before makes no difference to what is converted next.                   *)
Ready == node # None /\ running /\ last = Idle
Silent == seq' = seq /\ upper' = [seq |-> 0, len |-> 0] /\ wire' = {}

-----------------------------------------------------------------------------
(* A PDU of provisioning, from one side to the other.                      *)
Provision(pdu) ==
    /\ node = None /\ last = Idle
    /\ last' = [what |-> "provisioning", pdu |-> pdu]
    /\ Silent /\ UNCHANGED <<node, running>>

Capable == Access!Composed(Elements)   \* what became of the declaration: composition

IvIndex(octets) == Number(Number(Number(octets[1], octets[2]), octets[3]), octets[4])

(* ProvisioningState::Data: the device is a node from now on.              *)
Join(data) ==
    LET read == Pb!ParseData(Pb!EmitData(data))[1]
    IN  /\ node = None /\ last = Idle
        /\ node' = [info       |-> [primary |-> read.unicast, elements |-> Len(Capable)],
                    iv         |-> IvIndex(read.iv_index),
                    net_keys   |-> <<read.key>>,
                    app_keys   |-> {},
                    device_key |-> "ours"]
        /\ Silent /\ UNCHANGED <<running, last>>

-----------------------------------------------------------------------------
(* receive_pdu of a network PDU. *)

Air(f) ==
    Net!EncryptNetwork(
        [key |-> f.net, iv |-> f.iv, ctl |-> f.ctl, ttl |-> 5, seq |-> f.seq, src |-> f.src, dst |-> f.dst,
         transport |->
            [first |-> IF f.ctl THEN f.opcode ELSE Net!EmitAid(f.aid),
             size  |-> 1 + Len(f.plain) + Net!AccessMic,
             body  |-> Net!Seal(f.key, Net!AccessNonce(IF f.aid = <<>> THEN "device" ELSE "application",
                                                       f.seq, f.src, f.dst, f.iv), f.plain)]])

(* An error of the stack ends run_driver.                                  *)
Hear(f) ==
    LET heard == Net!ProcessInbound(node, Air(f))
    IN  /\ Ready
        /\ last' = [what |-> "heard", frame |-> f, came |-> heard]
        /\ running' = (heard.result # "error")
        /\ Silent /\ UNCHANGED node

-----------------------------------------------------------------------------
(* Models. *)

(* A model takes a message from its channel, whoever sent it.  A slice past*)
(* the end of the parameters is a panic, and the device halts.             *)
Panics(octets) ==
    LET split == Access!Split(octets)
    IN  split # <<>> /\ split[1].opcode = Access!OpcodeOf("SubscriptionAdd")
                     /\ Access!Panics("SubscriptionAdd", split[1].parameters)

Ask(octets) ==
    /\ Ready
    /\ last' = [what |-> "asked", octets |-> octets]
    /\ running' = ~ Panics(octets)
    /\ Silent /\ UNCHANGED node

(* process_outbound_payload: an answer from element e to what was heard    *)
(* last, once; the driver that cannot tell the address of e stops.         *)
WasHeard == last.what = "heard" /\ last.came.result = "access"

AnswerFrom(e, m) ==
    LET from == Net!LocalElementAddress(node.info, e)
        len == Len(EmitAll(m)) + Net!AccessMic
    IN  IF from = <<>>
        THEN /\ running' = FALSE
             /\ last' = [what |-> "unsent", element |-> e]
             /\ Silent /\ UNCHANGED node
        ELSE /\ ProcessUnsegmented(len) \/ ProcessSegmented(len)
             /\ last' = [what |-> "said", message |-> m, from |-> from[1],
                         to |-> Net!Reply(last.came.meta), under |-> last.frame.net]
             /\ UNCHANGED <<node, running>>

Answer(e, m) == WasHeard /\ running /\ AnswerFrom(e, m)

(* The configuration server of the foundation answers two messages, with   *)
(* what it knows when it is built and not with what was set since.         *)
AnswersBeacon(request) ==
    IF request.kind = "BeaconGet" THEN {[kind |-> "BeaconStatus", on |-> TRUE]} ELSE {}
AnswersComposition(request) ==
    IF request.kind = "CompositionGet" /\ request.page = 0
    THEN {[kind |-> "CompositionStatus", page |-> 0, cid |-> 76, pid |-> 1, vid |-> 2, crpl |-> 0,
           features |-> 1, elements |-> Elements]}
    ELSE {}
Foundation(request) == AnswersBeacon(request) \cup AnswersComposition(request)

FoundationAnswers ==
    /\ WasHeard /\ running
    /\ LET read == ReadBySome(last.came.opcode, last.came.parameters)
       IN  \E message \in read : \E m \in Foundation(message[1]) : AnswerFrom(0, m)

(* Anything else that the application sends.                               *)
SaySomething ==
    /\ Ready
    /\ Next
    /\ UNCHANGED <<node, running, last>>

Rest == last # Idle /\ last' = Idle /\ Silent /\ UNCHANGED <<node, running>>

StackNext == \/ \E pdu \in Pdus : Provision(pdu)
             \/ \E data \in Provisionings : Join(data)
             \/ \E f \in Frames : Hear(f)
             \/ \E octets \in Requests : Ask(octets)
             \/ \E saying \in Sayings : Answer(saying.element, saying.message)
             \/ FoundationAnswers
             \/ SaySomething
             \/ Rest

StackSpec == StackInit /\ [][StackNext]_device

-----------------------------------------------------------------------------
(* Provisioning. *)

(***************************************************************************)
(* A PDU of provisioning is read, over PB-GATT as over PB-ADV, as it was   *)
(* sent, exactly if it is Readable: the device may offer out-of-band       *)
(* actions and sizes of which the two sides cannot then speak.             *)
(***************************************************************************)
ProvisioningReadsBack ==
    last.what = "provisioning" => PduReadsBack(last.pdu)

-----------------------------------------------------------------------------
(* What is heard. *)

Clear(f) == f.net \in {node.net_keys[i] : i \in DOMAIN node.net_keys}
            /\ \/ f.iv = node.iv
               \/ f.iv = node.iv - 1 /\ node.iv > 1
Ours(f) == f.aid = <<>> /\ f.key = node.device_key

(* The elements of the node that an address stands for: what is left of it *)
(* after the primary address, of which eight bits are kept.                *)
Addressed(dst) ==
    {e \in 0 .. Len(Capable) - 1 :
        /\ 0 < dst /\ dst < 32768 /\ dst >= node.info.primary
        /\ \E n \in 0 .. 127 : dst = node.info.primary + 256 * n + e}

(***************************************************************************)
(* Of what is on the air the node takes no notice if it is of another      *)
(* network, of an IV index other than its own and the one before, or a     *)
(* control message; it dispatches what is sealed with its own device key,  *)
(* its own words among it when somebody relays them, to the element that   *)
(* is addressed, to all of them if none is; and anything else, a message   *)
(* to its neighbour, ends its driver.                                      *)
(***************************************************************************)
Understood ==
    last.what = "heard" =>
        LET f == last.frame
            came == last.came
            unreadable == f.ctl /\ f.opcode \notin 0 .. 10
        IN  CASE ~ Clear(f)                       -> came.result = "nothing" /\ running
              [] Clear(f) /\ unreadable           -> ~ running
              [] Clear(f) /\ f.ctl /\ ~ unreadable -> came.result = "nothing" /\ running
              [] OTHER ->
                    /\ came.result = "access" <=> Ours(f) /\ Access!Split(f.plain) # <<>>
                    /\ running <=> came.result = "access"
                    /\ came.result = "access" =>
                          {e \in 0 .. Len(Capable) - 1 : came.meta.local = <<e>>} = Addressed(f.dst)

-----------------------------------------------------------------------------
(* What is said. *)

(* The network PDUs of the answer, in the order of their sequence numbers. *)
Outgoing(pdu) ==
    Net!EncryptNetwork(
        [key |-> last.under, iv |-> last.to.iv, ctl |-> FALSE, ttl |-> 127, seq |-> pdu.seq,
         src |-> last.from, dst |-> last.to.dst,
         transport |-> [first |-> IF pdu.header = <<>> THEN 0 ELSE 128, size |-> 15,
                        body |-> Net!EncryptAccess(last.to, last.from, upper.seq, EmitAll(last.message))]])

(* Who asked: a node of the same network that knows this node's device key.*)
Asker == [info |-> [primary |-> last.to.dst, elements |-> 1], iv |-> last.to.iv,
          net_keys |-> <<last.under>>, app_keys |-> {}, device_key |-> last.to.key]

(* What it makes of a PDU, of which it has all if there are more.          *)
AskerHears(pdu) == Net!ProcessInbound(Asker, Outgoing(pdu))
LastOf(pdus) == CHOOSE p \in pdus : \A q \in pdus : q.seq <= p.seq

(***************************************************************************)
(* An answer comes from an element of the node and reaches who asked, also *)
(* under the IV index before; it is opened by a peer that runs this code   *)
(* exactly when it fits one PDU: of more, the last to come lends its number; *)
(* and comes from a unicast address: nobody counts the elements before the *)
(* primary address is taken.  Who asks from zero takes it for all of its   *)
(* elements.  A model of the fifth element or beyond ends the driver when  *)
(* it answers.                                                             *)
(***************************************************************************)
AnswerReachesAsker ==
    /\ last.what = "said" =>
          LET heard == AskerHears(LastOf(wire))
          IN  /\ last.from \in node.info.primary .. node.info.primary + 3
              /\ heard.result = "access" <=> Cardinality(wire) = 1 /\ last.from < 32768
              /\ heard.result = "access" =>
                    /\ heard.meta.local = IF last.to.dst = 0 THEN <<>> ELSE <<0>>
                    /\ heard.parameters = EmitParameters(last.message)
                    /\ heard.opcode = OpcodeOf(last.message) <=> Survives(last.message)
    /\ last.what = "unsent" => last.element >= Access!MaxElements /\ ~ running

(***************************************************************************)
(* The models of a peer read a message as it was sent exactly if its opcode*)
(* Survives, they read that kind at all, and the fields are Kept: an index *)
(* of more than eight bits, a delay without a transition, a divisor are not. *)
(***************************************************************************)
ReadsBack ==
    last.what = "said" => MessageReadsBack(last.message)

(***************************************************************************)
(* Whatever a device declares, its composition is cut to what a status of  *)
(* eight segments holds, which is what reaches a peer as it was cut.       *)
(***************************************************************************)
CompositionFits ==
    last.what = "said" /\ last.message.kind = "CompositionStatus" => Cardinality(wire) <= 8

-----------------------------------------------------------------------------
(* What a status says, to who knows how it is laid out.                    *)

DescriptorsTell == \A i \in DOMAIN Descriptors : TolerancesTell(Descriptors[i])
HeadersTell == \A i \in DOMAIN Descriptors : HeaderTells(Descriptors[i])

(***************************************************************************)
(* Two sensors that differ in their tolerances have descriptors that differ, *)
(* and the header of a value names its sensor and its size, in exactly these *)
(* ranges; outside of them a status says something of another sensor.      *)
(***************************************************************************)
StatusTellsApart ==
    last.what = "said" =>
        /\ last.message.kind = "DescriptorStatus" => DescriptorsTell
        /\ last.message.kind = "SensorStatus" => HeadersTell

-----------------------------------------------------------------------------
(* What is asked. *)

(***************************************************************************)
(* Whatever the configuration server is asked of keys, publications and    *)
(* subscriptions in the format of the mesh, it reads a message, but for the *)
(* adding of a subscription to an address: its model is looked for nine    *)
(* octets in, past the end, and the device halts.                          *)
(***************************************************************************)
RequestsAreRead ==
    last.what = "asked" =>
        LET split == Access!Split(last.octets)[1]
            p == split.parameters
            kind == CHOOSE k \in RequestKinds : Access!OpcodeOf(k) = split.opcode
        IN  /\ running <=> ~ (kind = "SubscriptionAdd" /\ Len(p) \in {6, 8})
            /\ running => Access!ParseConfiguration(split.opcode, p) # <<>>
=============================================================================
