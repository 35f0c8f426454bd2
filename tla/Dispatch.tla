------------------------------ MODULE Dispatch ------------------------------
(***************************************************************************)
(* Access messages between the driver and the models of a node.            *)
(*                                                                         *)
(* Dispatcher::dispatch sends a message to two channels, one per device:   *)
(* the foundation device of the driver and the device of the application.  *)
(* The device macro generates a task that passes it on to the channels of  *)
(* the elements addressed, the element macro one that passes it on to the  *)
(* channel of every model.  Models answer through one channel, OUTBOUND,   *)
(* which the driver receives from only between two turns.  Each of these   *)
(* channels holds one message.                                             *)
(*                                                                         *)
(* Three kinds of task do the same, take a message and give it to channels *)
(* one by one, waiting for room: the driver while it dispatches, the       *)
(* fan-out of a device, the fan-out of an element.                         *)
(***************************************************************************)
EXTENDS Integers, Sequences, FiniteSets

CONSTANTS Composition,  \* per device, per element, its models in the order of their fields
          Models,
          Messages,     \* the access messages peers send: see Message
          DeafChoices,  \* sets of models that never call receive (the button of the example)
          MayReturn,    \* models whose run may return
          Marked        \* bound of the model: messages of which one at a time is on its way

Devices == {"foundation", "application"}
All == -1   \* local_element_index is None: a group, a virtual address, every node

ElementsOf(d) == 0 .. Len(Composition[d]) - 1
ModelsOf(d, i) == Composition[d][i + 1]
(* understood: the models whose parse yields a message; asks: they answer. *)
Message == [target : {All} \cup Nat, understood : SUBSET Models, asks : BOOLEAN]

ASSUME DispatchAssumption ==
    /\ Composition \in [Devices -> Seq(Seq(Models))]
    /\ Len(Composition["foundation"]) = 1   \* its element Zero
    /\ Messages \subseteq Message
    /\ DeafChoices \subseteq SUBSET Models
    /\ MayReturn \subseteq Models
    /\ Marked \subseteq Messages

Places == UNION {{<<d, i>> : i \in ElementsOf(d)} : d \in Devices}

(* A model is one field of one element.                                    *)
ASSUME EveryModelHasOnePlace ==
    \A m \in Models : \E p \in Places : \E k \in 1 .. Len(ModelsOf(p[1], p[2])) :
        \A q \in Places : \A j \in 1 .. Len(ModelsOf(q[1], q[2])) :
            ModelsOf(q[1], q[2])[j] = m <=> q = p /\ j = k

VARIABLES chan,      \* what each channel towards the models holds
          hand,      \* per task: the message it holds and the channels it has yet to give it to
          model,     \* per model: receiving, sending an answer, deaf (it never receives), or gone
          outbound   \* OUTBOUND: the model whose answer it holds

vars == <<chan, hand, model, outbound>>
-----------------------------------------------------------------------------
(* Channels: FOUNDATION_INBOUND and DEVICE_INBOUND, one per element, one   *)
(* per model; all of them InboundChannelImpl.                              *)
ToDevice(d) == <<"device", d>>
ToElement(d, i) == <<"element", d, i>>
ToModel(m) == <<"model", m>>

Channels == {ToDevice(d) : d \in Devices}
            \cup {ToElement(p[1], p[2]) : p \in Places}
            \cup {ToModel(m) : m \in Models}

(* Tasks that pass messages on.                                            *)
Driver == <<"driver">>
DeviceTask(d) == <<"fanout", d>>
ElementTask(d, i) == <<"fanout", d, i>>

FanOuts == {DeviceTask(d) : d \in Devices} \cup {ElementTask(p[1], p[2]) : p \in Places}
Tasks == {Driver} \cup FanOuts

(* What a fan-out receives from, and whom it gives to.                     *)
Input(t) == IF Len(t) = 2 THEN ToDevice(t[2]) ELSE ToElement(t[2], t[3])

IsFor(msg, i) == msg.target = All \/ msg.target = i

(* mutant: what is for all elements goes to the application alone.         *)
AllAreElsewhere(msg) ==
    IF msg.target = 0 THEN <<ToDevice("foundation"), ToDevice("application")>>
                      ELSE <<ToDevice("application")>>

(* dispatch: the foundation hears what is for element 0 or for all.        *)
DriverGives(msg) ==
    IF IsFor(msg, 0) THEN <<ToDevice("foundation"), ToDevice("application")>>
                     ELSE <<ToDevice("application")>>

(* The device macro: the elements addressed, in the order of the fields.   *)
DeviceGives(d, msg) ==
    CASE msg.target = All -> [k \in 1 .. Len(Composition[d]) |-> ToElement(d, k - 1)]
      [] msg.target \in ElementsOf(d) -> <<ToElement(d, msg.target)>>
      [] OTHER -> <<>>

(* The element macro: every model, whatever the message is.                *)
ElementGives(d, i) ==
    [k \in 1 .. Len(ModelsOf(d, i)) |-> ToModel(ModelsOf(d, i)[k])]

Outputs(t, msg) == IF Len(t) = 2 THEN DeviceGives(t[2], msg) ELSE ElementGives(t[2], t[3])

-----------------------------------------------------------------------------
Nothing == [msg |-> <<>>, left |-> <<>>]

(* mutant: a task that keeps its message after the last send.              *)
HoldingOn(msg, left) == [msg |-> <<msg>>, left |-> left]

Holding(msg, left) == IF left = <<>> THEN Nothing ELSE [msg |-> <<msg>>, left |-> left]

Busy(t) == hand[t].left # <<>>

(* The driver is at select4, or about to be there.                         *)
AtSelect == ~Busy(Driver)

Init == /\ chan = [c \in Channels |-> <<>>]
        /\ hand = [t \in Tasks |-> Nothing]
        /\ \E deaf \in DeafChoices :
              model = [m \in Models |-> IF m \in deaf THEN "deaf" ELSE "receiving"]
        /\ outbound = <<>>

OnItsWay(msg) == \/ \E c \in Channels : chan[c] = <<msg>>
                 \/ \E t \in Tasks : hand[t].msg = <<msg>>

(* receive_pdu of a PDU that yields a message, up to the first send.       *)
DriverReceives(msg) ==
    /\ AtSelect
    /\ msg \in Marked => \A other \in Marked : ~OnItsWay(other)
    /\ hand' = [hand EXCEPT ![Driver] = Holding(msg, DriverGives(msg))]
    /\ UNCHANGED <<chan, model, outbound>>

(* mutant: OUTBOUND polled when all other tasks are done.                  *)
PollsWhenIdle == \A t \in Tasks : ~Busy(t)

PollsOutbound == AtSelect

(* select4 polls receive first: OUTBOUND has its turn when no PDU waits, so*)
(* nothing says that it must have one while PDUs keep coming.              *)
DriverTransmits ==
    /\ PollsOutbound
    /\ outbound # <<>>
    /\ outbound' = <<>>
    /\ UNCHANGED <<chan, hand, model>>

(* mutant: the fan-outs of all devices and elements as one task.           *)
NoneBusy(t) == \A u \in FanOuts : ~Busy(u)

Free(t) == ~Busy(t)

FanOutReceives(t) ==
    /\ Free(t)
    /\ chan[Input(t)] # <<>>
    /\ LET msg == Head(chan[Input(t)])
       IN  hand' = [hand EXCEPT ![t] = Holding(msg, Outputs(t, msg))]
    /\ chan' = [chan EXCEPT ![Input(t)] = <<>>]
    /\ UNCHANGED <<model, outbound>>

(* A send, when there is room: the channel holds one message.              *)
Give(t) ==
    /\ Busy(t)
    /\ chan[Head(hand[t].left)] = <<>>
    /\ chan' = [chan EXCEPT ![Head(hand[t].left)] = hand[t].msg]
    /\ hand' = [hand EXCEPT ![t] = Holding(hand[t].msg[1], Tail(hand[t].left))]
    /\ UNCHANGED <<model, outbound>>

-----------------------------------------------------------------------------
(* Models.  The future of an element polls all its models, so each is a    *)
(* task; a model that waits in send hears nothing.                         *)

Siblings(m) == {n \in Models : \E p \in Places :
                   {m, n} \subseteq {ModelsOf(p[1], p[2])[k] : k \in 1 .. Len(ModelsOf(p[1], p[2]))}}

Listens(m) == model[m] = "receiving"

(* receive: a message the model does not parse is dropped, and the loop    *)
(* waits for the next; run handles one that it does.                       *)
ModelReceives(m) ==
    /\ Listens(m)
    /\ chan[ToModel(m)] # <<>>
    /\ LET msg == Head(chan[ToModel(m)])
       IN  model' = [model EXCEPT ![m] = IF m \in msg.understood /\ msg.asks
                                         THEN "sending" ELSE "receiving"]
    /\ chan' = [chan EXCEPT ![ToModel(m)] = <<>>]
    /\ UNCHANGED <<hand, outbound>>

(* mutant: OUTBOUND as a rendezvous, with the driver already receiving.    *)
Rendezvous == outbound = <<>> /\ AtSelect

OutboundRoom == outbound = <<>>

(* ModelContext::send of the answer.                                       *)
ModelSends(m) ==
    /\ model[m] = "sending"
    /\ OutboundRoom
    /\ outbound' = <<m>>
    /\ model' = [model EXCEPT ![m] = "receiving"]
    /\ UNCHANGED <<chan, hand>>

(* The select over the models of an element is over when one returns: none *)
(* of them is polled again.  The join with the fan-out, which never        *)
(* returns, is not: the fan-out goes on, and so does the node.             *)
ModelReturns(m) ==
    /\ m \in MayReturn
    /\ model[m] = "receiving"
    /\ model' = [n \in Models |-> IF n \in Siblings(m) THEN "gone" ELSE model[n]]
    /\ UNCHANGED <<chan, hand, outbound>>

TaskStep == \/ \E t \in FanOuts : FanOutReceives(t)
            \/ \E t \in Tasks : Give(t)
            \/ \E m \in Models : ModelReceives(m) \/ ModelSends(m)

Next == \/ \E msg \in Messages : DriverReceives(msg)
        \/ DriverTransmits
        \/ TaskStep
        \/ \E m \in Models : ModelReturns(m)

(* One executor task polls the futures of driver and devices whenever one  *)
(* of them can go on.  Nothing is assumed of the radio.                    *)
Fairness == /\ \A t \in FanOuts : WF_vars(FanOutReceives(t))
            /\ \A t \in Tasks : WF_vars(Give(t))
            /\ \A m \in Models : WF_vars(ModelReceives(m)) /\ WF_vars(ModelSends(m))
            /\ WF_vars(DriverTransmits)

Spec == Init /\ [][Next]_vars /\ Fairness

-----------------------------------------------------------------------------
Option(S) == {<<>>} \cup {<<s>> : s \in S}

(* A task has a message exactly while there is somebody left to give it to,*)
(* and these are the last of those the message is for.                     *)
AllOutputs(t, msg) == IF t = Driver THEN DriverGives(msg) ELSE Outputs(t, msg)

HandOK(t) ==
    IF Busy(t)
    THEN \E msg \in Messages : \E k \in 1 .. Len(AllOutputs(t, msg)) :
            hand[t] = [msg  |-> <<msg>>,
                       left |-> SubSeq(AllOutputs(t, msg), k, Len(AllOutputs(t, msg)))]
    ELSE hand[t] = Nothing

(***************************************************************************)
(* Every channel holds at most one message, every task what it has yet to  *)
(* give and to whom; OUTBOUND holds the answer of a model.                 *)
(***************************************************************************)
TypeOK == /\ chan \in [Channels -> Option(Messages)]
          /\ DOMAIN hand = Tasks /\ \A t \in Tasks : HandOK(t)
          /\ model \in [Models -> {"receiving", "sending", "deaf", "gone"}]
          /\ outbound \in Option(Models)

(* What is on its way to model m of element i of device d, the next first. *)
HeldFor(t, c) == IF \E k \in 1 .. Len(hand[t].left) : hand[t].left[k] = c
                 THEN hand[t].msg ELSE <<>>
ForElement(msgs, i) == IF msgs # <<>> /\ IsFor(Head(msgs), i) THEN msgs ELSE <<>>

InTransit(m, d, i) ==
    chan[ToModel(m)]
    \o HeldFor(ElementTask(d, i), ToModel(m))
    \o chan[ToElement(d, i)]
    \o HeldFor(DeviceTask(d), ToElement(d, i))
    \o ForElement(chan[ToDevice(d)], i)
    \o ForElement(HeldFor(Driver, ToDevice(d)), i)

PlaceOf == [m \in Models |-> CHOOSE p \in Places :
                 \E k \in 1 .. Len(ModelsOf(p[1], p[2])) : ModelsOf(p[1], p[2])[k] = m]

Waiting == [m \in Models |-> InTransit(m, PlaceOf[m][1], PlaceOf[m][2])]
Hearers(msg) == {m \in Models : IsFor(msg, PlaceOf[m][2])}

Mail == INSTANCE Mailboxes WITH mailbox <- Waiting, Audience <- Hearers

(***************************************************************************)
(* Whatever the order in which the tasks run, every model of an addressed  *)
(* element gets each message once, in the order the driver took them up,   *)
(* and no other model gets it: the channels implement mailboxes.           *)
(***************************************************************************)
Delivers == Mail!Spec

(* The driver waits in dispatch and no task and no model can go on.        *)
CanGive(t) == Busy(t) /\ chan[Head(hand[t].left)] = <<>>
CanReceive(t) == Free(t) /\ chan[Input(t)] # <<>>
CanHandle(m) == \/ Listens(m) /\ chan[ToModel(m)] # <<>>
                \/ model[m] = "sending" /\ OutboundRoom

Stuck == /\ Busy(Driver)
         /\ \A t \in Tasks : ~CanGive(t)
         /\ \A t \in FanOuts : ~CanReceive(t)
         /\ \A m \in Models : ~CanHandle(m)

(* Four messages wait for m, and it never receives, has gone, or has an    *)
(* answer to send while OUTBOUND, which only the driver empties, is full.  *)
Blocks(m) == /\ Len(Waiting[m]) >= 4
             /\ \/ model[m] \in {"deaf", "gone"}
                \/ model[m] = "sending" /\ outbound # <<>>

(***************************************************************************)
(* The driver is stuck in dispatch only behind a model that blocks.        *)
(***************************************************************************)
StuckHasCause == Stuck => \E m \in Models : Blocks(m)

(***************************************************************************)
(* A dispatch ends, unless a model blocks.                                 *)
(***************************************************************************)
DispatchEnds == Busy(Driver) ~> (~Busy(Driver) \/ \E m \in Models : Blocks(m))

Settled == /\ outbound = <<>>
           /\ \A m \in Models : Waiting[m] = <<>> /\ model[m] = "receiving"

(***************************************************************************)
(* When every model receives and none returns, and the radio falls silent, *)
(* all messages reach their models and all answers leave the node, unless  *)
(* the node is stuck.                                                      *)
(***************************************************************************)
QuietDrains ==
    ([](\A m \in Models : model[m] \notin {"deaf", "gone"})
     /\ <>[][\A msg \in Messages : ~DriverReceives(msg)]_vars)
        => (<>[]Settled \/ <>[]Stuck)
=============================================================================
