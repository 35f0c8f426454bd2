-------------------------- MODULE DispatchProofs --------------------------
(***************************************************************************)
(* What is proved of Dispatch, for any devices, any messages and any number*)
(* of them: its type invariant, that the driver is stuck only behind a     *)
(* model that blocks, and that the channels implement mailboxes.           *)
(***************************************************************************)
EXTENDS Dispatch, SequenceTheorems, TLAPS

-----------------------------------------------------------------------------
(* Channels and tasks are told apart by their names.                       *)

(* Channels of different kinds, or with different indexes, are different.  *)
LEMMA ChannelsDiffer ==
    ASSUME NEW d, NEW e, NEW i, NEW j, NEW m, NEW n
    PROVE  /\ ToDevice(d) = ToDevice(e) <=> d = e
           /\ ToElement(d, i) = ToElement(e, j) <=> d = e /\ i = j
           /\ ToModel(m) = ToModel(n) <=> m = n
           /\ ToDevice(d) # ToElement(e, i)
           /\ ToDevice(d) # ToModel(m)
           /\ ToElement(d, i) # ToModel(m)
<1>1. /\ ToDevice(d)[1] = "device" /\ ToDevice(d)[2] = d
      /\ ToElement(d, i)[1] = "element" /\ ToElement(d, i)[2] = d /\ ToElement(d, i)[3] = i
      /\ ToModel(m)[1] = "model" /\ ToModel(m)[2] = m
      /\ ToDevice(e)[2] = e
      /\ ToElement(e, j)[2] = e /\ ToElement(e, j)[3] = j
      /\ ToElement(e, i)[1] = "element"
      /\ ToModel(n)[2] = n
  BY DEF ToDevice, ToElement, ToModel
<1>2. /\ d = e => ToDevice(d) = ToDevice(e)
      /\ d = e /\ i = j => ToElement(d, i) = ToElement(e, j)
      /\ m = n => ToModel(m) = ToModel(n)
  OBVIOUS
<1> QED
  BY <1>1, <1>2

(* So are tasks.                                                           *)
LEMMA TasksDiffer ==
    ASSUME NEW d, NEW e, NEW i, NEW j
    PROVE  /\ DeviceTask(d) = DeviceTask(e) <=> d = e
           /\ ElementTask(d, i) = ElementTask(e, j) <=> d = e /\ i = j
           /\ DeviceTask(d) # ElementTask(e, j)
           /\ DeviceTask(d) # Driver
           /\ ElementTask(d, i) # Driver
<1>1. /\ DeviceTask(d)[1] = "fanout" /\ DeviceTask(d)[2] = d /\ DeviceTask(e)[2] = e
      /\ ElementTask(d, i)[1] = "fanout" /\ ElementTask(d, i)[2] = d /\ ElementTask(d, i)[3] = i
      /\ ElementTask(e, j)[2] = e /\ ElementTask(e, j)[3] = j
      /\ Driver[1] = "driver"
  BY DEF DeviceTask, ElementTask, Driver
<1>2. Len(DeviceTask(d)) = 2 /\ Len(ElementTask(e, j)) = 3
  BY DEF DeviceTask, ElementTask
<1>3. /\ d = e => DeviceTask(d) = DeviceTask(e)
      /\ d = e /\ i = j => ElementTask(d, i) = ElementTask(e, j)
  OBVIOUS
<1> QED
  BY <1>1, <1>2, <1>3

(* The input of each kind of task, and the only channels it gives to.      *)
LEMMA InputAndOutputs ==
    ASSUME NEW d, NEW i, NEW msg
    PROVE  /\ Input(DeviceTask(d)) = ToDevice(d)
           /\ Input(ElementTask(d, i)) = ToElement(d, i)
           /\ AllOutputs(Driver, msg) = DriverGives(msg)
           /\ AllOutputs(DeviceTask(d), msg) = DeviceGives(d, msg)
           /\ AllOutputs(ElementTask(d, i), msg) = ElementGives(d, i)
           /\ Outputs(DeviceTask(d), msg) = DeviceGives(d, msg)
           /\ Outputs(ElementTask(d, i), msg) = ElementGives(d, i)
<1>1. /\ Len(DeviceTask(d)) = 2 /\ DeviceTask(d)[2] = d
      /\ Len(ElementTask(d, i)) = 3 /\ ElementTask(d, i)[2] = d /\ ElementTask(d, i)[3] = i
  BY DEF DeviceTask, ElementTask
<1> QED
  BY <1>1, TasksDiffer DEF Input, Outputs, AllOutputs

-----------------------------------------------------------------------------
(* Where a model is, and who gives it what.                                *)

(* A place is a device and one of its elements.                            *)
LEMMA PlaceShape ==
    ASSUME NEW d \in Devices, NEW i \in ElementsOf(d)
    PROVE  /\ <<d, i>> \in Places
           /\ i \in Nat /\ i + 1 \in 1 .. Len(Composition[d])
           /\ ModelsOf(d, i) \in Seq(Models)
           /\ d = "foundation" => i = 0
<1>1. Composition[d] \in Seq(Seq(Models))
  BY DispatchAssumption
<1>2. Len(Composition[d]) \in Nat
  BY <1>1
<1>3. i \in Nat /\ i + 1 \in 1 .. Len(Composition[d])
  BY <1>2 DEF ElementsOf
<1>4. <<d, i>> \in Places
  BY DEF Places
<1>5. Composition[d][i + 1] \in Seq(Models)
  BY <1>1, <1>3, ElementOfSeq
<1>6. d = "foundation" => i = 0
  <2> SUFFICES ASSUME d = "foundation" PROVE i = 0
    OBVIOUS
  <2>1. Len(Composition[d]) = 1
    BY DispatchAssumption
  <2> QED
    BY <1>3, <2>1
<1> QED
  BY <1>3, <1>4, <1>5, <1>6 DEF ModelsOf

(* And so is every device with one of its elements.                        *)
LEMMA PlacesArePairs ==
    ASSUME NEW p \in Places
    PROVE  /\ p[1] \in Devices /\ p[2] \in ElementsOf(p[1]) /\ p = <<p[1], p[2]>>
  BY DEF Places

(* A model is found at one place, at one index, only.                      *)
LEMMA ModelOnce ==
    ASSUME NEW d \in Devices, NEW i \in ElementsOf(d), NEW k \in 1 .. Len(ModelsOf(d, i))
    PROVE  /\ ModelsOf(d, i)[k] \in Models
           /\ PlaceOf[ModelsOf(d, i)[k]] = <<d, i>>
           /\ \A j \in 1 .. Len(ModelsOf(d, i)) : ModelsOf(d, i)[j] = ModelsOf(d, i)[k] => j = k
<1> DEFINE m == ModelsOf(d, i)[k]
<1>1. <<d, i>> \in Places /\ m \in Models
  BY PlaceShape, ElementOfSeq
<1>2. PICK p \in Places : \E l \in 1 .. Len(ModelsOf(p[1], p[2])) :
         \A q \in Places : \A j \in 1 .. Len(ModelsOf(q[1], q[2])) :
            ModelsOf(q[1], q[2])[j] = m <=> q = p /\ j = l
  BY <1>1, EveryModelHasOnePlace
<1>3. PICK l \in 1 .. Len(ModelsOf(p[1], p[2])) :
         \A q \in Places : \A j \in 1 .. Len(ModelsOf(q[1], q[2])) :
            ModelsOf(q[1], q[2])[j] = m <=> q = p /\ j = l
  BY <1>2
<1>4. <<d, i>>[1] = d /\ <<d, i>>[2] = i
  OBVIOUS
<1>5. <<d, i>> = p /\ k = l
  BY <1>1, <1>3, <1>4
<1>6. \A j \in 1 .. Len(ModelsOf(d, i)) : ModelsOf(d, i)[j] = m => j = k
  BY <1>1, <1>3, <1>4, <1>5
<1>7. \A q \in Places : (\E j \in 1 .. Len(ModelsOf(q[1], q[2])) : ModelsOf(q[1], q[2])[j] = m)
                           <=> q = <<d, i>>
  BY <1>3, <1>5
<1>8. PlaceOf[m] = CHOOSE q \in Places :
                      \E j \in 1 .. Len(ModelsOf(q[1], q[2])) : ModelsOf(q[1], q[2])[j] = m
  BY <1>1 DEF PlaceOf
<1> QED
  BY <1>1, <1>6, <1>7, <1>8

(* PlaceOf names that place.                                               *)
LEMMA PlaceOfModel ==
    ASSUME NEW m \in Models
    PROVE  \E d \in Devices : \E i \in ElementsOf(d) :
              /\ PlaceOf[m] = <<d, i>>
              /\ \E k \in 1 .. Len(ModelsOf(d, i)) : ModelsOf(d, i)[k] = m
<1>1. PICK p \in Places : \E k \in 1 .. Len(ModelsOf(p[1], p[2])) : ModelsOf(p[1], p[2])[k] = m
  BY EveryModelHasOnePlace
<1>2. p[1] \in Devices /\ p[2] \in ElementsOf(p[1])
  BY PlacesArePairs
<1>3. PICK k \in 1 .. Len(ModelsOf(p[1], p[2])) : ModelsOf(p[1], p[2])[k] = m
  BY <1>1
<1>4. PlaceOf[ModelsOf(p[1], p[2])[k]] = <<p[1], p[2]>>
  BY <1>2, <1>3, ModelOnce
<1> QED
  BY <1>2, <1>3, <1>4

-----------------------------------------------------------------------------
Has(list, c) == \E j \in 1 .. Len(list) : list[j] = c

(* The lists of channels: each channel once, and the right ones.           *)

(* What the driver gives a message to: all devices it may be for.          *)
LEMMA DriverOutputs ==
    ASSUME NEW msg
    PROVE  /\ DriverGives(msg) \in Seq(Channels)
           /\ \A j, k \in 1 .. Len(DriverGives(msg)) : DriverGives(msg)[j] = DriverGives(msg)[k] => j = k
           /\ \A k \in 1 .. Len(DriverGives(msg)) :
                 DriverGives(msg)[k] \in {ToDevice(d) : d \in Devices}
           /\ \A d \in Devices : Has(DriverGives(msg), ToDevice(d))
                                    <=> d = "application" \/ IsFor(msg, 0)
<1> DEFINE f == ToDevice("foundation")
           a == ToDevice("application")
<1>1. f # a /\ f \in Channels /\ a \in Channels
  <2>1. "foundation" # "application" /\ "foundation" \in Devices /\ "application" \in Devices
    BY DEF Devices
  <2>2. f # a
    BY <2>1, ChannelsDiffer
  <2> QED
    BY <2>1, <2>2 DEF Channels
<1>2. /\ f \in {ToDevice(d) : d \in Devices} /\ a \in {ToDevice(d) : d \in Devices}
      /\ \A d \in Devices : d # "application" => d = "foundation"
      /\ \A d \in Devices : (ToDevice(d) = a <=> d = "application") /\ (ToDevice(d) = f <=> d = "foundation")
  BY ChannelsDiffer DEF Devices
<1> HIDE DEF f, a
<1>3. CASE IsFor(msg, 0)
  <2>1. DriverGives(msg) = <<f, a>>
    BY <1>3 DEF DriverGives, f, a
  <2> QED
    BY <1>1, <1>2, <1>3, <2>1 DEF Has
<1>4. CASE ~IsFor(msg, 0)
  <2>1. DriverGives(msg) = <<a>>
    BY <1>4 DEF DriverGives, a
  <2> QED
    BY <1>1, <1>2, <1>4, <2>1 DEF Has
<1> QED
  BY <1>3, <1>4

(* What a device gives a message to: the elements it is for.               *)
LEMMA DeviceOutputs ==
    ASSUME NEW d \in Devices, NEW msg \in Messages
    PROVE  /\ DeviceGives(d, msg) \in Seq(Channels)
           /\ \A j, k \in 1 .. Len(DeviceGives(d, msg)) :
                 DeviceGives(d, msg)[j] = DeviceGives(d, msg)[k] => j = k
           /\ \A k \in 1 .. Len(DeviceGives(d, msg)) :
                 \E i \in ElementsOf(d) : DeviceGives(d, msg)[k] = ToElement(d, i) /\ IsFor(msg, i)
           /\ \A i \in ElementsOf(d) :
                 Has(DeviceGives(d, msg), ToElement(d, i))
                    <=> IsFor(msg, i)
<1>1. \A i \in ElementsOf(d) : ToElement(d, i) \in Channels
  <2> TAKE i \in ElementsOf(d)
  <2>1. <<d, i>> \in Places /\ <<d, i>>[1] = d /\ <<d, i>>[2] = i
    BY PlaceShape
  <2> QED
    BY <2>1 DEF Channels
<1>2. Len(Composition[d]) \in Nat
  BY DispatchAssumption
<1>3. \A i, j \in ElementsOf(d) : ToElement(d, i) = ToElement(d, j) <=> i = j
  BY ChannelsDiffer
<1>4. CASE msg.target = All
  <2>1. DeviceGives(d, msg) = [k \in 1 .. Len(Composition[d]) |-> ToElement(d, k - 1)]
    <3>1. msg.target \notin ElementsOf(d)
      BY <1>2, <1>4 DEF All, ElementsOf
    <3> QED
      BY <1>4, <3>1 DEF DeviceGives
  <2>2. \A k \in 1 .. Len(Composition[d]) : k - 1 \in ElementsOf(d)
    BY <1>2 DEF ElementsOf
  <2>3. \A i \in ElementsOf(d) : i + 1 \in 1 .. Len(Composition[d]) /\ (i + 1) - 1 = i
    BY <1>2 DEF ElementsOf
  <2>4. Len(DeviceGives(d, msg)) = Len(Composition[d]) /\ DeviceGives(d, msg) \in Seq(Channels)
    BY <1>1, <1>2, <2>1, <2>2
  <2>5. \A k \in 1 .. Len(Composition[d]) : DeviceGives(d, msg)[k] = ToElement(d, k - 1)
    BY <2>1
  <2>6. \A i \in ElementsOf(d) : IsFor(msg, i)
    BY <1>4 DEF IsFor
  <2>7. \A j, k \in 1 .. Len(DeviceGives(d, msg)) :
           DeviceGives(d, msg)[j] = DeviceGives(d, msg)[k] => j = k
    BY <1>2, <1>3, <2>2, <2>4, <2>5
  <2>8. \A i \in ElementsOf(d) : DeviceGives(d, msg)[i + 1] = ToElement(d, i)
    BY <2>3, <2>5
  <2>9. \A k \in 1 .. Len(DeviceGives(d, msg)) :
           \E i \in ElementsOf(d) : DeviceGives(d, msg)[k] = ToElement(d, i) /\ IsFor(msg, i)
    BY <2>2, <2>4, <2>5, <2>6
  <2> QED
    BY <2>3, <2>4, <2>6, <2>7, <2>8, <2>9 DEF Has
<1>5. CASE msg.target # All /\ msg.target \in ElementsOf(d)
  <2>1. DeviceGives(d, msg) = <<ToElement(d, msg.target)>>
    BY <1>5 DEF DeviceGives
  <2>2. \A i \in ElementsOf(d) : IsFor(msg, i) <=> i = msg.target
    BY <1>5 DEF IsFor
  <2> QED
    BY <1>1, <1>3, <1>5, <2>1, <2>2 DEF Has
<1>6. CASE msg.target # All /\ msg.target \notin ElementsOf(d)
  <2>1. DeviceGives(d, msg) = <<>>
    BY <1>6 DEF DeviceGives
  <2>2. \A i \in ElementsOf(d) : ~IsFor(msg, i)
    BY <1>6 DEF IsFor
  <2> QED
    BY <2>1, <2>2 DEF Has
<1> QED
  BY <1>4, <1>5, <1>6

(* What an element gives a message to: its models.                         *)
LEMMA ElementOutputs ==
    ASSUME NEW d \in Devices, NEW i \in ElementsOf(d)
    PROVE  /\ ElementGives(d, i) \in Seq(Channels)
           /\ \A j, k \in 1 .. Len(ElementGives(d, i)) : ElementGives(d, i)[j] = ElementGives(d, i)[k] => j = k
           /\ \A k \in 1 .. Len(ElementGives(d, i)) :
                 \E m \in Models : ElementGives(d, i)[k] = ToModel(m) /\ PlaceOf[m] = <<d, i>>
           /\ \A m \in Models : PlaceOf[m] = <<d, i>> =>
                 Has(ElementGives(d, i), ToModel(m))
<1> DEFINE M == ModelsOf(d, i)
<1>1. M \in Seq(Models) /\ Len(M) \in Nat
  BY PlaceShape, LenProperties
<1>2. \A k \in 1 .. Len(M) : M[k] \in Models /\ PlaceOf[M[k]] = <<d, i>>
  BY ModelOnce
<1>3. \A j, k \in 1 .. Len(M) : M[j] = M[k] => j = k
  BY ModelOnce
<1>4. \A m \in Models : ToModel(m) \in Channels
  BY DEF Channels
<1>5. \A m \in Models : PlaceOf[m] = <<d, i>> => \E k \in 1 .. Len(M) : M[k] = m
  <2> SUFFICES ASSUME NEW m \in Models, PlaceOf[m] = <<d, i>>
               PROVE  \E k \in 1 .. Len(M) : M[k] = m
    OBVIOUS
  <2>1. PICK e \in Devices : \E j \in ElementsOf(e) :
           PlaceOf[m] = <<e, j>> /\ \E k \in 1 .. Len(ModelsOf(e, j)) : ModelsOf(e, j)[k] = m
    BY PlaceOfModel
  <2>2. PICK j \in ElementsOf(e) :
           PlaceOf[m] = <<e, j>> /\ \E k \in 1 .. Len(ModelsOf(e, j)) : ModelsOf(e, j)[k] = m
    BY <2>1
  <2>3. e = d /\ j = i
    BY <2>2
  <2> QED
    BY <2>2, <2>3
<1>6. ElementGives(d, i) = [k \in 1 .. Len(M) |-> ToModel(M[k])]
  BY DEF ElementGives
<1> HIDE DEF M
<1>7. /\ ElementGives(d, i) \in Seq(Channels) /\ Len(ElementGives(d, i)) = Len(M)
      /\ \A k \in 1 .. Len(M) : ElementGives(d, i)[k] = ToModel(M[k])
  BY <1>1, <1>2, <1>4, <1>6
<1>8. \A j, k \in 1 .. Len(M) : ToModel(M[j]) = ToModel(M[k]) => j = k
  BY <1>3, ChannelsDiffer
<1>9. \A j, k \in 1 .. Len(ElementGives(d, i)) :
         ElementGives(d, i)[j] = ElementGives(d, i)[k] => j = k
  BY <1>7, <1>8
<1>10. \A k \in 1 .. Len(ElementGives(d, i)) :
          \E m \in Models : ElementGives(d, i)[k] = ToModel(m) /\ PlaceOf[m] = <<d, i>>
  BY <1>2, <1>7
<1>11. ASSUME NEW m \in Models, PlaceOf[m] = <<d, i>>
       PROVE  Has(ElementGives(d, i), ToModel(m))
  <2>1. PICK k \in 1 .. Len(M) : M[k] = m
    BY <1>5, <1>11
  <2> QED
    BY <1>7, <2>1 DEF Has
<1> QED
  BY <1>7, <1>9, <1>10, <1>11

(* There is no other kind of task.                                         *)
LEMMA TaskKinds ==
    ASSUME NEW t \in Tasks
    PROVE  \/ t = Driver
           \/ \E d \in Devices : t = DeviceTask(d)
           \/ \E d \in Devices : \E i \in ElementsOf(d) : t = ElementTask(d, i)
  BY PlacesArePairs DEF Tasks, FanOuts

(* And each kind of task, and of channel, is one.                          *)
LEMMA KindsAreTasks ==
    ASSUME NEW d \in Devices, NEW i \in ElementsOf(d)
    PROVE  /\ Driver \in Tasks
           /\ DeviceTask(d) \in FanOuts /\ DeviceTask(d) \in Tasks
           /\ ElementTask(d, i) \in FanOuts /\ ElementTask(d, i) \in Tasks
           /\ ToDevice(d) \in Channels /\ ToElement(d, i) \in Channels
<1>1. <<d, i>> \in Places /\ <<d, i>>[1] = d /\ <<d, i>>[2] = i
  BY PlaceShape
<1> QED
  BY <1>1 DEF Tasks, FanOuts, Channels

(* No list of outputs names a channel twice.                               *)
LEMMA OutputsOnce ==
    ASSUME NEW t \in Tasks, NEW msg \in Messages
    PROVE  /\ AllOutputs(t, msg) \in Seq(Channels)
           /\ \A j, k \in 1 .. Len(AllOutputs(t, msg)) :
                 AllOutputs(t, msg)[j] = AllOutputs(t, msg)[k] => j = k
<1>1. CASE t = Driver
  BY <1>1, InputAndOutputs, DriverOutputs
<1>2. ASSUME NEW d \in Devices, t = DeviceTask(d)
      PROVE  /\ AllOutputs(t, msg) \in Seq(Channels)
             /\ \A j, k \in 1 .. Len(AllOutputs(t, msg)) :
                   AllOutputs(t, msg)[j] = AllOutputs(t, msg)[k] => j = k
  <2>1. AllOutputs(t, msg) = DeviceGives(d, msg)
    BY <1>2, InputAndOutputs
  <2> QED
    BY <2>1, DeviceOutputs
<1>3. ASSUME NEW d \in Devices, NEW i \in ElementsOf(d), t = ElementTask(d, i)
      PROVE  /\ AllOutputs(t, msg) \in Seq(Channels)
             /\ \A j, k \in 1 .. Len(AllOutputs(t, msg)) :
                   AllOutputs(t, msg)[j] = AllOutputs(t, msg)[k] => j = k
  <2>1. AllOutputs(t, msg) = ElementGives(d, i)
    BY <1>3, InputAndOutputs
  <2> QED
    BY <2>1, ElementOutputs
<1> QED
  BY <1>1, <1>2, <1>3, TaskKinds

-----------------------------------------------------------------------------
(* A task that gives to the first of those left.                           *)

(* What is left to do starts with an output of the task.                   *)
LEMMA GivesHead ==
    ASSUME NEW S, NEW out \in Seq(S), NEW k \in 1 .. Len(out), NEW left,
           \A a, b \in 1 .. Len(out) : out[a] = out[b] => a = b,
           left = SubSeq(out, k, Len(out))
    PROVE  /\ left \in Seq(S) /\ left # <<>>
           /\ Head(left) = out[k]
           /\ Tail(left) = SubSeq(out, k + 1, Len(out))
           /\ Tail(left) # <<>> => k + 1 \in 1 .. Len(out)
           /\ Has(left, Head(left))
           /\ ~ Has(Tail(left), Head(left))
           /\ \A c : c # Head(left) =>
                 (Has(left, c)
                    <=> Has(Tail(left), c))
<1> DEFINE L == Len(out)
<1>1. L \in Nat /\ k \in 1 .. L /\ \A i \in 1 .. L : out[i] \in S
  BY LenProperties, ElementOfSeq
<1>2. /\ left \in Seq(S) /\ Len(left) = L - k + 1
      /\ \A j \in 1 .. L - k + 1 : left[j] = out[k + j - 1]
  BY <1>1, SubSeqProperties
<1>3. Head(left) = out[k] /\ Tail(left) = SubSeq(out, k + 1, L)
  BY <1>1, HeadTailOfSubSeq
<1>4. left # <<>> /\ left[1] = out[k]
  <2>1. 1 \in 1 .. L - k + 1 /\ k + 1 - 1 = k /\ Len(left) # 0
    BY <1>1, <1>2
  <2>2. left[1] = out[k]
    BY <1>2, <2>1
  <2> QED
    BY <2>1, <2>2
<1>5. /\ Len(Tail(left)) = L - k
      /\ \A j \in 1 .. L - k : Tail(left)[j] = left[j + 1]
  BY <1>1, <1>2, <1>4, HeadTailProperties
<1>6. Tail(left) # <<>> => k + 1 \in 1 .. L
  <2> SUFFICES ASSUME L < k + 1
               PROVE  Tail(left) = <<>>
    BY <1>1
  <2> QED
    BY <1>1, <1>3, SubSeqEmpty
<1>7. ~ Has(Tail(left), Head(left))
  <2> SUFFICES ASSUME NEW j \in 1 .. L - k, Tail(left)[j] = Head(left)
               PROVE  FALSE
    BY <1>5 DEF Has
  <2>1. Tail(left)[j] = out[k + j]
    BY <1>1, <1>2, <1>5
  <2> QED
    BY <1>1, <1>3, <2>1
<1>8. ASSUME NEW c, c # Head(left)
      PROVE  Has(left, c)
                <=> Has(Tail(left), c)
  <2>1. ASSUME NEW j \in 1 .. Len(left), left[j] = c
        PROVE  j - 1 \in 1 .. Len(Tail(left)) /\ Tail(left)[j - 1] = c
    <3>1. j # 1
      BY <1>3, <1>4, <1>8, <2>1
    <3> QED
      BY <1>1, <1>2, <1>5, <2>1, <3>1
  <2>2. ASSUME NEW j \in 1 .. Len(Tail(left)), Tail(left)[j] = c
        PROVE  j + 1 \in 1 .. Len(left) /\ left[j + 1] = c
    BY <1>1, <1>2, <1>5, <2>2
  <2> QED
    BY <2>1, <2>2 DEF Has
<1>9. Has(left, Head(left))
  <2>1. 1 \in 1 .. Len(left)
    BY <1>1, <1>2
  <2> QED
    BY <1>3, <1>4, <2>1 DEF Has
<1> QED
  BY <1>1, <1>2, <1>3, <1>4, <1>6, <1>7, <1>8, <1>9

(* A hand that holds a message still has somewhere to put it.              *)
LEMMA BusyHand ==
    ASSUME NEW t \in Tasks, HandOK(t), Busy(t)
    PROVE  \E msg \in Messages : \E c \in Channels : \E k \in Nat \ {0} :
              /\ hand[t].msg = <<msg>> /\ hand[t].left # <<>> /\ Head(hand[t].left) = c
              /\ Has(AllOutputs(t, msg), c)
              /\ Tail(hand[t].left) = SubSeq(AllOutputs(t, msg), k, Len(AllOutputs(t, msg)))
              /\ Tail(hand[t].left) # <<>> => k \in 1 .. Len(AllOutputs(t, msg))
              /\ Has(hand[t].left, c) /\ ~ Has(Tail(hand[t].left), c)
              /\ \A b : b # c => (Has(hand[t].left, b) <=> Has(Tail(hand[t].left), b))
<1>1. PICK msg \in Messages : \E k \in 1 .. Len(AllOutputs(t, msg)) :
         hand[t] = [msg |-> <<msg>>, left |-> SubSeq(AllOutputs(t, msg), k, Len(AllOutputs(t, msg)))]
  BY DEF HandOK
<1>2. PICK out : out = AllOutputs(t, msg)
  OBVIOUS
<1>3. PICK k \in 1 .. Len(out) : hand[t] = [msg |-> <<msg>>, left |-> SubSeq(out, k, Len(out))]
  BY <1>1, <1>2
<1>4. PICK left : left = hand[t].left
  OBVIOUS
<1>5. left = SubSeq(out, k, Len(out)) /\ hand[t].msg = <<msg>>
  BY <1>3, <1>4
<1>6. out \in Seq(Channels) /\ \A a, b \in 1 .. Len(out) : out[a] = out[b] => a = b
  BY <1>2, OutputsOnce
<1>7. /\ left # <<>> /\ Head(left) = out[k]
      /\ Tail(left) = SubSeq(out, k + 1, Len(out))
      /\ Tail(left) # <<>> => k + 1 \in 1 .. Len(out)
      /\ Has(left, Head(left)) /\ ~ Has(Tail(left), Head(left))
      /\ \A b : b # Head(left) => (Has(left, b) <=> Has(Tail(left), b))
  <2>1. left # <<>>
    BY <1>5, <1>6, GivesHead
  <2>2. Head(left) = out[k]
    BY <1>5, <1>6, GivesHead
  <2>3. Tail(left) = SubSeq(out, k + 1, Len(out))
    BY <1>5, <1>6, GivesHead
  <2>4. Tail(left) # <<>> => k + 1 \in 1 .. Len(out)
    BY <1>5, <1>6, GivesHead
  <2>5. Has(left, Head(left))
    BY <1>5, <1>6, GivesHead
  <2>6. ~ Has(Tail(left), Head(left))
    BY <1>5, <1>6, GivesHead
  <2>7. ASSUME NEW b, b # Head(left)
        PROVE  Has(left, b) <=> Has(Tail(left), b)
    BY <1>5, <1>6, <2>7, GivesHead
  <2> QED
    BY <2>1, <2>2, <2>3, <2>4, <2>5, <2>6, <2>7
<1>8. out[k] \in Channels /\ k + 1 \in Nat \ {0} /\ Has(out, out[k])
  BY <1>6, ElementOfSeq, LenProperties DEF Has
<1> QED
  BY <1>2, <1>4, <1>5, <1>7, <1>8

(* An idle hand holds nothing and waits nowhere.                           *)
LEMMA IdleHand ==
    ASSUME NEW t \in Tasks, HandOK(t), ~Busy(t)
    PROVE  hand[t] = Nothing /\ \A c : HeldFor(t, c) = <<>>
  BY DEF HandOK, HeldFor, Nothing

(* A hand that is not touched stays a proper one.                          *)
LEMMA HandStays ==
    ASSUME NEW t, hand'[t] = hand[t]
    PROVE  /\ \A c : HeldFor(t, c)' = HeldFor(t, c)
           /\ HandOK(t) => HandOK(t)'
           /\ Busy(t)' <=> Busy(t)
  BY DEF HeldFor, HandOK, Busy

(* What a hand is after a send or a receive.                               *)
LEMMA HoldingOK ==
    ASSUME NEW t \in Tasks, NEW msg \in Messages, NEW k \in Nat \ {0}, NEW left,
           left = SubSeq(AllOutputs(t, msg), k, Len(AllOutputs(t, msg))),
           left # <<>> => k \in 1 .. Len(AllOutputs(t, msg)),
           hand'[t] = Holding(msg, left)
    PROVE  /\ HandOK(t)'
           /\ \A c : Has(left, c) => HeldFor(t, c)' = <<msg>>
           /\ \A c : ~ Has(left, c) => HeldFor(t, c)' = <<>>
<1>1. CASE left = <<>>
  <2>1. hand'[t] = Nothing /\ ~Busy(t)'
    BY <1>1 DEF Holding, Nothing, Busy
  <2>2. HandOK(t)'
    BY <2>1 DEF HandOK
  <2>3. \A c : HeldFor(t, c)' = <<>>
    BY <2>1 DEF HeldFor, Nothing
  <2>4. ~ \E j \in 1 .. Len(left) : TRUE
    BY <1>1
  <2> QED
    BY <2>2, <2>3, <2>4 DEF Has
<1>2. CASE left # <<>>
  <2>1. hand'[t] = [msg |-> <<msg>>, left |-> left]
    BY <1>2 DEF Holding
  <2>2. Busy(t)'
    BY <1>2, <2>1 DEF Busy
  <2>3. HandOK(t)'
    BY <1>2, <2>1, <2>2 DEF HandOK
  <2>4. \A c : HeldFor(t, c)' = IF Has(hand'[t].left, c)
                                THEN hand'[t].msg ELSE <<>>
    BY DEF HeldFor, Has
  <2>5. hand'[t].left = left /\ hand'[t].msg = <<msg>>
    BY <2>1
  <2> QED
    BY <2>3, <2>4, <2>5
<1> QED
  BY <1>1, <1>2

(* Only the hand of the acting task changes.                               *)
LEMMA HandsChange ==
    ASSUME DOMAIN hand = Tasks, NEW t \in Tasks, NEW h, hand' = [hand EXCEPT ![t] = h]
    PROVE  DOMAIN hand' = Tasks /\ hand'[t] = h /\ \A u \in Tasks \ {t} : hand'[u] = hand[u]
  OBVIOUS

(* Only the channel a step is about changes.                               *)
LEMMA ChannelsChange ==
    ASSUME TypeOK, NEW c \in Channels, NEW x \in Option(Messages), chan' = [chan EXCEPT ![c] = x]
    PROVE  /\ chan' \in [Channels -> Option(Messages)]
           /\ chan'[c] = x /\ \A b \in Channels \ {c} : chan'[b] = chan[b]
  BY DEF TypeOK

(* A send, from a hand into a channel.                                     *)
LEMMA GiveStep ==
    ASSUME TypeOK, NEW t \in Tasks, Give(t)
    PROVE  \E msg \in Messages : \E c \in Channels :
              /\ Has(AllOutputs(t, msg), c)
              /\ chan[c] = <<>> /\ chan'[c] = <<msg>> /\ \A b \in Channels \ {c} : chan'[b] = chan[b]
              /\ HeldFor(t, c) = <<msg>> /\ HeldFor(t, c)' = <<>>
              /\ \A b : b # c => HeldFor(t, b)' = HeldFor(t, b)
              /\ \A u \in Tasks \ {t} : \A b : HeldFor(u, b)' = HeldFor(u, b)
              /\ TypeOK'
<1>1. /\ DOMAIN hand = Tasks /\ \A u \in Tasks : HandOK(u)
      /\ Busy(t) /\ chan[Head(hand[t].left)] = <<>>
      /\ chan' = [chan EXCEPT ![Head(hand[t].left)] = hand[t].msg]
      /\ hand' = [hand EXCEPT ![t] = Holding(hand[t].msg[1], Tail(hand[t].left))]
      /\ UNCHANGED <<model, outbound>>
  BY DEF TypeOK, Give
<1>2. PICK msg \in Messages, c \in Channels, k \in Nat \ {0} :
         /\ hand[t].msg = <<msg>> /\ hand[t].left # <<>> /\ Head(hand[t].left) = c
         /\ Has(AllOutputs(t, msg), c)
         /\ Tail(hand[t].left) = SubSeq(AllOutputs(t, msg), k, Len(AllOutputs(t, msg)))
         /\ Tail(hand[t].left) # <<>> => k \in 1 .. Len(AllOutputs(t, msg))
         /\ Has(hand[t].left, c) /\ ~ Has(Tail(hand[t].left), c)
         /\ \A b : b # c => (Has(hand[t].left, b) <=> Has(Tail(hand[t].left), b))
  BY <1>1, BusyHand
<1>3. PICK rest : rest = Tail(hand[t].left)
  OBVIOUS
<1>4. /\ chan[c] = <<>> /\ chan' = [chan EXCEPT ![c] = <<msg>>]
      /\ hand' = [hand EXCEPT ![t] = Holding(msg, rest)]
  <2>1. hand[t].msg[1] = msg
    BY <1>2
  <2> QED
    BY <1>1, <1>2, <1>3, <2>1
<1>5. <<msg>> \in Option(Messages)
  BY DEF Option
<1>6. /\ chan' \in [Channels -> Option(Messages)]
      /\ chan'[c] = <<msg>> /\ \A b \in Channels \ {c} : chan'[b] = chan[b]
  BY <1>4, <1>5, ChannelsChange
<1>7. DOMAIN hand' = Tasks /\ hand'[t] = Holding(msg, rest) /\ \A u \in Tasks \ {t} : hand'[u] = hand[u]
  BY <1>1, <1>4, HandsChange
<1>8. /\ rest = SubSeq(AllOutputs(t, msg), k, Len(AllOutputs(t, msg)))
      /\ rest # <<>> => k \in 1 .. Len(AllOutputs(t, msg))
  BY <1>2, <1>3
<1>9. HandOK(t)' /\ \A b : HeldFor(t, b)' = IF Has(rest, b) THEN <<msg>> ELSE <<>>
  <2>1. HandOK(t)'
    BY <1>7, <1>8, HoldingOK
  <2>2. hand'[t] = Holding(msg, rest)
    BY <1>7
  <2>3. \A b : Has(rest, b) => HeldFor(t, b)' = <<msg>>
    BY <1>8, <2>2, HoldingOK, Zenon
  <2>4. \A b : ~ Has(rest, b) => HeldFor(t, b)' = <<>>
    BY <1>8, <2>2, HoldingOK, Zenon
  <2> QED
    BY <2>1, <2>3, <2>4
<1>10. \A b : HeldFor(t, b) = IF Has(hand[t].left, b) THEN <<msg>> ELSE <<>>
  BY <1>2 DEF HeldFor, Has
<1>11. \A u \in Tasks \ {t} : HandOK(u)' /\ \A b : HeldFor(u, b)' = HeldFor(u, b)
  BY <1>1, <1>7, HandStays
<1>12. TypeOK'
  BY <1>1, <1>6, <1>7, <1>9, <1>11 DEF TypeOK
<1>13. HeldFor(t, c) = <<msg>> /\ HeldFor(t, c)' = <<>>
  BY <1>2, <1>3, <1>9, <1>10
<1>14. \A b : b # c => HeldFor(t, b)' = HeldFor(t, b)
  BY <1>2, <1>3, <1>9, <1>10
<1> QED
  BY <1>2, <1>4, <1>6, <1>11, <1>12, <1>13, <1>14

(* The tasks that pass messages on are driver, devices and elements.       *)
LEMMA FanOutTasks ==
    ASSUME NEW t \in FanOuts
    PROVE  t \in Tasks /\ t # Driver /\ Input(t) \in Channels /\ \A msg : AllOutputs(t, msg) = Outputs(t, msg)
<1>1. t \in Tasks
  BY DEF Tasks
<1>2. \/ \E d \in Devices : t = DeviceTask(d)
      \/ \E d \in Devices : \E i \in ElementsOf(d) : t = ElementTask(d, i)
  BY PlacesArePairs DEF FanOuts
<1>3. ASSUME NEW d \in Devices, t = DeviceTask(d)
      PROVE  t # Driver /\ Input(t) \in Channels
  BY <1>3, TasksDiffer, InputAndOutputs DEF Channels
<1>4. ASSUME NEW d \in Devices, NEW i \in ElementsOf(d), t = ElementTask(d, i)
      PROVE  t # Driver /\ Input(t) \in Channels
  <2>1. ElementTask(d, i) # Driver /\ Input(ElementTask(d, i)) = ToElement(d, i)
    BY TasksDiffer, InputAndOutputs
  <2>2. ToElement(d, i) \in Channels
    BY KindsAreTasks
  <2> QED
    BY <1>4, <2>1, <2>2
<1> QED
  BY <1>1, <1>2, <1>3, <1>4 DEF AllOutputs

(* A receive, from a channel into a hand.                                  *)
LEMMA ReceiveStep ==
    ASSUME TypeOK, NEW t \in FanOuts, FanOutReceives(t)
    PROVE  \E msg \in Messages :
              /\ chan[Input(t)] = <<msg>> /\ chan'[Input(t)] = <<>>
              /\ \A b \in Channels \ {Input(t)} : chan'[b] = chan[b]
              /\ \A b : HeldFor(t, b) = <<>>
              /\ \A b : HeldFor(t, b)' = IF Has(Outputs(t, msg), b)
                                         THEN <<msg>> ELSE <<>>
              /\ \A u \in Tasks \ {t} : \A b : HeldFor(u, b)' = HeldFor(u, b)
              /\ TypeOK'
<1> USE DEF TypeOK
<1>1. t \in Tasks /\ Input(t) \in Channels
  BY FanOutTasks
<1>2. PICK msg \in Messages : chan[Input(t)] = <<msg>>
  BY <1>1 DEF FanOutReceives, Option
<1> DEFINE out == Outputs(t, msg)
<1>3. Head(chan[Input(t)]) = msg
  BY <1>2
<1>4. /\ hand' = [hand EXCEPT ![t] = Holding(msg, out)]
      /\ chan' = [chan EXCEPT ![Input(t)] = <<>>]
      /\ UNCHANGED <<model, outbound>>
      /\ ~Busy(t)
  BY <1>3 DEF FanOutReceives, Free
<1>5. out = AllOutputs(t, msg) /\ out \in Seq(Channels)
  BY <1>1, FanOutTasks, OutputsOnce
<1>6. out = SubSeq(out, 1, Len(out)) /\ (out # <<>> => 1 \in 1 .. Len(out))
  BY <1>5, SubSeqFull, EmptySeq
<1> HIDE DEF out
<1>7. <<>> \in Option(Messages)
  BY DEF Option
<1>8. /\ chan' \in [Channels -> Option(Messages)]
      /\ chan'[Input(t)] = <<>> /\ \A b \in Channels \ {Input(t)} : chan'[b] = chan[b]
  BY <1>1, <1>4, <1>7, ChannelsChange
<1>9. DOMAIN hand' = Tasks /\ hand'[t] = Holding(msg, out) /\ \A u \in Tasks \ {t} : hand'[u] = hand[u]
  BY <1>1, <1>4, HandsChange
<1>10. /\ HandOK(t)'
       /\ \A b : HeldFor(t, b)' = IF Has(out, b) THEN <<msg>> ELSE <<>>
  BY <1>1, <1>5, <1>6, <1>9, HoldingOK
<1>11. \A u \in Tasks \ {t} : HandOK(u)' /\ \A b : HeldFor(u, b)' = HeldFor(u, b)
  BY <1>9, HandStays
<1>12. TypeOK'
  BY <1>4, <1>8, <1>9, <1>10, <1>11
<1>13. \A b : HeldFor(t, b) = <<>>
  BY <1>1, <1>4, IdleHand
<1> QED
  BY <1>2, <1>8, <1>10, <1>11, <1>12, <1>13 DEF out

(* A message on the air, into the hand of the driver.                      *)
LEMMA DriverStep ==
    ASSUME TypeOK, NEW msg \in Messages, DriverReceives(msg)
    PROVE  /\ chan' = chan
           /\ \A b : HeldFor(Driver, b) = <<>>
           /\ \A b : Has(DriverGives(msg), b) => HeldFor(Driver, b)' = <<msg>>
           /\ \A b : ~ Has(DriverGives(msg), b) => HeldFor(Driver, b)' = <<>>
           /\ \A u \in Tasks \ {Driver} : \A b : HeldFor(u, b)' = HeldFor(u, b)
           /\ TypeOK'
<1>1. /\ DOMAIN hand = Tasks /\ \A u \in Tasks : HandOK(u)
      /\ chan \in [Channels -> Option(Messages)]
      /\ ~Busy(Driver)
      /\ hand' = [hand EXCEPT ![Driver] = Holding(msg, DriverGives(msg))]
      /\ UNCHANGED <<chan, model, outbound>>
  BY DEF TypeOK, DriverReceives, AtSelect
<1>2. Driver \in Tasks /\ AllOutputs(Driver, msg) = DriverGives(msg)
  BY InputAndOutputs DEF Tasks
<1>3. PICK out : out = DriverGives(msg)
  OBVIOUS
<1>4. /\ out = SubSeq(AllOutputs(Driver, msg), 1, Len(AllOutputs(Driver, msg)))
      /\ out # <<>> => 1 \in 1 .. Len(AllOutputs(Driver, msg))
  <2>1. DriverGives(msg) \in Seq(Channels)
    BY DriverOutputs
  <2> QED
    BY <1>2, <1>3, <2>1, SubSeqFull, EmptySeq
<1>5. DOMAIN hand' = Tasks /\ hand'[Driver] = Holding(msg, out) /\ \A u \in Tasks \ {Driver} : hand'[u] = hand[u]
  BY <1>1, <1>2, <1>3, HandsChange
<1>6. hand'[Driver] = Holding(msg, out) /\ 1 \in Nat \ {0}
  BY <1>5
<1>7. HandOK(Driver)'
  BY <1>2, <1>4, <1>6, HoldingOK
<1>8. \A b : Has(out, b) => HeldFor(Driver, b)' = <<msg>>
  BY <1>2, <1>4, <1>6, HoldingOK, Zenon
<1>9. \A b : ~ Has(out, b) => HeldFor(Driver, b)' = <<>>
  BY <1>2, <1>4, <1>6, HoldingOK, Zenon
<1>10. \A u \in Tasks \ {Driver} : HandOK(u)' /\ \A b : HeldFor(u, b)' = HeldFor(u, b)
  BY <1>1, <1>5, HandStays
<1>11. TypeOK'
  BY <1>1, <1>5, <1>7, <1>10 DEF TypeOK
<1>12. \A b : HeldFor(Driver, b) = <<>>
  BY <1>1, <1>2, IdleHand
<1> QED
  BY <1>1, <1>3, <1>8, <1>9, <1>10, <1>11, <1>12

(* A message out of the channel of a model.                                *)
LEMMA ModelStep ==
    ASSUME TypeOK, NEW m \in Models, ModelReceives(m)
    PROVE  \E msg \in Messages :
              /\ chan[ToModel(m)] = <<msg>> /\ chan'[ToModel(m)] = <<>>
              /\ \A b \in Channels \ {ToModel(m)} : chan'[b] = chan[b]
              /\ hand' = hand /\ TypeOK'
<1>1. /\ chan \in [Channels -> Option(Messages)]
      /\ DOMAIN hand = Tasks /\ \A u \in Tasks : HandOK(u)
      /\ outbound \in Option(Models)
      /\ model \in [Models -> {"receiving", "sending", "deaf", "gone"}]
  BY DEF TypeOK
<1>2. ToModel(m) \in Channels /\ <<>> \in Option(Messages)
  BY DEF Channels, Option
<1>3. /\ chan[ToModel(m)] # <<>>
      /\ chan' = [chan EXCEPT ![ToModel(m)] = <<>>]
      /\ UNCHANGED <<hand, outbound>>
      /\ model' \in [Models -> {"receiving", "sending", "deaf", "gone"}]
  BY <1>1 DEF ModelReceives
<1>4. PICK msg \in Messages : chan[ToModel(m)] = <<msg>>
  BY <1>1, <1>2, <1>3 DEF Option
<1>5. /\ chan' \in [Channels -> Option(Messages)]
      /\ chan'[ToModel(m)] = <<>> /\ \A b \in Channels \ {ToModel(m)} : chan'[b] = chan[b]
  BY <1>2, <1>3, ChannelsChange
<1>6. \A u \in Tasks : HandOK(u)'
  BY <1>1, <1>3, HandStays
<1>7. TypeOK'
  BY <1>1, <1>3, <1>5, <1>6 DEF TypeOK
<1> QED
  BY <1>3, <1>4, <1>5, <1>7

(* Steps that move no message.                                             *)
LEMMA OtherSteps ==
    ASSUME TypeOK,
           \/ DriverTransmits
           \/ \E m \in Models : ModelSends(m) \/ ModelReturns(m)
           \/ UNCHANGED vars
    PROVE  chan' = chan /\ hand' = hand /\ TypeOK'
<1>1. /\ chan \in [Channels -> Option(Messages)]
      /\ DOMAIN hand = Tasks /\ \A u \in Tasks : HandOK(u)
      /\ outbound \in Option(Models)
      /\ model \in [Models -> {"receiving", "sending", "deaf", "gone"}]
  BY DEF TypeOK
<1>2. chan' = chan /\ hand' = hand
  BY DEF DriverTransmits, ModelSends, ModelReturns, vars
<1>3. \A u \in Tasks : HandOK(u)'
  BY <1>1, <1>2, HandStays
<1>4. outbound' \in Option(Models) /\ model' \in [Models -> {"receiving", "sending", "deaf", "gone"}]
  <2>1. CASE DriverTransmits
    BY <1>1, <2>1 DEF DriverTransmits, Option
  <2>2. ASSUME NEW m \in Models, ModelSends(m)
        PROVE  outbound' \in Option(Models) /\ model' \in [Models -> {"receiving", "sending", "deaf", "gone"}]
    BY <1>1, <2>2 DEF ModelSends, Option
  <2>3. ASSUME NEW m \in Models, ModelReturns(m)
        PROVE  outbound' \in Option(Models) /\ model' \in [Models -> {"receiving", "sending", "deaf", "gone"}]
    BY <1>1, <2>3 DEF ModelReturns
  <2>4. CASE UNCHANGED vars
    BY <1>1, <2>4 DEF vars
  <2> QED
    BY <2>1, <2>2, <2>3, <2>4
<1>5. TypeOK'
  BY <1>1, <1>2, <1>3, <1>4 DEF TypeOK
<1> QED
  BY <1>2, <1>5

(* The disjuncts of a step.                                                *)
LEMMA StepKinds ==
    ASSUME [Next]_vars
    PROVE  \/ \E msg \in Messages : DriverReceives(msg)
           \/ \E t \in FanOuts : FanOutReceives(t)
           \/ \E t \in Tasks : Give(t)
           \/ \E m \in Models : ModelReceives(m)
           \/ DriverTransmits
           \/ \E m \in Models : ModelSends(m) \/ ModelReturns(m)
           \/ UNCHANGED vars
  BY DEF Next, TaskStep

(* All channels are empty and all hands idle at the start.                 *)
LEMMA InitiallyTypeOK == Init => TypeOK
<1> SUFFICES ASSUME Init
             PROVE  TypeOK
  OBVIOUS
<1>1. \A t \in Tasks : HandOK(t)
  BY DEF Init, HandOK, Busy, Nothing
<1>2. chan \in [Channels -> Option(Messages)] /\ outbound \in Option(Models)
  BY DEF Init, Option
<1>3. model \in [Models -> {"receiving", "sending", "deaf", "gone"}]
  BY DEF Init
<1> QED
  BY <1>1, <1>2, <1>3 DEF TypeOK, Init

(* Every step keeps hands and channels proper.                             *)
LEMMA TypeOKIsKept == TypeOK /\ [Next]_vars => TypeOK'
<1> SUFFICES ASSUME TypeOK, [Next]_vars
             PROVE  TypeOK'
  OBVIOUS
<1>1. ASSUME NEW msg \in Messages, DriverReceives(msg)
      PROVE  TypeOK'
  BY <1>1, DriverStep
<1>2. ASSUME NEW t \in FanOuts, FanOutReceives(t)
      PROVE  TypeOK'
  BY <1>2, ReceiveStep
<1>3. ASSUME NEW t \in Tasks, Give(t)
      PROVE  TypeOK'
  BY <1>3, GiveStep
<1>4. ASSUME NEW m \in Models, ModelReceives(m)
      PROVE  TypeOK'
  BY <1>4, ModelStep
<1> QED
  BY <1>1, <1>2, <1>3, <1>4, OtherSteps, StepKinds

(***************************************************************************)
(* Each task holds a message exactly while there is somebody left to give  *)
(* it to, and those are the last of the ones it is for.                    *)
(***************************************************************************)
THEOREM TypeAlwaysOK == Spec => []TypeOK
  BY InitiallyTypeOK, TypeOKIsKept, PTL DEF Spec

-----------------------------------------------------------------------------
(* A mailbox is a line of six places, of which each holds a message or not.*)

Line(a, b, c, d, e, f) == a \o b \o c \o d \o e \o f

(* A line is a sequence, as long as its places together.                   *)
LEMMA LineLength ==
    ASSUME NEW S, NEW a \in Seq(S), NEW b \in Seq(S), NEW c \in Seq(S),
           NEW d \in Seq(S), NEW e \in Seq(S), NEW f \in Seq(S)
    PROVE  /\ Line(a, b, c, d, e, f) \in Seq(S)
           /\ Len(Line(a, b, c, d, e, f)) = Len(a) + Len(b) + Len(c) + Len(d) + Len(e) + Len(f)
  BY ConcatProperties DEF Line

(* What is at the end of a line is at the end of it either side of a gap.  *)
LEMMA NextPlace ==
    ASSUME NEW S, NEW a \in Seq(S), NEW x \in Seq(S)
    PROVE  (a \o <<>>) \o x = (a \o x) \o <<>>
<1>1. a \o <<>> = a /\ (a \o x) \o <<>> = a \o x
  BY ConcatProperties, ConcatEmptySeq
<1> QED
  BY <1>1

(* A message moves to the place before it, which is free.                  *)
LEMMA LineMoves ==
    ASSUME NEW S
    PROVE  /\ \A x, c, d, e, f \in Seq(S) : Line(x, <<>>, c, d, e, f) = Line(<<>>, x, c, d, e, f)
           /\ \A a, x, d, e, f \in Seq(S) : Line(a, x, <<>>, d, e, f) = Line(a, <<>>, x, d, e, f)
           /\ \A a, b, x, e, f \in Seq(S) : Line(a, b, x, <<>>, e, f) = Line(a, b, <<>>, x, e, f)
           /\ \A a, b, c, x, f \in Seq(S) : Line(a, b, c, x, <<>>, f) = Line(a, b, c, <<>>, x, f)
           /\ \A a, b, c, d, x \in Seq(S) : Line(a, b, c, d, x, <<>>) = Line(a, b, c, d, <<>>, x)
<1>1. ASSUME NEW a \in Seq(S), NEW b \in Seq(S), NEW c \in Seq(S), NEW d \in Seq(S), NEW x \in Seq(S)
      PROVE  /\ x \o <<>> = <<>> \o x
             /\ (a \o <<>>) \o x = (a \o x) \o <<>>
             /\ (a \o b \o <<>>) \o x = (a \o b \o x) \o <<>>
             /\ (a \o b \o c \o <<>>) \o x = (a \o b \o c \o x) \o <<>>
             /\ (a \o b \o c \o d \o <<>>) \o x = (a \o b \o c \o d \o x) \o <<>>
  <2>1. a \o b \in Seq(S) /\ a \o b \o c \in Seq(S) /\ a \o b \o c \o d \in Seq(S)
    BY ConcatProperties
  <2> QED
    BY <2>1, NextPlace, ConcatEmptySeq
<1>2. ASSUME NEW x \in Seq(S), NEW c \in Seq(S), NEW d \in Seq(S), NEW e \in Seq(S), NEW f \in Seq(S)
      PROVE  Line(x, <<>>, c, d, e, f) = Line(<<>>, x, c, d, e, f)
  BY <1>1 DEF Line
<1>3. ASSUME NEW a \in Seq(S), NEW x \in Seq(S), NEW d \in Seq(S), NEW e \in Seq(S), NEW f \in Seq(S)
      PROVE  Line(a, x, <<>>, d, e, f) = Line(a, <<>>, x, d, e, f)
  BY <1>1 DEF Line
<1>4. ASSUME NEW a \in Seq(S), NEW b \in Seq(S), NEW x \in Seq(S), NEW e \in Seq(S), NEW f \in Seq(S)
      PROVE  Line(a, b, x, <<>>, e, f) = Line(a, b, <<>>, x, e, f)
  BY <1>1 DEF Line
<1>5. ASSUME NEW a \in Seq(S), NEW b \in Seq(S), NEW c \in Seq(S), NEW x \in Seq(S), NEW f \in Seq(S)
      PROVE  Line(a, b, c, x, <<>>, f) = Line(a, b, c, <<>>, x, f)
  BY <1>1 DEF Line
<1>6. ASSUME NEW a \in Seq(S), NEW b \in Seq(S), NEW c \in Seq(S), NEW d \in Seq(S), NEW x \in Seq(S)
      PROVE  Line(a, b, c, d, x, <<>>) = Line(a, b, c, d, <<>>, x)
  BY <1>1 DEF Line
<1> QED
  BY <1>2, <1>3, <1>4, <1>5, <1>6

(* The first of a line comes from its first place that is not empty.       *)
LEMMA TailOfConcat ==
    ASSUME NEW S, NEW a \in Seq(S), NEW x \in Seq(S), a # <<>>
    PROVE  Tail(a \o x) = Tail(a) \o x /\ a \o x # <<>> /\ a \o x \in Seq(S)
<1>1. /\ a \o x \in Seq(S) /\ Len(a \o x) = Len(a) + Len(x)
      /\ \A i \in 1 .. Len(a) + Len(x) : (a \o x)[i] = IF i <= Len(a) THEN a[i] ELSE x[i - Len(a)]
  BY ConcatProperties
<1>2. Len(a) \in Nat \ {0} /\ Len(x) \in Nat
  BY EmptySeq, LenProperties
<1>3. a \o x # <<>>
  BY <1>1, <1>2
<1>4. /\ Tail(a) \in Seq(S) /\ Len(Tail(a)) = Len(a) - 1
      /\ \A i \in 1 .. Len(a) - 1 : Tail(a)[i] = a[i + 1]
  BY HeadTailProperties
<1>5. /\ Tail(a \o x) \in Seq(S) /\ Len(Tail(a \o x)) = Len(a) + Len(x) - 1
      /\ \A i \in 1 .. Len(a) + Len(x) - 1 : Tail(a \o x)[i] = (a \o x)[i + 1]
  BY <1>1, <1>3, HeadTailProperties
<1>6. /\ Tail(a) \o x \in Seq(S) /\ Len(Tail(a) \o x) = Len(a) - 1 + Len(x)
      /\ \A i \in 1 .. Len(a) - 1 + Len(x) :
            (Tail(a) \o x)[i] = IF i <= Len(a) - 1 THEN Tail(a)[i] ELSE x[i - (Len(a) - 1)]
  BY <1>4, ConcatProperties
<1>7. ASSUME NEW i \in 1 .. Len(a) + Len(x) - 1
      PROVE  Tail(a \o x)[i] = (Tail(a) \o x)[i]
  <2>1. i + 1 \in 1 .. Len(a) + Len(x) /\ i \in 1 .. Len(a) - 1 + Len(x)
    BY <1>2
  <2>2. Tail(a \o x)[i] = IF i + 1 <= Len(a) THEN a[i + 1] ELSE x[i + 1 - Len(a)]
    BY <1>1, <1>5, <2>1
  <2>3. CASE i <= Len(a) - 1
    BY <1>2, <1>4, <1>6, <2>1, <2>2, <2>3
  <2>4. CASE ~ (i <= Len(a) - 1)
    <3>1. ~ (i + 1 <= Len(a)) /\ i + 1 - Len(a) = i - (Len(a) - 1)
      BY <1>2, <2>4
    <3> QED
      BY <1>6, <2>1, <2>2, <2>4, <3>1
  <2> QED
    BY <2>3, <2>4
<1>8. Tail(a \o x) = Tail(a) \o x
  BY <1>2, <1>5, <1>6, <1>7, SeqEqual
<1> QED
  BY <1>1, <1>3, <1>8

(* y holds just x; a line without its first; a line with x put at the end. *)
Just(y, x) == y = <<x>>
IsRest(s, rest) == s # <<>> /\ Tail(s) = rest
IsLast(x, s, rest) == s = Append(rest, x)

(* The first is taken, one more is put at the end.                         *)
LEMMA LineEnds ==
    ASSUME NEW S, NEW x \in S
    PROVE  /\ \A y, b, c, d, e, f \in Seq(S) :
                 Just(y, x) => IsRest(Line(y, b, c, d, e, f), Line(<<>>, b, c, d, e, f))
           /\ \A a, b, c, d, e, y \in Seq(S) :
                 Just(y, x) => IsLast(x, Line(a, b, c, d, e, y), Line(a, b, c, d, e, <<>>))
<1>1. ASSUME NEW y \in Seq(S), NEW b \in Seq(S), NEW c \in Seq(S), NEW d \in Seq(S),
             NEW e \in Seq(S), NEW f \in Seq(S), Just(y, x)
      PROVE  IsRest(Line(y, b, c, d, e, f), Line(<<>>, b, c, d, e, f))
  <2>1. y # <<>> /\ Tail(y) = <<>>
    BY <1>1 DEF Just
  <2> DEFINE b1 == y \o b
  <2>2. Tail(b1) = Tail(y) \o b /\ b1 # <<>> /\ b1 \in Seq(S)
    BY <2>1, TailOfConcat
  <2> HIDE DEF b1
  <2> DEFINE c1 == b1 \o c
  <2>3. Tail(c1) = Tail(b1) \o c /\ c1 # <<>> /\ c1 \in Seq(S)
    BY <2>2, TailOfConcat
  <2> HIDE DEF c1
  <2> DEFINE d1 == c1 \o d
  <2>4. Tail(d1) = Tail(c1) \o d /\ d1 # <<>> /\ d1 \in Seq(S)
    BY <2>3, TailOfConcat
  <2> HIDE DEF d1
  <2> DEFINE e1 == d1 \o e
  <2>5. Tail(e1) = Tail(d1) \o e /\ e1 # <<>> /\ e1 \in Seq(S)
    BY <2>4, TailOfConcat
  <2> HIDE DEF e1
  <2> DEFINE f1 == e1 \o f
  <2>6. Tail(f1) = Tail(e1) \o f /\ f1 # <<>> /\ f1 \in Seq(S)
    BY <2>5, TailOfConcat
  <2> HIDE DEF f1
  <2>7. f1 = Line(y, b, c, d, e, f)
    BY DEF Line, b1, c1, d1, e1, f1
  <2>8. Tail(f1) = Line(<<>>, b, c, d, e, f)
    BY <2>1, <2>2, <2>3, <2>4, <2>5, <2>6 DEF Line
  <2> QED
    BY <2>6, <2>7, <2>8 DEF IsRest
<1>2. ASSUME NEW a \in Seq(S), NEW b \in Seq(S), NEW c \in Seq(S), NEW d \in Seq(S),
             NEW e \in Seq(S), NEW y \in Seq(S), Just(y, x)
      PROVE  IsLast(x, Line(a, b, c, d, e, y), Line(a, b, c, d, e, <<>>))
  <2>1. a \o b \o c \o d \o e \in Seq(S)
    BY ConcatProperties
  <2>2. (a \o b \o c \o d \o e) \o <<>> = a \o b \o c \o d \o e
    BY <2>1, ConcatEmptySeq
  <2>3. Append(a \o b \o c \o d \o e, x) = (a \o b \o c \o d \o e) \o <<x>>
    BY <2>1, AppendIsConcat
  <2> QED
    BY <1>2, <2>2, <2>3 DEF Line, Just, IsLast
<1> QED
  BY <1>1, <1>2

-----------------------------------------------------------------------------
(* The six places of the mailbox of a model.                               *)

(* A channel of capacity one is a sequence of messages.                    *)
LEMMA OptionIsSeq ==
    ASSUME NEW S, NEW x \in Option(S)
    PROVE  x \in Seq(S)
<1>1. CASE x = <<>>
  BY <1>1
<1>2. ASSUME NEW y \in S, x = <<y>>
      PROVE  x \in Seq(S)
  BY <1>2
<1> QED
  BY <1>1, <1>2 DEF Option

(* So is what a task holds for a channel.                                  *)
LEMMA HeldIsOption ==
    ASSUME TypeOK, NEW t \in Tasks, NEW c
    PROVE  HeldFor(t, c) \in Option(Messages)
<1>1. HandOK(t)
  BY DEF TypeOK
<1>2. CASE Busy(t)
  <2>1. \E msg \in Messages : hand[t].msg = <<msg>>
    BY <1>1, <1>2, BusyHand
  <2> QED
    BY <2>1 DEF HeldFor, Option
<1>3. CASE ~Busy(t)
  BY <1>1, <1>3, IdleHand DEF Option
<1> QED
  BY <1>2, <1>3

(* The mailbox of a model is the line of the six places before it.         *)
LEMMA WaitingIs ==
    ASSUME NEW m \in Models, NEW d, NEW i, PlaceOf[m] = <<d, i>>
    PROVE  Waiting[m] = Line(chan[ToModel(m)],
                             HeldFor(ElementTask(d, i), ToModel(m)),
                             chan[ToElement(d, i)],
                             HeldFor(DeviceTask(d), ToElement(d, i)),
                             ForElement(chan[ToDevice(d)], i),
                             ForElement(HeldFor(Driver, ToDevice(d)), i))
<1>1. PlaceOf[m][1] = d /\ PlaceOf[m][2] = i
  OBVIOUS
<1>2. Waiting[m] = InTransit(m, PlaceOf[m][1], PlaceOf[m][2])
  BY DEF Waiting
<1> QED
  BY <1>1, <1>2 DEF InTransit, Line

(* And so it is after a step.                                              *)
LEMMA WaitingWillBe ==
    ASSUME NEW m \in Models, NEW d, NEW i, PlaceOf[m] = <<d, i>>
    PROVE  Waiting'[m] = Line(chan'[ToModel(m)],
                              HeldFor(ElementTask(d, i), ToModel(m))',
                              chan'[ToElement(d, i)],
                              HeldFor(DeviceTask(d), ToElement(d, i))',
                              ForElement(chan'[ToDevice(d)], i),
                              ForElement(HeldFor(Driver, ToDevice(d))', i))
<1>1. PlaceOf[m][1] = d /\ PlaceOf[m][2] = i
  OBVIOUS
<1>2. Waiting'[m] = InTransit(m, PlaceOf[m][1], PlaceOf[m][2])'
  BY DEF Waiting
<1> QED
  BY <1>1, <1>2 DEF InTransit, Line

(* Of a place, an element sees the message in it, or nothing.              *)
LEMMA ForElementShape ==
    ASSUME NEW S, NEW x \in Option(S), NEW i
    PROVE  /\ ForElement(x, i) \in Option(S)
           /\ ForElement(<<>>, i) = <<>>
           /\ \A y \in S : ForElement(<<y>>, i) = IF IsFor(y, i) THEN <<y>> ELSE <<>>
  BY DEF ForElement, Option

(* The six places are sequences of messages.                               *)
LEMMA PiecesAreSeqs ==
    ASSUME TypeOK, NEW m \in Models, NEW d \in Devices, NEW i \in ElementsOf(d)
    PROVE  /\ chan[ToModel(m)] \in Seq(Messages)
           /\ HeldFor(ElementTask(d, i), ToModel(m)) \in Seq(Messages)
           /\ chan[ToElement(d, i)] \in Seq(Messages)
           /\ HeldFor(DeviceTask(d), ToElement(d, i)) \in Seq(Messages)
           /\ ForElement(chan[ToDevice(d)], i) \in Seq(Messages)
           /\ ForElement(HeldFor(Driver, ToDevice(d)), i) \in Seq(Messages)
<1>1. /\ ToModel(m) \in Channels /\ ToElement(d, i) \in Channels /\ ToDevice(d) \in Channels
      /\ Driver \in Tasks /\ DeviceTask(d) \in Tasks /\ ElementTask(d, i) \in Tasks
  BY KindsAreTasks DEF Channels
<1>2. \A c \in Channels : chan[c] \in Option(Messages)
  BY DEF TypeOK
<1>3. /\ HeldFor(ElementTask(d, i), ToModel(m)) \in Option(Messages)
      /\ HeldFor(DeviceTask(d), ToElement(d, i)) \in Option(Messages)
      /\ HeldFor(Driver, ToDevice(d)) \in Option(Messages)
  BY <1>1, HeldIsOption
<1>4. /\ ForElement(chan[ToDevice(d)], i) \in Option(Messages)
      /\ ForElement(HeldFor(Driver, ToDevice(d)), i) \in Option(Messages)
  BY <1>1, <1>2, <1>3, ForElementShape
<1>5. /\ chan[ToModel(m)] \in Option(Messages) /\ chan[ToElement(d, i)] \in Option(Messages)
  BY <1>1, <1>2
<1> QED
  BY <1>3, <1>4, <1>5, OptionIsSeq

(* The way from a stuck driver to some model: a message in every channel   *)
(* and in every hand.                                                      *)
LEMMA AWayIsFull ==
    ASSUME TypeOK, Stuck
    PROVE  \E m \in Models : Blocks(m)
<1>1. /\ chan \in [Channels -> Option(Messages)] /\ \A t \in Tasks : HandOK(t)
      /\ model \in [Models -> {"receiving", "sending", "deaf", "gone"}]
  BY DEF TypeOK
<1>2. \A t \in Tasks : Busy(t) => chan[Head(hand[t].left)] # <<>>
  BY DEF Stuck, CanGive
<1>3. \A t \in FanOuts : chan[Input(t)] # <<>> => Busy(t)
  BY DEF Stuck, CanReceive, Free
<1>4. ASSUME NEW t \in Tasks, Busy(t)
      PROVE  \E msg \in Messages : \E c \in Channels :
                Has(AllOutputs(t, msg), c) /\ HeldFor(t, c) = <<msg>> /\ chan[c] # <<>>
  <2>1. PICK msg \in Messages, c \in Channels :
           /\ hand[t].msg = <<msg>> /\ Head(hand[t].left) = c
           /\ Has(AllOutputs(t, msg), c) /\ Has(hand[t].left, c)
    BY <1>1, <1>4, BusyHand
  <2>2. HeldFor(t, c) = <<msg>>
    BY <2>1 DEF HeldFor, Has
  <2> QED
    BY <1>2, <1>4, <2>1, <2>2
<1>5. PICK d \in Devices : chan[ToDevice(d)] # <<>>
  <2>1. Driver \in Tasks /\ Busy(Driver)
    BY DEF Tasks, Stuck
  <2>2. PICK msg \in Messages, c \in Channels : Has(AllOutputs(Driver, msg), c) /\ chan[c] # <<>>
    BY <1>4, <2>1
  <2>3. Has(DriverGives(msg), c)
    BY <2>2, InputAndOutputs
  <2>4. \E d \in Devices : c = ToDevice(d)
    BY <2>3, DriverOutputs DEF Has
  <2> QED
    BY <2>2, <2>4
<1>6. PICK i \in ElementsOf(d) :
         HeldFor(DeviceTask(d), ToElement(d, i)) # <<>> /\ chan[ToElement(d, i)] # <<>>
  <2>1. DeviceTask(d) \in FanOuts /\ DeviceTask(d) \in Tasks /\ Input(DeviceTask(d)) = ToDevice(d)
    BY InputAndOutputs DEF FanOuts, Tasks
  <2>2. Busy(DeviceTask(d))
    BY <1>3, <1>5, <2>1
  <2>3. PICK msg \in Messages, c \in Channels :
           /\ Has(AllOutputs(DeviceTask(d), msg), c)
           /\ HeldFor(DeviceTask(d), c) = <<msg>> /\ chan[c] # <<>>
    BY <1>4, <2>1, <2>2
  <2>4. Has(DeviceGives(d, msg), c)
    BY <2>3, InputAndOutputs
  <2>5. PICK i \in ElementsOf(d) : c = ToElement(d, i)
    BY <2>4, DeviceOutputs DEF Has
  <2> QED
    BY <2>3, <2>5
<1>7. PICK m \in Models : /\ PlaceOf[m] = <<d, i>>
                          /\ HeldFor(ElementTask(d, i), ToModel(m)) # <<>> /\ chan[ToModel(m)] # <<>>
  <2>1. /\ ElementTask(d, i) \in FanOuts /\ ElementTask(d, i) \in Tasks
        /\ Input(ElementTask(d, i)) = ToElement(d, i)
    BY KindsAreTasks, InputAndOutputs
  <2>2. Busy(ElementTask(d, i))
    BY <1>3, <1>6, <2>1
  <2>3. PICK msg \in Messages, c \in Channels :
           /\ Has(AllOutputs(ElementTask(d, i), msg), c)
           /\ HeldFor(ElementTask(d, i), c) = <<msg>> /\ chan[c] # <<>>
    BY <1>4, <2>1, <2>2
  <2>4. Has(ElementGives(d, i), c)
    BY <2>3, InputAndOutputs
  <2>5. PICK k \in 1 .. Len(ElementGives(d, i)) : ElementGives(d, i)[k] = c
    BY <2>4 DEF Has
  <2>6. PICK n \in Models : ElementGives(d, i)[k] = ToModel(n) /\ PlaceOf[n] = <<d, i>>
    BY ElementOutputs
  <2>7. c = ToModel(n) /\ HeldFor(ElementTask(d, i), ToModel(n)) # <<>> /\ chan[ToModel(n)] # <<>>
    BY <2>3, <2>5, <2>6
  <2> QED
    BY <2>6, <2>7
<1>8. model[m] \in {"deaf", "gone"} \/ (model[m] = "sending" /\ outbound # <<>>)
  BY <1>1, <1>7 DEF Stuck, CanHandle, Listens, OutboundRoom
<1>9. Len(Waiting[m]) >= 4
  <2> DEFINE p1 == chan[ToModel(m)]
             p2 == HeldFor(ElementTask(d, i), ToModel(m))
             p3 == chan[ToElement(d, i)]
             p4 == HeldFor(DeviceTask(d), ToElement(d, i))
             p5 == ForElement(chan[ToDevice(d)], i)
             p6 == ForElement(HeldFor(Driver, ToDevice(d)), i)
  <2>1. /\ p1 \in Seq(Messages) /\ p2 \in Seq(Messages) /\ p3 \in Seq(Messages)
        /\ p4 \in Seq(Messages) /\ p5 \in Seq(Messages) /\ p6 \in Seq(Messages)
    BY PiecesAreSeqs
  <2>2. Waiting[m] = Line(p1, p2, p3, p4, p5, p6)
    BY <1>7, WaitingIs
  <2>3. p1 # <<>> /\ p2 # <<>> /\ p3 # <<>> /\ p4 # <<>>
    BY <1>6, <1>7
  <2> HIDE DEF p1, p2, p3, p4, p5, p6
  <2>4. Len(Waiting[m]) = Len(p1) + Len(p2) + Len(p3) + Len(p4) + Len(p5) + Len(p6)
    BY <2>1, <2>2, LineLength
  <2>5. /\ Len(p1) \in Nat \ {0} /\ Len(p2) \in Nat \ {0} /\ Len(p3) \in Nat \ {0}
        /\ Len(p4) \in Nat \ {0} /\ Len(p5) \in Nat /\ Len(p6) \in Nat
    BY <2>1, <2>3, EmptySeq, LenProperties
  <2> QED
    BY <2>4, <2>5
<1> QED
  BY <1>8, <1>9 DEF Blocks

(***************************************************************************)
(* The driver is stuck in dispatch only behind a model that blocks.        *)
(***************************************************************************)
THEOREM StuckAlwaysHasCause == Spec => []StuckHasCause
<1>1. TypeOK => StuckHasCause
  BY AWayIsFull DEF StuckHasCause
<1> QED
  BY <1>1, TypeAlwaysOK, PTL

-----------------------------------------------------------------------------
(* A send or a receive moves a message to the next place of the mailboxes  *)
(* it is for, and leaves all other places alone.                           *)

(* Putting down a message moves it one place on: no mailbox changes.       *)
LEMMA GiveKeeps ==
    ASSUME TypeOK, NEW t \in Tasks, Give(t), NEW m \in Models
    PROVE  Waiting'[m] = Waiting[m]
<1>1. PICK d \in Devices : \E i \in ElementsOf(d) : PlaceOf[m] = <<d, i>>
  BY PlaceOfModel
<1>2. PICK i \in ElementsOf(d) : PlaceOf[m] = <<d, i>>
  BY <1>1
<1>3. PICK msg \in Messages, c \in Channels :
         /\ Has(AllOutputs(t, msg), c)
         /\ chan[c] = <<>> /\ chan'[c] = <<msg>> /\ \A b \in Channels \ {c} : chan'[b] = chan[b]
         /\ HeldFor(t, c) = <<msg>> /\ HeldFor(t, c)' = <<>>
         /\ \A b : b # c => HeldFor(t, b)' = HeldFor(t, b)
         /\ \A u \in Tasks \ {t} : \A b : HeldFor(u, b)' = HeldFor(u, b)
  BY GiveStep
<1> DEFINE p1 == chan[ToModel(m)]
           p2 == HeldFor(ElementTask(d, i), ToModel(m))
           p3 == chan[ToElement(d, i)]
           p4 == HeldFor(DeviceTask(d), ToElement(d, i))
           p5 == ForElement(chan[ToDevice(d)], i)
           p6 == ForElement(HeldFor(Driver, ToDevice(d)), i)
<1>4. /\ p1 \in Seq(Messages) /\ p2 \in Seq(Messages) /\ p3 \in Seq(Messages)
      /\ p4 \in Seq(Messages) /\ p5 \in Seq(Messages) /\ p6 \in Seq(Messages)
  BY PiecesAreSeqs
<1>5. Waiting[m] = Line(p1, p2, p3, p4, p5, p6) /\ Waiting'[m] = Line(p1', p2', p3', p4', p5', p6')
  BY <1>2, WaitingIs, WaitingWillBe
<1>6. /\ ToModel(m) \in Channels /\ ToElement(d, i) \in Channels /\ ToDevice(d) \in Channels
      /\ Driver \in Tasks /\ DeviceTask(d) \in Tasks /\ ElementTask(d, i) \in Tasks
  BY KindsAreTasks DEF Channels
<1>7. /\ ToModel(m) # c => p1' = p1
      /\ ToElement(d, i) # c => p3' = p3
      /\ ToDevice(d) # c => p5' = p5
  BY <1>3, <1>6
<1>8. /\ ElementTask(d, i) # t \/ ToModel(m) # c => p2' = p2
      /\ DeviceTask(d) # t \/ ToElement(d, i) # c => p4' = p4
      /\ Driver # t \/ ToDevice(d) # c => p6' = p6
  BY <1>3, <1>6
<1>9. CASE t = Driver
  <2>1. PICK e \in Devices : c = ToDevice(e)
    BY <1>3, <1>9, InputAndOutputs, DriverOutputs DEF Has
  <2>2. p1' = p1 /\ p2' = p2 /\ p3' = p3 /\ p4' = p4
    BY <1>7, <1>8, <1>9, <2>1, ChannelsDiffer, TasksDiffer
  <2>3. CASE c = ToDevice(d)
    <3>1. p5 = ForElement(<<>>, i) /\ p6' = ForElement(<<>>, i)
      BY <1>3, <1>9, <2>3
    <3>2. p5' = ForElement(<<msg>>, i) /\ p6 = ForElement(<<msg>>, i)
      BY <1>3, <1>9, <2>3
    <3>3. p5 = <<>> /\ p6' = <<>> /\ p5' = p6
      BY <3>1, <3>2 DEF ForElement
    <3> HIDE DEF p1, p2, p3, p4, p5, p6
    <3>4. Line(p1, p2, p3, p4, p6, <<>>) = Line(p1, p2, p3, p4, <<>>, p6)
      BY <1>4, LineMoves
    <3> QED
      BY <1>5, <2>2, <3>3, <3>4
  <2>4. CASE c # ToDevice(d)
    BY <1>5, <1>7, <1>8, <2>2, <2>4
  <2> QED
    BY <2>3, <2>4
<1>10. ASSUME NEW e \in Devices, t = DeviceTask(e)
       PROVE  Waiting'[m] = Waiting[m]
  <2>1. PICK j \in ElementsOf(e) : c = ToElement(e, j)
    <3>1. Has(DeviceGives(e, msg), c)
      BY <1>3, <1>10, InputAndOutputs
    <3> QED
      BY <3>1, DeviceOutputs DEF Has
  <2>2. p1' = p1 /\ p2' = p2 /\ p5' = p5 /\ p6' = p6
    BY <1>7, <1>8, <1>10, <2>1, ChannelsDiffer, TasksDiffer
  <2>3. CASE c = ToElement(d, i)
    <3>1. t = DeviceTask(d)
      <4>1. ToElement(e, j) = ToElement(d, i)
        BY <2>1, <2>3
      <4> QED
        BY <1>10, <4>1, ChannelsDiffer
    <3>2. p3 = <<>> /\ p4' = <<>> /\ p3' = p4
      BY <1>3, <2>3, <3>1
    <3> HIDE DEF p1, p2, p3, p4, p5, p6
    <3>3. Line(p1, p2, p4, <<>>, p5, p6) = Line(p1, p2, <<>>, p4, p5, p6)
      BY <1>4, LineMoves
    <3> QED
      BY <1>5, <2>2, <3>2, <3>3
  <2>4. CASE c # ToElement(d, i)
    BY <1>5, <1>7, <1>8, <2>2, <2>4
  <2> QED
    BY <2>3, <2>4
<1>11. ASSUME NEW e \in Devices, NEW j \in ElementsOf(e), t = ElementTask(e, j)
       PROVE  Waiting'[m] = Waiting[m]
  <2>1. Has(ElementGives(e, j), c)
    BY <1>3, <1>11, InputAndOutputs
  <2>2. PICK k \in 1 .. Len(ElementGives(e, j)) : ElementGives(e, j)[k] = c
    BY <2>1 DEF Has
  <2>3. PICK n \in Models : c = ToModel(n) /\ PlaceOf[n] = <<e, j>>
    BY <2>2, ElementOutputs
  <2>4. p3' = p3 /\ p4' = p4 /\ p5' = p5 /\ p6' = p6
    BY <1>7, <1>8, <1>11, <2>3, ChannelsDiffer, TasksDiffer
  <2>5. CASE c = ToModel(m)
    <3>1. m = n
      <4>1. ToModel(n) = ToModel(m)
        BY <2>3, <2>5
      <4> QED
        BY <4>1, ChannelsDiffer
    <3>2. e = d /\ j = i
      BY <1>2, <2>3, <3>1
    <3>3. p1 = <<>> /\ p2' = <<>> /\ p1' = p2
      BY <1>3, <1>11, <2>5, <3>2
    <3> HIDE DEF p1, p2, p3, p4, p5, p6
    <3>4. Line(p2, <<>>, p3, p4, p5, p6) = Line(<<>>, p2, p3, p4, p5, p6)
      BY <1>4, LineMoves
    <3> QED
      BY <1>5, <2>4, <3>3, <3>4
  <2>6. CASE c # ToModel(m)
    BY <1>5, <1>7, <1>8, <2>4, <2>6
  <2> QED
    BY <2>5, <2>6
<1> QED
  BY <1>9, <1>10, <1>11, TaskKinds

(* Taking a message up moves it one place on: no mailbox changes.          *)
LEMMA ReceiveKeeps ==
    ASSUME TypeOK, NEW t \in FanOuts, FanOutReceives(t), NEW m \in Models
    PROVE  Waiting'[m] = Waiting[m]
<1>1. PICK d \in Devices : \E i \in ElementsOf(d) : PlaceOf[m] = <<d, i>>
  BY PlaceOfModel
<1>2. PICK i \in ElementsOf(d) : PlaceOf[m] = <<d, i>>
  BY <1>1
<1>3. PICK msg \in Messages :
         /\ chan[Input(t)] = <<msg>> /\ chan'[Input(t)] = <<>>
         /\ \A b \in Channels \ {Input(t)} : chan'[b] = chan[b]
         /\ \A b : HeldFor(t, b) = <<>>
         /\ \A b : HeldFor(t, b)' = IF Has(Outputs(t, msg), b) THEN <<msg>> ELSE <<>>
         /\ \A u \in Tasks \ {t} : \A b : HeldFor(u, b)' = HeldFor(u, b)
  BY ReceiveStep
<1> DEFINE p1 == chan[ToModel(m)]
           p2 == HeldFor(ElementTask(d, i), ToModel(m))
           p3 == chan[ToElement(d, i)]
           p4 == HeldFor(DeviceTask(d), ToElement(d, i))
           p5 == ForElement(chan[ToDevice(d)], i)
           p6 == ForElement(HeldFor(Driver, ToDevice(d)), i)
<1>4. /\ p1 \in Seq(Messages) /\ p2 \in Seq(Messages) /\ p3 \in Seq(Messages)
      /\ p4 \in Seq(Messages) /\ p5 \in Seq(Messages) /\ p6 \in Seq(Messages)
  BY PiecesAreSeqs
<1>5. Waiting[m] = Line(p1, p2, p3, p4, p5, p6) /\ Waiting'[m] = Line(p1', p2', p3', p4', p5', p6')
  BY <1>2, WaitingIs, WaitingWillBe
<1>6. /\ ToModel(m) \in Channels /\ ToElement(d, i) \in Channels /\ ToDevice(d) \in Channels
      /\ Driver \in Tasks /\ DeviceTask(d) \in Tasks /\ ElementTask(d, i) \in Tasks
  BY KindsAreTasks DEF Channels
<1>7. /\ ToModel(m) # Input(t) => p1' = p1
      /\ ToElement(d, i) # Input(t) => p3' = p3
      /\ ToDevice(d) # Input(t) => p5' = p5
  BY <1>3, <1>6
<1>8. /\ ElementTask(d, i) # t => p2' = p2
      /\ DeviceTask(d) # t => p4' = p4
      /\ Driver # t => p6' = p6
  BY <1>3, <1>6
<1>9. ASSUME NEW e \in Devices, t = DeviceTask(e)
      PROVE  Waiting'[m] = Waiting[m]
  <2>1. Input(t) = ToDevice(e) /\ Outputs(t, msg) = DeviceGives(e, msg)
    BY <1>9, InputAndOutputs
  <2>2. p1' = p1 /\ p2' = p2 /\ p3' = p3 /\ p6' = p6
    BY <1>7, <1>8, <1>9, <2>1, ChannelsDiffer, TasksDiffer
  <2>3. CASE e = d
    <3>1. Has(DeviceGives(d, msg), ToElement(d, i)) <=> IsFor(msg, i)
      BY DeviceOutputs DEF Has
    <3>2. p4 = <<>> /\ p4' = IF IsFor(msg, i) THEN <<msg>> ELSE <<>>
      BY <1>3, <1>9, <2>1, <2>3, <3>1
    <3>3. p5 = (IF IsFor(msg, i) THEN <<msg>> ELSE <<>>) /\ p5' = <<>>
      BY <1>3, <2>1, <2>3, ForElementShape DEF ForElement
    <3> HIDE DEF p1, p2, p3, p4, p5, p6
    <3>4. Line(p1, p2, p3, p5, <<>>, p6) = Line(p1, p2, p3, <<>>, p5, p6)
      BY <1>4, LineMoves
    <3>5. p4' = p5
      BY <3>2, <3>3
    <3> QED
      BY <1>5, <2>2, <3>2, <3>3, <3>4, <3>5
  <2>4. CASE e # d
    <3>1. p4' = p4 /\ p5' = p5
      BY <1>7, <1>8, <1>9, <2>1, <2>4, ChannelsDiffer, TasksDiffer
    <3> QED
      BY <1>5, <2>2, <3>1
  <2> QED
    BY <2>3, <2>4
<1>10. ASSUME NEW e \in Devices, NEW j \in ElementsOf(e), t = ElementTask(e, j)
       PROVE  Waiting'[m] = Waiting[m]
  <2>1. Input(t) = ToElement(e, j) /\ Outputs(t, msg) = ElementGives(e, j)
    BY <1>10, InputAndOutputs
  <2>2. p1' = p1 /\ p4' = p4 /\ p5' = p5 /\ p6' = p6
    BY <1>7, <1>8, <1>10, <2>1, ChannelsDiffer, TasksDiffer
  <2>3. CASE e = d /\ j = i
    <3>1. Has(ElementGives(d, i), ToModel(m))
      BY <1>2, ElementOutputs
    <3>2. p2 = <<>> /\ p2' = <<msg>> /\ p3 = <<msg>> /\ p3' = <<>>
      BY <1>3, <1>10, <2>1, <2>3, <3>1
    <3> HIDE DEF p1, p2, p3, p4, p5, p6
    <3>3. Line(p1, p3, <<>>, p4, p5, p6) = Line(p1, <<>>, p3, p4, p5, p6)
      BY <1>4, LineMoves
    <3> QED
      BY <1>5, <2>2, <3>2, <3>3
  <2>4. CASE ~ (e = d /\ j = i)
    <3>1. p2' = p2 /\ p3' = p3
      BY <1>7, <1>8, <1>10, <2>1, <2>4, ChannelsDiffer, TasksDiffer
    <3> QED
      BY <1>5, <2>2, <3>1
  <2> QED
    BY <2>3, <2>4
<1>11. \/ \E e \in Devices : t = DeviceTask(e)
       \/ \E e \in Devices : \E j \in ElementsOf(e) : t = ElementTask(e, j)
  BY FanOutTasks, TaskKinds
<1> QED
  BY <1>9, <1>10, <1>11

(* The driver puts a message at the end of the mailboxes it is for.        *)
LEMMA DriverPosts ==
    ASSUME TypeOK, NEW msg \in Messages, DriverReceives(msg), NEW m \in Models
    PROVE  Waiting'[m] = IF m \in Hearers(msg) THEN Append(Waiting[m], msg) ELSE Waiting[m]
<1>1. PICK d \in Devices : \E i \in ElementsOf(d) : PlaceOf[m] = <<d, i>>
  BY PlaceOfModel
<1>2. PICK i \in ElementsOf(d) : PlaceOf[m] = <<d, i>>
  BY <1>1
<1>3. m \in Hearers(msg) <=> IsFor(msg, i)
  BY <1>2 DEF Hearers
<1> DEFINE p1 == chan[ToModel(m)]
           p2 == HeldFor(ElementTask(d, i), ToModel(m))
           p3 == chan[ToElement(d, i)]
           p4 == HeldFor(DeviceTask(d), ToElement(d, i))
           p5 == ForElement(chan[ToDevice(d)], i)
           p6 == ForElement(HeldFor(Driver, ToDevice(d)), i)
<1>4. /\ p1 \in Seq(Messages) /\ p2 \in Seq(Messages) /\ p3 \in Seq(Messages)
      /\ p4 \in Seq(Messages) /\ p5 \in Seq(Messages) /\ p6 \in Seq(Messages)
  BY PiecesAreSeqs
<1>5. Waiting[m] = Line(p1, p2, p3, p4, p5, p6) /\ Waiting'[m] = Line(p1', p2', p3', p4', p5', p6')
  BY <1>2, WaitingIs, WaitingWillBe
<1>6. /\ DeviceTask(d) \in Tasks \ {Driver} /\ ElementTask(d, i) \in Tasks \ {Driver}
  BY KindsAreTasks, TasksDiffer
<1>7. p1' = p1 /\ p2' = p2 /\ p3' = p3 /\ p4' = p4 /\ p5' = p5
  BY <1>6, DriverStep
<1>8. p6 = <<>>
  <2>1. HeldFor(Driver, ToDevice(d)) = <<>>
    BY DriverStep
  <2> QED
    BY <2>1 DEF ForElement
<1>9. p6' = IF IsFor(msg, i) THEN <<msg>> ELSE <<>>
  <2>1. CASE Has(DriverGives(msg), ToDevice(d))
    <3>1. HeldFor(Driver, ToDevice(d))' = <<msg>>
      BY <2>1, DriverStep
    <3> QED
      BY <3>1 DEF ForElement
  <2>2. CASE ~ Has(DriverGives(msg), ToDevice(d))
    <3>1. HeldFor(Driver, ToDevice(d))' = <<>>
      BY <2>2, DriverStep
    <3>2. d # "application" /\ ~IsFor(msg, 0)
      BY <2>2, DriverOutputs DEF Has
    <3>3. i = 0
      BY <3>2, PlaceShape DEF Devices
    <3> QED
      BY <3>1, <3>2, <3>3 DEF ForElement
  <2> QED
    BY <2>1, <2>2
<1> HIDE DEF p1, p2, p3, p4, p5, p6
<1>10. PICK one : one = <<msg>>
  OBVIOUS
<1>11. one \in Seq(Messages)
  BY <1>10
<1>12. Just(one, msg)
  BY <1>10 DEF Just
<1>13. IsLast(msg, Line(p1, p2, p3, p4, p5, one), Line(p1, p2, p3, p4, p5, <<>>))
  BY <1>4, <1>11, <1>12, LineEnds
<1>14. Line(p1, p2, p3, p4, p5, one) = Append(Line(p1, p2, p3, p4, p5, <<>>), msg)
  BY <1>13 DEF IsLast
<1> QED
  BY <1>3, <1>5, <1>7, <1>8, <1>9, <1>10, <1>14

(* A model takes the first of its own mailbox.                             *)
LEMMA ModelTakes ==
    ASSUME TypeOK, NEW m \in Models, ModelReceives(m)
    PROVE  /\ Waiting[m] # <<>> /\ Waiting'[m] = Tail(Waiting[m])
           /\ \A n \in Models \ {m} : Waiting'[n] = Waiting[n]
<1>1. PICK msg \in Messages :
         /\ chan[ToModel(m)] = <<msg>> /\ chan'[ToModel(m)] = <<>>
         /\ \A b \in Channels \ {ToModel(m)} : chan'[b] = chan[b]
         /\ hand' = hand
  BY ModelStep
<1>2. \A t : \A c : HeldFor(t, c)' = HeldFor(t, c)
  BY <1>1 DEF HeldFor
<1>3. ASSUME NEW n \in Models, NEW d \in Devices, NEW i \in ElementsOf(d), PlaceOf[n] = <<d, i>>
      PROVE  /\ n # m => Waiting'[n] = Waiting[n]
             /\ n = m => Waiting[n] # <<>> /\ Waiting'[n] = Tail(Waiting[n])
  <2> DEFINE p1 == chan[ToModel(n)]
             p2 == HeldFor(ElementTask(d, i), ToModel(n))
             p3 == chan[ToElement(d, i)]
             p4 == HeldFor(DeviceTask(d), ToElement(d, i))
             p5 == ForElement(chan[ToDevice(d)], i)
             p6 == ForElement(HeldFor(Driver, ToDevice(d)), i)
  <2>1. /\ p1 \in Seq(Messages) /\ p2 \in Seq(Messages) /\ p3 \in Seq(Messages)
        /\ p4 \in Seq(Messages) /\ p5 \in Seq(Messages) /\ p6 \in Seq(Messages)
    BY PiecesAreSeqs
  <2>2. Waiting[n] = Line(p1, p2, p3, p4, p5, p6) /\ Waiting'[n] = Line(p1', p2', p3', p4', p5', p6')
    BY <1>3, WaitingIs, WaitingWillBe
  <2>3. /\ ToElement(d, i) \in Channels \ {ToModel(m)} /\ ToDevice(d) \in Channels \ {ToModel(m)}
        /\ n # m => ToModel(n) \in Channels \ {ToModel(m)}
    BY KindsAreTasks, ChannelsDiffer DEF Channels
  <2>4. p2' = p2 /\ p3' = p3 /\ p4' = p4 /\ p5' = p5 /\ p6' = p6
    BY <1>1, <1>2, <2>3
  <2>5. n # m => p1' = p1
    BY <1>1, <2>3
  <2>6. n = m => p1 = <<msg>> /\ p1' = <<>>
    BY <1>1
  <2> HIDE DEF p1, p2, p3, p4, p5, p6
  <2>7. PICK one : one = <<msg>>
    OBVIOUS
  <2>8. one \in Seq(Messages)
    BY <2>7
  <2>9. Just(one, msg)
    BY <2>7 DEF Just
  <2>10. IsRest(Line(one, p2, p3, p4, p5, p6), Line(<<>>, p2, p3, p4, p5, p6))
    BY <2>1, <2>8, <2>9, LineEnds
  <2>11. /\ Line(one, p2, p3, p4, p5, p6) # <<>>
         /\ Tail(Line(one, p2, p3, p4, p5, p6)) = Line(<<>>, p2, p3, p4, p5, p6)
    BY <2>10 DEF IsRest
  <2> QED
    BY <2>2, <2>4, <2>5, <2>6, <2>7, <2>11
<1> QED
  BY <1>3, PlaceOfModel

(* A step that touches neither channel nor hand leaves the mailboxes alone.*)
LEMMA OthersKeep ==
    ASSUME chan' = chan, hand' = hand
    PROVE  Waiting' = Waiting
  BY DEF Waiting, InTransit, HeldFor, ForElement

(* At the start all mailboxes are empty.                                   *)
LEMMA InitiallyMailboxes == Init => Mail!Init
<1> SUFFICES ASSUME Init
             PROVE  \A m \in Models : Waiting[m] = <<>>
  BY DEF Mail!Init, Waiting
<1> TAKE m \in Models
<1>1. PICK d \in Devices : \E i \in ElementsOf(d) : PlaceOf[m] = <<d, i>>
  BY PlaceOfModel
<1>2. PICK i \in ElementsOf(d) : PlaceOf[m] = <<d, i>>
  BY <1>1
<1>3. \A c \in Channels : chan[c] = <<>>
  BY DEF Init
<1>4. \A t \in Tasks : \A c : HeldFor(t, c) = <<>>
  BY DEF Init, HeldFor, Nothing
<1>5. /\ ToModel(m) \in Channels /\ ToElement(d, i) \in Channels /\ ToDevice(d) \in Channels
      /\ Driver \in Tasks /\ DeviceTask(d) \in Tasks /\ ElementTask(d, i) \in Tasks
  BY KindsAreTasks DEF Channels
<1>6. Waiting[m] = Line(<<>>, <<>>, <<>>, <<>>, <<>>, <<>>)
  BY <1>2, <1>3, <1>4, <1>5, WaitingIs DEF ForElement
<1> QED
  BY <1>6 DEF Line

(* Every step posts a message, takes the first of a mailbox, or neither.   *)
LEMMA StepsAreMail == TypeOK /\ [Next]_vars => [Mail!Next]_Waiting
<1> SUFFICES ASSUME TypeOK, [Next]_vars
             PROVE  [Mail!Next]_Waiting
  OBVIOUS
<1>1. ASSUME \A m \in Models : Waiting'[m] = Waiting[m]
      PROVE  Waiting' = Waiting
  BY <1>1 DEF Waiting
<1>2. ASSUME NEW msg \in Messages, DriverReceives(msg)
      PROVE  Mail!Next
  <2>1. \A m \in Models : Waiting'[m] = IF m \in Hearers(msg) THEN Append(Waiting[m], msg) ELSE Waiting[m]
    BY <1>2, DriverPosts
  <2>2. Mail!Post(msg)
    BY <2>1 DEF Mail!Post, Waiting
  <2> QED
    BY <2>2 DEF Mail!Next
<1>3. ASSUME NEW t \in FanOuts, FanOutReceives(t)
      PROVE  Waiting' = Waiting
  BY <1>1, <1>3, ReceiveKeeps
<1>4. ASSUME NEW t \in Tasks, Give(t)
      PROVE  Waiting' = Waiting
  BY <1>1, <1>4, GiveKeeps
<1>5. ASSUME NEW m \in Models, ModelReceives(m)
      PROVE  Mail!Next
  <2>1. /\ Waiting[m] # <<>> /\ Waiting'[m] = Tail(Waiting[m])
        /\ \A n \in Models \ {m} : Waiting'[n] = Waiting[n]
    BY <1>5, ModelTakes
  <2>2. Mail!Take(m)
    BY <2>1 DEF Mail!Take, Waiting
  <2> QED
    BY <2>2 DEF Mail!Next
<1>6. CASE \/ DriverTransmits
           \/ \E m \in Models : ModelSends(m) \/ ModelReturns(m)
           \/ UNCHANGED vars
  BY <1>6, OtherSteps, OthersKeep
<1> QED
  BY <1>2, <1>3, <1>4, <1>5, <1>6, StepKinds

(***************************************************************************)
(* The channels between driver and models implement mailboxes: whatever    *)
(* the order of the tasks, every model of an addressed element gets each   *)
(* message once, in the order the driver took them up.                     *)
(***************************************************************************)
THEOREM AlwaysDelivers == Spec => Delivers
  BY InitiallyMailboxes, StepsAreMail, TypeAlwaysOK, PTL DEF Spec, Delivers, Mail!Spec

=============================================================================
