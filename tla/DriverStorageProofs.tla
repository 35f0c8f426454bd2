------------------------ MODULE DriverStorageProofs ------------------------
(***************************************************************************)
(* Proofs about DriverStorage, for every threshold, alignment, reserve,    *)
(* payload size, number of epochs and bound.                               *)
(***************************************************************************)
EXTENDS DriverStorage, TLAPS

(* What the boot-time advance adds to a stored sequence number.            *)
LEMMA InitSequenceBounds ==
    ASSUME NEW s \in Nat
    PROVE  /\ InitSequence(s) \in Nat
           /\ InitSequence(s) >= s
           /\ InitSequence(s) + Align >= s + Reserve + 1
<1>1. s % Align \in 0 .. Align - 1
  BY StoreAssumption
<1>2. s % Align <= s
  <2>1. CASE s < Align
    BY <2>1, StoreAssumption
  <2>2. CASE s >= Align
    BY <2>2, <1>1, StoreAssumption
  <2>3. QED
    BY <2>1, <2>2, StoreAssumption
<1>3. QED
  BY <1>1, <1>2, StoreAssumption DEF InitSequence

(* The reserve, with the overlap that is tolerated, covers the slack.      *)
LEMMA OverlapArithmetic ==
    /\ Slack \in Nat
    /\ MaxOverlap \in Nat
    /\ Reserve + 1 + MaxOverlap >= Slack + Align
    /\ Slack >= Threshold
BY StoreAssumption, DriverAssumption DEF Slack, MaxOverlap, Excess

(* A write that is skipped leaves the page close behind.                   *)
LEMMA SkippedWrite ==
    ASSUME NEW old, NEW new, ~ShouldWriteback(old, new),
           new.kind = "prov", old.seq \in Nat, new.seq \in Nat
    PROVE  /\ old.kind = "prov" /\ old.hash = OuterHash(new)
           /\ new.seq < old.seq + Threshold
BY StoreAssumption DEF ShouldWriteback, SequenceDue

-----------------------------------------------------------------------------
(* What put() is asked to store is a configuration, and never an older one.*)
LEMMA ProposedIsConfig == TypeOK => /\ Proposed \in Configs
                                    /\ AfterStore(Proposed) \in LatestLoads
                                    /\ ProposedPage \in Pages
<1> SUFFICES ASSUME TypeOK
             PROVE  /\ Proposed \in Configs
                    /\ AfterStore(Proposed) \in LatestLoads
                    /\ ProposedPage \in Pages
  OBVIOUS
<1>1. InitSequence(config.seq) \in Nat
  BY InitSequenceBounds DEF TypeOK, Configs
<1>2. Proposed \in Configs
  BY <1>1, DriverAssumption
  DEF Proposed, StackConfig, Provisioned, Unprovisioned, TypeOK, Configs, Kinds
<1>3. QED
  BY <1>2, DriverAssumption DEF Configs, LatestLoads, Pages, Kinds, ProposedPage,
                               AfterStore, LatestOf, OuterHash

LEMMA TornIsPage == TypeOK => TornPages \subseteq Pages
BY ProposedIsConfig, DriverAssumption DEF TornPages, TypeOK, Pages, Erased

LEMMA InitIndInv == Init => IndInv
<1> SUFFICES ASSUME Init PROVE IndInv
  OBVIOUS
<1> USE DriverAssumption DEF Init, NoStack, LatestNone, NoConfig, Erased
<1>1. TypeOK
  <2>1. latest \in LatestLoads
    BY DEF LatestLoads, Kinds
  <2>2. flash \in Pages /\ config \in Configs /\ stack \in [kind : Kinds, id : 0 .. MaxEpoch]
    BY DEF Pages, Configs, Kinds
  <2>3. QED
    BY <2>1, <2>2 DEF TypeOK, Booting
<1>2. EpochInv /\ PageInv
  BY DEF EpochInv, PageInv
<1>3. LatestInv /\ StackInv /\ PlaceInv
  BY DEF LatestInv, StackInv, PlaceInv, AtBoot
<1>4. QED
  BY <1>1, <1>2, <1>3 DEF IndInv

(* The type invariant alone is inductive. *)
LEMMA StepTypeOK == TypeOK /\ [Next]_vars => TypeOK'
<1> SUFFICES ASSUME TypeOK, [Next]_vars PROVE TypeOK'
  OBVIOUS
<1> USE DriverAssumption DEF TypeOK, history, volatile
<1>1. CASE InitLoads
  BY <1>1 DEF InitLoads, Configs, LatestLoads, Kinds, Pages, Loaded, Provisioned, AfterLoad, LatestOf, InnerHash, Booting
<1>2. CASE InitLoadFails
  BY <1>2 DEF InitLoadFails, Running
<1>3. CASE LoopLoads
  BY <1>3 DEF LoopLoads, Configs, LatestLoads, Kinds, Pages, Loaded, Provisioned, AfterLoad, LatestOf, InnerHash
<1>4. CASE LoopLoadFails
  BY <1>4 DEF LoopLoadFails, Unprovisioned, Configs, Kinds
<1>5. CASE Reconcile
  BY <1>5 DEF Reconcile, Running, UnprovisionedStack, ProvisionedStack, Configs, Kinds
<1>6. CASE QuietTurn
  BY <1>6 DEF QuietTurn, Running
<1>7. CASE HandlerFails
  BY <1>7 DEF HandlerFails
<1>8. ASSUME NEW n \in Payloads, OutboundPayload(n) PROVE TypeOK'
  BY <1>8 DEF OutboundPayload, Running
<1>9. CASE TransmitPdu
  <2>1. NextOnAir \in Int /\ pending' \in Nat
    BY <1>9 DEF TransmitPdu, NextOnAir
  <2>2. highWater' \in [Epochs -> Nat]
    BY <1>9, <2>1 DEF TransmitPdu, HighWaterAfter
  <2>3. QED
    BY <1>9, <2>1, <2>2 DEF TransmitPdu
<1>10. CASE SendingDone
  BY <1>10 DEF SendingDone, Running
<1>11. CASE ProvisioningData
  BY <1>11 DEF ProvisioningData, Running
<1>12. CASE TransmitComplete
  BY <1>12 DEF TransmitComplete
<1>13. CASE BecomeProvisioned
  BY <1>13 DEF BecomeProvisioned, Running, ProvisionedStack, Kinds
<1>14. CASE PutWrites
  BY <1>14, ProposedIsConfig DEF PutWrites, FinishPut, Running
<1>15. CASE PutSkips
  BY <1>15, ProposedIsConfig DEF PutSkips, FinishPut, Running
<1>16. CASE PutFails
  BY <1>16, TornIsPage DEF PutFails
<1>17. CASE Crash
  <2>1. flash' \in Pages
    BY <1>17, TornIsPage DEF Crash
  <2>2. latest' \in LatestLoads /\ config' \in Configs
    BY <1>17 DEF Crash, LatestNone, LatestLoads, NoConfig, Configs, Kinds
  <2>3. stack' \in [kind : Kinds, id : 0 .. MaxEpoch]
    BY <1>17 DEF Crash, NoStack, Kinds
  <2>4. /\ pc' \in Booting /\ sequence' \in Nat /\ pending' \in Nat
        /\ epoch' = epoch /\ highWater' = highWater /\ advanced' \in BOOLEAN
    BY <1>17 DEF Crash, Booting
  <2>5. QED
    BY <2>1, <2>2, <2>3, <2>4
<1>18. CASE UNCHANGED vars
  BY <1>18 DEF vars
<1>19. QED
  BY <1>1, <1>2, <1>3, <1>4, <1>5, <1>6, <1>7, <1>8, <1>9, <1>10, <1>11, <1>12, <1>13, <1>14, <1>15, <1>16, <1>17, <1>18 DEF Next
(* What a put may rely on: the proposed configuration belongs to the page, *)
(* or to a provisioning no page holds yet.                                 *)
LEMMA AdvanceCoversSlack ==
    ASSUME NEW s \in Nat
    PROVE  InitSequence(s) \in Nat /\ InitSequence(s) >= s /\ InitSequence(s) + MaxOverlap >= s + Slack
BY InitSequenceBounds, OverlapArithmetic, StoreAssumption

LEMMA ProposedFacts ==
    ASSUME TypeOK, EpochInv, PageInv, LatestInv, StackInv, PlaceInv,
           Putting, Proposed.kind = "prov"
    PROVE  /\ Proposed.id \in Epochs /\ Proposed.id <= epoch
           /\ flash.id = Proposed.id => flash.seq <= Proposed.seq
           /\ highWater[Proposed.id] <= Proposed.seq + Slack
           /\ advanced \/ pc = "initPut"
                 => highWater[Proposed.id] <= Proposed.seq + MaxOverlap
           /\ pc = "put" => stack.kind = "prov" /\ Proposed = StackConfig
           /\ pc = "initPut" => stack = NoStack
<1> USE DEF TypeOK, Pages, Epochs
<1>1. CASE pc = "initPut"
  <2>1. /\ config = Loaded /\ flash.id # 0 /\ stack = NoStack
    BY <1>1 DEF PlaceInv, AtInitPut, Readable
  <2>2. /\ Proposed.id = flash.id /\ Proposed.seq = InitSequence(flash.seq)
    BY <1>1, <2>1 DEF Proposed, Loaded, Provisioned
  <2>3. highWater[flash.id] <= flash.seq + Slack
    BY <2>1 DEF PageInv
  <2>4. flash.id \in Epochs /\ highWater[flash.id] \in Nat /\ flash.id <= epoch
    BY <2>1 DEF EpochInv
  <2>5. QED
    <3>1. flash.seq \in Nat
      OBVIOUS
    <3>2. /\ InitSequence(flash.seq) \in Nat /\ InitSequence(flash.seq) >= flash.seq
          /\ InitSequence(flash.seq) + MaxOverlap >= flash.seq + Slack
      BY <3>1, AdvanceCoversSlack
    <3>3. QED
      BY <1>1, <2>1, <2>2, <2>3, <2>4, <3>1, <3>2, OverlapArithmetic
<1>2. CASE pc = "put"
  <2>1. stack.kind = "prov" /\ Proposed = StackConfig
    BY <1>2 DEF Proposed, StackConfig, Unprovisioned
  <2>2. Proposed.id = stack.id /\ Proposed.seq = sequence
    BY <2>1 DEF StackConfig, Provisioned
  <2>3. Follows(stack.id, sequence, Slack) \/ FreshlyProvisioned
    BY <1>2, <2>1 DEF PlaceInv, AtPut
  <2>4. stack.id \in Epochs /\ stack.id <= epoch /\ highWater[stack.id] \in Nat
    BY <2>3 DEF Follows, FreshlyProvisioned, EpochInv
  <2>5. CASE Follows(stack.id, sequence, Slack)
    BY <1>2, <2>1, <2>2, <2>4, <2>5, OverlapArithmetic DEF Follows, PageInv
  <2>6. CASE FreshlyProvisioned
    BY <1>2, <2>1, <2>2, <2>4, <2>6, OverlapArithmetic DEF FreshlyProvisioned
  <2>7. QED
    BY <2>3, <2>5, <2>6
<1>3. QED
  BY <1>1, <1>2 DEF Putting

(* What a torn write may leave is still a page of the history.             *)
LEMMA TornFacts ==
    ASSUME TypeOK, EpochInv, PageInv, LatestInv, StackInv, PlaceInv,
           Writes, NEW page \in TornPages
    PROVE  /\ page.id <= epoch
           /\ page.id = 0 => page = Erased
           /\ page.id # 0 => highWater[page.id] <= page.seq + Slack
<1>1. CASE page = flash
  BY <1>1 DEF EpochInv, PageInv
<1>2. CASE page = ProposedPage
  <2>1. page.id = Proposed.id /\ page.seq = Proposed.seq
    BY <1>2 DEF ProposedPage
  <2>2. QED
    BY <2>1, ProposedFacts DEF Writes, Epochs
<1>3. CASE page = Erased
  BY <1>3 DEF Erased, TypeOK
<1>4. QED
  BY <1>1, <1>2, <1>3 DEF TornPages

LEMMA StepIndInv == IndInv /\ [Next]_vars => IndInv'
<1> SUFFICES ASSUME IndInv, [Next]_vars PROVE IndInv'
  OBVIOUS
<1>0. TypeOK /\ EpochInv /\ PageInv /\ LatestInv /\ StackInv /\ PlaceInv
  BY DEF IndInv
<1>t. TypeOK'
  BY StepTypeOK, <1>0
<1> SUFFICES EpochInv' /\ PageInv' /\ LatestInv' /\ StackInv' /\ PlaceInv'
  BY <1>t DEF IndInv
<1> USE DEF history, volatile
<1>1. CASE InitLoads
  <2>1. EpochInv'
    BY <1>0, <1>1 DEF InitLoads, EpochInv
  <2>2. PageInv'
    BY <1>0, <1>1 DEF InitLoads, PageInv
  <2>3. LatestInv'
    BY <1>0, <1>1 DEF InitLoads, LatestInv, Loaded, Provisioned, AfterLoad, LatestOf, InnerHash, TypeOK, Pages
  <2>4. StackInv'
    BY <1>0, <1>1 DEF InitLoads, StackInv, Loaded, Provisioned, PlaceInv, AtBoot, NoStack
  <2>5. PlaceInv'
    BY <1>0, <1>1 DEF InitLoads, PlaceInv, AtBoot, AtInitPut, Readable, Loaded, Provisioned, AfterLoad, LatestOf, InnerHash, TypeOK, Pages
  <2>6. QED
    BY <2>1, <2>2, <2>3, <2>4, <2>5
<1>2. CASE InitLoadFails
  <2>1. EpochInv'
    BY <1>0, <1>2 DEF InitLoadFails, EpochInv
  <2>2. PageInv'
    BY <1>0, <1>2 DEF InitLoadFails, PageInv
  <2>3. LatestInv'
    BY <1>0, <1>2 DEF InitLoadFails, LatestInv
  <2>4. StackInv'
    BY <1>0, <1>2 DEF InitLoadFails, StackInv
  <2>5. PlaceInv'
    BY <1>0, <1>2 DEF InitLoadFails, PlaceInv, AtBoot, AtLoop, NoStack, NoConfig, LatestNone
  <2>6. QED
    BY <2>1, <2>2, <2>3, <2>4, <2>5
<1>3. CASE LoopLoads
  <2>1. EpochInv'
    BY <1>0, <1>3 DEF LoopLoads, EpochInv
  <2>2. PageInv'
    BY <1>0, <1>3 DEF LoopLoads, PageInv
  <2>3. LatestInv'
    BY <1>0, <1>3 DEF LoopLoads, LatestInv, Loaded, Provisioned, AfterLoad, LatestOf, InnerHash, TypeOK, Pages
  <2>4. StackInv'
    BY <1>0, <1>3 DEF LoopLoads, StackInv, Loaded, PlaceInv, AtLoop, NoConfig, StackConfig, Provisioned, Unprovisioned
  <2>5. PlaceInv'
    BY <1>0, <1>3, StoreAssumption, OverlapArithmetic DEF LoopLoads, PlaceInv, AtLoop, Follows, Readable, NoConfig, StackConfig, Unprovisioned, PageInv, EpochInv, Configs, Loaded, Provisioned, AfterLoad, LatestOf, InnerHash, TypeOK, Pages
  <2>6. QED
    BY <2>1, <2>2, <2>3, <2>4, <2>5
<1>4. CASE LoopLoadFails
  <2>1. EpochInv'
    BY <1>0, <1>4 DEF LoopLoadFails, EpochInv
  <2>2. PageInv'
    BY <1>0, <1>4 DEF LoopLoadFails, PageInv
  <2>3. LatestInv'
    BY <1>0, <1>4 DEF LoopLoadFails, LatestInv
  <2>4. StackInv'
    BY <1>0, <1>4 DEF LoopLoadFails, StackInv, Unprovisioned, PlaceInv, AtLoop, NoConfig
  <2>5. PlaceInv'
    BY <1>0, <1>4 DEF LoopLoadFails, PlaceInv, AtLoop, NoConfig, Unprovisioned, StackConfig, Provisioned
  <2>6. QED
    BY <2>1, <2>2, <2>3, <2>4, <2>5
<1>5. CASE Reconcile
  <2>1. EpochInv'
    <3>1. CASE stack' = stack
      BY <1>0, <1>5, <3>1 DEF Reconcile, EpochInv
    <3>2. CASE stack' = UnprovisionedStack
      BY <1>0, <1>5, <3>2 DEF Reconcile, EpochInv, UnprovisionedStack, TypeOK
    <3>3. CASE config.kind = "prov" /\ stack' = ProvisionedStack(config.id)
      BY <1>0, <1>5, <3>3 DEF Reconcile, EpochInv, PlaceInv, AtLoop, Follows, ProvisionedStack
    <3>4. QED
      BY <1>0, <1>5, <3>1, <3>2, <3>3 DEF Reconcile, StackInv, TypeOK, Configs, Kinds
  <2>2. PageInv'
    BY <1>0, <1>5 DEF Reconcile, PageInv
  <2>3. LatestInv'
    BY <1>0, <1>5 DEF Reconcile, LatestInv
  <2>4. StackInv'
    BY <1>0, <1>5 DEF Reconcile, StackInv, PlaceInv, AtLoop, UnprovisionedStack, ProvisionedStack, TypeOK, Configs, Kinds, NoConfig, StackConfig, Provisioned, Unprovisioned
  <2>5. PlaceInv'
    <3>1. AtLoop /\ pc' = "select"
      BY <1>0, <1>5 DEF Reconcile, PlaceInv
    <3>2. CASE stack.kind # "none"
      <4>1. config = StackConfig /\ stack' = stack /\ sequence' = sequence
        BY <1>0, <1>5, <3>1, <3>2
        DEF Reconcile, AtLoop, StackConfig, Provisioned, Unprovisioned, TypeOK, Kinds
      <4>2. QED
        BY <1>5, <3>1, <3>2, <4>1
        DEF Reconcile, AtLoop, AtSelect, StackConfig, Provisioned, Follows, PlaceInv
    <3>3. CASE stack.kind = "none" /\ config.kind = "prov"
      <4>1. stack' = ProvisionedStack(config.id) /\ sequence' = config.seq /\ config' = config
        BY <1>5, <3>3 DEF Reconcile
      <4>2. config = Provisioned(config.id, config.seq)
        BY <1>0, <3>3 DEF TypeOK, Configs, Provisioned
      <4>3. QED
        BY <1>5, <3>1, <3>3, <4>1, <4>2
        DEF Reconcile, AtLoop, AtSelect, StackConfig, ProvisionedStack, Follows, PlaceInv
    <3>4. CASE stack.kind = "none" /\ config.kind = "unprov"
      <4>1. stack' = UnprovisionedStack /\ config' = config
        BY <1>5, <3>4 DEF Reconcile
      <4>2. config = Unprovisioned
        BY <1>0, <3>4 DEF StackInv
      <4>3. QED
        BY <1>5, <3>1, <4>1, <4>2 DEF Reconcile, AtSelect, StackConfig, UnprovisionedStack, PlaceInv
    <3>5. QED
      BY <1>0, <1>5, <3>2, <3>3, <3>4 DEF Reconcile, StackInv, TypeOK, Configs, Kinds
  <2>6. QED
    BY <2>1, <2>2, <2>3, <2>4, <2>5
<1>6. CASE QuietTurn
  <2>1. EpochInv'
    BY <1>0, <1>6 DEF QuietTurn, EpochInv
  <2>2. PageInv'
    BY <1>0, <1>6 DEF QuietTurn, PageInv
  <2>3. LatestInv'
    BY <1>0, <1>6 DEF QuietTurn, LatestInv
  <2>4. StackInv'
    BY <1>0, <1>6 DEF QuietTurn, StackInv
  <2>5. PlaceInv'
    BY <1>0, <1>6, StoreAssumption, OverlapArithmetic DEF QuietTurn, PlaceInv, AtSelect, AtPut, Follows, TypeOK, Pages
  <2>6. QED
    BY <2>1, <2>2, <2>3, <2>4, <2>5
<1>7. CASE HandlerFails
  <2>1. EpochInv'
    BY <1>0, <1>7 DEF HandlerFails, EpochInv
  <2>2. PageInv'
    BY <1>0, <1>7 DEF HandlerFails, PageInv
  <2>3. LatestInv'
    BY <1>0, <1>7 DEF HandlerFails, LatestInv
  <2>4. StackInv'
    BY <1>0, <1>7 DEF HandlerFails, StackInv
  <2>5. PlaceInv'
    BY <1>0, <1>7 DEF HandlerFails, PlaceInv
  <2>6. QED
    BY <2>1, <2>2, <2>3, <2>4, <2>5
<1>8. ASSUME NEW n \in Payloads, OutboundPayload(n)
      PROVE  EpochInv' /\ PageInv' /\ LatestInv' /\ StackInv' /\ PlaceInv'
  <2>1. EpochInv'
    BY <1>0, <1>8 DEF OutboundPayload, EpochInv
  <2>2. PageInv'
    BY <1>0, <1>8 DEF OutboundPayload, PageInv
  <2>3. LatestInv'
    BY <1>0, <1>8 DEF OutboundPayload, LatestInv
  <2>4. StackInv'
    BY <1>0, <1>8 DEF OutboundPayload, StackInv
  <2>5. PlaceInv'
    BY <1>0, <1>8, StoreAssumption, DriverAssumption DEF OutboundPayload, PlaceInv, AtSelect, AtSending, Follows, TypeOK, Pages, Slack
  <2>6. QED
    BY <2>1, <2>2, <2>3, <2>4, <2>5
<1>9. CASE TransmitPdu
  <2>1. EpochInv'
    BY <1>0, <1>9 DEF TransmitPdu, NextOnAir, EpochInv, TypeOK, HighWaterAfter
  <2>2. PageInv'
    <3>1. pc = "sending" /\ AtSending /\ flash.id = stack.id /\ flash.id \in Epochs
      BY <1>0, <1>9 DEF TransmitPdu, PlaceInv, AtSending, Follows, TypeOK, Pages, Epochs
    <3>2. highWater'[flash.id] = IF NextOnAir >= highWater[flash.id]
                                 THEN NextOnAir + 1 ELSE highWater[flash.id]
      BY <1>9, <3>1 DEF TransmitPdu, HighWaterAfter
    <3>3. NextOnAir + 1 <= flash.seq + Slack
      BY <1>0, <1>9, <3>1, OverlapArithmetic DEF TransmitPdu, AtSending, NextOnAir, TypeOK, Pages
    <3>4. QED
      BY <1>0, <1>9, <3>1, <3>2, <3>3 DEF TransmitPdu, PageInv
  <2>3. LatestInv'
    BY <1>0, <1>9 DEF TransmitPdu, NextOnAir, LatestInv
  <2>4. StackInv'
    BY <1>0, <1>9 DEF TransmitPdu, NextOnAir, StackInv
  <2>5. PlaceInv'
    BY <1>0, <1>9, OverlapArithmetic DEF TransmitPdu, NextOnAir, PlaceInv, AtSending, Follows, HighWaterAfter, TypeOK, Pages, Epochs
  <2>6. QED
    BY <2>1, <2>2, <2>3, <2>4, <2>5
<1>10. CASE SendingDone
  <2>1. EpochInv'
    BY <1>0, <1>10 DEF SendingDone, EpochInv
  <2>2. PageInv'
    BY <1>0, <1>10 DEF SendingDone, PageInv
  <2>3. LatestInv'
    BY <1>0, <1>10 DEF SendingDone, LatestInv
  <2>4. StackInv'
    BY <1>0, <1>10 DEF SendingDone, StackInv
  <2>5. PlaceInv'
    BY <1>0, <1>10, OverlapArithmetic DEF SendingDone, PlaceInv, AtSending, AtPut, Follows, TypeOK, Pages
  <2>6. QED
    BY <2>1, <2>2, <2>3, <2>4, <2>5
<1>11. CASE ProvisioningData
  <2>1. EpochInv'
    BY <1>0, <1>11 DEF ProvisioningData, EpochInv, TypeOK, Pages, Epochs
  <2>2. PageInv'
    BY <1>0, <1>11 DEF ProvisioningData, PageInv
  <2>3. LatestInv'
    BY <1>0, <1>11 DEF ProvisioningData, LatestInv
  <2>4. StackInv'
    BY <1>0, <1>11 DEF ProvisioningData, StackInv
  <2>5. PlaceInv'
    <3>1. epoch + 1 \in Epochs /\ flash.id # epoch + 1
      <4>1. epoch \in Nat /\ flash.id \in Nat /\ flash.id <= epoch
        BY <1>0, DriverAssumption DEF EpochInv, TypeOK, Pages
      <4>2. QED
        BY <1>11, <4>1, DriverAssumption DEF ProvisioningData, Epochs
    <3>2. highWater[epoch + 1] = 0
      BY <1>0, <3>1 DEF EpochInv, TypeOK
    <3>3. QED
      BY <1>0, <1>11, <3>1, <3>2 DEF ProvisioningData, PlaceInv, AtCompleting, TypeOK
  <2>6. QED
    BY <2>1, <2>2, <2>3, <2>4, <2>5
<1>12. CASE TransmitComplete
  <2>1. EpochInv'
    BY <1>0, <1>12 DEF TransmitComplete, EpochInv
  <2>2. PageInv'
    BY <1>0, <1>12 DEF TransmitComplete, PageInv
  <2>3. LatestInv'
    BY <1>0, <1>12 DEF TransmitComplete, LatestInv
  <2>4. StackInv'
    BY <1>0, <1>12 DEF TransmitComplete, StackInv
  <2>5. PlaceInv'
    BY <1>0, <1>12 DEF TransmitComplete, PlaceInv, AtCompleting
  <2>6. QED
    BY <2>1, <2>2, <2>3, <2>4, <2>5
<1>13. CASE BecomeProvisioned
  <2>1. EpochInv'
    BY <1>0, <1>13 DEF BecomeProvisioned, EpochInv, ProvisionedStack, TypeOK
  <2>2. PageInv'
    BY <1>0, <1>13 DEF BecomeProvisioned, PageInv
  <2>3. LatestInv'
    BY <1>0, <1>13 DEF BecomeProvisioned, LatestInv
  <2>4. StackInv'
    BY <1>0, <1>13 DEF BecomeProvisioned, StackInv, ProvisionedStack
  <2>5. PlaceInv'
    BY <1>0, <1>13 DEF BecomeProvisioned, PlaceInv, AtCompleting, AtPut, FreshlyProvisioned, ProvisionedStack
  <2>6. QED
    BY <2>1, <2>2, <2>3, <2>4, <2>5
<1>14. CASE PutWrites
  <2>1. EpochInv'
    BY <1>0, <1>14, ProposedFacts, ProposedIsConfig DEF PutWrites, FinishPut, Putting, Writes, EpochInv, ProposedPage
  <2>2. PageInv'
    BY <1>0, <1>14, ProposedFacts, ProposedIsConfig DEF PutWrites, FinishPut, Putting, Writes, PageInv, ProposedPage, Epochs
  <2>3. LatestInv'
    BY <1>0, <1>14, ProposedFacts, ProposedIsConfig DEF PutWrites, FinishPut, Putting, Writes, LatestInv, ProposedPage, AfterStore, LatestOf, OuterHash
  <2>4. StackInv'
    BY <1>0, <1>14, ProposedFacts, ProposedIsConfig DEF PutWrites, FinishPut, Putting, Writes, StackInv, NoStack
  <2>5. PlaceInv'
    <3>1. Proposed.kind = "prov" /\ Putting
      BY <1>14 DEF PutWrites, Writes
    <3>2. /\ flash'.id = Proposed.id /\ flash'.seq = Proposed.seq
          /\ latest'.kind = "prov" /\ config' = Proposed
      BY <1>14, <3>1 DEF PutWrites, FinishPut, ProposedPage, AfterStore, LatestOf
    <3>3. Follows(config.id, config.seq, Threshold - 1)'
      BY <1>0, <1>14, <3>1, <3>2, ProposedFacts, ProposedIsConfig, StoreAssumption, OverlapArithmetic DEF PutWrites, FinishPut, Follows, Configs, Epochs, TypeOK
    <3>4. AtLoop'
      BY <1>0, <1>14, <3>1, <3>2, <3>3, ProposedFacts DEF PutWrites, FinishPut, AtLoop, StackConfig, NoStack, Putting
    <3>5. QED
      BY <1>14, <3>4 DEF PutWrites, FinishPut, PlaceInv
  <2>6. QED
    BY <2>1, <2>2, <2>3, <2>4, <2>5
<1>15. CASE PutSkips
  <2>1. EpochInv'
    BY <1>0, <1>15 DEF PutSkips, FinishPut, Putting, Writes, EpochInv
  <2>2. PageInv'
    BY <1>0, <1>15 DEF PutSkips, FinishPut, Putting, Writes, PageInv
  <2>3. LatestInv'
    BY <1>0, <1>15 DEF PutSkips, FinishPut, Putting, Writes, LatestInv
  <2>4. StackInv'
    BY <1>0, <1>15 DEF PutSkips, FinishPut, Putting, Writes, StackInv, PlaceInv, AtInitPut, NoStack, Proposed, StackConfig, Provisioned, Unprovisioned
  <2>5. PlaceInv'
    <3>1. AtLoop'
      <4>1. CASE Proposed.kind = "prov"
        <5>1. /\ latest.kind = "prov" /\ latest.hash = OuterHash(Proposed)
              /\ Proposed.seq < latest.seq + Threshold
          BY <1>0, <1>15, <4>1, SkippedWrite, ProposedIsConfig
          DEF PutSkips, Writes, TypeOK, Configs, LatestLoads
        <5>2. flash.id = Proposed.id /\ flash.seq = latest.seq
          BY <1>0, <1>15, <5>1 DEF PutSkips, Putting, LatestInv, OuterHash
        <5>3. Follows(config.id, config.seq, Threshold - 1)'
          <6>1. /\ config' = Proposed /\ flash' = flash /\ latest' = latest
                /\ highWater' = highWater /\ advanced' = (advanced \/ pc = "initPut")
            BY <1>15 DEF PutSkips, FinishPut
          <6>2. Proposed.id \in Epochs /\ flash.seq <= Proposed.seq
            BY <1>0, <1>15, <4>1, <5>2, ProposedFacts DEF PutSkips
          <6>3. advanced' => highWater[Proposed.id] <= Proposed.seq + MaxOverlap
            BY <1>0, <1>15, <4>1, <6>1, ProposedFacts DEF PutSkips
          <6>4. Proposed.seq \in Nat /\ flash.seq \in Nat
            BY <1>0, ProposedIsConfig DEF Configs, TypeOK, Pages
          <6>5. Proposed.id # 0 /\ Proposed.seq <= flash.seq + (Threshold - 1)
            BY <5>1, <5>2, <6>2, <6>4, StoreAssumption DEF Epochs
          <6>6. highWater[Proposed.id] \in Nat
            BY <1>0, <6>2 DEF TypeOK
          <6>7. QED
            BY <5>1, <5>2, <6>1, <6>2, <6>3, <6>4, <6>5, <6>6, OverlapArithmetic DEF Follows
        <5>4. QED
          BY <1>0, <1>15, <4>1, <5>3, ProposedFacts
          DEF PutSkips, FinishPut, AtLoop, StackConfig, NoStack, Putting
      <4>2. CASE Proposed.kind # "prov"
        <5>1. pc = "put" /\ stack.kind = "unprov" /\ Proposed = StackConfig
          BY <1>0, <1>15, <4>2 DEF PutSkips, Putting, Proposed, PlaceInv, AtPut, StackConfig,
             Provisioned, TypeOK, Kinds
        <5>2. QED
          BY <1>0, <1>15, <4>2, <5>1 DEF PutSkips, FinishPut, AtLoop, StackInv, StackConfig
      <4>3. QED
        BY <4>1, <4>2
    <3>2. QED
      BY <1>15, <3>1 DEF PutSkips, FinishPut, PlaceInv
  <2>6. QED
    BY <2>1, <2>2, <2>3, <2>4, <2>5
<1>16. CASE PutFails
  <2>1. EpochInv'
    BY <1>0, <1>16, TornFacts DEF PutFails, EpochInv
  <2>2. PageInv'
    BY <1>0, <1>16, TornFacts DEF PutFails, PageInv
  <2>3. LatestInv'
    BY <1>0, <1>16 DEF PutFails, LatestInv
  <2>4. StackInv'
    BY <1>0, <1>16 DEF PutFails, StackInv
  <2>5. PlaceInv'
    BY <1>0, <1>16 DEF PutFails, PlaceInv
  <2>6. QED
    BY <2>1, <2>2, <2>3, <2>4, <2>5
<1>17. CASE Crash
  <2>1. EpochInv'
    <3>1. flash'.id <= epoch
      BY <1>0, <1>17, TornFacts DEF Crash, EpochInv
    <3>2. QED
      BY <1>0, <1>17, <3>1, DriverAssumption DEF Crash, EpochInv, NoStack, TypeOK
  <2>2. PageInv'
    <3>1. CASE Writes
      BY <1>0, <1>17, <3>1, TornFacts DEF Crash, PageInv
    <3>2. CASE ~Writes
      BY <1>0, <1>17, <3>2 DEF Crash, PageInv
    <3>3. QED
      BY <3>1, <3>2
  <2>3. LatestInv'
    BY <1>0, <1>17 DEF Crash, LatestInv, LatestNone
  <2>4. StackInv'
    BY <1>0, <1>17 DEF Crash, StackInv, NoStack, NoConfig, Unprovisioned
  <2>5. PlaceInv'
    BY <1>0, <1>17 DEF Crash, PlaceInv, AtBoot
  <2>6. QED
    BY <2>1, <2>2, <2>3, <2>4, <2>5
<1>18. CASE UNCHANGED vars
  BY <1>0, <1>18 DEF vars, EpochInv, PageInv, LatestInv, StackInv, PlaceInv, AtBoot, AtInitPut, AtLoop,
     AtSelect, AtSending, AtCompleting, AtPut, Follows, FreshlyProvisioned, StackConfig, Readable, Loaded
<1>19. QED
  BY <1>1, <1>2, <1>3, <1>4, <1>5, <1>6, <1>7, <1>8, <1>9, <1>10, <1>11, <1>12, <1>13, <1>14, <1>15, <1>16, <1>17, <1>18 DEF Next

-----------------------------------------------------------------------------
(* The inductive invariant holds in every reachable state: run_driver never*)
(* leaves the page, the RAM copy, the stack and the counter in a           *)
(* combination other than those of PlaceInv, whatever crashes.             *)
THEOREM IndInvHolds == Spec => []IndInv
<1>1. QED
  BY InitIndInv, StepIndInv, PTL DEF Spec

(* Type correctness of the driver's storage state. *)
THEOREM TypeCorrect == Spec => []TypeOK
<1>1. IndInv => TypeOK
  BY DEF IndInv
<1>2. QED
  BY <1>1, IndInvHolds, PTL

(* Whatever the payload sizes, a boot that went through the advance of     *)
(* Storage::init repeats at most MaxOverlap sequence numbers.              *)
THEOREM OverlapIsBounded == Spec => []ReuseBounded
<1>1. IndInv => ReuseBounded
  BY DEF IndInv, PlaceInv, AtSending, Follows, NextOnAir, ReuseBounded
<1>2. QED
  BY <1>1, IndInvHolds, PTL

(* If the reserve of Storage::init covers the write threshold, the rounding*)
(* and the largest payload, then no sequence number is ever used twice in  *)
(* one provisioning.  With 100/200/100 it covers payloads of two PDUs; for *)
(* the 32 of the code it would have to be 230.                             *)
THEOREM SequenceNeverReused ==
    ASSUME Threshold + MaxPerTurn + Align <= Reserve + 2
    PROVE  Spec => []NoReuse
<1>1. MaxOverlap = 0
  BY StoreAssumption, DriverAssumption DEF MaxOverlap, Excess
<1>2. IndInv => NoReuse
  BY <1>1, StoreAssumption DEF IndInv, TypeOK, PlaceInv, AtSending, Follows, NextOnAir, NoReuse
<1>3. QED
  BY <1>2, IndInvHolds, PTL

(* Even a boot whose first read failed repeats fewer numbers than one run  *)
(* can draw between two writes of the page.                                *)
THEOREM RetryOverlapIsBounded == Spec => []RetryOverlapBounded
<1>1. ASSUME IndInv PROVE RetryOverlapBounded
  <2>1. SUFFICES ASSUME pc = "sending"
                 PROVE  NextOnAir + Threshold + MaxPerTurn > highWater[stack.id]
    BY DEF RetryOverlapBounded
  <2>2. /\ flash.id = stack.id /\ stack.id # 0 /\ flash.seq <= NextOnAir
        /\ highWater[flash.id] <= flash.seq + Slack
    BY <1>1, <2>1 DEF IndInv, PlaceInv, AtSending, Follows, NextOnAir, PageInv
  <2>3. /\ flash.seq \in Nat /\ NextOnAir \in Int /\ highWater[flash.id] \in Nat
    BY <1>1, <2>2 DEF IndInv, TypeOK, Pages, NextOnAir, Epochs
  <2>4. QED
    BY <2>2, <2>3, StoreAssumption, DriverAssumption DEF Slack
<1>2. QED
  BY <1>1, IndInvHolds, PTL

(* Provisioned traffic is served only with the provisioning on the page,   *)
(* and the page lags the counter by less than the threshold.               *)
THEOREM InUseAlwaysDurable == Spec => []InUseIsDurable
<1>1. ASSUME IndInv PROVE InUseIsDurable
  <2>1. flash.seq \in Nat /\ sequence \in Nat
    BY <1>1 DEF IndInv, TypeOK, Pages
  <2>2. QED
    BY <1>1, <2>1, StoreAssumption DEF IndInv, PlaceInv, AtSelect, AtSending, Follows, InUseIsDurable
<1>2. QED
  BY <1>1, IndInvHolds, PTL

(* At the start of a turn, Storage and the stack agree.                    *)
THEOREM StorageAlwaysMirrors == Spec => []StorageMirrorsStack
<1>1. IndInv => StorageMirrorsStack
  BY DEF IndInv, PlaceInv, AtSelect, StorageMirrorsStack
<1>2. QED
  BY <1>1, IndInvHolds, PTL

(* The page's sequence number never goes back within a provisioning.       *)
THEOREM PageNeverGoesBack == Spec => PageMonotone
<1>1. ASSUME IndInv, [Next]_vars
      PROVE  [flash'.id = flash.id => flash'.seq >= flash.seq]_flash
  <2>1. SUFFICES ASSUME flash' # flash, flash'.id = flash.id
                 PROVE  flash'.seq >= flash.seq
    OBVIOUS
  <2>2. Writes /\ flash' \in {ProposedPage, Erased}
    BY <1>1, <2>1
    DEF Next, vars, volatile, history, InitLoads, InitLoadFails, LoopLoads, LoopLoadFails, Reconcile,
        QuietTurn, HandlerFails, OutboundPayload, TransmitPdu, SendingDone, ProvisioningData,
        TransmitComplete, BecomeProvisioned, PutWrites, PutSkips, PutFails, Crash, TornPages
  <2>3. CASE flash' = ProposedPage
    BY <1>1, <2>1, <2>2, <2>3, ProposedFacts DEF IndInv, Writes, ProposedPage
  <2>4. CASE flash' = Erased
    BY <1>1, <2>1, <2>4 DEF IndInv, PageInv, Erased
  <2>5. QED
    BY <2>2, <2>3, <2>4
<1>2. QED
  BY <1>1, IndInvHolds, PTL DEF Spec, PageMonotone

-----------------------------------------------------------------------------
(* What a power cut costs.                                                 *)

LEMMA InitCoverInv == Init => CoverInv
BY DEF Init, CoverInv, NoStack, NoConfig, Booting

(* The boot-time put always writes: load() and store() hash differently.   *)
LEMMA InitPutWrites ==
    ASSUME TypeOK, PlaceInv, CoverInv, pc = "initPut" PROVE Writes
<1>1. config.kind = "prov" /\ latest = AfterLoad(config)
  BY DEF PlaceInv, AtInitPut, Loaded, Provisioned, CoverInv
<1>2. latest.kind = "prov" /\ latest.hash = InnerHash(config)
  BY <1>1 DEF AfterLoad, LatestOf
<1>3. Proposed.kind = "prov"
  BY DEF Proposed, Provisioned
<1>4. OuterHash(Proposed) # latest.hash
  BY <1>2 DEF OuterHash, InnerHash
<1>5. QED
  BY <1>2, <1>3, <1>4 DEF Writes, Putting, ShouldWriteback

(* Every step keeps what is covered covered.                               *)
LEMMA StepCoverInv == IndInv /\ CoverInv /\ [Next]_vars => CoverInv'
<1> SUFFICES ASSUME IndInv, CoverInv, [Next]_vars PROVE CoverInv'
  OBVIOUS
<1>0. TypeOK /\ EpochInv /\ PageInv /\ LatestInv /\ StackInv /\ PlaceInv
  BY DEF IndInv
<1>n. /\ flash.seq \in Nat /\ config.seq \in Nat /\ sequence \in Nat /\ pending \in Nat
      /\ \A e \in Epochs : highWater[e] \in Nat
  BY <1>0 DEF TypeOK, Pages, Configs
<1> USE DEF history, volatile
<1>1. CASE InitLoads
  BY <1>1 DEF InitLoads, CoverInv, Booting
<1>2. CASE InitLoadFails
  BY <1>0, <1>2 DEF InitLoadFails, CoverInv, PlaceInv, AtBoot, Booting
<1>3. CASE LoopLoads
  BY <1>0, <1>3 DEF LoopLoads, CoverInv, PlaceInv, AtLoop, NoConfig
<1>4. CASE LoopLoadFails
  BY <1>4 DEF LoopLoadFails, CoverInv, Unprovisioned
<1>5. CASE Reconcile
  <2>1. pc = "loop" /\ pc' = "select" /\ pending = 0 /\ pending' = 0
    BY <1>5 DEF Reconcile, CoverInv
  <2>2. ASSUME stack'.kind = "prov"
        PROVE  config.kind = "prov" /\ stack'.id = config.id /\ sequence' = config.seq
    <3>1. config.kind = "prov"
      BY <1>0, <1>5, <2>2 DEF Reconcile, StackInv, UnprovisionedStack, TypeOK, Configs, Kinds
    <3>2. CASE stack.kind \in {"none", "unprov"}
      BY <1>5, <3>1, <3>2 DEF Reconcile, ProvisionedStack
    <3>3. CASE stack.kind = "prov"
      BY <1>0, <1>5, <2>1, <3>1, <3>3 DEF Reconcile, PlaceInv, AtLoop, StackConfig, Provisioned
    <3>4. QED
      BY <1>0, <3>2, <3>3 DEF TypeOK, Kinds
  <2>3. config.kind = "prov" => config.seq <= flash.seq + (Threshold - 1)
    BY <1>0, <2>1 DEF PlaceInv, AtLoop, Follows
  <2>4. config.kind = "prov" /\ advanced => Covered(config.id, config.seq)
    BY <2>1 DEF CoverInv
  <2>5. /\ flash' = flash /\ config' = config /\ advanced' = advanced /\ highWater' = highWater
    BY <1>5 DEF Reconcile
  <2>6. QED
    BY <1>n, <2>1, <2>2, <2>3, <2>4, <2>5 DEF CoverInv, Covered, NextOnAir, Booting
<1>6. CASE QuietTurn
  BY <1>6 DEF QuietTurn, CoverInv, Covered, NextOnAir
<1>7. CASE HandlerFails
  BY <1>7 DEF HandlerFails, CoverInv, Booting
<1>8. ASSUME NEW n \in Payloads, OutboundPayload(n) PROVE CoverInv'
  <2>1. n \in Nat
    BY DriverAssumption
  <2>2. NextOnAir' = NextOnAir
    BY <1>8, <1>n, <2>1 DEF OutboundPayload, NextOnAir, CoverInv
  <2>3. QED
    BY <1>8, <2>2 DEF OutboundPayload, CoverInv, Covered, Booting
<1>9. CASE TransmitPdu
  <2>1. AtSending /\ stack.id \in Epochs
    BY <1>0, <1>9 DEF TransmitPdu, PlaceInv, AtSending, Follows, TypeOK, Epochs
  <2>2. NextOnAir' = NextOnAir + 1 /\ NextOnAir \in Int
    BY <1>n, <1>9 DEF TransmitPdu, NextOnAir
  <2>3. highWater'[stack.id] = IF NextOnAir >= highWater[stack.id]
                               THEN NextOnAir + 1 ELSE highWater[stack.id]
    BY <1>9, <2>1 DEF TransmitPdu, HighWaterAfter
  <2>4. advanced => Covered(stack.id, NextOnAir)'
    BY <1>n, <1>9, <2>1, <2>2, <2>3, OverlapArithmetic
    DEF TransmitPdu, CoverInv, Covered, AtSending, Follows
  <2>5. /\ config.seq <= NextOnAir' /\ config.seq <= flash.seq + (Threshold - 1)
    BY <1>n, <1>9, <2>1, <2>2 DEF TransmitPdu, CoverInv, AtSending, Follows
  <2>6. QED
    BY <1>9, <2>4, <2>5 DEF TransmitPdu, CoverInv, Booting
<1>10. CASE SendingDone
  BY <1>10 DEF SendingDone, CoverInv, Covered, NextOnAir
<1>11. CASE ProvisioningData
  BY <1>11 DEF ProvisioningData, CoverInv, Booting
<1>12. CASE TransmitComplete
  BY <1>12 DEF TransmitComplete, CoverInv, Booting
<1>13. CASE BecomeProvisioned
  BY <1>0, <1>13 DEF BecomeProvisioned, CoverInv, PlaceInv, AtCompleting, ProvisionedStack, Booting
<1>14. CASE PutWrites
  <2>1. Proposed.kind = "prov" /\ Putting
    BY <1>14 DEF PutWrites, Writes
  <2>2. /\ pc' = "loop" /\ config' = Proposed /\ flash'.seq = Proposed.seq
        /\ pending' = pending /\ stack' = stack /\ highWater' = highWater
        /\ advanced' = (advanced \/ pc = "initPut")
    BY <1>14 DEF PutWrites, FinishPut, ProposedPage
  <2>3. pending = 0
    BY <2>1 DEF CoverInv, Putting, Booting
  <2>4. advanced' => Covered(config.id, config.seq)'
    BY <1>0, <2>1, <2>2, ProposedFacts DEF Covered
  <2>5. QED
    BY <2>2, <2>3, <2>4 DEF CoverInv
<1>15. CASE PutSkips
  <2>1. pc = "put" /\ pending = 0
    BY <1>0, <1>15, InitPutWrites DEF PutSkips, Putting, CoverInv
  <2>2. /\ pc' = "loop" /\ config' = Proposed /\ flash' = flash /\ pending' = pending
        /\ highWater' = highWater /\ (advanced' => advanced)
    BY <1>15, <2>1 DEF PutSkips, FinishPut
  <2>3. ASSUME Proposed.kind = "prov", advanced PROVE Covered(Proposed.id, Proposed.seq)
    <3>1. /\ stack.kind = "prov" /\ Proposed.id = stack.id /\ Proposed.seq = sequence
      BY <1>0, <1>15, <2>1, <2>3, ProposedFacts DEF PutSkips, StackConfig, Provisioned
    <3>2. /\ latest.kind = "prov" /\ latest.hash = OuterHash(Proposed)
      BY <1>0, <1>15, <2>3, SkippedWrite, ProposedIsConfig
      DEF PutSkips, Writes, TypeOK, Configs, LatestLoads
    <3>3. flash.id = stack.id
      BY <1>0, <2>1, <3>1, <3>2 DEF LatestInv, OuterHash
    <3>4. QED
      BY <1>n, <2>1, <2>3, <3>1, <3>3 DEF CoverInv, Covered, NextOnAir
  <2>4. QED
    BY <2>1, <2>2, <2>3 DEF CoverInv, Covered
<1>16. CASE PutFails
  BY <1>16 DEF PutFails, CoverInv, Booting
<1>17. CASE Crash
  BY <1>17 DEF Crash, CoverInv
<1>18. CASE UNCHANGED vars
  BY <1>18 DEF vars, CoverInv, Covered, NextOnAir
<1>19. QED
  BY <1>1, <1>2, <1>3, <1>4, <1>5, <1>6, <1>7, <1>8, <1>9, <1>10, <1>11, <1>12, <1>13, <1>14, <1>15, <1>16, <1>17, <1>18 DEF Next

(* A power cut costs nothing but what the interrupted payload had on the   *)
(* air beyond the room of the reserve, if one boot's advance is enough for *)
(* the overlap of the boot before: with the literals, 30 numbers by 101.   *)
THEOREM CutsAlwaysCovered ==
    ASSUME MaxOverlap + Align <= Reserve + 1
    PROVE  Spec => []CutsAreCovered
<1>1. ASSUME IndInv, CoverInv PROVE CutsAreCovered
  <2>1. SUFFICES ASSUME pc \in Running, stack.kind = "prov", flash.id = stack.id, advanced
                 PROVE  highWater[stack.id] <= InitSequence(flash.seq) + Excess(OnAirThisTurn)
    BY DEF CutsAreCovered
  <2>2. /\ flash.seq \in Nat /\ config.seq \in Nat /\ sequence \in Nat /\ pending \in Nat
    BY <1>1 DEF IndInv, TypeOK, Pages, Configs
  <2>3. pc # "completing" /\ stack.id # 0
    BY <1>1, <2>1 DEF IndInv, PlaceInv, AtCompleting, AtLoop, AtSelect, AtSending, AtPut, Follows,
       FreshlyProvisioned, StackConfig, Provisioned, Running
  <2>4. highWater[stack.id] \in Nat
    BY <1>1, <2>3 DEF IndInv, TypeOK, Epochs
  <2>5. /\ config.seq <= NextOnAir /\ config.seq <= flash.seq + (Threshold - 1)
        /\ Covered(stack.id, NextOnAir)
    <3>1. CASE pc = "loop"
      <4>1. config = Provisioned(stack.id, sequence) /\ pending = 0
        BY <1>1, <2>1, <3>1 DEF IndInv, PlaceInv, AtLoop, StackConfig, CoverInv
      <4>2. config.kind = "prov" /\ config.id = stack.id /\ config.seq = sequence
        BY <4>1 DEF Provisioned
      <4>3. Follows(config.id, config.seq, Threshold - 1) /\ Covered(config.id, config.seq)
        BY <1>1, <2>1, <3>1, <4>2 DEF IndInv, PlaceInv, AtLoop, CoverInv
      <4>4. QED
        BY <2>2, <4>1, <4>2, <4>3 DEF Follows, NextOnAir
    <3>2. CASE pc # "loop"
      BY <1>1, <2>1, <2>3, <3>2 DEF CoverInv, Running
    <3>3. QED
      BY <3>1, <3>2
  <2>6. /\ InitSequence(flash.seq) \in Nat
        /\ InitSequence(flash.seq) + Align >= flash.seq + Reserve + 1
    BY <2>2, InitSequenceBounds
  <2>7. /\ OnAirThisTurn \in Nat /\ NextOnAir = config.seq + OnAirThisTurn /\ NextOnAir \in Nat
    BY <2>2, <2>5 DEF OnAirThisTurn, NextOnAir
  <2>8. /\ Excess(OnAirThisTurn) \in Nat
        /\ Excess(OnAirThisTurn) + Reserve + 2 >= Threshold + OnAirThisTurn + Align
    BY <2>7, StoreAssumption DEF Excess
  <2>9. CASE highWater[stack.id] <= NextOnAir
    BY <2>2, <2>4, <2>5, <2>6, <2>7, <2>8, <2>9, StoreAssumption
  <2>10. CASE highWater[stack.id] <= flash.seq + MaxOverlap
    BY <2>2, <2>4, <2>6, <2>8, <2>10, StoreAssumption, OverlapArithmetic
  <2>11. QED
    BY <2>5, <2>9, <2>10 DEF Covered
<1>2. Init => IndInv /\ CoverInv
  BY InitIndInv, InitCoverInv
<1>3. IndInv /\ CoverInv /\ [Next]_vars => (IndInv /\ CoverInv)'
  BY StepIndInv, StepCoverInv
<1>4. QED
  BY <1>1, <1>2, <1>3, PTL DEF Spec

=============================================================================
