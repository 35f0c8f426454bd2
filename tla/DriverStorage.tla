--------------------------- MODULE DriverStorage ---------------------------
(***************************************************************************)
(* The driver loop of InnerDriver::run_driver as far as it decides which   *)
(* stack runs, which sequence numbers go on the air and what survives a    *)
(* power cut: Storage (RAM copy + flash), the Stack, and the Sequence.     *)
(*                                                                         *)
(* One epoch is one provisioning of the device: its keys and address.      *)
(* Sequence numbers must be fresh within an epoch, because                 *)
(* (epoch keys, src, seq) is the nonce of everything the node encrypts.    *)
(***************************************************************************)
EXTENDS FlashStore

CONSTANTS FirstSeq,     \* the literal 800 of receive_pdu
          Repeats,      \* the literal 5 of receive_pdu: Complete is sent 5 times
          MaxPerTurn,   \* the capacity of the Vec of network PDUs of one payload: 32
          Payloads,     \* how many PDUs, each with a number, an outbound payload may be cut into
          ReadFaults,   \* may a flash read fail although the page is good?
          MaxEpoch,     \* bound: provisionings of the device
          SeqLimit      \* bound: no counter is driven beyond it

ASSUME DriverAssumption == /\ FirstSeq \in Nat
                           /\ Repeats \in Nat \ {0}
                           /\ MaxPerTurn \in Nat \ {0}
                           /\ Payloads \subseteq 1 .. MaxPerTurn
                           /\ ReadFaults \in BOOLEAN
                           /\ MaxEpoch \in Nat \ {0}
                           /\ SeqLimit \in Nat

VARIABLES pc,         \* where run_driver is suspended or stopped
          flash,      \* [id, seq] held by the page; id = 0: it does not deserialize
          latest,     \* FlashBackingStore.latest_load
          config,     \* Storage.config, the copy in RAM
          stack,      \* InnerDriver.stack: [kind, id]
          sequence,   \* Sequence.seq of the provisioned stack
          pending,    \* PDUs of this turn still to be transmitted
          epoch,      \* history: provisionings started so far
          highWater,  \* history: per epoch, 1 + the largest sequence number on the air
          advanced    \* history: did this boot go through the advance of Storage::init?

volatile == <<latest, config, stack, sequence, pending, advanced>>
history  == <<epoch, highWater>>
vars == <<pc, flash, volatile, history>>

Epochs == 1 .. MaxEpoch
NoStack == [kind |-> "none", id |-> 0]
UnprovisionedStack == [kind |-> "unprov", id |-> 0]
ProvisionedStack(id) == [kind |-> "prov", id |-> id]
Erased == [id |-> 0, seq |-> 0]

Booting == {"boot", "initPut"}
Running == {"loop", "select", "sending", "completing", "put"}

Kinds == {"none", "unprov", "prov"}
Pages == [id : 0 .. MaxEpoch, seq : Nat]
Configs == [kind : Kinds, id : 0 .. MaxEpoch, seq : Nat]
LatestLoads == [kind : Kinds, hash : {"none", "inner", "outer"} \X (0 .. MaxEpoch), seq : Nat]

TypeOK == /\ pc \in Booting \cup Running \cup {"stopped"}
          /\ flash \in Pages
          /\ latest \in LatestLoads
          /\ config \in Configs
          /\ stack \in [kind : Kinds, id : 0 .. MaxEpoch]
          /\ sequence \in Nat
          /\ pending \in Nat
          /\ epoch \in 0 .. MaxEpoch
          /\ highWater \in [Epochs -> Nat]
          /\ advanced \in BOOLEAN

Init == /\ pc = "boot"
        /\ flash = Erased
        /\ latest = LatestNone
        /\ config = NoConfig
        /\ stack = NoStack
        /\ sequence = 0
        /\ pending = 0
        /\ epoch = 0
        /\ highWater = [e \in Epochs |-> 0]
        /\ advanced = FALSE

-----------------------------------------------------------------------------
(* Loading: Storage::get -> load_if_needed -> FlashBackingStore::load.     *)

Readable == flash.id # 0
Loaded == Provisioned(flash.id, flash.seq)

(* Storage::init found a provisioned page; it goes on to put the advanced one. *)
InitLoads ==
    /\ pc = "boot" /\ Readable
    /\ config' = Loaded
    /\ latest' = AfterLoad(Loaded)
    /\ pc' = "initPut"
    /\ UNCHANGED <<flash, stack, sequence, pending, advanced, history>>

(* `if let Ok(..)` swallows the error of the load: init is done.           *)
InitLoadFails ==
    /\ pc = "boot" /\ (~Readable \/ ReadFaults)
    /\ pc' = "loop"
    /\ UNCHANGED <<flash, volatile, history>>

(* The loop asks again, and this time nothing advances the sequence.       *)
LoopLoads ==
    /\ pc = "loop" /\ config = NoConfig /\ Readable
    /\ config' = Loaded
    /\ latest' = AfterLoad(Loaded)
    /\ UNCHANGED <<pc, flash, stack, sequence, pending, advanced, history>>

(* No page: run with a fresh, ephemeral unprovisioned configuration.       *)
LoopLoadFails ==
    /\ pc = "loop" /\ config = NoConfig /\ (~Readable \/ ReadFaults)
    /\ config' = Unprovisioned
    /\ UNCHANGED <<pc, flash, latest, stack, sequence, pending, advanced, history>>

-----------------------------------------------------------------------------
(* Reconciling the stack with the configuration, at the top of each turn.  *)

Reconcile ==
    /\ pc = "loop" /\ config # NoConfig
    /\ IF config.kind = "unprov"
       THEN /\ stack' = IF stack.kind \in {"none", "prov"} THEN UnprovisionedStack ELSE stack
            /\ UNCHANGED sequence
       ELSE IF stack.kind \in {"none", "unprov"}
            THEN /\ stack' = ProvisionedStack(config.id)
                 /\ sequence' = config.seq
            ELSE UNCHANGED <<stack, sequence>>
    /\ pc' = "select"
    /\ UNCHANGED <<flash, latest, config, pending, advanced, history>>

-----------------------------------------------------------------------------
(* The turn: select4 hands over one event.                                 *)

(* Inbound PDUs, beacons, retransmissions, an outbound payload while       *)
(* unprovisioned: nothing here draws a sequence number (a block ack is an  *)
(* UpperPDU::Control, for which OutboundSegmentation yields no PDU).       *)
QuietTurn ==
    /\ pc = "select"
    /\ pc' = "put"
    /\ UNCHANGED <<flash, volatile, history>>

(* process_outbound draws the numbers of all n segments, then they go out. *)
OutboundPayload(n) ==
    /\ pc = "select"
    /\ stack.kind = "prov" /\ config.kind = "prov"
    /\ sequence + n <= SeqLimit
    /\ sequence' = sequence + n
    /\ pending' = n
    /\ pc' = "sending"
    /\ UNCHANGED <<flash, latest, config, stack, advanced, history>>

NextOnAir == sequence - pending

HighWaterAfter(seq) ==
    [e \in Epochs |-> IF e = stack.id /\ seq >= highWater[e] THEN seq + 1 ELSE highWater[e]]

(* mutant: one PDU too many                                                *)
TransmitPduOnceMore ==
    /\ pc = "sending"
    /\ highWater' = HighWaterAfter(NextOnAir)
    /\ pending' = pending - 1
    /\ UNCHANGED <<pc, flash, latest, config, stack, sequence, epoch, advanced>>

TransmitPdu ==
    /\ pc = "sending" /\ pending > 0
    /\ highWater' = HighWaterAfter(NextOnAir)
    /\ pending' = pending - 1
    /\ UNCHANGED <<pc, flash, latest, config, stack, sequence, epoch, advanced>>

(* Provisioning data arrived: acknowledge it, repeatedly, before anything  *)
(* is stored.                                                              *)
ProvisioningData ==
    /\ pc = "select" /\ stack.kind = "unprov"
    /\ epoch < MaxEpoch
    /\ epoch' = epoch + 1
    /\ pending' = Repeats
    /\ pc' = "completing"
    /\ UNCHANGED <<flash, latest, config, stack, sequence, highWater, advanced>>

TransmitComplete ==
    /\ pc = "completing" /\ pending > 0
    /\ pending' = pending - 1
    /\ UNCHANGED <<pc, flash, latest, config, stack, sequence, history, advanced>>

BecomeProvisioned ==
    /\ pc = "completing" /\ pending = 0
    /\ stack' = ProvisionedStack(epoch)
    /\ sequence' = FirstSeq
    /\ advanced' = TRUE
    /\ pc' = "put"
    /\ UNCHANGED <<flash, latest, config, pending, history>>

SendingDone ==
    /\ pc = "sending" /\ pending = 0
    /\ pc' = "put"
    /\ UNCHANGED <<flash, volatile, history>>

(* Any `?` of a handler ends run_driver; run() then returns for good.      *)
HandlerFails ==
    /\ pc \in {"select", "sending", "completing"}
    /\ pc' = "stopped"
    /\ UNCHANGED <<flash, volatile, history>>

-----------------------------------------------------------------------------
(* Storage::put, at the end of init and at the end of every turn.          *)

StackConfig == IF stack.kind = "prov" THEN Provisioned(stack.id, sequence)
                                      ELSE Unprovisioned

Proposed == IF pc = "initPut" THEN Provisioned(config.id, InitSequence(config.seq))
                              ELSE StackConfig

Putting == pc \in {"initPut", "put"}
Writes == Putting /\ Proposed.kind = "prov" /\ ShouldWriteback(latest, Proposed)

FinishPut == /\ config' = Proposed
             /\ advanced' = (advanced \/ pc = "initPut")
             /\ pc' = "loop"
             /\ UNCHANGED <<stack, sequence, pending, history>>

ProposedPage == [id |-> Proposed.id, seq |-> Proposed.seq]

(* The page is written whole.  store() writes it without erasing it first; *)
(* that what is written replaces what was there is left to the flash driver, *)
(* which the code is handed.                                               *)
PutWrites ==
    /\ Writes
    /\ flash' = ProposedPage
    /\ latest' = AfterStore(Proposed)
    /\ FinishPut

(* mutant: the RAM copy is only replaced when the page is written          *)
PutSkipsKeepingConfig ==
    /\ Putting /\ ~Writes
    /\ advanced' = (advanced \/ pc = "initPut")
    /\ pc' = "loop"
    /\ UNCHANGED <<config, stack, sequence, pending, history, flash, latest>>

PutSkips ==
    /\ Putting /\ ~Writes
    /\ FinishPut
    /\ UNCHANGED <<flash, latest>>

(* What an interrupted or failed page write can leave behind: the old page,*)
(* the new one, or one that does not deserialize.  Abstraction: a mixture  *)
(* of the two that still deserializes, as no checksum forbids, is left out.*)
TornPages == {flash, ProposedPage, Erased}

PutFails ==
    /\ Writes
    /\ flash' \in TornPages
    /\ pc' = "stopped"
    /\ UNCHANGED <<volatile, history>>

-----------------------------------------------------------------------------
(* Power cut or reset at any point: RAM is gone, run_driver starts over.   *)

Crash ==
    /\ pc # "boot"
    /\ flash' \in IF Writes THEN TornPages ELSE {flash}
    /\ flash'.seq + Reserve <= SeqLimit
    /\ pc' = "boot"
    /\ latest' = LatestNone
    /\ config' = NoConfig
    /\ stack' = NoStack
    /\ sequence' = 0
    /\ pending' = 0
    /\ advanced' = FALSE
    /\ UNCHANGED history

Next == \/ InitLoads \/ InitLoadFails \/ LoopLoads \/ LoopLoadFails
        \/ Reconcile
        \/ QuietTurn \/ HandlerFails
        \/ \E n \in Payloads : OutboundPayload(n)
        \/ TransmitPdu \/ SendingDone
        \/ ProvisioningData \/ TransmitComplete \/ BecomeProvisioned
        \/ PutWrites \/ PutSkips \/ PutFails
        \/ Crash

Spec == Init /\ [][Next]_vars

-----------------------------------------------------------------------------
(* The inductive invariant: what holds at each place run_driver can be.    *)

(* How far the high-water mark of an epoch can lie above its page.         *)
Slack == (Threshold + MaxPerTurn) - 1

(* By how much n numbers on the air since the last put, on top of what the *)
(* page may lag behind and what rounding down takes, exceed the reserve.   *)
Excess(n) == LET over == (Threshold + n + Align) - (Reserve + 2)
             IN  IF over > 0 THEN over ELSE 0

(* Allowed overlap of a boot that advanced; zero when the reserve suffices.*)
MaxOverlap == Excess(MaxPerTurn)

EpochInv == /\ flash.id <= epoch /\ stack.id <= epoch
            /\ \A e \in Epochs : e > epoch => highWater[e] = 0

PageInv == /\ flash.id = 0 => flash = Erased
           /\ flash.id # 0 => highWater[flash.id] <= flash.seq + Slack

LatestInv == /\ latest.kind \in {"none", "prov"}
             /\ latest.kind = "prov" /\ pc # "stopped"
                    => latest.hash[2] = flash.id /\ latest.seq = flash.seq

(* `next` may follow the page `flash` in the running epoch `id`.           *)
Follows(id, next, lag) ==
    /\ id # 0 /\ flash.id = id
    /\ flash.seq <= next /\ next <= flash.seq + lag
    /\ latest.kind = "prov"
    /\ advanced => next + MaxOverlap >= highWater[id]

FreshlyProvisioned ==
    /\ stack.id = epoch /\ stack.id # 0 /\ flash.id # epoch
    /\ highWater[epoch] = 0 /\ sequence = FirstSeq /\ advanced

AtBoot == stack = NoStack /\ latest = LatestNone /\ config = NoConfig /\ ~advanced
AtInitPut == Readable /\ config = Loaded /\ stack = NoStack /\ latest.kind = "prov"
AtLoop == /\ config.kind = "prov" => Follows(config.id, config.seq, Threshold - 1)
          /\ config.kind # "prov" => latest.kind = "none" /\ ~advanced
          /\ stack.kind # "none" => config = StackConfig
AtSelect == /\ stack.kind # "none" /\ config = StackConfig
            /\ stack.kind = "prov" => Follows(stack.id, sequence, Threshold - 1)
AtSending == /\ stack.kind = "prov" /\ pending <= sequence
             /\ Follows(stack.id, sequence - pending, Slack)
             /\ sequence <= flash.seq + Slack
AtCompleting == /\ stack.kind = "unprov" /\ epoch # 0
                /\ flash.id # epoch /\ highWater[epoch] = 0
AtPut == /\ stack.kind # "none"
         /\ stack.kind = "prov" => Follows(stack.id, sequence, Slack) \/ FreshlyProvisioned

PlaceInv == /\ pc = "boot"       => AtBoot
            /\ pc = "initPut"    => AtInitPut
            /\ pc = "loop"       => AtLoop
            /\ pc = "select"     => AtSelect
            /\ pc = "sending"    => AtSending
            /\ pc = "completing" => AtCompleting
            /\ pc = "put"        => AtPut

StackInv == /\ config.kind = "none" => config = NoConfig
            /\ config.kind = "unprov" => config = Unprovisioned
            /\ stack.kind # "prov" => stack.id = 0
            /\ stack.kind = "unprov" => latest.kind = "none" /\ ~advanced

IndInv == TypeOK /\ EpochInv /\ PageInv /\ LatestInv /\ StackInv /\ PlaceInv

(* What a boot that advanced has below it: all numbers in use, or the page *)
(* it started from lies at most MaxOverlap below them.                     *)
Covered(id, next) == highWater[id] <= next \/ highWater[id] <= flash.seq + MaxOverlap

(* A second invariant over the first: until the put, Storage still holds   *)
(* the number that the turn began with.                                    *)
CoverInv ==
    /\ pc \in Booting \cup {"loop", "select", "put"} => pending = 0
    /\ pc = "initPut" => latest = AfterLoad(config)
    /\ pc = "loop" /\ config.kind = "prov" /\ advanced => Covered(config.id, config.seq)
    /\ pc \in {"select", "sending", "put"} /\ stack.kind = "prov" /\ flash.id = stack.id
          => /\ config.seq <= NextOnAir
             /\ config.seq <= flash.seq + (Threshold - 1)
             /\ advanced => Covered(stack.id, NextOnAir)

-----------------------------------------------------------------------------
(* PDUs of this turn's payload that are on the air.                        *)
OnAirThisTurn == NextOnAir - config.seq

(***************************************************************************)
(* A power cut at any point of a boot that went through Storage::init's    *)
(* advance finds the next start, computed from the page, above all numbers *)
(* in use, except by what the interrupted payload had on the air beyond    *)
(* what the reserve has room for: with the literals of the code, all but   *)
(* two of its up to 32 PDUs.                                               *)
(***************************************************************************)
CutsAreCovered ==
    pc \in Running /\ stack.kind = "prov" /\ flash.id = stack.id /\ advanced
        => highWater[stack.id] <= InitSequence(flash.seq) + Excess(OnAirThisTurn)

(***************************************************************************)
(* No such boot sends under a number already used in its epoch.  The       *)
(* literals of the code give this for payloads of one and two PDUs only.   *)
(***************************************************************************)
NoReuse == pc = "sending" /\ pending > 0 /\ advanced
              => NextOnAir >= highWater[stack.id]

(***************************************************************************)
(* Whatever the sizes: at most MaxOverlap numbers below the high-water     *)
(* mark are repeated after such a boot.                                    *)
(***************************************************************************)
ReuseBounded == pc = "sending" /\ pending > 0 /\ advanced
                   => NextOnAir + MaxOverlap >= highWater[stack.id]

(***************************************************************************)
(* Even when the first read failed and the loop's second read succeeded,   *)
(* so that no advance happened, the overlap is less than what one run can  *)
(* draw between two writes of the page.                                    *)
(***************************************************************************)
RetryOverlapBounded ==
    pc = "sending" /\ pending > 0
        => NextOnAir + Threshold + MaxPerTurn > highWater[stack.id]

(***************************************************************************)
(* A node serves provisioned traffic only after the page holds the epoch   *)
(* it is in, and the page then lags the counter by less than Threshold at  *)
(* the start of a turn, so that a power cut costs neither the provisioning *)
(* nor more numbers than the reserve accounts for.                         *)
(***************************************************************************)
InUseIsDurable ==
    pc \in {"select", "sending"} /\ stack.kind = "prov"
        => /\ flash.id = stack.id
           /\ pc = "select" => sequence - flash.seq < Threshold

(***************************************************************************)
(* process_outbound_payload reads Storage, not the stack: at the start of  *)
(* a turn the two must tell the same story.                                *)
(***************************************************************************)
StorageMirrorsStack == pc = "select" => config = StackConfig

(***************************************************************************)
(* The sequence number on the page never goes back within an epoch.        *)
(***************************************************************************)
PageMonotone ==
    [][flash'.id = flash.id => flash'.seq >= flash.seq]_flash
=============================================================================
