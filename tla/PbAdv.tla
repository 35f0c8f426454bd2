------------------------------- MODULE PbAdv -------------------------------
(***************************************************************************)
(* Provisioning over the advertising bearer: the device side of PB-ADV     *)
(* (AdvertisingBearerNetworkInterface with its Segmentation), driven by    *)
(* run_driver and answered by the unprovisioned stack, and a provisioner   *)
(* in radio range.                                                         *)
(*                                                                         *)
(* One radio hop: a frame is heard any number of times, or never, until    *)
(* another of its kind takes its place in linkAcks, acks, sent or peerAcks,*)
(* or it is lost.  The provisioner repeats its own frames (Audible), in any*)
(* order and old ones too, but none after the LinkClose of their link.     *)
(***************************************************************************)
EXTENDS Integers, FiniteSets

CONSTANTS Last,       \* the last transaction of the provisioner carries the Data
          Conts,      \* per transaction: its continuation segments (seg_n)
          Answered,   \* the transactions whose PDU the stack answers
          Setups,     \* the circumstances considered, see setup
          FirstOut,   \* outbound_transaction_number starts here: 0x80
          Numbers     \* 2^8: a transaction number is a u8, and wraps

Transactions == 0 .. Last

ASSUME PbAdvAssumption == /\ Last \in Nat
                          /\ Conts \in [Transactions -> 0 .. 31]
                          /\ Answered \subseteq Transactions
                          /\ Setups \subseteq [relinks : BOOLEAN, neighbour : BOOLEAN,
                                               cancels : BOOLEAN, gattToo : BOOLEAN,
                                               maxOut : Nat]
                          /\ Numbers \in Nat \ {0}
                          /\ FirstOut \in 0 .. Numbers - 1

None == -1
Links == {1, 2}  \* what this device's provisioner opens: 2 if it gives up on 1
Elsewhere == 0   \* the link of the neighbouring session

NoSegments == [n |-> None, got |-> {}]
NoOutbound == [link |-> None, txn |-> None, answer |-> None]

VARIABLES setup,     \* may the provisioner open a second link?  is another device being
                     \* provisioned in range?  may another branch of select4 cut
                     \* receive() short?  are there both interfaces, or only PB-ADV?
                     \* bound: the timer does not retransmit from maxOut on
          pc,        \* "running", "provisioned", or "stopped" for good
          link,      \* link_id
          inbound,   \* inbound_transaction_number
          acked,     \* acked_inbound_transaction_number
          segments,  \* inbound_segments: how many, and the frames they were taken from
          outbound,  \* outbound_pdu; `answer` is the transaction it answers
          outTxn,    \* outbound_transaction_number
          phase,     \* of the stack: how many transactions it has accepted
          linkAcks, acks, sent,            \* the device's frames on the air
          reached, closed, got, peerAcks,  \* the provisioner, and its TransactionAck
          handed,    \* history: the frames of the last PDU handed to the stack
          strays,    \* history: the links whose PDUs reached the stack out of turn
          heard      \* history: the answers the provisioner heard, per link

interface == <<link, inbound, acked, segments, outbound, outTxn>>
air == <<linkAcks, acks, sent>>
peer == <<reached, closed, got, peerAcks>>
history == <<handed, strays, heard>>
vars == <<setup, pc, interface, phase, air, peer, history>>

Init == /\ setup \in Setups
        /\ pc = "running"
        /\ link = None /\ inbound = None /\ acked = None
        /\ segments = NoSegments
        /\ outbound = NoOutbound /\ outTxn = FirstOut
        /\ phase = 0
        /\ linkAcks = {} /\ acks = {} /\ sent = {}
        /\ reached = [l \in Links |-> -2]
        /\ closed = {} /\ got = {} /\ peerAcks = {}
        /\ handed = {} /\ strays = {} /\ heard = {}

-----------------------------------------------------------------------------
(* Frames of transactions: the segment `seg` of transaction `txn` on `link`. *)
Frames == {f \in [link : Links \cup {Elsewhere}, txn : Transactions, seg : 0 .. 31] :
              f.seg <= Conts[f.txn]}

(* What the device may hear: everything of the link that is open, up to    *)
(* where its provisioner is; and anything of a neighbouring session.       *)
Audible(f) ==
    IF f.link = Elsewhere THEN setup.neighbour
    ELSE f.link \notin closed /\ f.txn <= reached[f.link]

-----------------------------------------------------------------------------
(* The stack's side: Provisionee.response() in its current phase.          *)
Response(p) == IF p > 0 /\ p - 1 \in Answered THEN p - 1 ELSE None

Outbound(n, answer) == [link |-> link, txn |-> n, answer |-> answer]

(* mutant: a response without a link is kept for later                     *)
TransmitUnlinked(answer, times) ==
    /\ outTxn' = (outTxn + times) % Numbers
    /\ outbound' = Outbound((outTxn + (times - 1)) % Numbers, answer)
    /\ sent' = {Outbound((outTxn + i) % Numbers, answer) : i \in 0 .. times - 1}

(* transmit_provisioning_pdu, `times` in a row: a new transaction each time; *)
(* without a link the number is drawn and nothing else happens.            *)
Transmit(answer, times) ==
    /\ outTxn' = (outTxn + times) % Numbers
    /\ IF link # None
       THEN /\ outbound' = Outbound((outTxn + (times - 1)) % Numbers, answer)
            /\ sent' = {Outbound((outTxn + i) % Numbers, answer) : i \in 0 .. times - 1}
       ELSE UNCHANGED <<outbound, sent>>

TransmitFails == link = None /\ ~setup.gattToo

RoomToSend == outTxn < setup.maxOut

-----------------------------------------------------------------------------
(* ProvisioningBearerControl.                                              *)

RecvLinkOpen(l) ==
    /\ pc = "running" /\ reached[l] # -2 /\ l \notin closed
    /\ link \in {None, l}
    /\ link' = l
    /\ inbound' = IF link = None THEN 0 ELSE inbound
    /\ linkAcks' = {l}
    /\ UNCHANGED <<setup, pc, acked, segments, outbound, outTxn, phase, acks, sent, peer, history>>

(* A second link while one is up: InvalidLink ends the driver.             *)
RecvLinkOpenElsewhere(l) ==
    /\ pc = "running" /\ reached[l] # -2 /\ l \notin closed
    /\ link \notin {None, l}
    /\ pc' = "stopped"
    /\ UNCHANGED <<setup, interface, phase, air, peer, history>>

(* The link of the LinkClose is not looked at.                             *)
RecvLinkClose ==
    /\ pc = "running"
    /\ setup.neighbour \/ (closed # {} /\ \A l \in Links \ closed : reached[l] = -2)
    /\ link' = None
    /\ inbound' = None
    /\ UNCHANGED <<setup, pc, acked, segments, outbound, outTxn, phase, air, peer, history>>

-----------------------------------------------------------------------------
(* Transactions.                                                           *)

(* mutant: the last acknowledged transaction may be collected once more    *)
ShouldProcessAgain(t) == inbound = t \/ (inbound = None /\ acked # None /\ acked <= t)

(* should_process_transaction: still being collected, or the next to collect. *)
ShouldProcess(t) == inbound = t \/ (inbound = None /\ acked # None /\ acked < t)

(* Continuations are dropped until the start was seen.                     *)
Fills(f) == segments # NoSegments /\ f.seg > 0 /\ f.seg <= segments.n

Filled == {g.seg : g \in segments.got}

Completes(f) == \/ Conts[f.txn] = 0
                \/ Fills(f) /\ Filled \cup {f.seg} = 0 .. segments.n

Assembled(f) == IF Conts[f.txn] = 0 THEN {f}
                ELSE segments.got \cup (IF f.seg \in Filled THEN {} ELSE {f})

(* mutant: the completed segments stay                                     *)
SegmentsLeft(f) == segments

SegmentsTaken(f) == IF Conts[f.txn] = 0 THEN segments ELSE NoSegments

(* A start, or a continuation that leaves the PDU incomplete.              *)
Collect(f) ==
    /\ pc = "running" /\ Audible(f) /\ ShouldProcess(f.txn)
    /\ ~Completes(f)
    /\ f.seg = 0 \/ segments = NoSegments \/ Fills(f)
    /\ inbound' = f.txn
    /\ segments' = IF f.seg = 0
                   THEN IF segments = NoSegments
                        THEN [n |-> Conts[f.txn], got |-> {f}] ELSE segments
                   ELSE IF segments # NoSegments /\ f.seg \notin Filled
                        THEN [segments EXCEPT !.got = @ \cup {f}] ELSE segments
    /\ UNCHANGED <<setup, pc, link, acked, outbound, outTxn, phase, air, peer, history>>

(* An index beyond those the start announced: the indexing panics.         *)
OutOfRange(f) ==
    /\ pc = "running" /\ Audible(f) /\ ShouldProcess(f.txn)
    /\ f.seg > 0 /\ segments # NoSegments /\ f.seg > segments.n
    /\ pc' = "stopped"
    /\ UNCHANGED <<setup, interface, phase, air, peer, history>>

(* mutant: whatever comes next is acknowledged                             *)
AcknowledgesAlways(t) == TRUE

(* ack_transaction acknowledges what is above the last acknowledged one.   *)
Acknowledges(t) == acked = None \/ t > acked

(* A complete PDU, acknowledged and returned by receive().                 *)
Receive(f) ==
    /\ pc = "running" /\ Audible(f) /\ ShouldProcess(f.txn)
    /\ Completes(f)
    /\ Acknowledges(f.txn) => link # None
    /\ segments' = SegmentsTaken(f)
    /\ IF Acknowledges(f.txn)
       THEN /\ acks' = {[link |-> link, txn |-> f.txn]}
            /\ acked' = f.txn
            /\ inbound' = None
       ELSE /\ inbound' = f.txn
            /\ UNCHANGED <<acks, acked>>
    /\ handed' = Assembled(f)
    /\ UNCHANGED <<setup, link, linkAcks, peer, heard>>

(* The PDU the stack is waiting for: the FSM moves and answers, if it has  *)
(* an answer.  Data is answered with Complete, five times, and then the    *)
(* device is no longer unprovisioned.                                      *)
ReceiveInTurn(f) ==
    /\ f.txn = phase
    /\ Receive(f)
    /\ phase' = phase + 1
    /\ IF Response(phase + 1) = None
       THEN UNCHANGED <<outbound, outTxn, sent>>
       ELSE Transmit(Response(phase + 1), IF f.txn = Last THEN 5 ELSE 1)
    /\ pc' = IF Response(phase + 1) # None /\ TransmitFails THEN "stopped"
             ELSE IF f.txn = Last THEN "provisioned" ELSE pc
    /\ UNCHANGED strays

(* Any other PDU leaves the FSM where it is, and gets its answer again.    *)
ReceiveOutOfTurn(f) ==
    /\ f.txn # phase /\ RoomToSend
    /\ Receive(f)
    /\ IF Response(phase) = None
       THEN UNCHANGED <<outbound, outTxn, sent>>
       ELSE Transmit(Response(phase), 1)
    /\ pc' = IF Response(phase) # None /\ TransmitFails THEN "stopped" ELSE pc
    /\ strays' = strays \cup {f.link}
    /\ UNCHANGED phase

(* There is no link to acknowledge on: InvalidLink ends the driver.        *)
ReceiveUnlinked(f) ==
    /\ pc = "running" /\ Audible(f) /\ ShouldProcess(f.txn)
    /\ Completes(f) /\ Acknowledges(f.txn) /\ link = None
    /\ pc' = "stopped"
    /\ UNCHANGED <<setup, interface, phase, air, peer, history>>

(* select4 drops receive() while it transmits the acknowledgement, before  *)
(* or after it was heard: the PDU is gone, and was never noted as acked.   *)
ReceiveCancelled(f) ==
    /\ setup.cancels
    /\ pc = "running" /\ Audible(f) /\ ShouldProcess(f.txn)
    /\ Completes(f) /\ Acknowledges(f.txn) /\ link # None
    /\ segments' = SegmentsTaken(f)
    /\ inbound' = f.txn
    /\ acks' \in {acks, {[link |-> link, txn |-> f.txn]}}
    /\ UNCHANGED <<setup, pc, link, acked, outbound, outTxn, phase, linkAcks, sent, peer, history>>

(* mutants: whatever is not processed is acknowledged; the last one is not.*)
AcksAgainAlways(t) == acked # None
AcksAgainEarlier(t) == acked # None /\ acked > t

(* try_ack_transaction_again.                                              *)
AcksAgain(t) == acked # None /\ acked >= t

(* A transaction that is not to be processed: acknowledged again if it was *)
(* before; then outbound_pdu, if any, is transmitted again.                *)
Repeat(f) ==
    /\ pc = "running" /\ Audible(f) /\ ~ShouldProcess(f.txn)
    /\ AcksAgain(f.txn) => link # None
    /\ acks' = IF AcksAgain(f.txn)
               THEN {[link |-> link, txn |-> f.txn]} ELSE acks
    /\ sent' = IF outbound = NoOutbound THEN sent ELSE {outbound}
    /\ UNCHANGED <<setup, pc, interface, phase, linkAcks, peer, history>>

RepeatUnlinked(f) ==
    /\ pc = "running" /\ Audible(f) /\ ~ShouldProcess(f.txn)
    /\ AcksAgain(f.txn) /\ link = None
    /\ pc' = "stopped"
    /\ UNCHANGED <<setup, interface, phase, air, peer, history>>

(* mutant: any TransactionAck counts                                       *)
RecvAnyAck(n) ==
    /\ pc = "running"
    /\ n \in peerAcks \/ setup.neighbour
    /\ outbound # NoOutbound
    /\ outbound' = NoOutbound
    /\ UNCHANGED <<setup, pc, link, inbound, acked, segments, outTxn, phase, air, peer, history>>

(* A TransactionAck counts by its number alone, not by its link.           *)
RecvAck(n) ==
    /\ pc = "running"
    /\ n \in peerAcks \/ setup.neighbour
    /\ outbound.txn = n
    /\ outbound' = NoOutbound
    /\ UNCHANGED <<setup, pc, link, inbound, acked, segments, outTxn, phase, air, peer, history>>

(* The one-second timer of the stack: its response goes out once more, as  *)
(* a transaction of its own.                                               *)
Retransmit ==
    /\ pc = "running" /\ Response(phase) # None /\ RoomToSend
    /\ Transmit(Response(phase), 1)
    /\ pc' = IF TransmitFails THEN "stopped" ELSE pc
    /\ UNCHANGED <<setup, link, inbound, acked, segments, phase, linkAcks, acks, peer, history>>

-----------------------------------------------------------------------------
(* The provisioner: one transaction after the other, each until it is      *)
(* acknowledged and, where an answer is due, answered; answers are         *)
(* acknowledged whenever they are heard.                                   *)

PeerOpens(l) ==
    /\ reached[l] = -2 /\ (l = 1 \/ 1 \in closed)
    /\ reached' = [reached EXCEPT ![l] = -1]
    /\ UNCHANGED <<setup, pc, interface, phase, air, closed, got, peerAcks, history>>

PeerHearsLinkAck(l) ==
    /\ reached[l] = -1 /\ l \notin closed /\ l \in linkAcks
    /\ reached' = [reached EXCEPT ![l] = 0]
    /\ UNCHANGED <<setup, pc, interface, phase, air, closed, got, peerAcks, history>>

PeerHearsAck(l) ==
    /\ l \notin closed
    /\ [link |-> l, txn |-> reached[l]] \in acks
    /\ got' = got \cup {"ack"}
    /\ UNCHANGED <<setup, pc, interface, phase, air, reached, closed, peerAcks, history>>

PeerHearsAnswer(l, o) ==
    /\ l \notin closed /\ o.link = l
    /\ got' = IF o.answer = reached[l] THEN got \cup {"answer"} ELSE got
    /\ peerAcks' = {o.txn}
    /\ heard' = heard \cup {[link |-> l, answer |-> o.answer]}
    /\ UNCHANGED <<setup, pc, interface, phase, air, reached, closed, handed, strays>>

PeerAdvances(l) ==
    /\ l \notin closed /\ reached[l] \in 0 .. Last - 1
    /\ got = IF reached[l] \in Answered THEN {"ack", "answer"} ELSE {"ack"}
    /\ reached' = [reached EXCEPT ![l] = @ + 1]
    /\ got' = {}
    /\ UNCHANGED <<setup, pc, interface, phase, air, closed, peerAcks, history>>

PeerCloses ==
    /\ setup.relinks /\ reached[1] # -2 /\ 1 \notin closed
    /\ closed' = closed \cup {1}
    /\ got' = {}
    /\ UNCHANGED <<setup, pc, interface, phase, air, reached, peerAcks, history>>

-----------------------------------------------------------------------------
RadioLoses ==
    /\ \/ linkAcks' = {} /\ UNCHANGED <<acks, sent, peerAcks>>
       \/ acks' = {} /\ UNCHANGED <<linkAcks, sent, peerAcks>>
       \/ sent' = {} /\ UNCHANGED <<linkAcks, acks, peerAcks>>
       \/ peerAcks' = {} /\ UNCHANGED <<linkAcks, acks, sent>>
    /\ UNCHANGED <<setup, pc, interface, phase, reached, closed, got, history>>

RecvFrame(f) == \/ Collect(f) \/ OutOfRange(f)
                \/ ReceiveInTurn(f) \/ ReceiveOutOfTurn(f)
                \/ ReceiveUnlinked(f) \/ ReceiveCancelled(f)
                \/ Repeat(f) \/ RepeatUnlinked(f)

Peer(l) == \/ PeerOpens(l) \/ PeerHearsLinkAck(l) \/ PeerHearsAck(l)
           \/ \E o \in sent : PeerHearsAnswer(l, o)
           \/ PeerAdvances(l)

Next == \/ \E l \in Links : RecvLinkOpen(l) \/ RecvLinkOpenElsewhere(l) \/ Peer(l)
        \/ RecvLinkClose \/ PeerCloses
        \/ \E f \in Frames : RecvFrame(f)
        \/ \E n \in 0 .. Numbers - 1 : RecvAck(n)
        \/ Retransmit \/ RadioLoses

Spec == Init /\ [][Next]_vars

(***************************************************************************)
(* Fairness: the provisioner repeats the LinkOpen and the frames of its    *)
(* current transaction until they are heard; the device's timer fires; and *)
(* of what either side transmits again and again some is heard.            *)
(***************************************************************************)
OwnFrames == {f \in Frames : f.link = 1}

Fairness ==
    /\ WF_vars(PeerOpens(1))
    /\ WF_vars(reached[1] = -1 /\ RecvLinkOpen(1))
    /\ \A f \in OwnFrames : WF_vars(f.txn = reached[1] /\ RecvFrame(f))
    /\ WF_vars(Retransmit)
    /\ WF_vars(PeerAdvances(1))
    /\ SF_vars(PeerHearsLinkAck(1))
    /\ SF_vars(PeerHearsAck(1))
    /\ SF_vars(\E o \in sent : o.answer = reached[1] /\ PeerHearsAnswer(1, o))

FairSpec == Spec /\ Fairness

-----------------------------------------------------------------------------
TypeOK == /\ setup \in Setups
          /\ pc \in {"running", "provisioned", "stopped"}
          /\ link \in Links \cup {None}
          /\ inbound \in Transactions \cup {None} /\ acked \in Transactions \cup {None}
          /\ segments.n \in 0 .. 31 \cup {None} /\ segments.got \in SUBSET Frames
          /\ outbound = NoOutbound \/ outbound.link \in Links
          /\ outTxn \in 0 .. Numbers - 1
          /\ phase \in 0 .. Last + 1
          /\ linkAcks \in SUBSET Links
          /\ \A a \in acks : a.link \in Links /\ a.txn \in Transactions
          /\ \A o \in sent : o.link \in Links /\ o.txn \in 0 .. Numbers - 1
          /\ reached \in [Links -> -2 .. Last] /\ closed \in SUBSET Links
          /\ got \in SUBSET {"ack", "answer"}
          /\ handed \in SUBSET Frames /\ strays \in SUBSET (Links \cup {Elsewhere})

Undisturbed == ~setup.neighbour

TransactionOf(l, t) == {f \in Frames : f.link = l /\ f.txn = t}

GivesUp == outbound # NoOutbound /\ outbound' = NoOutbound
WasHeard == [link |-> outbound.link, answer |-> outbound.answer] \in heard

(***************************************************************************)
(* The stack gets the PDUs of the first link in their order and each once, *)
(* whatever is repeated, lost or cut short.                                *)
(***************************************************************************)
InTurn == Undisturbed => 1 \notin strays

(***************************************************************************)
(* An acknowledgement on the first link says that the PDU has reached the  *)
(* stack, or that the device is still collecting this very transaction     *)
(* (receive() was dropped after the acknowledgement went out): no later    *)
(* transaction is ever acknowledged over a lost one.                       *)
(***************************************************************************)
AckedIsDelivered ==
    Undisturbed => \A a \in acks : a.link = 1
                      => a.txn < phase \/ a.txn = inbound \/ 1 \in closed

(***************************************************************************)
(* The acknowledged number survives a LinkClose: on a link opened after    *)
(* the stack had accepted something, the Invite comes out of turn and is   *)
(* never acknowledged.  Provisioning cannot be started over.               *)
(***************************************************************************)
SecondLinkStuck == Undisturbed => \A l \in strays : \A a \in acks : a.link # l

(***************************************************************************)
(* What is handed to the stack is the whole transaction that is being      *)
(* acknowledged, all segments of it and none of another, over all links.   *)
(***************************************************************************)
WholeTransactions ==
    [][Undisturbed /\ handed' # handed
          => \E l \in Links : handed' = TransactionOf(l, IF acked' # acked THEN acked' ELSE inbound')]_vars

(***************************************************************************)
(* "They heard us, we can stop retransmitting": outbound_pdu is given up   *)
(* only when the provisioner has heard this answer.                        *)
(***************************************************************************)
HeardUs == [][Undisturbed /\ GivesUp => WasHeard]_vars

(* The same, as the comment has it, whoever else is on the air.            *)
TheyHeardUs == [][GivesUp => WasHeard]_vars

(***************************************************************************)
(* With a patient provisioner, on a quiet air and without cancellations,   *)
(* provisioning completes whatever is lost, again and again.               *)
(***************************************************************************)
ProvisioningCompletes == <>(pc = "provisioned")
=============================================================================
