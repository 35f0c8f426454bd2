---------------------------- MODULE PbAdvProofs ----------------------------
(***************************************************************************)
(* What is proved of PbAdv, for any transactions and whatever is lost,     *)
(* repeated or cut short: the stack gets each PDU of the first link once   *)
(* and in order, what is acknowledged was delivered or is being collected, *)
(* and a second link gets nowhere.                                         *)
(***************************************************************************)
EXTENDS PbAdv, TLAPS

Outbounds == [link : Links, txn : 0 .. Numbers - 1, answer : Transactions]

(* The fields of what TypeOK tells of.                                     *)
RecordsOK ==
    /\ segments \in [n : 0 .. 31 \cup {None}, got : SUBSET Frames]
    /\ outbound = NoOutbound \/ outbound \in Outbounds
    /\ sent \in SUBSET Outbounds
    /\ acks \in SUBSET [link : Links, txn : Transactions]
    /\ peerAcks \in SUBSET (0 .. Numbers - 1)
    /\ DOMAIN reached = Links

(* The session of the provisioner that is going on.                        *)
Current == IF 1 \in closed THEN 2 ELSE 1

(* The second link was opened after the stack had accepted something.      *)
Stuck == link = 2 /\ inbound = 0 /\ phase > 0

LinksInOrder ==
    /\ closed \subseteq {1}
    /\ reached[2] # -2 => 1 \in closed
    /\ link = 2 => reached[2] # -2
    /\ link # 2 => /\ reached[2] < 0
                   /\ 2 \notin linkAcks /\ 2 \notin strays
                   /\ \A a \in acks : a.link # 2
    /\ link = None => inbound = None

(* No link was opened yet.                                                 *)
Untouched == link = None /\ 1 \notin closed
                => phase = 0 /\ linkAcks = {} /\ acks = {} /\ reached[1] < 0

Counting == acked = phase - 1 /\ (Stuck \/ inbound \in {None, phase})

StuckStays == Stuck => /\ reached[2] <= 0 /\ "ack" \notin got
                       /\ \A a \in acks : a.link # 2

StraysAreStuck == strays \subseteq {2} /\ (2 \in strays => Stuck)

AcksInv == \A a \in acks : a.link \notin closed => a.txn < phase \/ a.txn = inbound

Ahead == \A l \in Links \ closed : reached[l] <= phase \/ (reached[l] = phase + 1 /\ inbound = phase)

GotInv == "ack" \in got => /\ reached[Current] >= 0
                           /\ reached[Current] < phase \/ reached[Current] = inbound

OrderInv == /\ LinksInOrder /\ Untouched /\ Counting /\ StuckStays
            /\ StraysAreStuck /\ AcksInv /\ Ahead /\ GotInv

(* With an Invite of one segment: what is collected is of the transaction  *)
(* at hand.                                                                *)
SegmentsInv ==
    segments # NoSegments =>
        /\ phase > 0
        /\ link # None /\ ~Stuck => /\ inbound = phase
                                    /\ segments.n > 0 /\ segments.n = Conts[phase]
                                    /\ segments.got \subseteq TransactionOf(link, phase)

(* As long as no number is drawn twice.                                    *)
Top == IF FirstOut > setup.maxOut THEN FirstOut ELSE setup.maxOut
NumbersInv ==
    /\ outTxn <= Top + phase + (IF phase > Last THEN 4 ELSE 0)
    /\ \A o \in sent : o.txn < outTxn /\ (o.txn = outbound.txn => o = outbound)
    /\ outbound.txn < outTxn
    /\ \A n \in peerAcks : n < outTxn /\ (n = outbound.txn => WasHeard)

-----------------------------------------------------------------------------
(* Transaction numbers stay in their range.                                *)
LEMMA ModRange ==
    ASSUME NEW a \in Nat
    PROVE  a % Numbers \in 0 .. Numbers - 1
  BY PbAdvAssumption

(* The fields of a frame.                                                  *)
LEMMA FrameShape ==
    ASSUME NEW f \in Frames
    PROVE  /\ f.link \in {0, 1, 2} /\ f.txn \in Transactions /\ f.seg \in 0 .. 31
           /\ f.seg <= Conts[f.txn] /\ Conts[f.txn] \in 0 .. 31
  BY PbAdvAssumption DEF Frames, Links, Elsewhere

(* What the stack answers is one of the transactions.                      *)
LEMMA ResponseShape ==
    ASSUME NEW p \in 0 .. Last + 1, Response(p) # None
    PROVE  Response(p) \in Transactions
  BY PbAdvAssumption DEF Response, Transactions

TypeInv == TypeOK /\ RecordsOK

(* What a transmission leaves behind is an outbound PDU, or none.          *)
LEMMA TransmitShape ==
    ASSUME TypeInv, NEW answer \in Transactions, NEW times \in {1, 5}, Transmit(answer, times)
    PROVE  /\ outTxn' \in 0 .. Numbers - 1
           /\ outbound' = NoOutbound \/ outbound' \in Outbounds
           /\ sent' \in SUBSET Outbounds
<1>1. \A i \in 0 .. times : outTxn + i \in Nat
  BY DEF TypeInv, TypeOK
<1>2. \A i \in 0 .. times : (outTxn + i) % Numbers \in 0 .. Numbers - 1
  BY <1>1, ModRange
<1>3. times - 1 \in 0 .. times /\ times \in 0 .. times /\ 0 .. times - 1 \subseteq 0 .. times
  OBVIOUS
<1>4. CASE link = None
  BY <1>2, <1>3, <1>4 DEF Transmit, TypeInv, TypeOK, RecordsOK
<1>5. CASE link # None
  <2>1. link \in Links
    BY <1>5 DEF TypeInv, TypeOK
  <2>2. \A n \in 0 .. Numbers - 1 : Outbound(n, answer) \in Outbounds
    BY <2>1 DEF Outbound, Outbounds
  <2> QED
    BY <1>2, <1>3, <1>5, <2>2 DEF Transmit
<1> QED
  BY <1>4, <1>5

(* The device starts without link, transaction or PDU.                     *)
LEMMA InitiallyTyped == Init => TypeInv
  BY PbAdvAssumption DEF Init, TypeInv, TypeOK, RecordsOK, interface, None, NoSegments, NoOutbound,
     Links, Transactions

(* What the air and the link carry.                                        *)
LEMMA ControlTyped ==
    ASSUME TypeInv, NEW l \in Links,
           RecvLinkOpen(l) \/ RecvLinkOpenElsewhere(l) \/ RecvLinkClose
    PROVE  TypeInv'
<1>1. 0 \in Transactions /\ None \in Transactions \cup {None}
  BY PbAdvAssumption DEF Transactions
<1>2. CASE RecvLinkOpen(l)
  BY <1>1, <1>2 DEF RecvLinkOpen, TypeInv, TypeOK, RecordsOK, peer, history
<1>3. CASE RecvLinkOpenElsewhere(l)
  BY <1>3 DEF RecvLinkOpenElsewhere, TypeInv, TypeOK, RecordsOK, interface, air, peer, history
<1>4. CASE RecvLinkClose
  BY <1>1, <1>4 DEF RecvLinkClose, TypeInv, TypeOK, RecordsOK, air, peer, history
<1> QED
  BY <1>2, <1>3, <1>4

(* Steps of the provisioner and of the radio.                              *)
LEMMA PeerTyped ==
    ASSUME TypeInv, NEW l \in Links, Peer(l) \/ PeerCloses \/ RadioLoses
    PROVE  TypeInv'
<1>1. CASE PeerOpens(l)
  BY <1>1, PbAdvAssumption DEF PeerOpens, TypeInv, TypeOK, RecordsOK, interface, air, history
<1>2. CASE PeerHearsLinkAck(l)
  BY <1>2, PbAdvAssumption DEF PeerHearsLinkAck, TypeInv, TypeOK, RecordsOK, interface, air, history
<1>3. CASE PeerHearsAck(l)
  BY <1>3 DEF PeerHearsAck, TypeInv, TypeOK, RecordsOK, interface, air, history
<1>4. ASSUME NEW o \in sent, PeerHearsAnswer(l, o)
      PROVE  TypeInv'
  <2>1. o \in Outbounds
    BY DEF TypeInv, RecordsOK
  <2>2. o.txn \in 0 .. Numbers - 1
    BY <2>1 DEF Outbounds
  <2> QED
    BY <1>4, <2>2 DEF PeerHearsAnswer, TypeInv, TypeOK, RecordsOK, interface, air
<1>5. CASE PeerAdvances(l)
  BY <1>5, PbAdvAssumption DEF PeerAdvances, TypeInv, TypeOK, RecordsOK, interface, air, history
<1>6. CASE PeerCloses
  BY <1>6 DEF PeerCloses, TypeInv, TypeOK, RecordsOK, interface, air, history, Links
<1>7. CASE RadioLoses
  BY <1>7 DEF RadioLoses, TypeInv, TypeOK, RecordsOK, interface, history
<1> QED
  BY <1>1, <1>2, <1>3, <1>4, <1>5, <1>6, <1>7 DEF Peer

(* Frames that are not handed to the stack.                                *)
LEMMA FrameTyped ==
    ASSUME TypeInv, NEW f \in Frames,
           \/ Collect(f) \/ OutOfRange(f) \/ ReceiveUnlinked(f)
           \/ ReceiveCancelled(f) \/ Repeat(f) \/ RepeatUnlinked(f)
    PROVE  TypeInv'
<1>1. f.txn \in Transactions /\ Conts[f.txn] \in 0 .. 31
  BY FrameShape
<1>2. CASE Collect(f)
  <2>1. segments' \in [n : 0 .. 31 \cup {None}, got : SUBSET Frames]
    <3>1. [n |-> Conts[f.txn], got |-> {f}] \in [n : 0 .. 31 \cup {None}, got : SUBSET Frames]
      BY <1>1
    <3>2. [segments EXCEPT !.got = @ \cup {f}] \in [n : 0 .. 31 \cup {None}, got : SUBSET Frames]
      BY DEF TypeInv, RecordsOK
    <3> QED
      BY <1>2, <3>1, <3>2 DEF Collect, TypeInv, RecordsOK
  <2> QED
    BY <1>1, <1>2, <2>1 DEF Collect, TypeInv, TypeOK, RecordsOK, air, peer, history
<1>3. CASE OutOfRange(f)
  BY <1>3 DEF OutOfRange, TypeInv, TypeOK, RecordsOK, interface, air, peer, history
<1>4. CASE ReceiveUnlinked(f)
  BY <1>4 DEF ReceiveUnlinked, TypeInv, TypeOK, RecordsOK, interface, air, peer, history
<1>5. CASE ReceiveCancelled(f)
  <2>1. NoSegments \in [n : 0 .. 31 \cup {None}, got : SUBSET Frames]
    BY DEF NoSegments
  <2>2. [link |-> link, txn |-> f.txn] \in [link : Links, txn : Transactions]
    BY <1>1, <1>5 DEF ReceiveCancelled, TypeInv, TypeOK
  <2>3. acks' \in SUBSET [link : Links, txn : Transactions]
    BY <1>5, <2>2 DEF ReceiveCancelled, TypeInv, RecordsOK
  <2> QED
    BY <1>1, <1>5, <2>1, <2>3 DEF ReceiveCancelled, SegmentsTaken, TypeInv, TypeOK, RecordsOK, peer, history
<1>6. CASE Repeat(f)
  <2>1. AcksAgain(f.txn) => [link |-> link, txn |-> f.txn] \in [link : Links, txn : Transactions]
    BY <1>1, <1>6 DEF Repeat, TypeInv, TypeOK
  <2>2. acks' \in SUBSET [link : Links, txn : Transactions]
    BY <1>6, <2>1 DEF Repeat, TypeInv, RecordsOK
  <2>3. sent' \in SUBSET Outbounds
    BY <1>6 DEF Repeat, TypeInv, RecordsOK
  <2>4. \A o \in Outbounds : o.link \in Links /\ o.txn \in 0 .. Numbers - 1
    BY DEF Outbounds
  <2>5. \A a \in [link : Links, txn : Transactions] : a.link \in Links /\ a.txn \in Transactions
    OBVIOUS
  <2> QED
    BY <1>6, <2>2, <2>3, <2>4, <2>5 DEF Repeat, TypeInv, TypeOK, RecordsOK, interface, peer, history
<1>7. CASE RepeatUnlinked(f)
  BY <1>7 DEF RepeatUnlinked, TypeInv, TypeOK, RecordsOK, interface, air, peer, history
<1> QED
  BY <1>2, <1>3, <1>4, <1>5, <1>6, <1>7

(* receive() itself, in either case.                                       *)
LEMMA ReceiveTyped ==
    ASSUME TypeInv, NEW f \in Frames, Receive(f)
    PROVE  /\ segments' \in [n : 0 .. 31 \cup {None}, got : SUBSET Frames]
           /\ acks' \in SUBSET [link : Links, txn : Transactions]
           /\ acked' \in Transactions \cup {None} /\ inbound' \in Transactions \cup {None}
           /\ handed' \in SUBSET Frames
           /\ UNCHANGED <<setup, link, linkAcks, peer, heard>>
<1>1. f.txn \in Transactions
  BY FrameShape
<1>2. NoSegments \in [n : 0 .. 31 \cup {None}, got : SUBSET Frames]
  BY DEF NoSegments
<1>3. Acknowledges(f.txn) => [link |-> link, txn |-> f.txn] \in [link : Links, txn : Transactions]
  BY <1>1 DEF Receive, TypeInv, TypeOK
<1>4. segments' \in [n : 0 .. 31 \cup {None}, got : SUBSET Frames]
  BY <1>2 DEF Receive, SegmentsTaken, TypeInv, RecordsOK
<1>5. acks' \in SUBSET [link : Links, txn : Transactions]
  BY <1>3 DEF Receive, TypeInv, RecordsOK
<1>6. handed' \in SUBSET Frames
  BY DEF Receive, Assembled, TypeInv, TypeOK
<1> QED
  BY <1>1, <1>4, <1>5, <1>6 DEF Receive, TypeInv, TypeOK

(* Frames that are handed to the stack.                                    *)
LEMMA TurnTyped ==
    ASSUME TypeInv, NEW f \in Frames, ReceiveInTurn(f) \/ ReceiveOutOfTurn(f)
    PROVE  TypeInv'
<1>1. Receive(f)
  BY DEF ReceiveInTurn, ReceiveOutOfTurn
<1>2. f.txn \in Transactions /\ f.link \in Links \cup {Elsewhere}
  BY FrameShape DEF Links, Elsewhere
<1>3. /\ outTxn' \in 0 .. Numbers - 1
      /\ outbound' = NoOutbound \/ outbound' \in Outbounds
      /\ sent' \in SUBSET Outbounds
      /\ phase' \in 0 .. Last + 1
      /\ pc' \in {"running", "provisioned", "stopped"}
      /\ strays' \in SUBSET (Links \cup {Elsewhere})
  <2>1. CASE ReceiveInTurn(f)
    <3>1. phase' = phase + 1 /\ phase' \in 0 .. Last + 1 /\ strays' = strays
      BY <1>2, <2>1, PbAdvAssumption DEF ReceiveInTurn, TypeInv, TypeOK, Transactions
    <3>2. CASE Response(phase + 1) = None
      BY <2>1, <3>1, <3>2 DEF ReceiveInTurn, TypeInv, TypeOK, RecordsOK
    <3>3. CASE Response(phase + 1) # None
      <4>1. Response(phase + 1) \in Transactions
        BY <3>1, <3>3, ResponseShape
      <4>2. \E times \in {1, 5} : Transmit(Response(phase + 1), times)
        BY <2>1, <3>3 DEF ReceiveInTurn
      <4> QED
        BY <2>1, <3>1, <4>1, <4>2, TransmitShape DEF ReceiveInTurn, TypeInv, TypeOK
    <3> QED
      BY <3>2, <3>3
  <2>2. CASE ReceiveOutOfTurn(f)
    <3>1. CASE Response(phase) = None
      BY <1>2, <2>2, <3>1 DEF ReceiveOutOfTurn, TypeInv, TypeOK, RecordsOK
    <3>2. CASE Response(phase) # None
      <4>1. Response(phase) \in Transactions /\ Transmit(Response(phase), 1)
        BY <2>2, <3>2, ResponseShape DEF ReceiveOutOfTurn, TypeInv, TypeOK
      <4> QED
        BY <1>2, <2>2, <4>1, TransmitShape DEF ReceiveOutOfTurn, TypeInv, TypeOK
    <3> QED
      BY <3>1, <3>2
  <2> QED
    BY <2>1, <2>2
<1>4. \A o \in Outbounds : o.link \in Links /\ o.txn \in 0 .. Numbers - 1
  BY DEF Outbounds
<1>5. \A a \in [link : Links, txn : Transactions] : a.link \in Links /\ a.txn \in Transactions
  OBVIOUS
<1>6. \A x \in [n : 0 .. 31 \cup {None}, got : SUBSET Frames] :
          x.n \in 0 .. 31 \cup {None} /\ x.got \in SUBSET Frames
  OBVIOUS
<1>7. RecordsOK'
  BY <1>1, <1>3, ReceiveTyped DEF TypeInv, RecordsOK, peer
<1> QED
  BY <1>1, <1>3, <1>4, <1>5, <1>6, <1>7, ReceiveTyped DEF TypeInv, TypeOK, RecordsOK, peer

(* An acknowledgement by the provisioner, and the timer.                   *)
LEMMA TimerTyped ==
    ASSUME TypeInv, (\E n \in 0 .. Numbers - 1 : RecvAck(n)) \/ Retransmit
    PROVE  TypeInv'
<1>1. CASE \E n \in 0 .. Numbers - 1 : RecvAck(n)
  BY <1>1 DEF RecvAck, TypeInv, TypeOK, RecordsOK, air, peer, history
<1>2. CASE Retransmit
  <2>1. Response(phase) \in Transactions /\ Transmit(Response(phase), 1)
    BY <1>2, ResponseShape DEF Retransmit, TypeInv, TypeOK
  <2>2. /\ outTxn' \in 0 .. Numbers - 1
        /\ outbound' = NoOutbound \/ outbound' \in Outbounds
        /\ sent' \in SUBSET Outbounds
    BY <2>1, TransmitShape
  <2>3. \A o \in Outbounds : o.link \in Links /\ o.txn \in 0 .. Numbers - 1
    BY DEF Outbounds
  <2> QED
    BY <1>2, <2>2, <2>3 DEF Retransmit, TypeInv, TypeOK, RecordsOK, peer, history
<1> QED
  BY <1>1, <1>2

(* Every step keeps the types.                                             *)
LEMMA TypeIsKept == TypeInv /\ [Next]_vars => TypeInv'
<1>1. ASSUME TypeInv, Next PROVE TypeInv'
  BY <1>1, ControlTyped, PeerTyped, FrameTyped, TurnTyped, TimerTyped DEF Next, RecvFrame, Links
<1>2. ASSUME TypeInv, UNCHANGED vars PROVE TypeInv'
  BY <1>2 DEF vars, interface, air, peer, history, TypeInv, TypeOK, RecordsOK
<1> QED
  BY <1>1, <1>2

(* Every variable has its type, links of neighbours included.              *)
THEOREM TypeAlwaysOK == Spec => []TypeOK
<1>1. TypeInv => TypeOK
  BY DEF TypeInv
<1> QED
  BY <1>1, InitiallyTyped, TypeIsKept, PTL DEF Spec

-----------------------------------------------------------------------------
(* The order of transactions, without a neighbour.                         *)

(* A frame that is processed is of the link that is up, and of the PDU the *)
(* stack waits for unless the link is stuck at its Invite.                 *)
LEMMA FrameInTurn ==
    ASSUME TypeInv, OrderInv, Undisturbed, NEW f \in Frames, Audible(f), ShouldProcess(f.txn)
    PROVE  /\ f.link = link /\ f.link \in Links /\ f.link \notin closed
           /\ Stuck => f.txn = 0 /\ acked # None /\ ~Acknowledges(f.txn)
           /\ ~Stuck => f.txn = phase /\ Acknowledges(f.txn) /\ inbound \in {None, phase}
<1>1. f.link \in Links /\ f.link \notin closed /\ f.txn <= reached[f.link] /\ f.txn \in Nat
  BY FrameShape DEF Audible, Undisturbed, Links, Elsewhere, Transactions
<1>2. reached[f.link] \in -2 .. Last /\ link \in {1, 2, None} /\ phase \in Nat
      /\ inbound \in Nat \cup {None} /\ acked \in Nat \cup {None}
  BY <1>1, PbAdvAssumption DEF TypeInv, TypeOK, Links, Transactions
<1>3. f.link = link
  <2>1. CASE f.link = 1
    BY <1>1, <1>2, <2>1 DEF OrderInv, LinksInOrder, Untouched, Links
  <2>2. CASE f.link = 2
    BY <1>1, <1>2, <2>2 DEF OrderInv, LinksInOrder, None
  <2> QED
    BY <1>1, <2>1, <2>2 DEF Links
<1>4. CASE Stuck
  BY <1>1, <1>2, <1>3, <1>4 DEF OrderInv, StuckStays, Stuck, Counting, Acknowledges, None
<1>5. CASE ~Stuck
  <2>1. inbound \in {None, phase} /\ acked = phase - 1
    BY <1>5 DEF OrderInv, Counting
  <2>2. f.txn <= phase \/ (f.txn <= phase + 1 /\ inbound = phase)
    BY <1>1, <1>2 DEF OrderInv, Ahead
  <2>3. f.txn = phase
    BY <1>1, <1>2, <2>1, <2>2 DEF ShouldProcess, None
  <2> QED
    BY <1>1, <1>2, <1>3, <1>5, <2>1, <2>3 DEF Acknowledges, None
<1> QED
  BY <1>1, <1>3, <1>4, <1>5

(* No link, nothing acknowledged.                                          *)
LEMMA InitiallyInOrder == Init => OrderInv
  BY DEF Init, OrderInv, LinksInOrder, Untouched, Counting, Stuck, StuckStays, StraysAreStuck,
     AcksInv, Ahead, GotInv, Links, None

(* What the invariant speaks of, and what forgetting of frames does to it. *)
LEMMA ForgettingKeepsOrder ==
    ASSUME OrderInv, UNCHANGED <<link, inbound, acked, phase, reached, closed, got, strays>>,
           linkAcks' \subseteq linkAcks, acks' \subseteq acks
    PROVE  OrderInv'
  BY DEF OrderInv, LinksInOrder, Untouched, Counting, Stuck, StuckStays, StraysAreStuck,
     AcksInv, Ahead, GotInv, Current

(* What the arithmetic of the invariant is about.                          *)
LEMMA NumbersAre ==
    ASSUME TypeInv
    PROVE  /\ link \in {1, 2, None} /\ phase \in Nat
           /\ inbound \in Nat \cup {None} /\ acked \in Nat \cup {None}
           /\ reached[1] \in Int /\ reached[2] \in Int
           /\ \A a \in acks : a.txn \in Nat /\ a.link \in {1, 2}
  BY PbAdvAssumption DEF TypeInv, TypeOK, Links, Transactions

(* The first LinkOpen finds nothing accepted; one after a LinkClose may be stuck. *)
LEMMA LinkOpenInOrder ==
    ASSUME TypeInv, OrderInv, NEW l \in Links, RecvLinkOpen(l)
    PROVE  OrderInv'
<1>1. l \notin closed /\ reached[l] # -2 /\ link' = l /\ linkAcks' = {l}
      /\ UNCHANGED <<acked, phase, acks, reached, closed, got, strays>>
  BY DEF RecvLinkOpen, peer, history
<1>2. CASE link = l
  <2>1. inbound' = inbound /\ link # None
    BY <1>2 DEF RecvLinkOpen, Links, None
  <2> QED
    BY <1>1, <1>2, <2>1 DEF OrderInv, LinksInOrder, Untouched, Counting, Stuck, StuckStays,
       StraysAreStuck, AcksInv, Ahead, GotInv, Current, Links
<1>3. CASE link = None
  <2>1. inbound' = 0 /\ inbound = None
    BY <1>3 DEF RecvLinkOpen, OrderInv, LinksInOrder
  <2>2. CASE l = 1
    <3>1. phase = 0 /\ acks = {} /\ reached[1] < 0 /\ reached[2] < 0
      BY <1>1, <1>3, <2>2 DEF OrderInv, Untouched, LinksInOrder, None
    <3>2. LinksInOrder' /\ Untouched'
      BY <1>1, <1>3, <2>1, <2>2 DEF OrderInv, LinksInOrder, Untouched, None
    <3>3. Counting' /\ StuckStays' /\ AcksInv'
      BY <1>1, <2>1, <2>2, <3>1 DEF OrderInv, Counting, Stuck, StuckStays, AcksInv
    <3>4. StraysAreStuck'
      BY <1>1, <1>3, <3>1 DEF OrderInv, StraysAreStuck, LinksInOrder, None
    <3>5. GotInv' /\ Ahead'
      BY <1>1, <2>2, <3>1 DEF OrderInv, GotInv, Current, Ahead, Links
    <3> QED
      BY <3>2, <3>3, <3>4, <3>5 DEF OrderInv
  <2>3. CASE l = 2
    <3>1. /\ 1 \in closed /\ reached[2] < 0 /\ 2 \notin strays
          /\ \A a \in acks : a.link # 2 /\ a.link \in {1, 2}
      BY <1>1, <1>3, <2>3, NumbersAre DEF OrderInv, LinksInOrder, None
    <3>2. "ack" \notin got
      BY <1>3, <3>1, NumbersAre DEF OrderInv, GotInv, Current
    <3>3. LinksInOrder' /\ Untouched'
      BY <1>1, <2>1, <2>3, <3>1 DEF OrderInv, LinksInOrder, Untouched, None
    <3>4. Counting'
      BY <1>1, <2>1, <2>3, NumbersAre DEF OrderInv, Counting, Stuck
    <3>5. StuckStays' /\ AcksInv' /\ StraysAreStuck'
      BY <1>1, <3>1, <3>2, NumbersAre DEF OrderInv, StuckStays, AcksInv, StraysAreStuck
    <3>6. GotInv' /\ Ahead'
      BY <1>1, <3>1, <3>2, NumbersAre DEF OrderInv, GotInv, Ahead, Links
    <3> QED
      BY <3>3, <3>4, <3>5, <3>6 DEF OrderInv
  <2> QED
    BY <2>2, <2>3 DEF Links
<1> QED
  BY <1>2, <1>3 DEF RecvLinkOpen

(* A LinkClose is heard when the only link there was is closed.            *)
LEMMA LinkCloseInOrder ==
    ASSUME TypeInv, OrderInv, Undisturbed, RecvLinkClose
    PROVE  OrderInv'
<1>1. link' = None /\ inbound' = None
      /\ UNCHANGED <<acked, phase, linkAcks, acks, reached, closed, got, strays>>
  BY DEF RecvLinkClose, air, peer, history
<1>2. closed = {1} /\ reached[2] = -2
  <2>1. closed # {} /\ \A l \in Links \ closed : reached[l] = -2
    BY DEF RecvLinkClose, Undisturbed
  <2>2. closed = {1}
    BY <2>1 DEF OrderInv, LinksInOrder
  <2> QED
    BY <2>1, <2>2 DEF Links
<1>3. link # 2 /\ 2 \notin linkAcks /\ 2 \notin strays /\ \A a \in acks : a.link # 2
  BY <1>2 DEF OrderInv, LinksInOrder
<1>4. "ack" \notin got
  BY <1>2 DEF OrderInv, GotInv, Current
<1>5. LinksInOrder' /\ Untouched'
  BY <1>1, <1>2, <1>3 DEF OrderInv, LinksInOrder, Untouched, None
<1>6. Counting'
  BY <1>1, <1>3, NumbersAre DEF OrderInv, Counting, Stuck, None
<1>7. StuckStays' /\ AcksInv' /\ StraysAreStuck'
  BY <1>1, <1>2, <1>3, NumbersAre DEF OrderInv, StuckStays, Stuck, AcksInv, StraysAreStuck, None
<1>8. GotInv' /\ Ahead'
  BY <1>1, <1>2, <1>4, NumbersAre DEF OrderInv, GotInv, Ahead, Links
<1> QED
  BY <1>5, <1>6, <1>7, <1>8 DEF OrderInv

(* A frame that does not complete a PDU, or whose PDU is lost, is of the   *)
(* transaction that is collected from then on.                             *)
LEMMA CollectInOrder ==
    ASSUME TypeInv, OrderInv, Undisturbed, NEW f \in Frames, Audible(f), ShouldProcess(f.txn),
           inbound' = f.txn, UNCHANGED <<link, acked, phase, linkAcks, reached, closed, got, strays>>,
           \/ acks' = acks
           \/ Acknowledges(f.txn) /\ acks' = {[link |-> link, txn |-> f.txn]}
    PROVE  OrderInv'
<1>1. f.link = link /\ link \in Links /\ link \notin closed /\ link # None
  BY FrameInTurn DEF Links, None
<1>2. f.txn \in Nat
  BY FrameShape DEF Transactions
<1>3. CASE Stuck
  <2>1. inbound' = inbound /\ acks' = acks
    BY <1>3, FrameInTurn DEF Stuck
  <2> QED
    BY <2>1, ForgettingKeepsOrder
<1>4. CASE ~Stuck
  <2>1. inbound' = phase /\ inbound \in {None, phase}
    BY <1>4, FrameInTurn
  <2>2. LinksInOrder'
    BY <1>1 DEF OrderInv, LinksInOrder
  <2>3. Untouched'
    BY <1>1 DEF Untouched
  <2>4. Counting' /\ ~Stuck'
    BY <1>4, <2>1, NumbersAre DEF OrderInv, Counting, Stuck
  <2>5. StuckStays' /\ StraysAreStuck'
    BY <1>4, <2>4 DEF OrderInv, StuckStays, StraysAreStuck
  <2>6. AcksInv'
    BY <2>1, NumbersAre DEF OrderInv, AcksInv, None
  <2>7. Ahead'
    BY <2>1, NumbersAre DEF OrderInv, Ahead
  <2>8. GotInv'
    BY <2>1, NumbersAre DEF OrderInv, GotInv, Current, None
  <2> QED
    BY <2>2, <2>3, <2>4, <2>5, <2>6, <2>7, <2>8 DEF OrderInv
<1> QED
  BY <1>3, <1>4

(* The PDU the stack waits for is handed to it and acknowledged; or, on a  *)
(* link that is stuck, the Invite once more, without acknowledgement.      *)
LEMMA InTurnInOrder ==
    ASSUME TypeInv, OrderInv, Undisturbed, NEW f \in Frames, ReceiveInTurn(f)
    PROVE  OrderInv'
<1>1. Audible(f) /\ ShouldProcess(f.txn) /\ f.txn = phase /\ Receive(f) /\ phase' = phase + 1
      /\ UNCHANGED <<link, linkAcks, reached, closed, got, strays>>
  BY DEF ReceiveInTurn, Receive, peer
<1>2. f.link = link /\ link \in Links /\ link \notin closed /\ link # None
  BY <1>1, FrameInTurn DEF Links, None
<1>3. ~Stuck /\ Acknowledges(f.txn)
  BY <1>1, FrameInTurn, NumbersAre DEF Stuck
<1>4. acked' = phase /\ inbound' = None /\ acks' = {[link |-> link, txn |-> phase]}
  BY <1>1, <1>3 DEF Receive
<1>5. ~Stuck'
  BY <1>4 DEF Stuck, None
<1>6. LinksInOrder'
  BY <1>1, <1>2, <1>4 DEF OrderInv, LinksInOrder
<1>7. Untouched'
  BY <1>1, <1>2 DEF Untouched
<1>8. Counting' /\ StuckStays'
  BY <1>1, <1>4, <1>5, NumbersAre DEF OrderInv, Counting, StuckStays
<1>9. StraysAreStuck'
  BY <1>1, <1>3 DEF OrderInv, StraysAreStuck
<1>10. AcksInv'
  BY <1>1, <1>4, NumbersAre DEF AcksInv
<1>11. Ahead'
  BY <1>1, NumbersAre DEF OrderInv, Ahead, Links
<1>12. GotInv'
  <2>1. inbound \in {None, phase}
    BY <1>1, <1>3, FrameInTurn
  <2> QED
    BY <1>1, <2>1, NumbersAre DEF OrderInv, GotInv, Current, None
<1> QED
  BY <1>6, <1>7, <1>8, <1>9, <1>10, <1>11, <1>12 DEF OrderInv

(* Only on a link that is stuck a PDU comes out of turn.                   *)
LEMMA OutOfTurnInOrder ==
    ASSUME TypeInv, OrderInv, Undisturbed, NEW f \in Frames, ReceiveOutOfTurn(f)
    PROVE  OrderInv'
<1>1. Audible(f) /\ ShouldProcess(f.txn) /\ f.txn # phase /\ Receive(f)
      /\ strays' = strays \cup {f.link}
      /\ UNCHANGED <<link, phase, linkAcks, reached, closed, got>>
  BY DEF ReceiveOutOfTurn, Receive, peer
<1>2. Stuck /\ f.link = link /\ f.txn = 0 /\ ~Acknowledges(f.txn)
  BY <1>1, FrameInTurn
<1>3. UNCHANGED <<inbound, acked, acks>> /\ strays' = strays \cup {2}
  BY <1>1, <1>2 DEF Receive, Stuck
<1>4. Stuck'
  BY <1>1, <1>2, <1>3 DEF Stuck
<1>5. StraysAreStuck'
  BY <1>3, <1>4 DEF OrderInv, StraysAreStuck
<1>6. LinksInOrder'
  BY <1>1, <1>2, <1>3 DEF OrderInv, LinksInOrder, Stuck
<1> QED
  BY <1>1, <1>3, <1>5, <1>6 DEF OrderInv, Untouched, Counting, Stuck, StuckStays, AcksInv, Ahead,
     GotInv, Current

(* What is acknowledged again was delivered before, on a link not stuck.   *)
LEMMA RepeatInOrder ==
    ASSUME TypeInv, OrderInv, Undisturbed, NEW f \in Frames, Repeat(f)
    PROVE  OrderInv'
<1>1. UNCHANGED <<link, inbound, acked, phase, linkAcks, reached, closed, got, strays>>
  BY DEF Repeat, interface, peer, history
<1>2. CASE ~AcksAgain(f.txn)
  <2>1. acks' = acks
    BY <1>2 DEF Repeat
  <2> QED
    BY <1>1, <2>1, ForgettingKeepsOrder
<1>3. CASE AcksAgain(f.txn)
  <2>1. acks' = {[link |-> link, txn |-> f.txn]} /\ link # None /\ acked >= f.txn /\ acked # None
    BY <1>3 DEF Repeat, AcksAgain
  <2>2. f.txn \in Nat /\ f.txn < phase
    BY <2>1, FrameShape, NumbersAre DEF OrderInv, Counting, Transactions
  <2>3. ~Stuck
    <3>1. SUFFICES ASSUME Stuck PROVE FALSE
      OBVIOUS
    <3>2. f.link = 2 /\ f.txn <= reached[2]
      <4>1. f.link \in Links /\ f.link \notin closed /\ f.txn <= reached[f.link]
        BY FrameShape DEF Repeat, Audible, Undisturbed, Links, Elsewhere
      <4> QED
        BY <3>1, <4>1 DEF OrderInv, LinksInOrder, Stuck, Links
    <3>3. f.txn = 0 /\ inbound = 0
      BY <2>2, <3>1, <3>2, NumbersAre DEF OrderInv, StuckStays, Stuck
    <3> QED
      BY <3>3 DEF Repeat, ShouldProcess
  <2>4. StuckStays' /\ AcksInv'
    BY <1>1, <2>1, <2>2, <2>3 DEF StuckStays, Stuck, AcksInv
  <2>5. LinksInOrder' /\ Untouched'
    BY <1>1, <2>1 DEF OrderInv, LinksInOrder, Untouched
  <2> QED
    BY <1>1, <2>4, <2>5 DEF OrderInv, Counting, Stuck, StraysAreStuck, Ahead, GotInv, Current
<1> QED
  BY <1>2, <1>3

(* Every frame of a transaction.                                           *)
LEMMA FramesInOrder ==
    ASSUME TypeInv, OrderInv, Undisturbed, NEW f \in Frames, RecvFrame(f)
    PROVE  OrderInv'
<1>1. CASE Collect(f)
  BY <1>1, CollectInOrder DEF Collect, air, peer, history
<1>2. CASE ReceiveCancelled(f)
  BY <1>2, CollectInOrder DEF ReceiveCancelled, peer, history
<1>3. CASE OutOfRange(f) \/ ReceiveUnlinked(f) \/ RepeatUnlinked(f)
  BY <1>3, ForgettingKeepsOrder
     DEF OutOfRange, ReceiveUnlinked, RepeatUnlinked, interface, air, peer, history
<1> QED
  BY <1>1, <1>2, <1>3, InTurnInOrder, OutOfTurnInOrder, RepeatInOrder DEF RecvFrame

(* The provisioner advances at most to the PDU after the one being collected. *)
LEMMA PeerInOrder ==
    ASSUME TypeInv, OrderInv, NEW l \in Links, Peer(l)
    PROVE  OrderInv'
<1>1. CASE PeerOpens(l)
  <2>1. /\ reached[l] = -2 /\ (l = 1 \/ 1 \in closed)
        /\ DOMAIN reached' = Links /\ reached'[l] = -1
        /\ \A k \in Links \ {l} : reached'[k] = reached[k]
        /\ UNCHANGED <<link, inbound, acked, phase, linkAcks, acks, closed, got, strays>>
    BY <1>1 DEF PeerOpens, interface, air, history, TypeInv, RecordsOK
  <2>2. CASE l = 1
    BY <2>1, <2>2, NumbersAre DEF OrderInv, LinksInOrder, Untouched, Counting, Stuck, StuckStays,
       StraysAreStuck, AcksInv, Ahead, GotInv, Current, Links, None
  <2>3. CASE l = 2
    BY <2>1, <2>3, NumbersAre DEF OrderInv, LinksInOrder, Untouched, Counting, Stuck, StuckStays,
       StraysAreStuck, AcksInv, Ahead, GotInv, Current, Links, None
  <2> QED
    BY <2>2, <2>3 DEF Links
<1>2. CASE PeerHearsLinkAck(l)
  <2>1. /\ reached[l] = -1 /\ l \in linkAcks /\ l \notin closed
        /\ DOMAIN reached' = Links /\ reached'[l] = 0
        /\ \A k \in Links \ {l} : reached'[k] = reached[k]
        /\ UNCHANGED <<link, inbound, acked, phase, linkAcks, acks, closed, got, strays>>
    BY <1>2 DEF PeerHearsLinkAck, interface, air, history, TypeInv, RecordsOK
  <2>2. CASE l = 1
    BY <2>1, <2>2, NumbersAre DEF OrderInv, LinksInOrder, Untouched, Counting, Stuck, StuckStays,
       StraysAreStuck, AcksInv, Ahead, GotInv, Current, Links, None
  <2>3. CASE l = 2
    BY <2>1, <2>3, NumbersAre DEF OrderInv, LinksInOrder, Untouched, Counting, Stuck, StuckStays,
       StraysAreStuck, AcksInv, Ahead, GotInv, Current, Links, None
  <2> QED
    BY <2>2, <2>3 DEF Links
<1>3. CASE PeerHearsAck(l)
  <2>1. /\ l \notin closed /\ got' = got \cup {"ack"}
        /\ UNCHANGED <<link, inbound, acked, phase, linkAcks, acks, reached, closed, strays>>
    BY <1>3 DEF PeerHearsAck, interface, air, history
  <2>2. PICK a \in acks : a.link = l /\ a.txn = reached[l]
    BY <1>3 DEF PeerHearsAck
  <2>3. reached[l] >= 0 /\ (reached[l] < phase \/ reached[l] = inbound)
    BY <2>1, <2>2, NumbersAre DEF OrderInv, AcksInv
  <2>4. l = Current
    BY <2>1, <2>3 DEF OrderInv, LinksInOrder, Current, Links
  <2>5. GotInv'
    BY <2>1, <2>3, <2>4 DEF GotInv, Current
  <2>6. StuckStays'
    <3>1. SUFFICES ASSUME Stuck PROVE FALSE
      BY <2>1 DEF OrderInv, StuckStays, Stuck
    <3>2. l = 2
      BY <2>1, <2>4, <3>1 DEF OrderInv, LinksInOrder, Stuck, Current
    <3> QED
      BY <2>2, <3>1, <3>2 DEF OrderInv, StuckStays
  <2> QED
    BY <2>1, <2>5, <2>6 DEF OrderInv, LinksInOrder, Untouched, Counting, Stuck,
       StraysAreStuck, AcksInv, Ahead
<1>4. ASSUME NEW o \in sent, PeerHearsAnswer(l, o)
      PROVE  OrderInv'
  <2>1. /\ "ack" \in got' <=> "ack" \in got
        /\ UNCHANGED <<link, inbound, acked, phase, linkAcks, acks, reached, closed, strays>>
    BY <1>4 DEF PeerHearsAnswer, interface, air
  <2> QED
    BY <2>1 DEF OrderInv, LinksInOrder, Untouched, Counting, Stuck, StuckStays,
       StraysAreStuck, AcksInv, Ahead, GotInv, Current
<1>5. CASE PeerAdvances(l)
  <2>1. /\ l \notin closed /\ reached[l] \in Nat /\ "ack" \in got /\ got' = {}
        /\ DOMAIN reached' = Links /\ reached'[l] = reached[l] + 1
        /\ \A k \in Links \ {l} : reached'[k] = reached[k]
        /\ UNCHANGED <<link, inbound, acked, phase, linkAcks, acks, closed, strays>>
    BY <1>5 DEF PeerAdvances, interface, air, history, TypeInv, RecordsOK
  <2>2. l = Current
    BY <2>1 DEF OrderInv, LinksInOrder, Current, Links
  <2>3. ~Stuck /\ inbound \in {None, phase}
    BY <2>1 DEF OrderInv, StuckStays, Counting
  <2>4. reached[l] < phase \/ (reached[l] = phase /\ inbound = phase)
    BY <2>1, <2>2, <2>3, NumbersAre DEF OrderInv, GotInv, None
  <2>5. Ahead'
    BY <2>1, <2>4, NumbersAre DEF OrderInv, Ahead, Links
  <2>6. LinksInOrder'
    BY <2>1, NumbersAre DEF OrderInv, LinksInOrder, Links
  <2>7. Untouched'
    BY <2>1 DEF OrderInv, LinksInOrder, Untouched, Links
  <2>8. StuckStays' /\ GotInv'
    BY <2>1, <2>3 DEF StuckStays, Stuck, GotInv
  <2> QED
    BY <2>1, <2>5, <2>6, <2>7, <2>8 DEF OrderInv, Counting, Stuck, StraysAreStuck, AcksInv
<1> QED
  BY <1>1, <1>2, <1>3, <1>4, <1>5 DEF Peer

(* With the LinkClose nothing of the first link is heard any more.         *)
LEMMA PeerClosesInOrder ==
    ASSUME TypeInv, OrderInv, PeerCloses
    PROVE  OrderInv'
<1>1. /\ 1 \notin closed /\ closed' = closed \cup {1} /\ got' = {}
      /\ UNCHANGED <<link, inbound, acked, phase, linkAcks, acks, reached, strays>>
  BY DEF PeerCloses, interface, air, history
<1> QED
  BY <1>1 DEF OrderInv, LinksInOrder, Untouched, Counting, Stuck, StuckStays, StraysAreStuck,
     AcksInv, Ahead, GotInv

(* The circumstances never change.                                         *)
LEMMA SetupStays == Next => setup' = setup
  BY DEF Next, RecvLinkOpen, RecvLinkOpenElsewhere, RecvLinkClose, Peer, PeerOpens,
     PeerHearsLinkAck, PeerHearsAck, PeerHearsAnswer, PeerAdvances, PeerCloses, RecvFrame, Collect,
     OutOfRange, ReceiveInTurn, ReceiveOutOfTurn, Receive, ReceiveUnlinked, ReceiveCancelled,
     Repeat, RepeatUnlinked, RecvAck, Retransmit, RadioLoses

(* Every step keeps the order, without a neighbour.                        *)
LEMMA OrderIsKept ==
    TypeInv /\ (Undisturbed => OrderInv) /\ [Next]_vars => (Undisturbed => OrderInv)'
<1> SUFFICES ASSUME TypeInv, Undisturbed => OrderInv, [Next]_vars, Undisturbed'
             PROVE  OrderInv'
  OBVIOUS
<1>1. CASE UNCHANGED vars
  <2>1. OrderInv
    BY <1>1 DEF vars, Undisturbed
  <2> QED
    BY <1>1, <2>1, ForgettingKeepsOrder DEF vars, interface, air, peer, history
<1>2. CASE Next
  <2>1. setup' = setup
    BY <1>2, SetupStays
  <2>2. Undisturbed /\ OrderInv
    BY <2>1 DEF Undisturbed
  <2>3. CASE \E l \in Links : RecvLinkOpen(l) \/ Peer(l)
    BY <2>2, <2>3, LinkOpenInOrder, PeerInOrder
  <2>4. CASE RecvLinkClose \/ PeerCloses
    BY <2>2, <2>4, LinkCloseInOrder, PeerClosesInOrder
  <2>5. CASE \E f \in Frames : RecvFrame(f)
    BY <2>2, <2>5, FramesInOrder
  <2>6. CASE \/ \E l \in Links : RecvLinkOpenElsewhere(l)
             \/ \E n \in 0 .. Numbers - 1 : RecvAck(n)
             \/ Retransmit \/ RadioLoses
    <3>1. UNCHANGED <<link, inbound, acked, phase, reached, closed, got, strays>>
      BY <2>6 DEF RecvLinkOpenElsewhere, RecvAck, Retransmit, RadioLoses, interface, air, peer, history
    <3>2. linkAcks' \subseteq linkAcks /\ acks' \subseteq acks
      BY <2>6 DEF RecvLinkOpenElsewhere, RecvAck, Retransmit, RadioLoses, interface, air, peer, history
    <3> QED
      BY <2>2, <3>1, <3>2, ForgettingKeepsOrder
  <2> QED
    BY <1>2, <2>3, <2>4, <2>5, <2>6 DEF Next
<1> QED
  BY <1>1, <1>2

(* So the order holds in every state.                                      *)
LEMMA OrderHolds == Spec => [](TypeInv /\ (Undisturbed => OrderInv))
  BY InitiallyTyped, TypeIsKept, InitiallyInOrder, OrderIsKept, PTL DEF Spec

(***************************************************************************)
(* The stack gets the PDUs of the first link in their order and each once, *)
(* for any number of transactions of any length.                           *)
(***************************************************************************)
THEOREM PdusComeInTurn == Spec => []InTurn
<1>1. TypeInv /\ (Undisturbed => OrderInv) => InTurn
  BY DEF InTurn, OrderInv, StraysAreStuck
<1> QED
  BY <1>1, OrderHolds, PTL

(***************************************************************************)
(* What is acknowledged on the first link has reached the stack, or is     *)
(* still being collected.                                                  *)
(***************************************************************************)
THEOREM AckedWasDelivered == Spec => []AckedIsDelivered
<1>1. TypeInv /\ (Undisturbed => OrderInv) => AckedIsDelivered
  BY DEF AckedIsDelivered, OrderInv, AcksInv
<1> QED
  BY <1>1, OrderHolds, PTL

(***************************************************************************)
(* A link whose PDU came out of turn is never acknowledged.                *)
(***************************************************************************)
THEOREM SecondLinkStaysStuck == Spec => []SecondLinkStuck
<1>1. TypeInv /\ (Undisturbed => OrderInv) => SecondLinkStuck
  BY DEF SecondLinkStuck, OrderInv, StraysAreStuck, StuckStays
<1> QED
  BY <1>1, OrderHolds, PTL

-----------------------------------------------------------------------------
(* What is collected, with an Invite of one segment.                       *)

(* A frame of several is of the PDU the stack waits for: no link is stuck. *)
LEMMA FirstIsWhole ==
    ASSUME TypeInv, OrderInv, Undisturbed, Conts[0] = 0,
           NEW f \in Frames, Audible(f), ShouldProcess(f.txn), Conts[f.txn] # 0
    PROVE  ~Stuck /\ f.txn = phase /\ f \in TransactionOf(link, phase)
<1>1. ~Stuck
  BY FrameInTurn
<1> QED
  BY <1>1, FrameInTurn DEF TransactionOf

(* The frames of one transaction.                                          *)
LEMMA AllSegments ==
    ASSUME NEW l, NEW t \in Transactions, NEW fs \in SUBSET TransactionOf(l, t),
           {g.seg : g \in fs} = 0 .. Conts[t]
    PROVE  fs = TransactionOf(l, t)
<1>1. SUFFICES ASSUME NEW f \in TransactionOf(l, t) PROVE f \in fs
  OBVIOUS
<1>2. f \in Frames /\ f.link = l /\ f.txn = t
  BY DEF TransactionOf
<1>3. f.seg \in 0 .. Conts[t]
  BY <1>2, FrameShape
<1>4. PICK g \in fs : g.seg = f.seg
  BY <1>3
<1>5. g \in Frames /\ g.link = l /\ g.txn = t
  BY DEF TransactionOf
<1>6. g = f
  BY <1>2, <1>4, <1>5 DEF Frames
<1> QED
  BY <1>6

(* Every step keeps what is collected of one transaction.                  *)
LEMMA SegmentsAreKept ==
    ASSUME TypeInv, OrderInv, Undisturbed, SegmentsInv, Conts[0] = 0, Next
    PROVE  SegmentsInv'
<1>1. ASSUME UNCHANGED <<segments, link, inbound, phase>>
      PROVE  SegmentsInv'
  BY <1>1 DEF SegmentsInv, Stuck
<1>2. ASSUME NEW l \in Links, RecvLinkOpen(l)
      PROVE  SegmentsInv'
  <2>1. link' = l /\ segments' = segments /\ phase' = phase /\ inbound' = (IF link = None THEN 0 ELSE inbound)
    BY <1>2 DEF RecvLinkOpen
  <2>2. CASE link = l
    BY <1>1, <2>1, <2>2 DEF Links, None
  <2>3. CASE link = None
    <3>1. l = 1 => phase = 0
      BY <1>2, <2>3 DEF RecvLinkOpen, OrderInv, Untouched
    <3>2. segments # NoSegments => phase > 0
      BY DEF SegmentsInv
    <3>3. segments # NoSegments => Stuck'
      BY <2>1, <2>3, <3>1, <3>2, NumbersAre DEF Stuck, Links
    <3> QED
      BY <2>1, <3>2, <3>3 DEF SegmentsInv
  <2> QED
    BY <1>2, <2>2, <2>3 DEF RecvLinkOpen
<1>3. CASE RecvLinkClose
  BY <1>3 DEF RecvLinkClose, SegmentsInv
<1>4. ASSUME NEW f \in Frames, Collect(f)
      PROVE  SegmentsInv'
  <2>1. Audible(f) /\ ShouldProcess(f.txn) /\ ~Completes(f) /\ inbound' = f.txn
        /\ UNCHANGED <<link, phase>>
    BY <1>4 DEF Collect
  <2>2. Conts[f.txn] # 0
    BY <2>1 DEF Completes
  <2>3. ~Stuck /\ f.txn = phase /\ f \in TransactionOf(link, phase)
    BY <2>1, <2>2, FirstIsWhole
  <2>4. phase > 0 /\ inbound' = phase /\ link # None /\ Conts[phase] > 0
    <3>1. link \in Links
      BY <2>1, FrameInTurn
    <3>2. phase \in Nat /\ Conts[phase] \in 0 .. 31
      BY <2>3, FrameShape, NumbersAre
    <3> QED
      BY <2>1, <2>2, <2>3, <3>1, <3>2 DEF Links, None
  <2>5. CASE segments = NoSegments
    <3>1. segments' = [n |-> Conts[f.txn], got |-> {f}] \/ segments' = NoSegments
      BY <1>4, <2>5 DEF Collect
    <3> QED
      BY <2>1, <2>3, <2>4, <3>1 DEF SegmentsInv
  <2>6. CASE segments # NoSegments
    <3>1. segments.n > 0 /\ segments.n = Conts[phase] /\ segments.got \subseteq TransactionOf(link, phase)
      BY <2>3, <2>4, <2>6 DEF SegmentsInv
    <3>2. segments' = segments \/ segments' = [segments EXCEPT !.got = @ \cup {f}]
      BY <1>4, <2>6 DEF Collect
    <3>3. segments'.n = segments.n /\ segments'.got \subseteq segments.got \cup {f}
      BY <3>2 DEF TypeInv, RecordsOK
    <3> QED
      BY <2>1, <2>3, <2>4, <3>1, <3>3 DEF SegmentsInv
  <2> QED
    BY <2>5, <2>6
<1>5. ASSUME NEW f \in Frames, ReceiveInTurn(f) \/ ReceiveOutOfTurn(f) \/ ReceiveCancelled(f)
      PROVE  SegmentsInv'
  <2>1. /\ Audible(f) /\ ShouldProcess(f.txn) /\ segments' = SegmentsTaken(f) /\ link' = link
        /\ phase' = phase \/ phase' = phase + 1
    BY <1>5 DEF ReceiveInTurn, ReceiveOutOfTurn, ReceiveCancelled, Receive
  <2>2. CASE Conts[f.txn] # 0
    BY <2>1, <2>2 DEF SegmentsTaken, SegmentsInv
  <2>3. CASE Conts[f.txn] = 0
    <3>1. segments' = segments
      BY <2>1, <2>3 DEF SegmentsTaken
    <3>2. CASE segments = NoSegments
      BY <3>1, <3>2 DEF SegmentsInv
    <3>3. CASE segments # NoSegments
      <4>1. Stuck
        <5>1. SUFFICES ASSUME ~Stuck PROVE FALSE
          OBVIOUS
        <5>2. link # None /\ f.txn = phase
          BY <2>1, <5>1, FrameInTurn DEF Links, None
        <5>3. segments.n > 0 /\ segments.n = Conts[phase]
          BY <3>3, <5>1, <5>2 DEF SegmentsInv
        <5> QED
          BY <2>3, <5>2, <5>3
      <4>2. f.txn = 0 /\ f.txn # phase /\ ~Acknowledges(f.txn)
        BY <2>1, <4>1, FrameInTurn, NumbersAre DEF Stuck
      <4>3. phase' = phase /\ inbound' = inbound
        BY <1>5, <4>1, <4>2 DEF ReceiveInTurn, ReceiveOutOfTurn, ReceiveCancelled, Receive, Stuck
      <4> QED
        BY <1>1, <2>1, <3>1, <4>3
    <3> QED
      BY <3>2, <3>3
  <2> QED
    BY <2>2, <2>3
<1>6. ASSUME NEW f \in Frames, OutOfRange(f) \/ ReceiveUnlinked(f) \/ Repeat(f) \/ RepeatUnlinked(f)
      PROVE  SegmentsInv'
  BY <1>1, <1>6 DEF OutOfRange, ReceiveUnlinked, Repeat, RepeatUnlinked, interface
<1>7. ASSUME NEW l \in Links, RecvLinkOpenElsewhere(l) \/ Peer(l)
      PROVE  SegmentsInv'
  BY <1>1, <1>7 DEF RecvLinkOpenElsewhere, Peer, PeerOpens, PeerHearsLinkAck, PeerHearsAck,
     PeerHearsAnswer, PeerAdvances, interface
<1>8. CASE PeerCloses \/ (\E n \in 0 .. Numbers - 1 : RecvAck(n)) \/ Retransmit \/ RadioLoses
  BY <1>1, <1>8 DEF PeerCloses, RecvAck, Retransmit, RadioLoses, interface
<1> QED
  BY <1>2, <1>3, <1>4, <1>5, <1>6, <1>7, <1>8 DEF Next, RecvFrame

(***************************************************************************)
(* If the Invite has one segment, as in the code: what is handed to the    *)
(* stack is the whole transaction and nothing else.                        *)
(***************************************************************************)
THEOREM AlwaysWhole ==
    ASSUME Conts[0] = 0
    PROVE  Spec => WholeTransactions
<1> DEFINE Inv == TypeInv /\ (Undisturbed => OrderInv) /\ (Undisturbed => SegmentsInv)
           Whole == Undisturbed /\ handed' # handed
                       => \E l \in Links : handed' = TransactionOf(l, IF acked' # acked THEN acked' ELSE inbound')
<1>1. Init => Inv
  BY InitiallyTyped, InitiallyInOrder DEF Init, SegmentsInv
<1>2. Inv /\ [Next]_vars => (Undisturbed => SegmentsInv)'
  <2> SUFFICES ASSUME Inv, [Next]_vars, Undisturbed'
               PROVE  SegmentsInv'
    OBVIOUS
  <2>1. CASE Next
    <3>1. setup' = setup
      BY <2>1, SetupStays
    <3> QED
      BY <2>1, <3>1, SegmentsAreKept DEF Undisturbed
  <2>2. CASE UNCHANGED vars
    BY <2>2 DEF vars, interface, SegmentsInv, Stuck, Undisturbed
  <2> QED
    BY <2>1, <2>2
<1>3. Inv /\ [Next]_vars => Inv'
  BY <1>2, TypeIsKept, OrderIsKept
<1>4. Inv /\ [Next]_vars => [Whole]_vars
  <2> SUFFICES ASSUME Inv, Next, Undisturbed, handed' # handed
               PROVE  \E l \in Links : handed' = TransactionOf(l, IF acked' # acked THEN acked' ELSE inbound')
    OBVIOUS
  <2>1. PICK f \in Frames : ReceiveInTurn(f) \/ ReceiveOutOfTurn(f)
    BY DEF Next, RecvLinkOpen, RecvLinkOpenElsewhere, RecvLinkClose, Peer, PeerOpens,
       PeerHearsLinkAck, PeerHearsAck, PeerHearsAnswer, PeerAdvances, PeerCloses, RecvFrame, Collect,
       OutOfRange, ReceiveUnlinked, ReceiveCancelled, Repeat, RepeatUnlinked, RecvAck, Retransmit,
       RadioLoses, history
  <2>2. Receive(f) /\ Audible(f) /\ ShouldProcess(f.txn) /\ Completes(f) /\ handed' = Assembled(f)
    BY <2>1 DEF ReceiveInTurn, ReceiveOutOfTurn, Receive
  <2>3. f.txn = (IF acked' # acked THEN acked' ELSE inbound')
    <3>1. CASE Acknowledges(f.txn)
      <4>1. acked # f.txn
        BY <3>1, FrameShape DEF Acknowledges, None, Transactions
      <4> QED
        BY <2>2, <3>1, <4>1 DEF Receive
    <3>2. CASE ~Acknowledges(f.txn)
      BY <2>2, <3>2 DEF Receive
    <3> QED
      BY <3>1, <3>2
  <2>4. f.link = link /\ link \in Links /\ f.txn \in Transactions /\ f \in TransactionOf(link, f.txn)
    BY <2>2, FrameInTurn, FrameShape DEF TransactionOf
  <2>5. Assembled(f) \in SUBSET TransactionOf(link, f.txn) /\ {g.seg : g \in Assembled(f)} = 0 .. Conts[f.txn]
    <3>1. CASE Conts[f.txn] = 0
      <4>1. f.seg = 0 /\ Assembled(f) = {f}
        BY <3>1, FrameShape DEF Assembled
      <4> QED
        BY <2>4, <3>1, <4>1
    <3>2. CASE Conts[f.txn] # 0
      <4>1. ~Stuck /\ f.txn = phase /\ link # None
        BY <2>2, <2>4, <3>2, FirstIsWhole DEF Links, None
      <4>2. segments # NoSegments /\ Filled \cup {f.seg} = 0 .. segments.n
        BY <2>2, <3>2 DEF Completes, Fills
      <4>3. segments.n = Conts[phase] /\ segments.got \subseteq TransactionOf(link, phase)
        BY <4>1, <4>2 DEF SegmentsInv
      <4>4. Assembled(f) = segments.got \cup (IF f.seg \in Filled THEN {} ELSE {f})
        BY <3>2 DEF Assembled
      <4>5. {g.seg : g \in Assembled(f)} = Filled \cup {f.seg}
        BY <4>4 DEF Filled
      <4> QED
        BY <2>4, <4>1, <4>2, <4>3, <4>4, <4>5
    <3> QED
      BY <3>1, <3>2
  <2> QED
    BY <2>2, <2>3, <2>4, <2>5, AllSegments
<1> HIDE DEF Inv
<1> QED
  BY <1>1, <1>3, <1>4, PTL DEF Spec, WholeTransactions

-----------------------------------------------------------------------------
(* Transaction numbers of the device, as long as none is drawn twice.      *)

NoNumberTwice == \A s \in Setups : FirstOut + Last + 5 < Numbers /\ s.maxOut + Last + 5 < Numbers

(* A number below the modulus is its own remainder.                        *)
LEMMA SmallMod ==
    ASSUME NEW a \in 0 .. Numbers - 1
    PROVE  a % Numbers = a
  BY PbAdvAssumption

(* Nothing is on the air, nothing drawn.                                   *)
LEMMA InitiallyNumbered == Init => NumbersInv
  BY PbAdvAssumption DEF Init, NumbersInv, Top, NoOutbound, None

(* Nothing drawn, at most forgotten.                                       *)
LEMMA NumbersStay ==
    ASSUME NumbersInv, UNCHANGED <<setup, outTxn, phase, outbound>>,
           sent' \subseteq sent, peerAcks' \subseteq peerAcks, heard \subseteq heard'
    PROVE  NumbersInv'
  BY DEF NumbersInv, Top, WasHeard

(* A transmission draws numbers that nobody has acknowledged.              *)
LEMMA TransmitNumbered ==
    ASSUME TypeInv, NumbersInv, NEW answer \in Transactions, NEW times \in {1, 5},
           Transmit(answer, times), outTxn + times < Numbers, heard' = heard, peerAcks' = peerAcks
    PROVE  /\ outTxn' = outTxn + times
           /\ \A o \in sent' : o.txn < outTxn' /\ (o.txn = outbound'.txn => o = outbound')
           /\ outbound'.txn < outTxn'
           /\ \A n \in peerAcks' : n < outTxn' /\ (n = outbound'.txn => WasHeard')
<1>1. outTxn \in 0 .. Numbers - 1 /\ Numbers \in Nat /\ peerAcks \subseteq Int
  BY PbAdvAssumption DEF TypeInv, TypeOK, RecordsOK
<1>2. \A i \in 0 .. times : outTxn + i \in 0 .. Numbers - 1
  BY <1>1
<1>3. \A i \in 0 .. times : (outTxn + i) % Numbers = outTxn + i
  BY <1>2, SmallMod
<1>4. outTxn' = outTxn + times /\ (outTxn + (times - 1)) % Numbers = outTxn + times - 1
  BY <1>3, <1>1 DEF Transmit
<1>5. CASE link = None
  <2>1. outbound' = outbound /\ sent' = sent
    BY <1>5 DEF Transmit
  <2>2. \A o \in sent : o.txn \in Int
    BY DEF TypeInv, RecordsOK, Outbounds
  <2>3. outbound.txn \in Int
    BY DEF TypeInv, RecordsOK, Outbounds, NoOutbound, None
  <2>4. WasHeard' <=> WasHeard
    BY <2>1 DEF WasHeard
  <2> QED
    BY <1>1, <1>4, <2>1, <2>2, <2>3, <2>4 DEF NumbersInv
<1>6. CASE link # None
  <2>1. outbound' = Outbound(outTxn + times - 1, answer)
    BY <1>4, <1>6 DEF Transmit
  <2>2. sent' = {Outbound(outTxn + i, answer) : i \in 0 .. times - 1}
    BY <1>3, <1>6 DEF Transmit
  <2>3. \A n : Outbound(n, answer).txn = n
    BY DEF Outbound
  <2>4. outbound'.txn = outTxn + times - 1
    BY <2>1, <2>3
  <2>5. \A o \in sent' : o.txn < outTxn' /\ (o.txn = outbound'.txn => o = outbound')
    BY <1>1, <1>4, <2>1, <2>2, <2>3
  <2>6. \A n \in peerAcks' : n < outTxn
    BY DEF NumbersInv
  <2> QED
    BY <1>1, <1>4, <2>4, <2>5, <2>6
<1> QED
  BY <1>5, <1>6

(* Every step keeps numbers apart.                                         *)
LEMMA NumbersAreKept ==
    ASSUME NoNumberTwice, TypeInv, NumbersInv, Undisturbed, Next
    PROVE  NumbersInv'
<1>1. /\ setup' = setup /\ setup \in Setups /\ setup.maxOut \in Nat /\ FirstOut \in Nat
      /\ Last \in Nat /\ Numbers \in Nat /\ phase \in 0 .. Last + 1 /\ outTxn \in Nat
  BY SetupStays, PbAdvAssumption DEF TypeInv, TypeOK
<1>2. Top \in Nat /\ Top + Last + 5 < Numbers /\ setup.maxOut <= Top /\ Top' = Top
  BY <1>1 DEF Top, NoNumberTwice
<1>3. outTxn <= Top + phase + (IF phase > Last THEN 4 ELSE 0)
  BY DEF NumbersInv
<1>4. ASSUME NEW f \in Frames, ReceiveInTurn(f)
      PROVE  NumbersInv'
  <2>1. f.txn = phase /\ f.txn <= Last /\ phase' = phase + 1 /\ heard' = heard /\ peerAcks' = peerAcks
    BY <1>4, <1>1, FrameShape DEF ReceiveInTurn, Receive, peer, Transactions
  <2>2. CASE Response(phase + 1) = None
    <3>1. UNCHANGED <<outbound, outTxn, sent>>
      BY <1>4, <2>2 DEF ReceiveInTurn
    <3>2. WasHeard' <=> WasHeard
      BY <2>1, <3>1 DEF WasHeard
    <3>3. outTxn' <= Top' + phase' + (IF phase' > Last THEN 4 ELSE 0)
      BY <1>1, <1>2, <1>3, <2>1, <3>1
    <3> QED
      BY <2>1, <3>1, <3>2, <3>3 DEF NumbersInv
  <2>3. CASE Response(phase + 1) # None
    <3> DEFINE times == IF f.txn = Last THEN 5 ELSE 1
    <3>1. Transmit(Response(phase + 1), times) /\ times \in {1, 5}
      BY <1>4, <2>3 DEF ReceiveInTurn
    <3>2. Response(phase + 1) \in Transactions
      BY <1>1, <2>1, <2>3, ResponseShape DEF TypeInv, TypeOK
    <3>3. outTxn + times < Numbers /\ outTxn + times <= Top' + phase' + (IF phase' > Last THEN 4 ELSE 0)
      BY <1>1, <1>2, <1>3, <2>1
    <3> HIDE DEF times
    <3> QED
      BY <2>1, <3>1, <3>2, <3>3, TransmitNumbered DEF NumbersInv
  <2> QED
    BY <2>2, <2>3
<1>5. ASSUME RoomToSend, Response(phase) # None, Transmit(Response(phase), 1), phase' = phase,
             heard' = heard, peerAcks' = peerAcks
      PROVE  NumbersInv'
  <2>1. Response(phase) \in Transactions
    BY <1>1, <1>5, ResponseShape
  <2>2. outTxn + 1 < Numbers /\ outTxn + 1 <= Top' + phase' + (IF phase' > Last THEN 4 ELSE 0)
    BY <1>1, <1>2, <1>5 DEF RoomToSend
  <2> QED
    BY <1>5, <2>1, <2>2, TransmitNumbered DEF NumbersInv
<1>6. ASSUME NEW f \in Frames, ReceiveOutOfTurn(f)
      PROVE  NumbersInv'
  <2>1. RoomToSend /\ phase' = phase /\ heard' = heard /\ peerAcks' = peerAcks
    BY <1>6 DEF ReceiveOutOfTurn, Receive, peer
  <2>2. CASE Response(phase) = None
    BY <1>1, <1>6, <2>1, <2>2, NumbersStay DEF ReceiveOutOfTurn
  <2>3. CASE Response(phase) # None
    BY <1>5, <1>6, <2>1, <2>3 DEF ReceiveOutOfTurn
  <2> QED
    BY <2>2, <2>3
<1>7. CASE Retransmit
  BY <1>5, <1>7 DEF Retransmit, peer, history
<1>8. ASSUME NEW f \in Frames, Repeat(f)
      PROVE  NumbersInv'
  <2>1. UNCHANGED <<outTxn, phase, outbound, peerAcks, heard>>
    BY <1>8 DEF Repeat, interface, peer, history
  <2>2. CASE outbound = NoOutbound
    BY <1>1, <1>8, <2>1, <2>2, NumbersStay DEF Repeat
  <2>3. CASE outbound # NoOutbound
    <3>1. sent' = {outbound}
      BY <1>8, <2>3 DEF Repeat
    <3>2. WasHeard' <=> WasHeard
      BY <2>1 DEF WasHeard
    <3> QED
      BY <1>2, <2>1, <3>1, <3>2 DEF NumbersInv
  <2> QED
    BY <2>2, <2>3
<1>9. ASSUME NEW n \in 0 .. Numbers - 1, RecvAck(n)
      PROVE  NumbersInv'
  <2>1. outbound' = NoOutbound /\ UNCHANGED <<outTxn, phase, sent, peerAcks, heard>>
    BY <1>9 DEF RecvAck, air, peer, history
  <2>2. NoOutbound.txn = -1
    BY DEF NoOutbound, None
  <2>3. \A o \in sent : o.txn # -1
    BY DEF TypeInv, RecordsOK, Outbounds
  <2>4. \A k \in peerAcks : k # -1
    BY DEF TypeInv, RecordsOK
  <2> QED
    BY <1>1, <1>2, <2>1, <2>2, <2>3, <2>4 DEF NumbersInv
<1>10. ASSUME NEW l \in Links, NEW o \in sent, PeerHearsAnswer(l, o)
       PROVE  NumbersInv'
  <2>1. /\ UNCHANGED <<outTxn, phase, outbound, sent>> /\ peerAcks' = {o.txn} /\ o.link = l
        /\ heard' = heard \cup {[link |-> l, answer |-> o.answer]}
    BY <1>10 DEF PeerHearsAnswer, interface, air
  <2>2. o.txn < outTxn /\ (o.txn = outbound.txn => o = outbound)
    BY DEF NumbersInv
  <2>3. o.txn = outbound.txn => WasHeard'
    BY <2>1, <2>2 DEF WasHeard
  <2> QED
    BY <1>2, <2>1, <2>2, <2>3 DEF NumbersInv
<1>11. ASSUME NEW f \in Frames,
              Collect(f) \/ OutOfRange(f) \/ ReceiveUnlinked(f) \/ ReceiveCancelled(f) \/ RepeatUnlinked(f)
       PROVE  NumbersInv'
  BY <1>1, <1>11, NumbersStay DEF Collect, OutOfRange, ReceiveUnlinked, ReceiveCancelled,
     RepeatUnlinked, interface, air, peer, history
<1>12. ASSUME NEW l \in Links,
              \/ RecvLinkOpen(l) \/ RecvLinkOpenElsewhere(l) \/ PeerOpens(l) \/ PeerHearsLinkAck(l)
              \/ PeerHearsAck(l) \/ PeerAdvances(l)
       PROVE  NumbersInv'
  BY <1>1, <1>12, NumbersStay DEF RecvLinkOpen, RecvLinkOpenElsewhere, PeerOpens, PeerHearsLinkAck,
     PeerHearsAck, PeerAdvances, interface, air, peer, history
<1>13. CASE RecvLinkClose \/ PeerCloses \/ RadioLoses
  BY <1>1, <1>13, NumbersStay DEF RecvLinkClose, PeerCloses, RadioLoses, interface, air, peer, history
<1> QED
  BY <1>4, <1>6, <1>7, <1>8, <1>9, <1>10, <1>11, <1>12, <1>13 DEF Next, RecvFrame, Peer

(***************************************************************************)
(* The PDU is given up only when the provisioner has heard this answer, as *)
(* long as the device has not drawn a transaction number twice.            *)
(***************************************************************************)
THEOREM TheyAlwaysHeardUs ==
    ASSUME NoNumberTwice
    PROVE  Spec => HeardUs
<1> DEFINE Inv == TypeInv /\ (Undisturbed => NumbersInv)
           Heard == Undisturbed /\ GivesUp => WasHeard
<1>1. Init => Inv
  BY InitiallyTyped, InitiallyNumbered
<1>2. Inv /\ [Next]_vars => (Undisturbed => NumbersInv)'
  <2> SUFFICES ASSUME Inv, [Next]_vars, Undisturbed'
               PROVE  NumbersInv'
    OBVIOUS
  <2>1. CASE Next
    <3>1. setup' = setup
      BY <2>1, SetupStays
    <3> QED
      BY <2>1, <3>1, NumbersAreKept DEF Undisturbed
  <2>2. CASE UNCHANGED vars
    BY <2>2, NumbersStay DEF vars, interface, air, peer, history, Undisturbed
  <2> QED
    BY <2>1, <2>2
<1>3. Inv /\ [Next]_vars => Inv'
  BY <1>2, TypeIsKept
<1>4. Inv /\ [Next]_vars => [Heard]_vars
  <2> SUFFICES ASSUME Inv, Next, Undisturbed, outbound # NoOutbound, outbound' = NoOutbound
               PROVE  WasHeard
    BY DEF GivesUp
  <2>1. ASSUME NEW n \in 0 .. Numbers - 1, RecvAck(n)
        PROVE  WasHeard
    BY <2>1 DEF RecvAck, Undisturbed, NumbersInv
  <2>2. ASSUME NEW answer, NEW times, Transmit(answer, times)
        PROVE  FALSE
    <3>1. CASE link = None
      BY <2>2, <3>1 DEF Transmit
    <3>2. CASE link # None
      <4>1. outbound' = Outbound((outTxn + (times - 1)) % Numbers, answer)
        BY <2>2, <3>2 DEF Transmit
      <4>2. outbound'.link = link
        BY <4>1 DEF Outbound
      <4>3. NoOutbound.link = None
        BY DEF NoOutbound
      <4> QED
        BY <3>2, <4>2, <4>3
    <3> QED
      BY <3>1, <3>2
  <2>3. ASSUME NEW f \in Frames, ReceiveInTurn(f) \/ ReceiveOutOfTurn(f)
        PROVE  FALSE
    <3>1. outbound' # outbound
      OBVIOUS
    <3> QED
      BY <2>2, <2>3, <3>1 DEF ReceiveInTurn, ReceiveOutOfTurn
  <2>4. CASE Retransmit
    BY <2>2, <2>4 DEF Retransmit
  <2>5. CASE \/ \E l \in Links : RecvLinkOpen(l) \/ RecvLinkOpenElsewhere(l) \/ Peer(l)
             \/ RecvLinkClose \/ PeerCloses \/ RadioLoses
    BY <2>5 DEF RecvLinkOpen, RecvLinkOpenElsewhere, Peer, PeerOpens, PeerHearsLinkAck, PeerHearsAck,
       PeerHearsAnswer, PeerAdvances, RecvLinkClose, PeerCloses, RadioLoses, interface
  <2>6. ASSUME NEW f \in Frames,
               \/ Collect(f) \/ OutOfRange(f) \/ ReceiveUnlinked(f) \/ ReceiveCancelled(f)
               \/ Repeat(f) \/ RepeatUnlinked(f)
        PROVE  FALSE
    BY <2>6 DEF Collect, OutOfRange, ReceiveUnlinked, ReceiveCancelled, Repeat, RepeatUnlinked, interface
  <2> QED
    BY <2>1, <2>3, <2>4, <2>5, <2>6 DEF Next, RecvFrame
<1> HIDE DEF Inv
<1> QED
  BY <1>1, <1>3, <1>4, PTL DEF Spec, HeardUs
=============================================================================
