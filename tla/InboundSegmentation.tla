------------------------ MODULE InboundSegmentation ------------------------
(***************************************************************************)
(* A provisioned node receiving segmented PDUs: InboundSegmentation with   *)
(* its map of reassemblies in flight, and what the upper layer and the     *)
(* driver do with its result.                                              *)
(*                                                                         *)
(* The bearer loses, repeats and reorders: any segment of any message may  *)
(* arrive at any time, and again.  There is no timeout on a reassembly.    *)
(***************************************************************************)
EXTENDS LowerSegments, FiniteSets

CONSTANT Capacity   \* the default 5 of InboundSegmentation

ASSUME SegmentationAssumption == /\ MessageAssumption
                                 /\ IsFiniteSet(Sources)
                                 /\ Capacity \in Nat \ {0}

VARIABLES current,  \* per source: its InFlight, or Absent
          running,  \* FALSE once an error has ended run_driver
          result,   \* what process returned last: SegmentationResult, or none
          accepted  \* the message the upper layer decrypted last, if any

vars == <<current, running, result, accepted>>

NoMessage == [src |-> "none", seq |-> -1, n |-> -1, tag |-> "none"]
Blank == [msg |-> NoMessage, seg_o |-> -1]   \* bytes nobody has written yet
Absent == [seq_zero |-> -1]
Nothing == {}

(* upper: the segments the reassembled bytes are made of, in order; empty  *)
(* when there is no UpperPDU.                                              *)
NoResult == [pdu |-> Blank, seen |-> FALSE, acked |-> {}, upper |-> <<>>]

Init == /\ current = [s \in Sources |-> Absent]
        /\ running = TRUE
        /\ result = NoResult
        /\ accepted = Nothing

-----------------------------------------------------------------------------
NewInFlight(pdu) == [seq_zero |-> SeqZero(pdu.msg), tag |-> pdu.msg.tag, seg_n |-> pdu.msg.n,
                     acked |-> {}, data |-> [i \in 0 .. pdu.msg.n |-> Blank]]

Busy == {s \in Sources : current[s] # Absent}
HasRoom(s) == s \in Busy \/ Cardinality(Busy) < Capacity

(* The in-flight reassembly process works on: found, or just inserted.     *)
InFlightFor(pdu) == IF pdu.msg.src \in Busy THEN current[pdu.msg.src] ELSE NewInFlight(pdu)

(* mutants: seq_zero is not looked at; nothing counts as seen; completeness*)
(* that stops short of the last segment.                                   *)
IsValidByTag(f, pdu) == f.tag = pdu.msg.tag
AlreadySeenNever(f, pdu) == FALSE
IsCompleteShort(f) == \A seg_o \in 0 .. f.seg_n - 1 : seg_o \in f.acked

IsValid(f, pdu) == f.tag = pdu.msg.tag /\ f.seq_zero = SeqZero(pdu.msg)

(* The argument is the PDU's seg_n, the same in all its segments.          *)
AlreadySeen(f, pdu) == pdu.msg.n \in f.acked

IsComplete(f) == \A seg_o \in 0 .. f.seg_n : seg_o \in f.acked

Ingested(f, pdu) == [f EXCEPT !.acked = @ \cup {pdu.seg_o}, !.data[pdu.seg_o] = pdu]

-----------------------------------------------------------------------------
(* insert fails, or the PDU does not fit the reassembly of its source: the *)
(* error goes all the way up and ends the driver.                          *)
Refuse(pdu) ==
    /\ running
    /\ ~HasRoom(pdu.msg.src) \/ ~IsValid(InFlightFor(pdu), pdu)
    /\ running' = FALSE
    /\ result' = NoResult
    /\ accepted' = Nothing
    /\ UNCHANGED current

Seen(pdu) ==
    LET f == InFlightFor(pdu) IN
    /\ running
    /\ HasRoom(pdu.msg.src) /\ IsValid(f, pdu) /\ AlreadySeen(f, pdu)
    /\ result' = [pdu |-> pdu, seen |-> TRUE, acked |-> f.acked, upper |-> <<>>]
    /\ accepted' = Nothing
    /\ UNCHANGED <<current, running>>

Collect(pdu) ==
    LET f == Ingested(InFlightFor(pdu), pdu) IN
    /\ running
    /\ HasRoom(pdu.msg.src) /\ IsValid(InFlightFor(pdu), pdu) /\ ~AlreadySeen(InFlightFor(pdu), pdu)
    /\ ~IsComplete(f)
    /\ current' = [current EXCEPT ![pdu.msg.src] = f]
    /\ result' = [pdu |-> pdu, seen |-> FALSE, acked |-> f.acked, upper |-> <<>>]
    /\ accepted' = Nothing
    /\ UNCHANGED running

(* The UpperMetadata is made from the segment that completes the message;  *)
(* decrypt_access puts its sequence number into the nonce.  A message that *)
(* does not decrypt is an error, and ends the driver.                      *)
Decrypts(pdu) == pdu.msg.tag = "access" => NetworkSeq(pdu) = pdu.msg.seq

Complete(pdu) ==
    LET f == Ingested(InFlightFor(pdu), pdu) IN
    /\ running
    /\ HasRoom(pdu.msg.src) /\ IsValid(InFlightFor(pdu), pdu) /\ ~AlreadySeen(InFlightFor(pdu), pdu)
    /\ IsComplete(f)
    /\ current' = [current EXCEPT ![pdu.msg.src] = Absent]
    /\ result' = [pdu |-> pdu, seen |-> FALSE, acked |-> f.acked, upper |-> f.data]
    /\ running' = Decrypts(pdu)
    /\ accepted' = IF Decrypts(pdu) THEN {pdu.msg} ELSE Nothing

(* The node is reset: a fresh ProvisionedStack.                            *)
Restart == /\ current' = [s \in Sources |-> Absent]
           /\ running' = TRUE
           /\ result' = NoResult
           /\ accepted' = Nothing

Next == Restart \/ \E pdu \in Segments :
                      Refuse(pdu) \/ Seen(pdu) \/ Collect(pdu) \/ Complete(pdu)

Spec == Init /\ [][Next]_vars

-----------------------------------------------------------------------------
(* A reassembly with the segments `acked` of message m in their places.    *)
InProgress(m, acked) ==
    [seq_zero |-> SeqZero(m), tag |-> m.tag, seg_n |-> m.n, acked |-> acked,
     data |-> [i \in 0 .. m.n |-> IF i \in acked THEN [msg |-> m, seg_o |-> i] ELSE Blank]]

InFlight == UNION {{InProgress(m, acked) : acked \in SUBSET (0 .. m.n)} : m \in Messages}

TypeOK == /\ current \in [Sources -> InFlight \cup {Absent}]
          /\ running \in BOOLEAN
          /\ result.pdu \in Segments \cup {Blank}
          /\ result.seen \in BOOLEAN
          /\ accepted \in {Nothing} \cup {{m} : m \in Messages}

(* What an entry of the map holds: some, not all, of the segments of one   *)
(* message of its own source.                                              *)
InFlightInv ==
    \A s \in Busy : \E m \in Messages : \E acked \in SUBSET (0 .. m.n) :
        /\ m.src = s /\ acked # {} /\ acked # 0 .. m.n
        /\ current[s] = InProgress(m, acked)

SegmentationInv == TypeOK /\ InFlightInv /\ Cardinality(Busy) <= Capacity

-----------------------------------------------------------------------------
Collected(f) == IF f = Absent THEN {} ELSE {f.data[i] : i \in f.acked}

Abstract == INSTANCE Reassembly
    WITH partial <- [s \in Sources |-> Collected(current[s])],
         handed  <- {result.upper[i] : i \in DOMAIN result.upper}

(***************************************************************************)
(* Whatever arrives in whatever order, the bytes handed to the upper layer *)
(* are all the segments of one message and of no other: the code is a      *)
(* Reassembly, as long as a source keeps its seq_zero values apart.        *)
(***************************************************************************)
ImplementsReassembly == Abstract!Spec

(***************************************************************************)
(* Once the last segment of a message is in and others are missing, the    *)
(* entry never changes again: no segment is added to it, and only a reset  *)
(* frees its place in the map (there is no timeout).                       *)
(***************************************************************************)
LastSegmentFreezes ==
    [][\A s \in Busy : current[s].seg_n \in current[s].acked
          => current'[s] = current[s] \/ current' = [t \in Sources |-> Absent]]_vars

(***************************************************************************)
(* Reassembly ends with the last segment, so the nonce of decrypt_access   *)
(* is never the one a message of several segments was encrypted under:     *)
(* only single-segment access messages are ever accepted.                  *)
(***************************************************************************)
OnlySingleSegmentAccess == \A m \in accepted : m.tag = "access" => m.n = 0

(***************************************************************************)
(* What the comment of InFlight::already_seen says: true means that this   *)
(* segment has been seen, so the BlockAck of the answer covers it.         *)
(***************************************************************************)
SeenWasSeen == result.seen => result.pdu.seg_o \in result.acked
=============================================================================
