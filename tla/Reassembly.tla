----------------------------- MODULE Reassembly -----------------------------
(***************************************************************************)
(* What reassembly promises, whatever the order in which segments come:    *)
(* per source, the segments of one message are collected, and what is      *)
(* handed up is all the segments of one message, nothing else.             *)
(***************************************************************************)
EXTENDS LowerSegments

VARIABLES partial,  \* per source: the segments collected so far
          handed    \* the segments handed up in the last step, if it handed up any

vars == <<partial, handed>>

Init == /\ partial = [s \in Sources |-> {}]
        /\ handed = {}

Fits(pdu) == \A other \in partial[pdu.msg.src] : other.msg = pdu.msg
Grown(pdu) == partial[pdu.msg.src] \cup {pdu}

Collect(pdu) == /\ Fits(pdu)
                /\ Grown(pdu) # SegmentsOf(pdu.msg)
                /\ partial' = [partial EXCEPT ![pdu.msg.src] = Grown(pdu)]
                /\ handed' = {}

HandUp(pdu) == /\ Fits(pdu)
               /\ Grown(pdu) = SegmentsOf(pdu.msg)
               /\ partial' = [partial EXCEPT ![pdu.msg.src] = {}]
               /\ handed' = SegmentsOf(pdu.msg)

(* A segment that changes nothing: a repetition, or one that is refused.   *)
Ignore == UNCHANGED partial /\ handed' = {}

(* A reset of the node loses whatever was being collected.                 *)
Reset == /\ partial' = [s \in Sources |-> {}]
         /\ handed' = {}

Next == Ignore \/ Reset \/ \E pdu \in Segments : Collect(pdu) \/ HandUp(pdu)

Spec == Init /\ [][Next]_vars
=============================================================================
