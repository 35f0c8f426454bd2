--------------------------- MODULE LowerSegments ---------------------------
(***************************************************************************)
(* Segmented lower transport PDUs as their sender makes them.              *)
(*                                                                         *)
(* A message [src, seq, n, tag] is an upper transport PDU cut into the     *)
(* segments 0 .. n.  It was encrypted under the sequence number seq, which *)
(* also travels, truncated, as seq_zero in every segment; segment i goes   *)
(* out under the network sequence number seq + i (OutboundSegmentation).   *)
(* The tag stands for what must agree between segments: access with its    *)
(* SzMic, or control with its opcode.                                      *)
(***************************************************************************)
EXTENDS Integers

CONSTANTS Messages,       \* the segmented messages peers send
          SeqZeroModulus  \* 2^13: the width of seq_zero on the air

MaxSegment == 31          \* seg_o and seg_n have five bits

Tags == {"access", "control"}

MessageAssumption ==
    /\ SeqZeroModulus \in Nat \ {0}
    /\ \A m \in Messages : /\ m.seq \in Nat
                           /\ m.n \in 0 .. MaxSegment
                           /\ m.tag \in Tags
                           /\ m = [src |-> m.src, seq |-> m.seq, n |-> m.n, tag |-> m.tag]

Sources == {m.src : m \in Messages}

Segments == {pdu \in [msg : Messages, seg_o : 0 .. MaxSegment] : pdu.seg_o <= pdu.msg.n}
SegmentsOf(m) == {[msg |-> m, seg_o |-> i] : i \in 0 .. m.n}

SeqZero(m) == m.seq % SeqZeroModulus
NetworkSeq(pdu) == pdu.msg.seq + pdu.seg_o

(***************************************************************************)
(* Peers keep 2^13 numbers between two messages whose segments can still   *)
(* meet, so that seq_zero tells the messages of a source apart.            *)
(***************************************************************************)
SeqZeroTellsApart ==
    \A m1, m2 \in Messages : m1.src = m2.src /\ SeqZero(m1) = SeqZero(m2) => m1 = m2

=============================================================================
