----------------------- MODULE OutboundSegmentation -----------------------
(***************************************************************************)
(* A provisioned node sending access messages: OutboundSegmentation cuts   *)
(* an encrypted message into lower transport PDUs, and the header of each  *)
(* is packed into three bytes by SegmentedLowerAccessPDU::emit.            *)
(* Bytes are numbers 0 .. 255; bit operations are written as arithmetic.   *)
(***************************************************************************)
EXTENDS Integers

CONSTANTS Lengths,     \* of the encrypted messages, TransMic included
          InitialSeq,  \* what Sequence::new may be given
          Span         \* bound of the model: how far the counter runs from where it began

ASSUME OutboundAssumption == /\ Lengths \subseteq 1 .. 380   \* the payload is a Vec<_, 380>
                             /\ InitialSeq \subseteq Nat
                             /\ Span \in Nat

VARIABLES seq,    \* the counter of Sequence
          upper,  \* the last UpperPDU processed: the seq it is encrypted under and its length
          wire    \* the network PDUs made of it

vars == <<seq, upper, wire>>

MTU == 12           \* SEGMENTED_ACCESS_MTU
NonSegmented == 15  \* NONSEGMENTED_ACCESS_MUT
SeqZeros == 65536   \* a SeqZero is a u16; 13 bits of it go on the air

-----------------------------------------------------------------------------
(* mutants: a header that keeps one bit less of seq_zero; segments that all*)
(* go out under the message's own number.                                  *)
EmitDroppingBit(pdu) ==
    << (pdu.seq_zero \div 64) % 64,
       (pdu.seq_zero % 64) * 4 + ((pdu.seg_o \div 8) % 4) * 2,
       (pdu.seg_o % 8) * 32 + (pdu.seg_n % 32) >>
SameSeq(first, seg_o) == first

(* header[1] joins bits 2..7, from seq_zero, with bits 1..2, from seg_o: an*)
(* OR, in which bit 2 comes from either.  szmic is always Bit32, a zero.   *)
Or(high, low) == IF low >= 4 /\ (high \div 4) % 2 = 1 THEN high + low - 4 ELSE high + low

Emit(pdu) ==
    << (pdu.seq_zero \div 64) % 128,
       Or((pdu.seq_zero % 64) * 4, ((pdu.seg_o \div 8) % 4) * 2),
       (pdu.seg_o % 8) * 32 + (pdu.seg_n % 32) >>

Parse(header) ==
    [seq_zero |-> (header[1] % 128) * 64 + header[2] \div 4,
     seg_o    |-> (header[2] % 4) * 8 + header[3] \div 32,
     seg_n    |-> header[3] % 32]

-----------------------------------------------------------------------------
Init == /\ seq \in InitialSeq
        /\ upper = [seq |-> 0, len |-> 0]
        /\ wire = {}

WithinSpan(n) == \E s \in InitialSeq : n \in s .. s + Span

Chunks(len) == (len + MTU - 1) \div MTU

(* Segment 0 goes out under the number drawn by encrypt_access, every other*)
(* one draws the next: nothing else draws in between.                      *)
SegmentSeq(first, seg_o) == first + seg_o

Lower(first, len, i) ==
    [seq_zero |-> first % SeqZeros, seg_o |-> i, seg_n |-> Chunks(len) - 1]

(* encrypt_access and OutboundSegmentation::process, never a retransmission. *)
ProcessUnsegmented(len) ==
    /\ len <= NonSegmented
    /\ WithinSpan(seq + 1)
    /\ seq' = seq + 1
    /\ upper' = [seq |-> seq, len |-> len]
    /\ wire' = {[seq |-> seq, header |-> <<>>]}

ProcessSegmented(len) ==
    /\ len > NonSegmented
    /\ WithinSpan(seq + Chunks(len))
    /\ seq' = seq + Chunks(len)
    /\ upper' = [seq |-> seq, len |-> len]
    /\ wire' = {[seq |-> SegmentSeq(seq, i), header |-> Emit(Lower(seq, len, i))]
                   : i \in 0 .. Chunks(len) - 1}

Next == \E len \in Lengths : ProcessUnsegmented(len) \/ ProcessSegmented(len)

Spec == Init /\ [][Next]_vars

-----------------------------------------------------------------------------
(* What InboundSegmentation assumes of its peers.                          *)
Peer == INSTANCE LowerSegments WITH Messages <- {}, SeqZeroModulus <- 8192

Message == [src |-> "node", seq |-> upper.seq, n |-> Chunks(upper.len) - 1, tag |-> "access"]
Segmented == upper.len > NonSegmented

(* What a receiver makes of the wire.                                      *)
Heard == {[seq |-> pdu.seq, lower |-> Parse(pdu.header)] : pdu \in wire}

Expected == {[seq   |-> Peer!NetworkSeq(s),
              lower |-> [seq_zero |-> Peer!SeqZero(s.msg), seg_o |-> s.seg_o, seg_n |-> s.msg.n]]
                : s \in Peer!SegmentsOf(Message)}

(***************************************************************************)
(* A receiver gets exactly the segments InboundSegmentation assumes (their *)
(* places, their numbers, one seq_zero, that of the nonce) when there are  *)
(* at most eight of them; the header of a ninth is that of another.        *)
(***************************************************************************)
ParsesUpToEight == Segmented => (Heard = Expected <=> Chunks(upper.len) <= 8)

(***************************************************************************)
(* The comment in emit says that header[1] holds the last six bits of      *)
(* seq_zero and the first two bits of seg_o, which is what parse takes     *)
(* from it: so every message would reach a receiver as it was cut.         *)
(***************************************************************************)
EverySegmentParses == Segmented => Heard = Expected
=============================================================================
