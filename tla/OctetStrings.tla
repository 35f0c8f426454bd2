---------------------------- MODULE OctetStrings ----------------------------
(***************************************************************************)
(* Octets and what the codecs do with them: bit operations are written as  *)
(* arithmetic.                                                             *)
(***************************************************************************)
EXTENDS Integers, Sequences

Octet == 0 .. 255
Word == 0 .. 65535    \* a u16

Octets(n) == <<n \div 256, n % 256>>       \* to_be_bytes
Little(n) == <<n % 256, n \div 256>>       \* to_le_bytes
Number(hi, lo) == 256 * hi + lo            \* from_be_bytes
From(p, i) == SubSeq(p, i, Len(p))         \* p[i - 1 ..]
Slice(p, i, j) == SubSeq(p, i, j)
Flag(b) == IF b THEN 1 ELSE 0

(* A bit of this weight, and a number with it set.                         *)
HasBit(n, w) == (n \div w) % 2 = 1
WithBit(n, w) == IF HasBit(n, w) THEN n ELSE n + w

(* 16 * high | low: the high half of the octet comes from either.          *)
OrNibble(a, b) ==
    LET Bit(w) == IF HasBit(a, w) \/ HasBit(b, w) THEN w ELSE 0
    IN  Bit(1) + Bit(2) + Bit(4) + Bit(8)
OrHigh(high, low) == 16 * OrNibble(high % 16, low \div 16) + (low % 16)

(* What is written of up to four parts, the capacity of the vector.        *)
Part(parts, i) == IF i <= Len(parts) THEN parts[i] ELSE <<>>
UpToFour(parts) == Part(parts, 1) \o Part(parts, 2) \o Part(parts, 3) \o Part(parts, 4)
=============================================================================
