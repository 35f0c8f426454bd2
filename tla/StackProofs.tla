---------------------------- MODULE StackProofs ----------------------------
(***************************************************************************)
(* What is proved of the stack of a device, and of OutboundSegmentation    *)
(* under it: for every device, every provisioning, every frame on the air, *)
(* every message and every counter.                                        *)
(***************************************************************************)
EXTENDS Stack, PduProofs

(* What \div and % return, for the moduli of the code.                     *)
LEMMA DivMod64 ==
    ASSUME NEW a \in Nat
    PROVE  a \div 64 \in Nat /\ a % 64 \in 0 .. 63 /\ a = 64 * (a \div 64) + (a % 64)
OBVIOUS

(* ... modulo 128.                                                         *)
LEMMA DivMod128 ==
    ASSUME NEW a \in Nat
    PROVE  a \div 128 \in Nat /\ a % 128 \in 0 .. 127 /\ a = 128 * (a \div 128) + (a % 128)
BY SMTT(60)

(* ... modulo 8192.                                                        *)
LEMMA DivMod8192 ==
    ASSUME NEW a \in Nat
    PROVE  a \div 8192 \in Nat /\ a % 8192 \in 0 .. 8191 /\ a = 8192 * (a \div 8192) + (a % 8192)
OBVIOUS

(* The 13 bits of seq_zero that go on the air, in their two parts.         *)
LEMMA SeqZeroParts ==
    ASSUME NEW z \in Nat
    PROVE  /\ (z \div 64) % 128 \in 0 .. 127
           /\ z % 64 \in 0 .. 63
           /\ ((z \div 64) % 128) * 64 + (z % 64) = z % 8192
<1> DEFINE q == z \div 64
           r == z % 64
           p == q \div 128
           h == q % 128
<1>1. z = 64 * q + r /\ r \in 0 .. 63 /\ q \in Nat
  BY DivMod64
<1>2. q = 128 * p + h /\ h \in 0 .. 127 /\ p \in Nat
  <2> HIDE DEF q
  <2> QED
    BY <1>1, DivMod128, SMTT(60)
<1> HIDE DEF q, r, p, h
<1>3. z = 8192 * p + (64 * h + r) /\ 64 * h + r \in 0 .. 8191
  BY <1>1, <1>2, SMTT(60)
<1> DEFINE rest == 64 * h + r
<1>7. rest \in 0 .. 8191 /\ p \in Nat
  BY <1>2, <1>3
<1> HIDE DEF rest
<1>4. (8192 * p + rest) % 8192 = rest
  BY <1>7, SMTT(60)
<1>5. z % 8192 = h * 64 + r
  BY <1>1, <1>2, <1>3, <1>4 DEF rest
<1>6. h \in 0 .. 127 /\ r \in 0 .. 63 /\ h * 64 + r = z % 8192
  BY <1>1, <1>2, <1>5
<1> QED
  BY <1>6 DEF q, r, h

(* A sequence number as a SeqZero, a u16, of which 13 bits go on the air.  *)
LEMMA SeqAsSeqZero ==
    ASSUME NEW first \in Nat
    PROVE  first % 65536 \in Nat /\ (first % 65536) % 8192 = first % 8192
<1> DEFINE q == first \div 65536
           z == first % 65536
           p == z \div 8192
           r == z % 8192
<1>1. first = 65536 * q + z /\ z \in Nat /\ q \in Nat
  <2>1. first = 65536 * q + z /\ z \in Nat /\ q \in Nat
    BY SMTT(60)
  <2> HIDE DEF q, z
  <2> QED
    BY <2>1
<1>2. z = 8192 * p + r /\ r \in 0 .. 8191 /\ p \in Nat
  <2> HIDE DEF z
  <2> QED
    BY <1>1, DivMod8192
<1> HIDE DEF q, z, p, r
<1>3. first = 8192 * (8 * q + p) + r /\ 8 * q + p \in Nat
  BY <1>1, <1>2, SMTT(60)
<1> DEFINE s == 8 * q + p
<1>6. s \in Nat /\ r \in 0 .. 8191
  BY <1>2, <1>3
<1> HIDE DEF s
<1>5. (8192 * s + r) % 8192 = r
  BY <1>6, SMTT(60)
<1>4. first % 8192 = r
  BY <1>3, <1>5 DEF s
<1> QED
  BY <1>1, <1>4 DEF z, r

(* The header of a segment below 8 is parsed as it was emitted.            *)
LEMMA HeaderComesBack ==
    ASSUME NEW first \in Nat, NEW i \in 0 .. 7, NEW n \in 0 .. 31
    PROVE  Parse(Emit([seq_zero |-> first % SeqZeros, seg_o |-> i, seg_n |-> n]))
              = [seq_zero |-> first % 8192, seg_o |-> i, seg_n |-> n]
<1> DEFINE z == first % 65536
           high == (z \div 64) % 128
           low == z % 64
<1>1. /\ high \in 0 .. 127 /\ low \in 0 .. 63
      /\ high * 64 + low = first % 8192
  BY SeqZeroParts, SeqAsSeqZero
<1>2. (i \div 8) % 4 = 0 /\ i % 8 = i /\ n % 32 = n
  OBVIOUS
<1>3. Emit([seq_zero |-> z, seg_o |-> i, seg_n |-> n]) = <<high, low * 4, i * 32 + n>>
  <2>1. Or(low * 4, 0) = low * 4
    BY <1>1 DEF Or
  <2> QED
    BY <1>2, <2>1 DEF Emit
<1> HIDE DEF high, low
<1>4. /\ (high % 128) * 64 + (low * 4) \div 4 = first % 8192
      /\ ((low * 4) % 4) * 8 + (i * 32 + n) \div 32 = i
      /\ (i * 32 + n) % 32 = n
  BY <1>1
<1> QED
  BY <1>3, <1>4 DEF Parse, SeqZeros

(* The header of a segment from 8 on is parsed as that of another segment. *)
LEMMA HeaderComesBackWrong ==
    ASSUME NEW first \in Nat, NEW i \in 8 .. 31, NEW n \in 0 .. 31
    PROVE  Parse(Emit([seq_zero |-> first % SeqZeros, seg_o |-> i, seg_n |-> n])).seg_o
              = (IF i \in 16 .. 23 THEN i - 16 ELSE 16 + (i % 8))
<1> DEFINE z == first % 65536
           low == z % 64
           two == (i \div 8) % 4
           byte == Or(low * 4, two * 2)
<1>1. low \in 0 .. 63
  BY SeqZeroParts, SeqAsSeqZero
<1>2. /\ i \in 8 .. 15 => two = 1
      /\ i \in 16 .. 23 => two = 2
      /\ i \in 24 .. 31 => two = 3
  OBVIOUS
<1>3. Parse(Emit([seq_zero |-> z, seg_o |-> i, seg_n |-> n])).seg_o
         = (byte % 4) * 8 + ((i % 8) * 32 + (n % 32)) \div 32
  BY DEF Parse, Emit
<1>4. ((i % 8) * 32 + (n % 32)) \div 32 = i % 8
  OBVIOUS
<1> HIDE DEF two, low
<1>5. /\ two = 2 => byte % 4 = 0
      /\ two \in {1, 3} => byte % 4 = 2
  BY <1>1, <1>2 DEF Or
<1> HIDE DEF byte
<1> QED
  <2>1. CASE i \in 16 .. 23
    BY <1>2, <1>3, <1>4, <1>5, <2>1 DEF SeqZeros
  <2>2. CASE i \in 8 .. 15 \cup 24 .. 31
    <3>1. byte % 4 = 2 /\ i \notin 16 .. 23
      BY <1>2, <1>5, <2>2
    <3> QED
      BY <1>3, <1>4, <3>1 DEF SeqZeros
  <2> QED
    BY <2>1, <2>2

(* What is on the wire are the segments of the last message.               *)
Cut == /\ seq \in Nat
       /\ upper \in [seq : Nat, len : 0 .. 380]
       /\ Segmented => wire = {[seq    |-> SegmentSeq(upper.seq, i),
                                header |-> Emit(Lower(upper.seq, upper.len, i))]
                                  : i \in 0 .. Chunks(upper.len) - 1}

(* A payload of 380 bytes is cut into 32 segments.                         *)
LEMMA ChunksFit ==
    ASSUME NEW len \in 0 .. 380
    PROVE  Chunks(len) \in 0 .. 32
BY DEF Chunks, MTU

(* The segments on the wire stay those of the last message.                *)
LEMMA CutHolds == Spec => []Cut
<1>1. Init => Cut
  <2> SUFFICES ASSUME Init
               PROVE  Cut
    OBVIOUS
  <2>1. seq \in Nat
    BY OutboundAssumption DEF Init
  <2>2. upper = [seq |-> 0, len |-> 0]
    BY DEF Init
  <2>3. upper \in [seq : Nat, len : 0 .. 380] /\ upper.len = 0
    BY <2>2
  <2>4. ~Segmented
    BY <2>3 DEF Segmented, NonSegmented
  <2> QED
    BY <2>1, <2>3, <2>4 DEF Cut
<1>2. Cut /\ [Next]_vars => Cut'
  <2> SUFFICES ASSUME Cut, [Next]_vars
               PROVE  Cut'
    OBVIOUS
  <2>1. ASSUME NEW len \in Lengths, ProcessUnsegmented(len)
        PROVE  Cut'
    <3>1. len \in 0 .. 380 /\ seq \in Nat
      BY OutboundAssumption DEF Cut
    <3>2. seq' = seq + 1 /\ upper' = [seq |-> seq, len |-> len] /\ ~(len > NonSegmented)
      BY <2>1, <3>1 DEF ProcessUnsegmented, NonSegmented
    <3>3. ~Segmented'
      BY <3>1, <3>2 DEF Segmented
    <3> QED
      BY <3>1, <3>2, <3>3 DEF Cut
  <2>2. ASSUME NEW len \in Lengths, ProcessSegmented(len)
        PROVE  Cut'
    <3>1. len \in 1 .. 380
      BY OutboundAssumption, SMTT(60)
    <3>2. Chunks(len) \in Nat
      <4>1. len + 11 \in Nat
        BY ONLY <3>1
      <4> QED
        BY ONLY <4>1 DEF Chunks, MTU
    <3> QED
      BY <2>2, <3>1, <3>2 DEF Cut, ProcessSegmented, Segmented
  <2>3. CASE UNCHANGED vars
    BY <2>3 DEF Cut, vars, Segmented
  <2> QED
    BY <2>1, <2>2, <2>3 DEF Next
<1> QED
  BY <1>1, <1>2, PTL DEF Spec

(* Up to eight segments, every one arrives as it was cut.                  *)
LEMMA EightSegmentsParse ==
    ASSUME Cut, Segmented, Chunks(upper.len) <= 8
    PROVE  Heard = Expected
<1> DEFINE first == upper.seq
           n == Chunks(upper.len) - 1
<1>1. first \in Nat /\ n \in 0 .. 7
  BY DEF Cut, Chunks, MTU, Segmented, NonSegmented
<1>2. wire = {[seq |-> first + i, header |-> Emit(Lower(first, upper.len, i))] : i \in 0 .. n}
  BY DEF Cut, SegmentSeq
<1>3. \A i \in 0 .. n : Parse(Emit(Lower(first, upper.len, i)))
                           = [seq_zero |-> first % 8192, seg_o |-> i, seg_n |-> n]
  <2> SUFFICES ASSUME NEW i \in 0 .. n
               PROVE  Parse(Emit([seq_zero |-> first % SeqZeros, seg_o |-> i, seg_n |-> n]))
                        = [seq_zero |-> first % 8192, seg_o |-> i, seg_n |-> n]
    BY DEF Lower
  <2> HIDE DEF n, first
  <2>1. i \in 0 .. 7 /\ n \in 0 .. 31 /\ first \in Nat
    BY <1>1
  <2>2. \A f \in Nat, j \in 0 .. 7, k \in 0 .. 31 :
           Parse(Emit([seq_zero |-> f % SeqZeros, seg_o |-> j, seg_n |-> k]))
              = [seq_zero |-> f % 8192, seg_o |-> j, seg_n |-> k]
    BY HeaderComesBack
  <2> DEFINE back(f, j, k) == Parse(Emit([seq_zero |-> f % SeqZeros, seg_o |-> j, seg_n |-> k]))
                                = [seq_zero |-> f % 8192, seg_o |-> j, seg_n |-> k]
  <2>3. \A f \in Nat, j \in 0 .. 7, k \in 0 .. 31 : back(f, j, k)
    BY ONLY <2>2, Zenon
  <2> HIDE DEF back
  <2>4. back(first, i, n)
    BY <2>1, <2>3, SMTT(60)
  <2> QED
    BY <2>4 DEF back
<1>4. Heard = {[seq |-> first + i,
                lower |-> [seq_zero |-> first % 8192, seg_o |-> i, seg_n |-> n]] : i \in 0 .. n}
  <2> DEFINE sent(i) == [seq |-> first + i, header |-> Emit(Lower(first, upper.len, i))]
             heard(i) == [seq |-> first + i, lower |-> [seq_zero |-> first % 8192,
                                                        seg_o |-> i, seg_n |-> n]]
  <2>1. \A i \in 0 .. n : [seq |-> sent(i).seq, lower |-> Parse(sent(i).header)] = heard(i)
    BY <1>3
  <2>2. wire = {sent(i) : i \in 0 .. n}
    BY <1>2
  <2> HIDE DEF n, first, sent, heard
  <2>3. Heard = {heard(i) : i \in 0 .. n}
    BY <2>1, <2>2 DEF Heard
  <2> QED
    BY <2>3 DEF heard
<1>5. Expected = {[seq |-> first + i,
                   lower |-> [seq_zero |-> first % 8192, seg_o |-> i, seg_n |-> n]]
                     : i \in 0 .. n}
  <2> DEFINE segment(i) == [msg |-> Message, seg_o |-> i]
             heard(i) == [seq |-> first + i, lower |-> [seq_zero |-> first % 8192,
                                                        seg_o |-> i, seg_n |-> n]]
             view(s) == [seq   |-> Peer!NetworkSeq(s),
                         lower |-> [seq_zero |-> Peer!SeqZero(s.msg), seg_o |-> s.seg_o,
                                    seg_n |-> s.msg.n]]
  <2>1. \A i \in 0 .. n : view(segment(i)) = heard(i)
    BY DEF Message, Peer!NetworkSeq, Peer!SeqZero
  <2>2. Peer!SegmentsOf(Message) = {segment(i) : i \in 0 .. n}
    BY DEF Message, Peer!SegmentsOf
  <2>3. Expected = {view(s) : s \in Peer!SegmentsOf(Message)}
    BY DEF Expected
  <2> HIDE DEF n, segment, heard, view
  <2>4. Expected = {heard(i) : i \in 0 .. n}
    BY <2>1, <2>2, <2>3
  <2> QED
    BY <2>4 DEF heard
<1> QED
  BY <1>4, <1>5

(* From nine on, the segment 8 arrives as another one.                     *)
LEMMA NinthSegmentLost ==
    ASSUME Cut, Segmented, ~(Chunks(upper.len) <= 8), Chunks(upper.len) <= 32
    PROVE  Heard # Expected
<1> DEFINE first == upper.seq
           n == Chunks(upper.len) - 1
<1>1. first \in Nat /\ n \in 8 .. 31
  BY DEF Cut, Chunks, MTU
<1> DEFINE ninth == [seq |-> first + 8, header |-> Emit(Lower(first, upper.len, 8))]
           heard == [seq |-> ninth.seq, lower |-> Parse(ninth.header)]
<1>2. ninth \in wire
  BY <1>1 DEF Cut, SegmentSeq
<1>3. heard \in Heard
  <2> HIDE DEF ninth
  <2> QED
    BY <1>2 DEF Heard
<1>4. heard.seq = first + 8 /\ heard.lower.seg_o = 16
  <2> DEFINE back(f, j, k) == Parse(Emit([seq_zero |-> f % SeqZeros, seg_o |-> j,
                                          seg_n |-> k])).seg_o = 16
  <2>1. ASSUME NEW f \in Nat, NEW k \in 0 .. 31
        PROVE  back(f, 8, k)
    <3>1. 8 \in 8 .. 31 /\ ~(8 \in 16 .. 23) /\ 16 + (8 % 8) = 16
      OBVIOUS
    <3> QED
      BY <3>1, HeaderComesBackWrong, Zenon
  <2>2. n \in 0 .. 31
    BY <1>1
  <2> HIDE DEF back
  <2>3. back(first, 8, n)
    BY <1>1, <2>1, <2>2
  <2> QED
    BY <2>3, SMTT(60) DEF back, Lower
<1>5. ASSUME heard \in Expected
      PROVE  FALSE
  <2>1. PICK s \in Peer!SegmentsOf(Message) :
            heard.seq = Peer!NetworkSeq(s) /\ heard.lower.seg_o = s.seg_o
    <3> HIDE DEF heard
    <3> QED
      BY <1>5 DEF Expected
  <2>2. s.msg.seq = first /\ s.seg_o \in 0 .. n
    BY DEF Message, Peer!SegmentsOf
  <2> QED
    BY <1>1, <1>4, <2>1, <2>2 DEF Peer!NetworkSeq
<1> QED
  BY <1>3, <1>5

(* What follows of what is on the wire.                                    *)
LEMMA CutParses == Cut => ParsesUpToEight
<1> SUFFICES ASSUME Cut, Segmented
             PROVE  Heard = Expected <=> Chunks(upper.len) <= 8
  BY SMTT(60) DEF ParsesUpToEight
<1>1. Chunks(upper.len) \in 0 .. 32
  BY ChunksFit, Zenon DEF Cut
<1>2. CASE Chunks(upper.len) <= 8
  BY <1>2, EightSegmentsParse
<1>3. CASE ~(Chunks(upper.len) <= 8)
  BY <1>1, <1>3, NinthSegmentLost, SMTT(60)
<1> QED
  BY <1>2, <1>3

(***************************************************************************)
(* Whatever the counter: a receiver gets a message as it was cut exactly   *)
(* when it has at most eight segments, the limit of header[1] in emit.     *)
(***************************************************************************)
THEOREM EightIsTheLimit == Spec => []ParsesUpToEight
BY CutParses, CutHolds, PTL

-----------------------------------------------------------------------------
(* A u16 is a number.                                                      *)
LEMMA WordIsNat == \A w \in Word : w \in Nat /\ w < 65536
BY SMTT(60) DEF Word

(* A string is a sequence, as long as is said of it.                       *)
LEMMA StringIs ==
    ASSUME NEW n \in Nat, NEW s, IsString(s, n) PROVE s \in Seq(Octet) /\ Len(s) = n
BY DEF IsString

(* What a device is provisioned with is read as it was sent.               *)
LEMMA DatumRead ==
    ASSUME NEW data, IsProvisioning(data)
    PROVE  LET read == Pb!ParseData(Pb!EmitData(data))[1]
           IN  read.key = data.key /\ read.iv_index = data.iv_index /\ read.unicast = data.unicast
<1> DEFINE u == data.unicast
           f == Pb!Flag(data.refresh) + 2 * Pb!Flag(data.update)
           flags == <<0, 0, f>>
           s1 == data.key \o flags
           s2 == s1 \o data.iv_index
           s3 == <<u \div 256, u % 256>>
           p == s2 \o s3
<1>1. /\ IsString(data.key, 16) /\ IsString(data.iv_index, 4) /\ f \in 0 .. 3
      /\ u \in Nat /\ u < 32768
  <2>1. /\ data.key \in OfLength(16) /\ data.iv_index \in OfLength(4)
        /\ data.refresh \in BOOLEAN /\ data.update \in BOOLEAN /\ data.unicast \in Word
    BY DEF IsProvisioning
  <2>2. \A n \in Nat : \A s : s \in OfLength(n) => IsString(s, n)
    BY DEF OfLength, IsString
  <2>3. u < 32768
    BY DEF IsProvisioning
  <2>4. u \in Nat
    BY <2>1, WordIsNat
  <2>5. IsString(data.key, 16) /\ IsString(data.iv_index, 4)
    BY <2>1, <2>2, Zenon
  <2>6. f \in 0 .. 3
    BY <2>1 DEF Pb!Flag
  <2> QED
    BY <2>3, <2>4, <2>5, <2>6
<1>2. Pb!EmitData(data) = p
  BY DEF Pb!EmitData, Pb!Octets
<1>3. u \div 256 \in Nat /\ u \div 256 < 128 /\ u % 256 \in Octet /\ Pb!Number(u \div 256, u % 256) = u
  BY <1>1, SMTT(60) DEF Octet, Pb!Number
<1>4. 0 \in Octet /\ f \in Octet /\ u \div 256 \in Octet
  BY <1>1, <1>3 DEF Octet
<1>51. IsString(flags, 3)
  BY <1>4 DEF IsString
<1>52. IsString(s3, 2) /\ s3[1] = u \div 256 /\ s3[2] = u % 256
  BY <1>3, <1>4 DEF IsString
<1> HIDE DEF f, u, flags, s3
<1>5. IsString(s1, 19) /\ \A i \in 1 .. 16 : s1[i] = data.key[i]
  <2>1. Joined(s1, data.key, flags, 16, 3)
    BY <1>1, <1>51, StringsTogether
  <2> HIDE DEF s1
  <2> QED
    BY <2>1 DEF Joined
<1> HIDE DEF s1
<1>6. /\ IsString(s2, 23) /\ \A i \in 1 .. 19 : s2[i] = s1[i]
      /\ \A i \in 1 .. 4 : s2[19 + i] = data.iv_index[i]
  <2>1. Joined(s2, s1, data.iv_index, 19, 4)
    BY <1>1, <1>5, StringsTogether
  <2> HIDE DEF s2
  <2> QED
    BY <2>1 DEF Joined
<1> HIDE DEF s2
<1>7. /\ IsString(p, 25) /\ \A i \in 1 .. 23 : p[i] = s2[i]
      /\ \A i \in 1 .. 2 : p[23 + i] = s3[i]
  <2>1. Joined(p, s2, s3, 23, 2)
    BY <1>52, <1>6, StringsTogether
  <2> HIDE DEF p
  <2> QED
    BY <2>1 DEF Joined
<1> HIDE DEF p
<1>71. p[24] = u \div 256 /\ p[25] = u % 256 /\ \A i \in 1 .. 4 : p[19 + i] = data.iv_index[i]
  BY <1>52, <1>6, <1>7
<1> DEFINE read == [key |-> SubSeq(p, 1, 16), refresh |-> p[19] % 2 = 1, update |-> (p[19] \div 2) % 2 = 1,
                    iv_index |-> SubSeq(p, 20, 23), unicast |-> Pb!Number(p[24], p[25])]
<1>8. Pb!ParseData(p) = <<read>>
  BY <1>3, <1>7, <1>71, Zenon DEF Pb!ParseData, IsString
<1>9. SubSeq(p, 1, 16) = data.key
  <2>1. \A i \in 1 .. 16 : p[i] = data.key[i]
    BY <1>5, <1>6, <1>7
  <2>2. PICK n \in Nat, m \in Nat : n = 16 /\ m = 25
    OBVIOUS
  <2>3. n \in Nat /\ m \in Nat /\ n <= m /\ IsString(data.key, n) /\ IsString(p, m) /\ \A i \in 1 .. n : p[i] = data.key[i]
    BY <1>1, <1>7, <2>1, <2>2
  <2>4. SubSeq(p, 1, n) = data.key
    BY <2>3, FrontOf
  <2> QED
    BY <2>2, <2>4
<1>10. SubSeq(p, 20, 23) = data.iv_index
  <2>1. PICK i \in Nat, j \in Nat, n \in Nat, l \in Nat : i = 20 /\ j = 23 /\ n = 4 /\ l = 25
    OBVIOUS
  <2>2. /\ p \in Seq(Octet) /\ Len(p) = l
        /\ data.iv_index \in Seq(Octet) /\ Len(data.iv_index) = n
    <3>1. IsString(p, l) /\ IsString(data.iv_index, n)
      BY <1>1, <1>7, <2>1
    <3> QED
      BY ONLY <2>1, <3>1, StringIs, Zenon
  <2>3. \A k \in 1 .. n : p[i + k - 1] = data.iv_index[k]
    <3> SUFFICES ASSUME NEW k \in 1 .. n PROVE p[i + k - 1] = data.iv_index[k]
      OBVIOUS
    <3>1. i + k - 1 = 19 + k /\ k \in 1 .. 4
      BY <2>1
    <3> QED
      BY <1>71, <3>1
  <2>4. 1 <= i /\ j <= l /\ j + 1 = i + n
    BY <2>1
  <2>5. SubSeq(p, i, j) = data.iv_index
    BY <2>1, <2>2, <2>3, <2>4, SliceOf, SMTT(60)
  <2> QED
    BY <2>1, <2>5
<1> QED
  BY <1>2, <1>3, <1>71, <1>8, <1>9, <1>10 DEF u

-----------------------------------------------------------------------------
(* The node that some provisioning has made of the device.                 *)
NodeOf(data) ==
    [info |-> [primary |-> data.unicast, elements |-> Len(Capable)], iv |-> IvIndex(data.iv_index),
     net_keys |-> <<data.key>>, app_keys |-> {}, device_key |-> "ours"]
IsJoined(n) == n = None \/ \E data \in Provisionings : n = NodeOf(data)

(* What can be said: of a message that fits.                               *)
Says(m) ==
    /\ IsMessage(m) /\ EmitParameters(m) \in Seq(Octet)
    /\ Len(EmitAll(m)) + Net!AccessMic <= 380

(* On the wire is the last message, in one PDU or cut into several.        *)
Sent == wire = IF Segmented
               THEN {[seq    |-> SegmentSeq(upper.seq, i),
                      header |-> Emit(Lower(upper.seq, upper.len, i))] : i \in 0 .. Chunks(upper.len) - 1}
               ELSE {[seq |-> upper.seq, header |-> <<>>]}

Came(f) == Net!ProcessInbound(node, Air(f))

(* What last tells of the node, of the driver, and of the wire.            *)
Presented == last.what = "provisioning" => last.pdu \in Pdus
HeardSo ==
    last.what = "heard" =>
        /\ node # None /\ last.frame \in Frames /\ last.came = Came(last.frame)
        /\ running <=> last.came.result # "error"
AskedSo == last.what = "asked" => last.octets \in Requests /\ (running <=> ~ Panics(last.octets))
UnsentSo == last.what = "unsent" => last.element >= Access!MaxElements /\ ~ running
SaidSo ==
    last.what = "said" =>
        /\ node # None /\ Says(last.message)
        /\ last.from \in Nat /\ last.from >= node.info.primary /\ last.from < node.info.primary + Len(Capable)
        /\ \E f \in Frames : /\ Came(f).result = "access" /\ last.to = Net!Reply(Came(f).meta)
                             /\ last.under = f.net
        /\ upper.len = Len(EmitAll(last.message)) + Net!AccessMic /\ Sent

Coherent == IsJoined(node) /\ Cut /\ Presented /\ HeardSo /\ AskedSo /\ UnsentSo /\ SaidSo

-----------------------------------------------------------------------------
(* How many elements of those that are declared the device has.            *)
LEMMA CapableOf ==
    /\ Len(Capable) \in Nat /\ Len(Capable) >= 1 /\ Len(Capable) <= 4
    /\ \A e \in 0 .. Len(Elements) - 1 : e < Len(Capable) \/ e >= Access!MaxElements
<1> DEFINE Cropped(e) == [Elements[e] EXCEPT !.models = Access!Taken(@, Access!MaxModels)]
           kept == [e \in DOMAIN Elements |-> Cropped(e)]
           n == Len(Elements)
<1>1. Elements \in Seq(Element) /\ Elements # <<>>
  BY StackAssumption
<1>2. n \in Nat /\ n >= 1 /\ DOMAIN Elements = 1 .. n
  BY <1>1
<1> HIDE DEF Cropped
<1>3. Len(kept) = n /\ kept \in Seq({Cropped(e) : e \in 1 .. n})
  BY <1>2
<1> HIDE DEF n, kept
<1>4. Len(Access!Taken(kept, 4)) = IF n < 4 THEN n ELSE 4
  BY <1>2, <1>3 DEF Access!Taken, Access!Slice
<1>5. Capable = Access!Taken(kept, 4)
  BY DEF Capable, Access!Composed, Access!MaxElements, kept, Cropped
<1>6. Len(Capable) = IF n < 4 THEN n ELSE 4
  BY <1>4, <1>5
<1>7. Access!MaxElements = 4
  BY DEF Access!MaxElements
<1> HIDE DEF Capable
<1>8. \A e \in 0 .. n - 1 : e < Len(Capable) \/ e >= 4
  BY <1>2, <1>6
<1> QED
  BY <1>2, <1>6, <1>7, <1>8 DEF n

(* Nothing of what the foundation answers is too long.                     *)
LEMMA FoundationSays ==
    ASSUME NEW request, NEW m \in Foundation(request)
    PROVE  Says(m)
<1> DEFINE on == [kind |-> "BeaconStatus", on |-> TRUE]
           composition == [kind |-> "CompositionStatus", page |-> 0, cid |-> 76, pid |-> 1, vid |-> 2, crpl |-> 0,
                           features |-> 1, elements |-> Elements]
<1>1. m = on \/ m = composition
  BY DEF Foundation, AnswersBeacon, AnswersComposition
<1>2. CASE m = on
  <2>1. m.kind = "BeaconStatus" /\ m.on = TRUE
    BY <1>2
  <2>2. IsMessage(m)
    BY <2>1 DEF IsMessage, Unread
  <2>3. IsAccess(m)
    BY <2>1, SensorTables DEF IsAccess, Sensor!Kinds
  <2>4. EmitParameters(m) = <<1>>
    BY <2>1, <2>3, AccessTables DEF EmitParameters, Access!EmitParameters, Access!EmitBeacon
  <2>5. EmitAll(m) = <<128, 11>> \o <<1>>
    BY <2>1, <2>3, <2>4, AccessOpcodes, Zenon DEF EmitAll, OpcodeOf
  <2>6. EmitParameters(m) \in Seq(Octet)
    BY <2>4 DEF Octet
  <2>7. Len(EmitAll(m)) = 3
    BY <2>5
  <2> QED
    BY <2>2, <2>6, <2>7 DEF Says, Net!AccessMic
<1>3. CASE m = composition
  <2>1. Elements \in Seq(Element)
    BY StackAssumption
  <2>2. 76 \in Word /\ 0 \in Word /\ 1 \in Word /\ 2 \in Word /\ 0 \in Octet /\ 1 \in Octet
    BY DEF Word, Octet
  <2>3. m \in CompositionStatuses
    BY <1>3, <2>1, <2>2 DEF CompositionStatuses, Id
  <2>4. UpTo(EmitParameters(m), 91) /\ UpTo(EmitAll(m), 92)
    BY <2>3, CompositionLength
  <2>5. IsMessage(m)
    BY <2>3 DEF IsMessage
  <2> QED
    BY <2>4, <2>5 DEF Says, UpTo, Net!AccessMic
<1> QED
  BY <1>1, <1>2, <1>3

(* ... nor of what models are assumed to say.                              *)
LEMMA SayingSays ==
    ASSUME NEW saying \in Sayings
    PROVE  Says(saying.message) /\ saying.element \in 0 .. Len(Elements) - 1
BY StackAssumption DEF IsSaying, Says

-----------------------------------------------------------------------------
(* Nothing on the wire is nothing in segments.                             *)
LEMMA SilentIsCut == ASSUME Cut, Silent PROVE Cut'
<1>1. seq' \in Nat /\ upper' = [seq |-> 0, len |-> 0]
  BY DEF Cut, Silent
<1>2. upper' \in [seq : Nat, len : 0 .. 380] /\ upper'.len = 0
  BY <1>1
<1>3. ~ Segmented'
  BY <1>2 DEF Segmented, NonSegmented
<1> QED
  BY <1>1, <1>2, <1>3 DEF Cut

(* What goes out is cut, whatever it is.                                   *)
LEMMA SendingIsCut ==
    ASSUME Cut, NEW len \in 1 .. 380, ProcessUnsegmented(len) \/ ProcessSegmented(len)
    PROVE  Cut' /\ Sent' /\ upper'.len = len
<1>1. seq \in Nat /\ len \in 0 .. 380
  BY DEF Cut
<1>2. CASE ProcessUnsegmented(len)
  <2>1. /\ seq' = seq + 1 /\ upper' = [seq |-> seq, len |-> len] /\ ~ (len > NonSegmented)
        /\ wire' = {[seq |-> seq, header |-> <<>>]}
    BY <1>2 DEF ProcessUnsegmented, NonSegmented
  <2>2. upper'.len = len /\ upper'.seq = seq /\ upper' \in [seq : Nat, len : 0 .. 380]
    BY <1>1, <2>1
  <2>3. ~ Segmented'
    BY <2>1, <2>2 DEF Segmented
  <2> QED
    BY <1>1, <2>1, <2>2, <2>3 DEF Cut, Sent
<1>3. CASE ProcessSegmented(len)
  <2>1. Chunks(len) \in Nat
    BY <1>1 DEF Chunks, MTU
  <2>2. /\ seq' = seq + Chunks(len) /\ upper' = [seq |-> seq, len |-> len] /\ len > NonSegmented
        /\ wire' = {[seq |-> SegmentSeq(seq, i), header |-> Emit(Lower(seq, len, i))]
                       : i \in 0 .. Chunks(len) - 1}
    BY <1>3 DEF ProcessSegmented
  <2>3. upper'.len = len /\ upper'.seq = seq /\ upper' \in [seq : Nat, len : 0 .. 380]
    BY <1>1, <2>2
  <2>4. Segmented'
    BY <2>2, <2>3 DEF Segmented
  <2>5. wire' = {[seq |-> SegmentSeq(upper'.seq, i), header |-> Emit(Lower(upper'.seq, upper'.len, i))]
                    : i \in 0 .. Chunks(upper'.len) - 1}
    BY <2>2, <2>3
  <2> QED
    BY <1>1, <2>1, <2>2, <2>3, <2>4, <2>5 DEF Cut, Sent
<1> QED
  BY <1>2, <1>3

(* An answer of element e: what is known of what was heard goes with it.   *)
LEMMA AnswerCoherent ==
    ASSUME Coherent, WasHeard, NEW m, Says(m), NEW e \in 0 .. Len(Elements) - 1, AnswerFrom(e, m)
    PROVE  Coherent'
<1> DEFINE from == Net!LocalElementAddress(node.info, e)
           len == Len(EmitAll(m)) + Net!AccessMic
<1>1. /\ node # None /\ last.frame \in Frames /\ last.came = Came(last.frame)
      /\ last.came.result = "access"
  BY DEF Coherent, HeardSo, WasHeard
<1>2. PICK data \in Provisionings : node = NodeOf(data)
  BY <1>1 DEF Coherent, IsJoined
<1>3. node.info.primary = data.unicast /\ node.info.elements = Len(Capable) /\ data.unicast \in Nat
  <2>1. data.unicast \in Word
    BY StackAssumption DEF IsProvisioning
  <2> QED
    BY <1>2, <2>1, WordIsNat DEF NodeOf
<1>4. from = IF e < Len(Capable) THEN <<data.unicast + e>> ELSE <<>>
  BY <1>3 DEF Net!LocalElementAddress
<1>5. e \in Nat /\ (e < Len(Capable) \/ e >= Access!MaxElements)
  BY CapableOf
<1>6. len \in 1 .. 380
  <2>1. EmitAll(m) \in Seq(Octet)
    BY SplitMessage DEF Says
  <2>2. Len(EmitAll(m)) \in Nat
    BY <2>1
  <2>3. PICK n \in Nat : n = Len(EmitAll(m))
    BY <2>2
  <2>4. n + 4 <= 380
    BY <2>3 DEF Says, Net!AccessMic
  <2>5. n + 4 \in 1 .. 380
    BY <2>4
  <2> QED
    BY <2>3, <2>5 DEF Net!AccessMic
<1>7. CASE from = <<>>
  <2>1. /\ running' = FALSE /\ last' = [what |-> "unsent", element |-> e] /\ Silent /\ node' = node
    BY <1>7 DEF AnswerFrom
  <2>2. e >= Access!MaxElements
    <3>1. <<data.unicast + e>> # <<>>
      OBVIOUS
    <3> HIDE DEF from
    <3> QED
      BY <1>4, <1>5, <1>7, <3>1
  <2>3. last'.what = "unsent" /\ last'.element = e
    BY <2>1
  <2>4. Cut'
    BY <2>1, SilentIsCut DEF Coherent
  <2>5. IsJoined(node)'
    BY <2>1 DEF Coherent, IsJoined
  <2> QED
    BY <2>1, <2>2, <2>3, <2>4, <2>5 DEF Coherent, Presented, HeardSo, AskedSo, UnsentSo, SaidSo
<1>8. CASE from # <<>>
  <2>1. /\ ProcessUnsegmented(len) \/ ProcessSegmented(len)
        /\ last' = [what |-> "said", message |-> m, from |-> from[1],
                    to |-> Net!Reply(last.came.meta), under |-> last.frame.net]
        /\ node' = node /\ running' = running
    BY <1>8 DEF AnswerFrom
  <2>2. /\ last'.what = "said" /\ last'.message = m /\ last'.from = from[1]
        /\ last'.to = Net!Reply(last.came.meta) /\ last'.under = last.frame.net
    BY <2>1, SMTT(60)
  <2>3. Cut' /\ Sent' /\ upper'.len = len
    BY <1>6, <2>1, SendingIsCut, Zenon DEF Coherent
  <2>4. from[1] = data.unicast + e /\ e < Len(Capable)
    BY <1>4, <1>8
  <2>5. from[1] \in Nat /\ from[1] >= node.info.primary /\ from[1] < node.info.primary + Len(Capable)
    <3>1. Len(Capable) \in Nat
      BY CapableOf
    <3> HIDE DEF from
    <3> QED
      BY <1>3, <1>5, <2>4, <3>1
  <2>6. \A f : Came(f)' = Came(f)
    BY <2>1 DEF Came
  <2>7. \E f \in Frames : /\ Came(f)'.result = "access" /\ last'.to = Net!Reply(Came(f)'.meta)
                          /\ last'.under = f.net
    BY <1>1, <2>2, <2>6
  <2>8. SaidSo'
    BY <1>1, <2>1, <2>2, <2>3, <2>5, <2>7 DEF SaidSo
  <2>9. IsJoined(node)'
    BY <2>1 DEF Coherent, IsJoined
  <2> QED
    BY <2>2, <2>3, <2>8, <2>9 DEF Coherent, Presented, HeardSo, AskedSo, UnsentSo
<1> QED
  BY <1>7, <1>8

-----------------------------------------------------------------------------
(* A step that is silent and leaves the node alone.                        *)
LEMMA QuietCoherent ==
    ASSUME Coherent, Silent, node' = node,
           Presented', HeardSo', AskedSo', UnsentSo', SaidSo'
    PROVE  Coherent'
<1>1. Cut'
  BY SilentIsCut DEF Coherent
<1> QED
  BY <1>1 DEF Coherent, IsJoined

(* A PDU of provisioning leaves nothing on the wire.                       *)
LEMMA ProvisionCoherent ==
    ASSUME Coherent, NEW pdu \in Pdus, Provision(pdu) PROVE Coherent'
<1>1. last' = [what |-> "provisioning", pdu |-> pdu] /\ Silent /\ node' = node
  BY DEF Provision
<1>2. last'.what = "provisioning" /\ last'.pdu = pdu
  BY <1>1
<1> QED
  BY <1>1, <1>2, QuietCoherent DEF Presented, HeardSo, AskedSo, UnsentSo, SaidSo

(* A device that joins holds the data it was sent.                         *)
LEMMA JoinCoherent ==
    ASSUME Coherent, NEW data \in Provisionings, Join(data) PROVE Coherent'
<1> DEFINE read == Pb!ParseData(Pb!EmitData(data))[1]
<1>1. read.key = data.key /\ read.iv_index = data.iv_index /\ read.unicast = data.unicast
  BY StackAssumption, DatumRead
<1>2. node' = [info |-> [primary |-> read.unicast, elements |-> Len(Capable)], iv |-> IvIndex(read.iv_index),
               net_keys |-> <<read.key>>, app_keys |-> {}, device_key |-> "ours"]
  BY DEF Join
<1> HIDE DEF read
<1>3. node' = NodeOf(data)
  BY <1>1, <1>2 DEF NodeOf
<1>4. last' = last /\ last = Idle /\ Silent /\ running' = running
  BY DEF Join
<1>5. last'.what = "idle"
  BY <1>4 DEF Idle
<1>6. Cut'
  BY <1>4, SilentIsCut DEF Coherent
<1>7. IsJoined(node)'
  BY <1>3 DEF IsJoined
<1> QED
  BY <1>5, <1>6, <1>7 DEF Coherent, Presented, HeardSo, AskedSo, UnsentSo, SaidSo

(* What is heard is what came of a frame on the air.                       *)
LEMMA HearCoherent ==
    ASSUME Coherent, NEW f \in Frames, Hear(f) PROVE Coherent'
<1>1. /\ node # None /\ node' = node /\ Silent
      /\ last' = [what |-> "heard", frame |-> f, came |-> Came(f)]
      /\ running' = (Came(f).result # "error")
  BY DEF Hear, Ready, Came
<1>2. last'.what = "heard" /\ last'.frame = f /\ last'.came = Came(f)
  BY <1>1
<1>3. Came(f)' = Came(f)
  BY <1>1 DEF Came
<1>4. HeardSo'
  BY <1>1, <1>2, <1>3, Zenon DEF HeardSo
<1> QED
  BY <1>1, <1>2, <1>4, QuietCoherent DEF Presented, AskedSo, UnsentSo, SaidSo

(* What is asked is one of the requests.                                   *)
LEMMA AskCoherent ==
    ASSUME Coherent, NEW octets \in Requests, Ask(octets) PROVE Coherent'
<1>1. /\ node' = node /\ Silent /\ last' = [what |-> "asked", octets |-> octets]
      /\ running' = ~ Panics(octets)
  BY DEF Ask
<1>2. last'.what = "asked" /\ last'.octets = octets
  BY <1>1
<1>3. AskedSo'
  BY <1>1, <1>2, Zenon DEF AskedSo
<1> QED
  BY <1>1, <1>2, <1>3, QuietCoherent DEF Presented, HeardSo, UnsentSo, SaidSo

(* What the application says is declared, of an element that is.           *)
LEMMA SomethingSaidCoherent ==
    ASSUME Coherent, SaySomething PROVE Coherent'
<1>1. PICK len \in Lengths : ProcessUnsegmented(len) \/ ProcessSegmented(len)
  BY DEF SaySomething, Next
<1>2. last' = last /\ last = Idle /\ node' = node /\ running' = running
  BY DEF SaySomething, Ready
<1>3. last'.what = "idle"
  BY <1>2 DEF Idle
<1>4. Cut'
  <2>1. len \in 1 .. 380
    BY OutboundAssumption
  <2> QED
    BY <1>1, <2>1, SendingIsCut DEF Coherent
<1>5. IsJoined(node)'
  BY <1>2 DEF Coherent, IsJoined
<1> QED
  BY <1>3, <1>4, <1>5 DEF Coherent, Presented, HeardSo, AskedSo, UnsentSo, SaidSo

(* Afterwards what was said is forgotten, and the wire is silent.          *)
LEMMA RestCoherent ==
    ASSUME Coherent, Rest PROVE Coherent'
<1>1. last' = Idle /\ Silent /\ node' = node
  BY DEF Rest
<1>2. last'.what = "idle"
  BY <1>1 DEF Idle
<1> QED
  BY <1>1, <1>2, QuietCoherent DEF Presented, HeardSo, AskedSo, UnsentSo, SaidSo

(* What the foundation answers is a message that fits.                     *)
LEMMA FoundationCoherent ==
    ASSUME Coherent, FoundationAnswers PROVE Coherent'
<1>1. PICK request : \E m \in Foundation(request) : AnswerFrom(0, m)
  BY DEF FoundationAnswers
<1>11. PICK m \in Foundation(request) : AnswerFrom(0, m)
  BY <1>1
<1>2. Says(m)
  BY FoundationSays
<1>3. 0 \in 0 .. Len(Elements) - 1
  <2>1. Elements \in Seq(Element) /\ Elements # <<>>
    BY StackAssumption
  <2> QED
    BY <2>1
<1>4. WasHeard
  BY DEF FoundationAnswers
<1> QED
  BY <1>11, <1>2, <1>3, <1>4, AnswerCoherent

(* Whatever happens, what the model remembers is what has happened.        *)
THEOREM StackCoherent == StackSpec => []Coherent
<1>1. StackInit => Coherent
  <2> SUFFICES ASSUME StackInit PROVE Coherent
    OBVIOUS
  <2>1. node = None /\ last.what = "idle" /\ seq \in Nat
    BY OutboundAssumption DEF StackInit, Init, Idle
  <2>2. upper = [seq |-> 0, len |-> 0]
    BY DEF StackInit, Init
  <2>3. upper \in [seq : Nat, len : 0 .. 380] /\ upper.len = 0
    BY <2>2
  <2>4. ~ Segmented
    BY <2>3 DEF Segmented, NonSegmented
  <2> QED
    BY <2>1, <2>3, <2>4
       DEF Coherent, IsJoined, Cut, Presented, HeardSo, AskedSo, UnsentSo, SaidSo
<1>2. Coherent /\ [StackNext]_device => Coherent'
  <2> SUFFICES ASSUME Coherent, [StackNext]_device PROVE Coherent'
    OBVIOUS
  <2>1. ASSUME NEW pdu \in Pdus, Provision(pdu) PROVE Coherent'
    BY <2>1, ProvisionCoherent
  <2>2. ASSUME NEW data \in Provisionings, Join(data) PROVE Coherent'
    BY <2>2, JoinCoherent
  <2>3. ASSUME NEW f \in Frames, Hear(f) PROVE Coherent'
    BY <2>3, HearCoherent
  <2>4. ASSUME NEW octets \in Requests, Ask(octets) PROVE Coherent'
    BY <2>4, AskCoherent
  <2>5. ASSUME NEW saying \in Sayings, Answer(saying.element, saying.message) PROVE Coherent'
    <3>1. Says(saying.message) /\ saying.element \in 0 .. Len(Elements) - 1
      BY SayingSays
    <3>2. WasHeard /\ AnswerFrom(saying.element, saying.message)
      BY <2>5 DEF Answer
    <3> QED
      BY <3>1, <3>2, AnswerCoherent
  <2>6. CASE FoundationAnswers
    BY <2>6, FoundationCoherent
  <2>7. CASE SaySomething
    BY <2>7, SomethingSaidCoherent
  <2>8. CASE Rest
    BY <2>8, RestCoherent
  <2>9. CASE UNCHANGED device
    BY <2>9 DEF device, vars, Coherent, IsJoined, Cut, Segmented, Presented, HeardSo, AskedSo, UnsentSo, SaidSo,
                Came, Sent
  <2> QED
    BY <2>1, <2>2, <2>3, <2>4, <2>5, <2>6, <2>7, <2>8, <2>9 DEF StackNext
<1> QED
  BY <1>1, <1>2, PTL DEF StackSpec

-----------------------------------------------------------------------------
(***************************************************************************)
(* The same of a device that is provisioned, hears and answers: whatever it*)
(* says, to whomever, a receiver gets it as it was cut exactly when it has *)
(* at most eight segments.                                                 *)
(***************************************************************************)
THEOREM DeviceParsesUpToEight == StackSpec => []ParsesUpToEight
<1>1. Coherent => ParsesUpToEight
  BY CutParses DEF Coherent
<1> QED
  BY <1>1, StackCoherent, PTL

(***************************************************************************)
(* Whatever the two sides of provisioning send, with whatever in its       *)
(* fields, it is read as it was sent exactly if it is Readable.            *)
(***************************************************************************)
THEOREM ProvisioningIsRead == StackSpec => []ProvisioningReadsBack
<1>1. Coherent => ProvisioningReadsBack
  <2> SUFFICES ASSUME Coherent, last.what = "provisioning" PROVE PduReadsBack(last.pdu)
    BY DEF ProvisioningReadsBack
  <2>1. IsPdu(last.pdu)
    BY StackAssumption DEF Coherent, Presented
  <2> QED
    BY <2>1, PdusReadBack
<1> QED
  BY <1>1, StackCoherent, PTL

(***************************************************************************)
(* A status of a sensor model names its sensor and tells it from others    *)
(* exactly in the ranges of its formats, for whatever sensors a device has.*)
(***************************************************************************)
THEOREM StatusesTellApart == StackSpec => []StatusTellsApart
<1>1. DescriptorsTell
  <2> SUFFICES ASSUME NEW i \in DOMAIN Descriptors PROVE TolerancesTell(Descriptors[i])
    BY DEF DescriptorsTell
  <2>1. Descriptors[i].positive \in Word /\ Descriptors[i].negative \in Word
    BY StackAssumption DEF IsDescriptor
  <2> QED
    BY <2>1, TolerancesTold
<1>2. HeadersTell
  <2> SUFFICES ASSUME NEW i \in DOMAIN Descriptors PROVE HeaderTells(Descriptors[i])
    BY DEF HeadersTell
  <2>1. Descriptors[i].id \in Word /\ Descriptors[i].size \in Nat
    BY StackAssumption DEF IsDescriptor, Id
  <2> QED
    BY <2>1, HeadersTold
<1>3. StatusTellsApart
  BY <1>1, <1>2 DEF StatusTellsApart
<1> QED
  BY <1>3, PTL

(* What is cut has a counter and no more than 380 octets.                  *)
LEMMA CutBounds ==
    ASSUME Cut PROVE upper.seq \in Nat /\ upper.len \in Nat /\ upper.len <= 380
<1>1. \A n \in 0 .. 380 : n \in Nat /\ n <= 380
  OBVIOUS
<1> DEFINE range == 0 .. 380
<1> HIDE DEF range
<1>2. upper.seq \in Nat /\ upper.len \in range
  BY DEF Cut, range
<1> QED
  BY <1>1, <1>2 DEF range

(* How many PDUs are on the wire.                                          *)
LEMMA WireCount ==
    ASSUME Cut, Sent
    PROVE  /\ IsFiniteSet(wire) /\ Cardinality(wire) \in Nat
           /\ Segmented => Cardinality(wire) <= Chunks(upper.len)
           /\ ~ Segmented => Cardinality(wire) = 1
<1> DEFINE n == Chunks(upper.len)
           Pdu(i) == [seq |-> SegmentSeq(upper.seq, i), header |-> Emit(Lower(upper.seq, upper.len, i))]
           places == 0 .. n - 1
<1>1. CASE Segmented
  <2>1. n \in Nat
    BY CutBounds DEF Chunks, MTU
  <2>2. wire = {Pdu(i) : i \in places}
    BY <1>1 DEF Sent
  <2>3. IsFiniteSet(places) /\ Cardinality(places) = n
    <3>1. 0 \in Int /\ n - 1 \in Int /\ (0 > n - 1 => n = 0) /\ (0 <= n - 1 => (n - 1) - 0 + 1 = n)
      BY <2>1
    <3> QED
      BY <3>1, FS_Interval
  <2> DEFINE f == [i \in places |-> Pdu(i)]
  <2>4. f \in Surjection(places, wire)
    BY <2>2 DEF Surjection
  <2> HIDE DEF f, places, n
  <2>5. Cardinality(wire) <= n /\ IsFiniteSet(wire)
    BY <2>3, <2>4, FS_Surjection
  <2> QED
    BY <1>1, <2>5, FS_CardinalityType DEF n
<1>2. CASE ~ Segmented
  <2>1. wire = {[seq |-> upper.seq, header |-> <<>>]}
    BY <1>2 DEF Sent
  <2>2. \E pdu : wire = {pdu}
    BY <2>1, Zenon
  <2>3. IsFiniteSet(wire) /\ Cardinality(wire) = 1
    BY <2>2, FS_Singleton
  <2> QED
    BY <1>2, <2>3
<1> QED
  BY <1>1, <1>2

(***************************************************************************)
(* Whatever a device declares, the status with its composition has eight   *)
(* segments at most.                                                       *)
(***************************************************************************)
THEOREM CompositionsFit == StackSpec => []CompositionFits
<1>1. Coherent => CompositionFits
  <2> SUFFICES ASSUME Coherent, last.what = "said", last.message.kind = "CompositionStatus"
               PROVE  Cardinality(wire) <= 8
    BY DEF CompositionFits
  <2>1. Says(last.message) /\ upper.len = Len(EmitAll(last.message)) + 4 /\ Sent /\ Cut
    BY DEF Coherent, SaidSo, Net!AccessMic
  <2>2. last.message \in CompositionStatuses
    BY <2>1 DEF Says, IsMessage, Unread, SimpleMessages, Switches, TimesToLive, Pages, Binds, OnOffs,
       Questions, Identified, SettingGets, IsColumn, Columns, IsSeries, Series, IsCadence, Cadences, IsSetting,
       SettingSets
  <2>3. UpTo(EmitAll(last.message), 92)
    BY <2>2, CompositionLength
  <2>4. PICK n \in Nat : n <= 92 /\ upper.len = n + 4
    BY <2>1, <2>3 DEF UpTo
  <2>5. Chunks(upper.len) <= 8 /\ Chunks(upper.len) \in Nat
    BY <2>4 DEF Chunks, MTU
  <2>6. CASE Segmented
    BY <2>1, <2>5, <2>6, WireCount
  <2>7. CASE ~ Segmented
    BY <2>1, <2>7, WireCount
  <2> QED
    BY <2>6, <2>7
<1> QED
  BY <1>1, StackCoherent, PTL

-----------------------------------------------------------------------------
(* What is on the air before it is encrypted.                              *)
ClearOf(f) ==
    [key |-> f.net, iv |-> f.iv, ctl |-> f.ctl, ttl |-> 5, seq |-> f.seq, src |-> f.src, dst |-> f.dst,
     transport |->
        [first |-> IF f.ctl THEN f.opcode ELSE Net!EmitAid(f.aid),
         size  |-> 1 + Len(f.plain) + Net!AccessMic,
         body  |-> Net!Seal(f.key, Net!AccessNonce(IF f.aid = <<>> THEN "device" ELSE "application",
                                                   f.seq, f.src, f.dst, f.iv), f.plain)]]
FrameNonce(f) == Net!AccessNonce(IF f.aid = <<>> THEN "device" ELSE "application", f.seq, f.src, f.dst, f.iv)

(* What seven bits hold.                                                   *)
LEMMA SevenBits == \A n \in 0 .. 127 : n % 128 = n
OBVIOUS

(* The node of a device.                                                   *)
LEMMA NodeIs ==
    ASSUME NEW data \in Provisionings, NEW n, n = NodeOf(data)
    PROVE  /\ IsNode(n)
           /\ n.info.primary = data.unicast /\ n.info.elements = Len(Capable)
           /\ n.iv \in Nat /\ n.app_keys = {} /\ n.device_key = "ours"
           /\ Len(n.net_keys) = 1 /\ n.net_keys[1] = data.key
<1>1. data.iv_index \in OfLength(4) /\ data.unicast \in Word
  BY StackAssumption DEF IsProvisioning
<1>2. \A i \in 1 .. 4 : data.iv_index[i] \in Nat
  <2>1. \A i \in 1 .. 4 : data.iv_index[i] \in Octet
    BY <1>1 DEF OfLength
  <2>2. \A octet \in Octet : octet \in Nat
    BY DEF Octet
  <2> QED
    BY <2>1, <2>2, Zenon
<1>3. IvIndex(data.iv_index) \in Nat
  BY <1>2 DEF IvIndex, Number
<1>4. data.unicast \in Nat /\ Len(Capable) \in Nat
  BY <1>1, WordIsNat, CapableOf
<1>5. /\ n.info.primary = data.unicast /\ n.info.elements = Len(Capable) /\ n.iv = IvIndex(data.iv_index)
      /\ n.net_keys = <<data.key>> /\ n.app_keys = {} /\ n.device_key = "ours"
  BY DEF NodeOf
<1>6. n.net_keys \in Seq({n.net_keys[i] : i \in 1 .. Len(n.net_keys)})
  BY <1>5
<1> QED
  BY <1>1, <1>3, <1>4, <1>5, <1>6 DEF IsNode

(* A frame is heard as a PDU that somebody has sealed.                     *)
LEMMA FrameIs ==
    ASSUME NEW f \in Frames, NEW data \in Provisionings, NEW n, n = NodeOf(data),
           NEW came, came = Net!ProcessInbound(n, Air(f))
    PROVE  /\ Hears(n, ClearOf(f), f.key, FrameNonce(f), f.plain, came)
           /\ ItsNetwork(n, ClearOf(f)) <=>
                 /\ f.net = data.key
                 /\ f.iv = n.iv \/ (f.iv = n.iv - 1 /\ n.iv > 1)
           /\ Net!LowerFails(ClearOf(f)) <=> f.ctl /\ f.opcode \notin 0 .. 10
           /\ ~ f.ctl => (OpenedBy(n, ClearOf(f), f.key, FrameNonce(f)) <=> f.aid = <<>> /\ f.key = "ours")
<1> DEFINE clear == ClearOf(f)
<1>1. /\ f.iv \in Nat /\ f.ctl \in BOOLEAN /\ f.opcode \in 0 .. 127 /\ f.seq \in Nat
      /\ f.src \in Nat /\ f.src < 32768
      /\ f.aid = <<>> \/ f.aid \in OfLength(1)
      /\ Len(f.plain) \in Nat
  <2>1. IsFrame(f)
    BY StackAssumption
  <2>2. f.src \in Nat /\ f.src < 32768
    BY <2>1, WordIsNat DEF IsFrame
  <2>3. Len(f.plain) \in Nat
    BY <2>1 DEF IsFrame
  <2> QED
    BY <2>1, <2>2, <2>3 DEF IsFrame
<1>2. /\ clear.key = f.net /\ clear.iv = f.iv /\ clear.ctl = f.ctl /\ clear.seq = f.seq /\ clear.src = f.src
      /\ clear.dst = f.dst
      /\ clear.transport.first = IF f.ctl THEN f.opcode ELSE Net!EmitAid(f.aid)
      /\ clear.transport.size = 1 + Len(f.plain) + Net!AccessMic
      /\ clear.transport.body = Net!Seal(f.key, FrameNonce(f), f.plain)
  BY DEF ClearOf, FrameNonce
<1>3. Air(f) = Net!EncryptNetwork(clear)
  BY DEF Air, ClearOf
<1> HIDE DEF clear
<1>4. IsClear(clear)
  BY <1>1, <1>2 DEF IsClear
<1>5. Hears(n, clear, f.key, FrameNonce(f), f.plain, came)
  BY <1>2, <1>3, <1>4, NodeIs DEF Hears
<1>6. ItsNetwork(n, clear) <=> f.net = data.key /\ (f.iv = n.iv \/ (f.iv = n.iv - 1 /\ n.iv > 1))
  <2>1. HasKey(n, f.net) <=> f.net = data.key
    BY NodeIs DEF HasKey
  <2> QED
    BY <1>1, <1>2, <2>1 DEF ItsNetwork, Accepts
<1>7. Net!LowerFails(clear) <=> f.ctl /\ f.opcode \notin 0 .. 10
  <2>1. ~ (1 + Len(f.plain) + 4 < 2)
    BY <1>1
  <2>2. f.opcode % 128 = f.opcode
    <3>1. f.opcode \in 0 .. 127
      BY <1>1
    <3> QED
      BY <3>1, SevenBits
  <2> QED
    BY <1>2, <2>1, <2>2 DEF Net!LowerFails, Net!AccessMic, Net!IsControlOpcode
<1>8. ASSUME ~ f.ctl PROVE OpenedBy(n, clear, f.key, FrameNonce(f)) <=> f.aid = <<>> /\ f.key = "ours"
  <2>1. CASE f.aid = <<>>
    <3>1. Net!Aid(clear.transport.first) = <<>>
      BY <1>2, <1>8, <2>1 DEF Net!EmitAid, Net!Aid
    <3>2. KeysFor(n, clear) = {"ours"}
      BY <3>1, NodeIs DEF KeysFor
    <3>3. FrameNonce(f) = NonceOf(clear)
      BY <1>2, <2>1, <3>1 DEF FrameNonce, NonceOf, TypeOfKey
    <3> QED
      BY <2>1, <3>2, <3>3 DEF OpenedBy
  <2>2. CASE f.aid # <<>>
    <3>1. f.aid[1] \in Octet
      BY <1>1, <2>2 DEF OfLength
    <3>2. clear.transport.first = 64 + (f.aid[1] % 64)
      BY <1>2, <1>8, <2>2 DEF Net!EmitAid
    <3>3. ((64 + (f.aid[1] % 64)) \div 64) % 2 = 1
      <4>1. f.aid[1] % 64 \in 0 .. 63
        BY <3>1 DEF Octet
      <4> QED
        BY <4>1
    <3>4. Net!Aid(clear.transport.first) # <<>>
      BY <3>2, <3>3 DEF Net!Aid
    <3>5. KeysFor(n, clear) = {}
      BY <3>4, NodeIs DEF KeysFor, Net!ByAid
    <3> QED
      BY <2>2, <3>5 DEF OpenedBy
  <2> QED
    BY <2>1, <2>2
<1> QED
  BY <1>5, <1>6, <1>7, <1>8 DEF clear

(* The elements that an address stands for are those that it is taken for. *)
LEMMA AddressedAre ==
    ASSUME NEW data \in Provisionings, node = NodeOf(data), NEW dst \in Word,
           NEW local, local = Net!LocalElementIndex(node.info, dst)
    PROVE  {e \in 0 .. Len(Capable) - 1 : local = <<e>>} = Addressed(dst)
<1> DEFINE primary == node.info.primary
           d == dst - primary
           size == Len(Capable)
<1>1. primary \in Nat /\ size \in Nat /\ size <= 4 /\ dst \in Nat /\ node.info.elements = size
  <2>1. IsNode(node) /\ node.info.elements = size
    BY NodeIs
  <2>2. primary \in Nat
    BY <2>1, NodeIs DEF IsNode
  <2>3. size \in Nat /\ size <= 4
    BY CapableOf
  <2>4. dst \in Nat
    BY WordIsNat
  <2> HIDE DEF primary, size
  <2> QED
    BY <2>1, <2>2, <2>3, <2>4
<1>2. local = IF Net!IsUnicast(dst) /\ dst >= primary /\ d % 256 < size THEN <<d % 256>> ELSE <<>>
  BY <1>1 DEF Net!LocalElementIndex, Net!Difference
<1>3. Addressed(dst) = {e \in 0 .. size - 1 : /\ 0 < dst /\ dst < 32768 /\ dst >= primary
                                              /\ \E n \in 0 .. 127 : dst = primary + 256 * n + e}
  BY DEF Addressed
<1> HIDE DEF primary, size
<1>4. ASSUME NEW e \in 0 .. size - 1 PROVE local = <<e>> <=> e \in Addressed(dst)
  <2>0. e \in Nat /\ e < size /\ e < 4
    BY <1>1
  <2>1. CASE Net!IsUnicast(dst) /\ dst >= primary
    <3>1. 0 < dst /\ dst < 32768 /\ dst >= primary /\ d \in Nat /\ d < 32768
      BY <1>1, <2>1 DEF Net!IsUnicast
    <3>2. local = <<e>> <=> d % 256 = e
      BY <1>2, <2>0, <2>1
    <3>3. (\E n \in 0 .. 127 : dst = primary + 256 * n + e) <=> d % 256 = e
      <4>1. ASSUME NEW n \in 0 .. 127, dst = primary + 256 * n + e PROVE d % 256 = e
        <5>1. d = 256 * n + e
          BY <1>1, <2>0, <4>1
        <5> QED
          BY <5>1, <2>0
      <4>2. ASSUME d % 256 = e PROVE \E n \in 0 .. 127 : dst = primary + 256 * n + e
        <5>1. d \div 256 \in 0 .. 127 /\ d = 256 * (d \div 256) + e
          BY <3>1, <4>2
        <5>2. dst = primary + 256 * (d \div 256) + e
          BY <5>1, <1>1, <2>0
        <5> QED
          BY <5>1, <5>2
      <4> QED
        BY <4>1, <4>2
    <3> QED
      BY <1>3, <3>1, <3>2, <3>3
  <2>2. CASE ~ (Net!IsUnicast(dst) /\ dst >= primary)
    <3>1. ~ (0 < dst /\ dst < 32768 /\ dst >= primary)
      BY <1>1, <2>2 DEF Net!IsUnicast
    <3>2. local # <<e>>
      BY <1>2, <2>2
    <3> QED
      BY <1>3, <3>1, <3>2
  <2> QED
    BY <2>1, <2>2
<1>5. Addressed(dst) \subseteq 0 .. size - 1
  BY <1>3
<1> QED
  BY <1>4, <1>5 DEF size

-----------------------------------------------------------------------------
(* What a node makes of a frame, in the terms of the property.             *)
LEMMA CameOf ==
    ASSUME NEW f \in Frames, NEW data \in Provisionings, node = NodeOf(data),
           NEW came, came = Came(f)
    PROVE  /\ ~ Clear(f) => came.result = "nothing"
           /\ Clear(f) /\ f.ctl => came.result = IF f.opcode \in 0 .. 10 THEN "nothing" ELSE "error"
           /\ Clear(f) /\ ~ f.ctl /\ ~ (Ours(f) /\ Access!Split(f.plain) # <<>>) => came.result = "error"
           /\ Clear(f) /\ ~ f.ctl /\ Ours(f) /\ Access!Split(f.plain) # <<>> =>
                 /\ came = [result |-> "access", opcode |-> Access!Split(f.plain)[1].opcode,
                            parameters |-> Access!Split(f.plain)[1].parameters, meta |-> came.meta]
                 /\ came.meta.local = Net!LocalElementIndex(node.info, f.dst)
                 /\ came.meta.src = f.src /\ came.meta.iv = f.iv /\ came.meta.key = "ours"
<1> DEFINE clear == ClearOf(f)
           nonce == FrameNonce(f)
<1>1. came = Net!ProcessInbound(node, Air(f))
  BY DEF Came
<1>2. /\ Hears(node, clear, f.key, nonce, f.plain, came)
      /\ ItsNetwork(node, clear) <=> f.net = data.key /\ (f.iv = node.iv \/ (f.iv = node.iv - 1 /\ node.iv > 1))
      /\ Net!LowerFails(clear) <=> f.ctl /\ f.opcode \notin 0 .. 10
      /\ ~ f.ctl => (OpenedBy(node, clear, f.key, nonce) <=> f.aid = <<>> /\ f.key = "ours")
  BY <1>1, FrameIs
<1>3. clear.ctl = f.ctl /\ clear.dst = f.dst /\ clear.src = f.src /\ clear.iv = f.iv
  BY DEF ClearOf
<1>4. node.net_keys = <<data.key>> /\ node.device_key = "ours"
  BY DEF NodeOf
<1> HIDE DEF clear, nonce
<1>5. ItsNetwork(node, clear) <=> Clear(f)
  <2>1. {node.net_keys[i] : i \in DOMAIN node.net_keys} = {data.key}
    BY <1>4
  <2> QED
    BY <1>2, <2>1, Zenon DEF Clear
<1>6. ~ f.ctl => (OpenedBy(node, clear, f.key, nonce) <=> Ours(f))
  BY <1>2, <1>4 DEF Ours
<1>7. /\ Net!Nothing.result = "nothing" /\ Net!Error.result = "error"
  BY DEF Net!Nothing, Net!Error
<1>8. IF ~ ItsNetwork(node, clear) THEN came = Net!Nothing
      ELSE IF Net!LowerFails(clear) THEN came = Net!Error
      ELSE IF clear.ctl THEN came = Net!Nothing
      ELSE IF ~ OpenedBy(node, clear, f.key, nonce) THEN came = Net!Error
      ELSE \E i \in 1 .. Len(node.net_keys) :
              /\ node.net_keys[i] = clear.key
              /\ came = Net!ParseAccess(f.plain, Meta(node.info, i, clear, f.key))
  BY <1>2, Processed
<1>9. ASSUME ~ Clear(f) PROVE came.result = "nothing"
  BY <1>5, <1>7, <1>8, <1>9
<1>10. ASSUME Clear(f), f.ctl PROVE came.result = IF f.opcode \in 0 .. 10 THEN "nothing" ELSE "error"
  <2>1. CASE Net!LowerFails(clear)
    BY <1>2, <1>5, <1>7, <1>8, <1>10, <2>1
  <2>2. CASE ~ Net!LowerFails(clear)
    BY <1>2, <1>3, <1>5, <1>7, <1>8, <1>10, <2>2
  <2> QED
    BY <2>1, <2>2
<1>11. ASSUME Clear(f), ~ f.ctl, ~ Ours(f) PROVE came.result = "error"
  BY <1>2, <1>3, <1>5, <1>6, <1>7, <1>8, <1>11
<1>12. ASSUME Clear(f), ~ f.ctl, Ours(f)
       PROVE  \E i : came = Net!ParseAccess(f.plain, Meta(node.info, i, clear, f.key))
  BY <1>2, <1>3, <1>5, <1>6, <1>8, <1>12
<1>13. ASSUME Clear(f), ~ f.ctl, Ours(f), Access!Split(f.plain) = <<>> PROVE came.result = "error"
  BY <1>7, <1>12, <1>13 DEF Net!ParseAccess
<1>14. ASSUME Clear(f), ~ f.ctl, Ours(f), Access!Split(f.plain) # <<>>
       PROVE  /\ came = [result |-> "access", opcode |-> Access!Split(f.plain)[1].opcode,
                         parameters |-> Access!Split(f.plain)[1].parameters, meta |-> came.meta]
              /\ came.meta.local = Net!LocalElementIndex(node.info, f.dst)
              /\ came.meta.src = f.src /\ came.meta.iv = f.iv /\ came.meta.key = "ours"
  <2>1. PICK i : came = Net!ParseAccess(f.plain, Meta(node.info, i, clear, f.key))
    BY <1>12, <1>14
  <2> DEFINE meta == Meta(node.info, i, clear, f.key)
  <2>2. /\ meta.local = Net!LocalElementIndex(node.info, f.dst)
        /\ meta.src = f.src /\ meta.iv = f.iv /\ meta.key = f.key
    BY <1>3 DEF Meta
  <2>3. f.key = "ours"
    BY <1>4, <1>14 DEF Ours
  <2> HIDE DEF meta
  <2>4. came = [result |-> "access", opcode |-> Access!Split(f.plain)[1].opcode,
                parameters |-> Access!Split(f.plain)[1].parameters, meta |-> meta]
    BY <1>14, <2>1 DEF Net!ParseAccess, meta
  <2>5. came.meta = meta
    BY <2>4
  <2> QED
    BY <2>2, <2>3, <2>4, <2>5
<1> QED
  BY <1>9, <1>10, <1>11, <1>13, <1>14

(***************************************************************************)
(* Whatever a device declares and whatever it is provisioned with, of what *)
(* is on the air it dispatches what is sealed with its own device key for  *)
(* an IV index that it accepts, to the element that is addressed; takes no *)
(* notice of other networks and of control messages; and stops its driver  *)
(* at anything else.                                                       *)
(***************************************************************************)
THEOREM FramesAreUnderstood == StackSpec => []Understood
<1>1. Coherent => Understood
  <2> SUFFICES ASSUME Coherent, last.what = "heard" PROVE Understood
    BY DEF Understood
  <2> DEFINE f == last.frame
             came == last.came
             unreadable == f.ctl /\ f.opcode \notin 0 .. 10
  <2>1. node # None /\ f \in Frames /\ came = Came(f) /\ (running <=> came.result # "error")
    BY DEF Coherent, HeardSo
  <2>2. PICK data \in Provisionings : node = NodeOf(data)
    BY <2>1 DEF Coherent, IsJoined
  <2>3. /\ ~ Clear(f) => came.result = "nothing"
        /\ Clear(f) /\ f.ctl => came.result = IF f.opcode \in 0 .. 10 THEN "nothing" ELSE "error"
        /\ Clear(f) /\ ~ f.ctl /\ ~ (Ours(f) /\ Access!Split(f.plain) # <<>>) => came.result = "error"
        /\ Clear(f) /\ ~ f.ctl /\ Ours(f) /\ Access!Split(f.plain) # <<>> =>
              /\ came = [result |-> "access", opcode |-> Access!Split(f.plain)[1].opcode,
                         parameters |-> Access!Split(f.plain)[1].parameters, meta |-> came.meta]
              /\ came.meta.local = Net!LocalElementIndex(node.info, f.dst)
    <3> HIDE DEF f, came
    <3> QED
      BY <2>1, <2>2, CameOf
  <2>4. f.dst \in Word
    BY <2>1, StackAssumption DEF IsFrame
  <2>5. {e \in 0 .. Len(Capable) - 1 : Net!LocalElementIndex(node.info, f.dst) = <<e>>} = Addressed(f.dst)
    BY <2>2, <2>4, AddressedAre
  <2>6. Understood <=>
          CASE ~ Clear(f)                       -> came.result = "nothing" /\ running
            [] Clear(f) /\ unreadable           -> ~ running
            [] Clear(f) /\ f.ctl /\ ~ unreadable -> came.result = "nothing" /\ running
            [] OTHER ->
                  /\ came.result = "access" <=> Ours(f) /\ Access!Split(f.plain) # <<>>
                  /\ running <=> came.result = "access"
                  /\ came.result = "access" =>
                        {e \in 0 .. Len(Capable) - 1 : came.meta.local = <<e>>} = Addressed(f.dst)
    BY DEF Understood
  <2> HIDE DEF f, came
  <2>7. CASE ~ Clear(f)
    BY <2>1, <2>3, <2>6, <2>7
  <2>8. CASE Clear(f) /\ f.ctl
    BY <2>1, <2>3, <2>6, <2>8
  <2>9. CASE Clear(f) /\ ~ f.ctl /\ ~ (Ours(f) /\ Access!Split(f.plain) # <<>>)
    <3>1. came.result = "error"
      BY <2>3, <2>9
    <3> QED
      BY <2>1, <2>6, <2>9, <3>1
  <2>10. CASE Clear(f) /\ ~ f.ctl /\ Ours(f) /\ Access!Split(f.plain) # <<>>
    <3>1. came.result = "access"
      BY <2>3, <2>10
    <3>2. came.meta.local = Net!LocalElementIndex(node.info, f.dst)
      BY <2>3, <2>10
    <3>3. running
      BY <2>1, <3>1
    <3> QED
      BY <2>5, <2>6, <2>10, <3>1, <3>2, <3>3
  <2> QED
    BY <2>7, <2>8, <2>9, <2>10
<1> QED
  BY <1>1, StackCoherent, PTL

-----------------------------------------------------------------------------
(* Numbers that are not far apart differ on the air.                       *)
LEMMA NumbersDiffer ==
    ASSUME NEW n \in Nat, NEW k \in Nat, 1 <= k, k <= 31
    PROVE  n % Net!Seqs # (n + k) % Net!Seqs
<1>1. n % 16777216 # (n + k) % 16777216
  OBVIOUS
<1> QED
  BY <1>1 DEF Net!Seqs

(* What is in a PDU of an answer, before it is encrypted.                  *)
AnswerClear(pdu) ==
    [key |-> last.under, iv |-> last.to.iv, ctl |-> FALSE, ttl |-> 127, seq |-> pdu.seq,
     src |-> last.from, dst |-> last.to.dst,
     transport |-> [first |-> IF pdu.header = <<>> THEN 0 ELSE 128, size |-> 15,
                    body |-> Net!EncryptAccess(last.to, last.from, upper.seq, EmitAll(last.message))]]

(* Whom an answer goes to.                                                 *)
LEMMA AskerIs ==
    ASSUME SaidSo, IsJoined(node), last.what = "said"
    PROVE  /\ IsNode(Asker) /\ last.to.iv \in Nat /\ last.to.key = "ours"
           /\ last.to.dst \in Nat /\ last.to.dst < 32768
           /\ last.from \in Nat
           /\ last.from >= node.info.primary /\ last.from <= node.info.primary + 3
           /\ node.info.primary \in Nat
<1>1. PICK data \in Provisionings : node = NodeOf(data)
  BY DEF SaidSo, IsJoined
<1>2. /\ node.info.primary = data.unicast /\ node.info.primary \in Nat
  <2>1. /\ IsNode(node) /\ node.info.primary = data.unicast
    BY <1>1, NodeIs
  <2>2. node.info.primary \in Nat
    BY <2>1 DEF IsNode
  <2> QED
    BY <2>1, <2>2
<1>3. PICK f \in Frames : /\ Came(f).result = "access" /\ last.to = Net!Reply(Came(f).meta)
                          /\ last.under = f.net
  BY DEF SaidSo
<1> DEFINE came == Came(f)
<1>4. /\ ~ Clear(f) => came.result = "nothing"
      /\ Clear(f) /\ f.ctl => came.result = IF f.opcode \in 0 .. 10 THEN "nothing" ELSE "error"
      /\ Clear(f) /\ ~ f.ctl /\ ~ (Ours(f) /\ Access!Split(f.plain) # <<>>) => came.result = "error"
      /\ Clear(f) /\ ~ f.ctl /\ Ours(f) /\ Access!Split(f.plain) # <<>> =>
            came.meta.src = f.src /\ came.meta.iv = f.iv /\ came.meta.key = "ours"
  <2> HIDE DEF came
  <2>1. came = Came(f)
    BY DEF came
  <2> QED
    BY <1>1, <2>1, CameOf
<1>5. came.result = "access"
  BY <1>3
<1> HIDE DEF came
<1>6. came.meta.src = f.src /\ came.meta.iv = f.iv /\ came.meta.key = "ours"
  BY <1>4, <1>5
<1>7. last.to = Net!Reply(came.meta)
  BY <1>3 DEF came
<1>8. last.to.dst = f.src /\ last.to.iv = f.iv /\ last.to.key = "ours"
  BY <1>6, <1>7 DEF Net!Reply
<1>9. f.iv \in Nat /\ f.src \in Nat /\ f.src < 32768
  BY StackAssumption, WordIsNat DEF IsFrame
<1>10. IsNode(Asker)
  <2>1. /\ Asker.iv = last.to.iv /\ Asker.net_keys = <<last.under>> /\ Asker.info.primary = last.to.dst
        /\ Asker.info.elements = 1
    BY DEF Asker
  <2> HIDE DEF Asker
  <2>2. Asker.net_keys \in Seq({Asker.net_keys[i] : i \in 1 .. Len(Asker.net_keys)})
    BY <2>1
  <2> QED
    BY <1>8, <1>9, <2>1, <2>2 DEF IsNode
<1>11. last.from \in Nat /\ last.from >= node.info.primary /\ last.from < node.info.primary + Len(Capable)
  BY DEF SaidSo
<1>12. last.from <= node.info.primary + 3
  <2>1. PICK k \in Nat : k = Len(Capable) /\ k <= 4
    BY CapableOf
  <2> QED
    BY <1>2, <1>11, <2>1
<1> QED
  BY <1>2, <1>8, <1>9, <1>10, <1>11, <1>12

(* What it makes of a PDU of the answer.                                   *)
LEMMA AskerMakes ==
    ASSUME SaidSo, IsJoined(node), last.what = "said", upper.seq \in Nat, NEW pdu, pdu.seq \in Nat,
           NEW heard, heard = AskerHears(pdu)
    PROVE  /\ heard.result = "access" <=> upper.seq % Net!Seqs = pdu.seq % Net!Seqs /\ last.from < 32768
           /\ heard.result = "access" =>
                 /\ heard.meta.local = IF last.to.dst = 0 THEN <<>> ELSE <<0>>
                 /\ heard.parameters = EmitParameters(last.message)
                 /\ heard.opcode = OpcodeOf(last.message) <=> Survives(last.message)
<1> DEFINE clear == AnswerClear(pdu)
           nonce == Net!AccessNonce("device", upper.seq, last.from, last.to.dst, last.to.iv)
           plain == EmitAll(last.message)
<1>1. /\ IsNode(Asker) /\ last.to.iv \in Nat /\ last.to.key = "ours"
      /\ last.to.dst \in Nat /\ last.to.dst < 32768 /\ last.from \in Nat
  BY AskerIs
<1>2. heard = Net!ProcessInbound(Asker, Net!EncryptNetwork(clear))
  BY DEF AskerHears, Outgoing, AnswerClear
<1>3. /\ clear.key = last.under /\ clear.iv = last.to.iv /\ clear.ctl = FALSE /\ clear.seq = pdu.seq
      /\ clear.src = last.from /\ clear.dst = last.to.dst
      /\ clear.transport.first \in {0, 128} /\ clear.transport.size = 15
      /\ clear.transport.body = Net!Seal("ours", nonce, plain)
  BY <1>1 DEF AnswerClear, Net!EncryptAccess
<1>4. /\ Asker.info.primary = last.to.dst /\ Asker.info.elements = 1 /\ Asker.iv = last.to.iv
      /\ Asker.net_keys = <<last.under>> /\ Asker.app_keys = {} /\ Asker.device_key = "ours"
  BY <1>1 DEF Asker
<1> HIDE DEF clear, nonce, plain
<1>5. Hears(Asker, clear, "ours", nonce, plain, heard)
  BY <1>1, <1>2, <1>3 DEF Hears, IsClear
<1>6. ItsNetwork(Asker, clear) <=> last.from < 32768
  <2>1. HasKey(Asker, clear.key)
    BY <1>3, <1>4 DEF HasKey
  <2> QED
    BY <1>1, <1>3, <1>4, <2>1 DEF ItsNetwork, Accepts
<1>7. ~ Net!LowerFails(clear)
  BY <1>3 DEF Net!LowerFails
<1>8. Net!Aid(clear.transport.first) = <<>>
  BY <1>3 DEF Net!Aid
<1>9. OpenedBy(Asker, clear, "ours", nonce) <=> upper.seq % Net!Seqs = pdu.seq % Net!Seqs
  <2>1. KeysFor(Asker, clear) = {"ours"}
    BY <1>4, <1>8 DEF KeysFor
  <2>2. NonceOf(clear) = Net!AccessNonce("device", pdu.seq, last.from, last.to.dst, last.to.iv)
    BY <1>3, <1>8 DEF NonceOf, TypeOfKey
  <2>3. nonce = NonceOf(clear) <=> upper.seq % Net!Seqs = pdu.seq % Net!Seqs
    BY <2>2 DEF Net!AccessNonce, nonce
  <2> QED
    BY <2>1, <2>3 DEF OpenedBy
<1>10. IF ~ ItsNetwork(Asker, clear) THEN heard = Net!Nothing
       ELSE IF Net!LowerFails(clear) THEN heard = Net!Error
       ELSE IF clear.ctl THEN heard = Net!Nothing
       ELSE IF ~ OpenedBy(Asker, clear, "ours", nonce) THEN heard = Net!Error
       ELSE \E i \in 1 .. Len(Asker.net_keys) :
               /\ Asker.net_keys[i] = clear.key
               /\ heard = Net!ParseAccess(plain, Meta(Asker.info, i, clear, "ours"))
  BY <1>5, Processed
<1>13. CASE ~ (last.from < 32768)
  <2>1. heard = Net!Nothing
    BY <1>6, <1>10, <1>13
  <2>2. heard.result # "access"
    BY <2>1 DEF Net!Nothing
  <2> QED
    BY <1>13, <2>2
<1>11. CASE last.from < 32768 /\ ~ OpenedBy(Asker, clear, "ours", nonce)
  <2>1. heard = Net!Error
    BY <1>3, <1>6, <1>7, <1>10, <1>11
  <2>2. heard.result # "access"
    BY <2>1 DEF Net!Error
  <2> QED
    BY <1>9, <1>11, <2>2
<1>12. CASE last.from < 32768 /\ OpenedBy(Asker, clear, "ours", nonce)
  <2>1. PICK i : heard = Net!ParseAccess(plain, Meta(Asker.info, i, clear, "ours"))
    BY <1>3, <1>6, <1>7, <1>10, <1>12
  <2> DEFINE meta == Meta(Asker.info, i, clear, "ours")
  <2>2. /\ Access!Split(plain) = <<[opcode |-> SplitOf(OpcodeOf(last.message)),
                                    parameters |-> EmitParameters(last.message)]>>
        /\ SplitOf(OpcodeOf(last.message)) = OpcodeOf(last.message) <=> Survives(last.message)
    BY SplitMessage DEF SaidSo, Says, plain
  <2>3. meta.local = Net!LocalElementIndex(Asker.info, last.to.dst)
    BY <1>3 DEF Meta
  <2>4. Net!LocalElementIndex(Asker.info, last.to.dst) = IF last.to.dst = 0 THEN <<>> ELSE <<0>>
    BY <1>1, <1>4 DEF Net!LocalElementIndex, Net!Difference, Net!IsUnicast
  <2> HIDE DEF meta
  <2>5. heard = [result |-> "access", opcode |-> SplitOf(OpcodeOf(last.message)),
                 parameters |-> EmitParameters(last.message), meta |-> meta]
    BY <2>1, <2>2 DEF Net!ParseAccess, meta
  <2>6. /\ heard.result = "access" /\ heard.opcode = SplitOf(OpcodeOf(last.message))
        /\ heard.parameters = EmitParameters(last.message) /\ heard.meta = meta
    BY <2>5
  <2>7. heard.meta.local = IF last.to.dst = 0 THEN <<>> ELSE <<0>>
    BY <2>3, <2>4, <2>6
  <2>8. heard.opcode = OpcodeOf(last.message) <=> Survives(last.message)
    BY <2>2, <2>6
  <2>9. heard.result = "access" <=> upper.seq % Net!Seqs = pdu.seq % Net!Seqs /\ last.from < 32768
    BY <1>9, <1>12, <2>6
  <2> QED
    BY <2>6, <2>7, <2>8, <2>9
<1> QED
  BY <1>11, <1>12, <1>13

(* The number that the last PDU of a message lends, and how many there are. *)
LEMMA LastOfWire ==
    ASSUME Cut, Sent, NEW pdu, pdu = LastOf(wire)
    PROVE  /\ pdu.seq \in Nat
           /\ Cardinality(wire) = 1 <=> upper.seq % Net!Seqs = pdu.seq % Net!Seqs
<1>0. upper.seq \in Nat /\ upper.len \in Nat /\ upper.len <= 380
  BY CutBounds
<1>1. CASE ~ Segmented
  <2> DEFINE only == [seq |-> upper.seq, header |-> <<>>]
  <2>1. wire = {only}
    BY <1>1 DEF Sent
  <2>2. only.seq = upper.seq
    OBVIOUS
  <2> HIDE DEF only
  <2>3. pdu = only
    <3>1. only.seq <= only.seq
      BY <1>0, <2>2
    <3> QED
      BY <2>1, <3>1 DEF LastOf
  <2>4. Cardinality(wire) = 1
    BY <1>1, WireCount
  <2> QED
    BY <1>0, <2>2, <2>3, <2>4
<1>2. CASE Segmented
  <2> DEFINE n == Chunks(upper.len)
             Pdu(i) == [seq |-> SegmentSeq(upper.seq, i), header |-> Emit(Lower(upper.seq, upper.len, i))]
  <2>1. n \in Nat /\ 2 <= n /\ n <= 32
    <3>1. upper.len > 15
      BY <1>2 DEF Segmented, NonSegmented
    <3>2. PICK len \in Nat : len = upper.len
      BY <1>0
    <3>3. len > 15 /\ len <= 380
      BY <1>0, <3>1, <3>2
    <3>4. (len + 11) \div 12 \in Nat /\ 2 <= (len + 11) \div 12 /\ (len + 11) \div 12 <= 32
      BY <3>3
    <3>5. n = (len + 11) \div 12
      BY <3>2 DEF Chunks, MTU
    <3> QED
      BY <3>4, <3>5
  <2>2. wire = {Pdu(i) : i \in 0 .. n - 1}
    BY <1>2 DEF Sent
  <2>3. \A i : Pdu(i).seq = upper.seq + i
    BY DEF SegmentSeq
  <2> HIDE DEF n, Pdu
  <2>4. Pdu(n - 1) \in wire /\ Pdu(0) \in wire
    BY <2>1, <2>2
  <2>5. \A q \in wire : q.seq \in Nat /\ q.seq <= Pdu(n - 1).seq
    <3> SUFFICES ASSUME NEW i \in 0 .. n - 1 PROVE Pdu(i).seq \in Nat /\ Pdu(i).seq <= Pdu(n - 1).seq
      BY <2>2
    <3>1. i \in Nat /\ i <= n - 1
      BY <2>1
    <3> QED
      BY <1>0, <2>1, <2>3, <3>1
  <2>6. pdu \in wire /\ \A q \in wire : q.seq <= pdu.seq
    BY <2>4, <2>5 DEF LastOf
  <2>7. pdu.seq = upper.seq + (n - 1)
    <3>1. pdu.seq \in Nat /\ pdu.seq <= Pdu(n - 1).seq /\ Pdu(n - 1).seq <= pdu.seq
      BY <2>4, <2>5, <2>6
    <3>2. Pdu(n - 1).seq = upper.seq + (n - 1)
      BY <2>3
    <3> QED
      BY <1>0, <2>1, <3>1, <3>2
  <2>8. upper.seq % Net!Seqs # pdu.seq % Net!Seqs
    <3>1. n - 1 \in Nat /\ 1 <= n - 1 /\ n - 1 <= 31
      BY <2>1
    <3> QED
      BY <1>0, <2>7, <3>1, NumbersDiffer
  <2>9. Cardinality(wire) # 1
    <3>1. Pdu(0) # Pdu(n - 1)
      BY <1>0, <2>1, <2>3
    <3>2. ~ \E x : wire = {x}
      BY <2>4, <3>1
    <3>3. IsFiniteSet(wire)
      BY WireCount
    <3> QED
      BY <3>2, <3>3, FS_Singleton, Zenon
  <2>10. pdu.seq \in Nat
    BY <2>5, <2>6
  <2> QED
    BY <2>8, <2>9, <2>10
<1> QED
  BY <1>1, <1>2

(***************************************************************************)
(* Whatever a device answers, under whatever provisioning, to whomever of  *)
(* its network: the answer comes from one of its first four elements, is   *)
(* opened by who asked exactly if it went out in one PDU from an address   *)
(* that is unicast, and arrives with its parameters as they were, with its *)
(* opcode exactly if that Survives.                                        *)
(***************************************************************************)
THEOREM AnswersReachAskers == StackSpec => []AnswerReachesAsker
<1>1. Coherent => AnswerReachesAsker
  <2> SUFFICES ASSUME Coherent PROVE AnswerReachesAsker
    OBVIOUS
  <2>1. last.what = "unsent" => last.element >= Access!MaxElements /\ ~ running
    BY DEF Coherent, UnsentSo
  <2>2. ASSUME last.what = "said", NEW heard, heard = AskerHears(LastOf(wire))
        PROVE  /\ last.from \in node.info.primary .. node.info.primary + 3
               /\ heard.result = "access" <=> Cardinality(wire) = 1 /\ last.from < 32768
               /\ heard.result = "access" =>
                     /\ heard.meta.local = IF last.to.dst = 0 THEN <<>> ELSE <<0>>
                     /\ heard.parameters = EmitParameters(last.message)
                     /\ heard.opcode = OpcodeOf(last.message) <=> Survives(last.message)
    <3>1. Cut /\ SaidSo /\ Sent /\ IsJoined(node) /\ upper.seq \in Nat
      BY <2>2, CutBounds DEF Coherent, SaidSo
    <3>2. last.from \in node.info.primary .. node.info.primary + 3
      <4>1. /\ last.from \in Nat /\ last.from >= node.info.primary /\ last.from <= node.info.primary + 3
            /\ node.info.primary \in Nat
        BY <2>2, <3>1, AskerIs
      <4>2. PICK a \in Nat, b \in Nat : a = last.from /\ b = node.info.primary
        BY <4>1
      <4>3. a \in b .. b + 3
        BY <4>1, <4>2
      <4> QED
        BY <4>2, <4>3
    <3>3. PICK pdu : pdu = LastOf(wire)
      OBVIOUS
    <3>4. /\ pdu.seq \in Nat
          /\ Cardinality(wire) = 1 <=> upper.seq % Net!Seqs = pdu.seq % Net!Seqs
      BY <3>1, <3>3, LastOfWire
    <3>5. /\ heard.result = "access" <=> upper.seq % Net!Seqs = pdu.seq % Net!Seqs /\ last.from < 32768
          /\ heard.result = "access" =>
                /\ heard.meta.local = IF last.to.dst = 0 THEN <<>> ELSE <<0>>
                /\ heard.parameters = EmitParameters(last.message)
                /\ heard.opcode = OpcodeOf(last.message) <=> Survives(last.message)
      BY <2>2, <3>1, <3>3, <3>4, AskerMakes
    <3> QED
      BY <3>2, <3>4, <3>5
  <2> QED
    BY <2>1, <2>2 DEF AnswerReachesAsker
<1> QED
  BY <1>1, StackCoherent, PTL

-----------------------------------------------------------------------------
(* Requests. *)

(* The opcodes of requests are told apart, and from what follows them.     *)
LEMMA RequestSplits ==
    ASSUME NEW kind \in RequestKinds, NEW p \in Seq(Octet)
    PROVE  LET split == Access!Split(Access!OpcodeOf(kind) \o p)[1]
           IN  /\ Access!Split(Access!OpcodeOf(kind) \o p) # <<>>
               /\ split.parameters = p
               /\ \A k \in RequestKinds : Access!OpcodeOf(k) = split.opcode <=> k = kind
<1> DEFINE splits == Access!Split(Access!OpcodeOf(kind) \o p)
           split == splits[1]
<1>1. splits = <<[opcode |-> Access!OpcodeOf(kind), parameters |-> p]>>
  <2>1. ASSUME NEW a \in Octet, a < 64, Access!OpcodeOf(kind) = <<a>>
        PROVE  splits = <<[opcode |-> Access!OpcodeOf(kind), parameters |-> p]>>
    <3>1. a < 128 /\ a % 64 = a
      <4>1. a \in Nat
        BY DEF Octet
      <4> QED
        BY <2>1, <4>1
    <3>2. Access!Split(<<a>> \o p) = <<[opcode |-> <<a>>, parameters |-> p]>>
      BY <3>1, SplitShort
    <3> QED
      BY <2>1, <3>2
  <2>2. ASSUME NEW a \in Octet, NEW b \in Octet, 128 <= a, a < 192, Access!OpcodeOf(kind) = <<a, b>>
        PROVE  splits = <<[opcode |-> Access!OpcodeOf(kind), parameters |-> p]>>
    <3>1. Access!Split(<<a, b>> \o p) = <<[opcode |-> <<a, b>>, parameters |-> p]>>
      BY <2>2, SplitLong
    <3> QED
      BY <2>2, <3>1
  <2>3. /\ 0 \in Octet /\ 0 < 64 /\ 3 \in Octet /\ 3 < 64 /\ 128 \in Octet /\ 128 <= 128 /\ 128 < 192
        /\ 61 \in Octet /\ 63 \in Octet /\ 26 \in Octet /\ 27 \in Octet /\ 32 \in Octet
    BY DEF Octet
  <2>4. CASE kind = "AppKeyAdd"
    BY <2>1, <2>3, <2>4, AccessOpcodes
  <2>5. CASE kind = "PublicationSet"
    BY <2>1, <2>3, <2>5, AccessOpcodes
  <2>6. CASE kind = "ModelAppBind"
    <3>1. Access!OpcodeOf(kind) = <<128, 61>>
      BY <2>6, AccessOpcodes
    <3> QED
      BY ONLY <2>2, <2>3, <3>1
  <2>7. CASE kind = "ModelAppUnbind"
    <3>1. Access!OpcodeOf(kind) = <<128, 63>>
      BY <2>7, AccessOpcodes
    <3> QED
      BY ONLY <2>2, <2>3, <3>1
  <2>8. CASE kind = "PublicationVirtualSet"
    <3>1. Access!OpcodeOf(kind) = <<128, 26>>
      BY <2>8, AccessOpcodes
    <3> QED
      BY ONLY <2>2, <2>3, <3>1, Zenon
  <2>9. CASE kind = "SubscriptionAdd"
    <3>1. Access!OpcodeOf(kind) = <<128, 27>>
      BY <2>9, AccessOpcodes
    <3> QED
      BY ONLY <2>2, <2>3, <3>1, Zenon
  <2>10. CASE kind = "SubscriptionVirtualAdd"
    <3>1. Access!OpcodeOf(kind) = <<128, 32>>
      BY <2>10, AccessOpcodes
    <3> QED
      BY ONLY <2>2, <2>3, <3>1
  <2> QED
    BY <2>4, <2>5, <2>6, <2>7, <2>8, <2>9, <2>10 DEF RequestKinds
<1>2. \A k \in RequestKinds : Access!OpcodeOf(k) = Access!OpcodeOf(kind) => k = kind
  <2>1. /\ Access!OpcodeOf("AppKeyAdd") = <<0>>
        /\ Access!OpcodeOf("ModelAppBind") = <<128, 61>>
        /\ Access!OpcodeOf("ModelAppUnbind") = <<128, 63>>
        /\ Access!OpcodeOf("PublicationSet") = <<3>>
        /\ Access!OpcodeOf("PublicationVirtualSet") = <<128, 26>>
        /\ Access!OpcodeOf("SubscriptionAdd") = <<128, 27>>
        /\ Access!OpcodeOf("SubscriptionVirtualAdd") = <<128, 32>>
    BY AccessOpcodes, SMTT(60)
  <2> QED
    BY ONLY <2>1, SMTT(60) DEF RequestKinds
<1>21. splits # <<>> /\ split.opcode = Access!OpcodeOf(kind) /\ split.parameters = p
  <2> HIDE DEF splits
  <2> QED
    BY <1>1
<1> HIDE DEF splits, split
<1>3. splits # <<>> /\ split.parameters = p /\ \A k \in RequestKinds : Access!OpcodeOf(k) = split.opcode <=> k = kind
  BY <1>2, <1>21
<1> QED
  BY <1>3 DEF split, splits

(* Every request of the seven kinds in the format of the mesh, whatever its *)
(* octets, is read by the configuration server, but the adding of a        *)
(* subscription to an address, which halts the device.                     *)
THEOREM RequestsRead == StackSpec => []RequestsAreRead
<1>1. Coherent => RequestsAreRead
  <2> SUFFICES ASSUME Coherent, last.what = "asked" PROVE RequestsAreRead
    BY DEF RequestsAreRead
  <2> DEFINE split == Access!Split(last.octets)[1]
             asked == CHOOSE k \in RequestKinds : Access!OpcodeOf(k) = split.opcode
  <2>1. last.octets \in Requests /\ (running <=> ~ Panics(last.octets))
    BY DEF Coherent, AskedSo
  <2>2. PICK kind \in RequestKinds, p \in Seq(Octet) : last.octets = Access!OpcodeOf(kind) \o p /\ IsRequest(kind, p)
    BY <2>1, StackAssumption, Zenon DEF IsRequest
  <2>3. Access!Split(last.octets) # <<>>
    BY <2>2, RequestSplits
  <2>4. split.parameters = p /\ \A k \in RequestKinds : Access!OpcodeOf(k) = split.opcode <=> k = kind
    BY <2>2, RequestSplits
  <2> HIDE DEF split
  <2>5. asked = kind
    BY <2>4
  <2> HIDE DEF asked
  <2>6. Panics(last.octets) <=> kind = "SubscriptionAdd" /\ Len(p) \in {6, 8}
    <3>1. split.opcode = Access!OpcodeOf("SubscriptionAdd") <=> kind = "SubscriptionAdd"
      <4>1. "SubscriptionAdd" \in RequestKinds
        BY DEF RequestKinds
      <4> QED
        BY <2>4, <4>1
    <3>2. ASSUME kind = "SubscriptionAdd"
          PROVE  Access!Panics("SubscriptionAdd", p) <=> Len(p) \in {6, 8}
      <4>1. Len(p) \in {6, 8, 11, 13} /\ IsUnicast(p, 1) /\ IsUnicast(p, 3)
        BY <2>2, <3>2 DEF IsRequest
      <4>2. Access!IsUnicast(Access!Number(p[2], p[1])) /\ Access!IsUnicast(Access!Number(p[4], p[3]))
        BY <4>1 DEF IsUnicast, Number, Access!Number
      <4>3. PICK n \in Nat : n = Len(p)
        BY <2>3
      <4>4. n \in 6 .. 8 <=> n \in {6, 8}
        BY <4>1, <4>3, SMTT(60)
      <4> QED
        BY <4>2, <4>3, <4>4, Zenon DEF Access!Panics
    <3> QED
      <4>1. Panics(last.octets) <=> split.opcode = Access!OpcodeOf("SubscriptionAdd")
                                    /\ Access!Panics("SubscriptionAdd", split.parameters)
        BY <2>3 DEF Panics, split
      <4> QED
        BY <2>4, <3>1, <3>2, <4>1
  <2>7. running => Access!ParseConfiguration(Access!OpcodeOf(kind), p) # <<>>
    BY <2>1, <2>2, <2>6, RequestIsRead
  <2>8. split.opcode = Access!OpcodeOf(kind)
    BY <2>4
  <2> QED
    BY <2>1, <2>4, <2>5, <2>6, <2>7, <2>8 DEF RequestsAreRead, asked, split
<1> QED
  BY <1>1, StackCoherent, PTL

-----------------------------------------------------------------------------
(* What a device says is read by the models of a peer exactly where its    *)
(* opcode survives, the kind is read at all and its fields are kept: for   *)
(* every message that fits, of whatever element and sensors.               *)
THEOREM MessagesAreRead == StackSpec => []ReadsBack
<1>1. Coherent => ReadsBack
  BY MessagesReadBack DEF Coherent, SaidSo, Says, ReadsBack
<1> QED
  BY <1>1, StackCoherent, PTL
=============================================================================
