----------------------- MODULE ReplayProtectionProofs -----------------------
(***************************************************************************)
(* What is proved of ReplayProtection: its inductive invariant, and that   *)
(* accepted PDUs ascend as long as the IV index is not on a wrap of the 16 *)
(* bits an entry keeps.                                                    *)
(***************************************************************************)
EXTENDS ReplayProtection, FiniteSetTheorems, TLAPS

(* The stamps of the two accepted IV indexes are numbers.                  *)
LEMMA StampTypes ==
    ASSUME NEW stamp \in Stamps
    PROVE  /\ stamp.iv \in Nat /\ stamp.seq \in Nat
           /\ stamp # NoStamp
           /\ Masked(stamp) \in Entries
<1>1. stamp.iv \in Nat /\ stamp.seq \in 0 .. MaxSeq
  BY ReplayAssumption DEF Stamps, IvMinusOne
<1>2. stamp.iv % IvModulus \in 0 .. IvModulus - 1
  BY <1>1, ReplayAssumption
<1>3. Masked(stamp) \in Entries
  BY <1>1, <1>2 DEF Masked, Entries
<1> QED
  BY <1>1, <1>3, ReplayAssumption DEF NoStamp

(* Moving an entry to the front keeps the same sources, each once, and puts*)
(* only the moved one ahead of others.                                     *)
LEMMA ToFrontKeeps ==
    ASSUME order \in Seq(Sources), NEW k \in 1 .. Len(order)
    PROVE  /\ ToFront(k) \in Seq(Sources)
           /\ Len(ToFront(k)) = Len(order)
           /\ \A i \in 1 .. Len(order) :
                 ToFront(k)[i] = IF i = 1 THEN order[k]
                                 ELSE IF i <= k THEN order[i - 1] ELSE order[i]
<1>1. /\ Len(order) \in Nat
      /\ \A i \in 1 .. Len(order) : order[i] \in Sources
  OBVIOUS
<1>2. \A i \in 1 .. Len(order) :
         (IF i = 1 THEN order[k] ELSE IF i <= k THEN order[i - 1] ELSE order[i]) \in Sources
  BY <1>1
<1> QED
  BY <1>1, <1>2 DEF ToFront

(* What an insertion leaves, and its length.                               *)
LEMMA PushedKeeps ==
    ASSUME order \in Seq(Sources), Len(order) <= CacheSize, NEW src \in Sources
    PROVE  /\ Pushed(src) \in Seq(Sources)
           /\ Len(Pushed(src)) = IF Len(order) < CacheSize THEN Len(order) + 1 ELSE CacheSize
           /\ \A i \in 1 .. Len(Pushed(src)) :
                 Pushed(src)[i] = IF i = 1 THEN src ELSE order[i - 1]
<1> DEFINE n == IF Len(order) < CacheSize THEN Len(order) + 1 ELSE CacheSize
<1>1. /\ Len(order) \in Nat /\ n \in Nat /\ n <= Len(order) + 1
      /\ \A i \in 1 .. Len(order) : order[i] \in Sources
  BY ReplayAssumption
<1>2. \A i \in 1 .. n : (IF i = 1 THEN src ELSE order[i - 1]) \in Sources
  BY <1>1
<1>3. Pushed(src) = [i \in 1 .. n |-> IF i = 1 THEN src ELSE order[i - 1]]
  BY DEF Pushed
<1> HIDE DEF n
<1>4. /\ Pushed(src) \in Seq(Sources) /\ Len(Pushed(src)) = n
      /\ \A i \in 1 .. n : Pushed(src)[i] = IF i = 1 THEN src ELSE order[i - 1]
  BY <1>1, <1>2, <1>3
<1> QED
  BY <1>4 DEF n

(* Heard sources only accumulate, for everyone but the one just heard.     *)
LEMMA SinceGrows ==
    ASSUME TypeOK, NEW src \in Sources,
           since' = [s \in Sources |-> IF s = src THEN {} ELSE since[s] \cup {src}]
    PROVE  /\ since' \in [Sources -> SUBSET Sources]
           /\ \A s \in Sources \ {src} : Cardinality(since[s]) <= Cardinality(since'[s])
           /\ \A s \in Sources : /\ Cardinality(since[s]) \in Nat
                                 /\ Cardinality(since'[s]) \in Nat
                                 /\ IsFiniteSet(since'[s])
<1>1. since' \in [Sources -> SUBSET Sources]
  BY DEF TypeOK
<1>2. \A s \in Sources : IsFiniteSet(since[s]) /\ IsFiniteSet(since'[s])
  BY <1>1, ReplayAssumption, FS_Subset DEF TypeOK
<1>3. ASSUME NEW s \in Sources \ {src}
      PROVE  Cardinality(since[s]) <= Cardinality(since'[s])
  <2>1. since[s] \in SUBSET since'[s]
    OBVIOUS
  <2> QED
    BY <1>2, <2>1, FS_Subset
<1>4. \A s \in Sources : Cardinality(since[s]) \in Nat /\ Cardinality(since'[s]) \in Nat
  BY <1>2, FS_CardinalityType
<1> QED
  BY <1>1, <1>2, <1>3, <1>4

(* A hit keeps the cache in order and forgets no source.                   *)
LEMMA HitKeeps ==
    ASSUME TypeOK, CacheInv, RecencyInv,
           NEW src \in Sources, NEW k \in 1 .. Len(order), order[k] = src,
           order' = ToFront(k),
           since' = [s \in Sources |-> IF s = src THEN {} ELSE since[s] \cup {src}]
    PROVE  /\ order' \in Seq(Sources)
           /\ CacheInv' /\ RecencyInv'
           /\ \A s \in Sources : Cached(s)' <=> Cached(s)
<1>1. /\ order' \in Seq(Sources) /\ Len(order') = Len(order)
      /\ \A i \in 1 .. Len(order) :
            order'[i] = IF i = 1 THEN src ELSE IF i <= k THEN order[i - 1] ELSE order[i]
  BY ToFrontKeeps DEF TypeOK
<1>2. /\ Len(order) \in Nat /\ Len(order) <= CacheSize
      /\ \A i, j \in 1 .. Len(order) : order[i] = order[j] => i = j
      /\ \A i \in 1 .. Len(order) : order[i] \in Sources
  BY DEF TypeOK, CacheInv
<1> DEFINE pos(i) == IF i = 1 THEN k ELSE IF i <= k THEN i - 1 ELSE i
<1>a. \A i \in 1 .. Len(order) : pos(i) \in 1 .. Len(order) /\ order'[i] = order[pos(i)]
  BY <1>1, <1>2
<1>b. \A i, j \in 1 .. Len(order) : pos(i) = pos(j) => i = j
  BY <1>2
<1>3. CacheInv'
  <2>1. \A i, j \in 1 .. Len(order) : order'[i] = order'[j] => i = j
    <3> SUFFICES ASSUME NEW i \in 1 .. Len(order), NEW j \in 1 .. Len(order),
                        order'[i] = order'[j]
                 PROVE  i = j
      OBVIOUS
    <3> HIDE DEF pos
    <3>1. pos(i) \in 1 .. Len(order) /\ pos(j) \in 1 .. Len(order)
      BY <1>a
    <3>2. order[pos(i)] = order[pos(j)]
      BY <1>a
    <3>3. pos(i) = pos(j)
      BY <1>2, <3>1, <3>2
    <3> QED
      BY <1>b, <3>3
  <2> QED
    BY <1>1, <1>2, <2>1 DEF CacheInv
<1>4. RecencyInv'
  <2> SUFFICES ASSUME NEW j \in 1 .. Len(order), NEW i \in 1 .. j - 1
               PROVE  order'[i] \in since'[order'[j]]
    BY <1>1 DEF RecencyInv
  <2>1. i \in 1 .. Len(order) /\ j # 1 /\ i < j
    BY <1>2
  <2>2. order'[j] # src /\ order'[j] \in Sources
    <3>1. pos(j) # k
      BY <2>1, <1>2
    <3> HIDE DEF pos
    <3>2. pos(j) \in 1 .. Len(order) /\ order'[j] = order[pos(j)]
      BY <1>a
    <3>3. order[pos(j)] # order[k]
      BY <1>2, <3>1, <3>2
    <3> QED
      BY <1>2, <3>2, <3>3
  <2>3. since'[order'[j]] = since[order'[j]] \cup {src}
    BY <2>2
  <2>4. CASE i = 1
    BY <1>1, <2>1, <2>3, <2>4
  <2>5. CASE i # 1
    <3> DEFINE from(x) == IF x <= k THEN x - 1 ELSE x
    <3>1. /\ order'[i] = order[from(i)] /\ order'[j] = order[from(j)]
          /\ from(j) \in 1 .. Len(order) /\ from(i) \in 1 .. from(j) - 1
      BY <1>1, <1>2, <2>1, <2>5
    <3>2. order[from(i)] \in since[order[from(j)]]
      BY <3>1 DEF RecencyInv
    <3> QED
      BY <2>3, <3>1, <3>2
  <2> QED
    BY <2>4, <2>5
<1>5. ASSUME NEW s \in Sources
      PROVE  Cached(s)' <=> Cached(s)
  <2>1. ASSUME NEW i \in 1 .. Len(order), order[i] = s
        PROVE  \E m \in 1 .. Len(order) : order'[m] = s
    <3>1. CASE i = k
      BY <1>1, <1>2, <2>1, <3>1
    <3>2. CASE i < k
      <4>1. i + 1 \in 1 .. Len(order) /\ order'[i + 1] = s
        BY <1>1, <1>2, <2>1, <3>2
      <4> QED
        BY <4>1
    <3>3. CASE i > k
      BY <1>1, <1>2, <2>1, <3>3
    <3> QED
      BY <1>2, <3>1, <3>2, <3>3
  <2>2. ASSUME NEW i \in 1 .. Len(order), order'[i] = s
        PROVE  \E m \in 1 .. Len(order) : order[m] = s
    <3>1. CASE i = 1
      BY <1>1, <2>2, <3>1
    <3>2. CASE i # 1 /\ i <= k
      <4>1. i - 1 \in 1 .. Len(order) /\ order[i - 1] = s
        BY <1>1, <1>2, <2>2, <3>2
      <4> QED
        BY <4>1
    <3>3. CASE i > k
      BY <1>1, <1>2, <2>2, <3>3
    <3> QED
      BY <1>2, <3>1, <3>2, <3>3
  <2> QED
    BY <1>1, <2>1, <2>2 DEF Cached
<1> QED
  BY <1>1, <1>3, <1>4, <1>5

(* A miss keeps the cache in order; the only source it can forget is the   *)
(* last one, and CacheSize others have been heard since that one.          *)
LEMMA MissKeeps ==
    ASSUME TypeOK, CacheInv, RecencyInv,
           NEW src \in Sources, ~Cached(src),
           order' = Pushed(src),
           since' = [s \in Sources |-> IF s = src THEN {} ELSE since[s] \cup {src}]
    PROVE  /\ order' \in Seq(Sources)
           /\ CacheInv' /\ RecencyInv'
           /\ Cached(src)'
           /\ \A s \in Sources \ {src} :
                 /\ Cached(s)' => Cached(s)
                 /\ Cached(s) /\ ~Cached(s)' => Cardinality(since'[s]) >= CacheSize
<1> DEFINE n == IF Len(order) < CacheSize THEN Len(order) + 1 ELSE CacheSize
<1>1. /\ order' \in Seq(Sources) /\ Len(order') = n
      /\ \A i \in 1 .. n : order'[i] = IF i = 1 THEN src ELSE order[i - 1]
  BY PushedKeeps DEF TypeOK, CacheInv
<1>2. /\ Len(order) \in Nat /\ Len(order) <= CacheSize
      /\ \A i, j \in 1 .. Len(order) : order[i] = order[j] => i = j
      /\ \A i \in 1 .. Len(order) : order[i] \in Sources /\ order[i] # src
  BY DEF TypeOK, CacheInv, Cached
<1>3. /\ n \in 1 .. CacheSize /\ n <= Len(order) + 1 /\ Len(order) <= n
      /\ n = Len(order) => n = CacheSize
  BY <1>2, ReplayAssumption
<1> HIDE DEF n
<1>4. ASSUME NEW i \in 1 .. n, i # 1
      PROVE  i - 1 \in 1 .. Len(order) /\ order'[i] = order[i - 1] /\ order'[i] # src
  BY <1>1, <1>2, <1>3, <1>4
<1>5. order'[1] = src /\ 1 \in 1 .. n
  BY <1>1, <1>3
<1>6. \A i, j \in 1 .. n : order'[i] = order'[j] => i = j
  <2> SUFFICES ASSUME NEW i \in 1 .. n, NEW j \in 1 .. n, order'[i] = order'[j]
               PROVE  i = j
    OBVIOUS
  <2>1. CASE i = 1 \/ j = 1
    BY <1>4, <1>5, <2>1
  <2>2. CASE i # 1 /\ j # 1
    <3>1. i - 1 = j - 1
      BY <1>2, <1>4, <2>2
    <3> QED
      BY <3>1
  <2> QED
    BY <2>1, <2>2
<1>7. CacheInv'
  BY <1>1, <1>3, <1>6 DEF CacheInv
<1>8. RecencyInv'
  <2> SUFFICES ASSUME NEW j \in 1 .. n, NEW i \in 1 .. j - 1
               PROVE  order'[i] \in since'[order'[j]]
    BY <1>1 DEF RecencyInv
  <2>1. i \in 1 .. n /\ j # 1 /\ i < j
    BY <1>3
  <2>2. /\ j - 1 \in 1 .. Len(order) /\ order'[j] = order[j - 1]
        /\ since'[order'[j]] = since[order[j - 1]] \cup {src}
    BY <1>2, <1>4, <2>1
  <2>3. CASE i = 1
    BY <1>5, <2>2, <2>3
  <2>4. CASE i # 1
    <3>1. order'[i] = order[i - 1] /\ i - 1 \in 1 .. (j - 1) - 1
      BY <1>4, <2>1, <2>4
    <3>2. order[i - 1] \in since[order[j - 1]]
      BY <2>2, <3>1 DEF RecencyInv
    <3> QED
      BY <2>2, <3>1, <3>2
  <2> QED
    BY <2>3, <2>4
<1>9. Cached(src)'
  BY <1>1, <1>5 DEF Cached
<1>10. ASSUME NEW s \in Sources \ {src}, Cached(s)'
       PROVE  Cached(s)
  <2>1. PICK i \in 1 .. n : order'[i] = s
    BY <1>1, <1>10 DEF Cached
  <2>2. i # 1
    BY <1>5, <2>1
  <2> QED
    BY <1>4, <2>1, <2>2 DEF Cached
<1>11. ASSUME NEW s \in Sources \ {src}, Cached(s), ~Cached(s)'
       PROVE  Cardinality(since'[s]) >= CacheSize
  <2>1. PICK k \in 1 .. Len(order) : order[k] = s
    BY <1>11 DEF Cached
  <2>2. k + 1 \notin 1 .. n
    <3>1. ASSUME k + 1 \in 1 .. n
          PROVE  order'[k + 1] = s
      BY <1>1, <2>1, <3>1
    <3> QED
      BY <1>1, <1>11, <3>1 DEF Cached
  <2>3. n = CacheSize /\ k = CacheSize /\ Len(order) = CacheSize
    BY <1>2, <1>3, <2>1, <2>2
  <2>4. ASSUME NEW i \in 1 .. CacheSize
        PROVE  order'[i] \in since'[s]
    <3>1. since'[s] = since[s] \cup {src}
      OBVIOUS
    <3>2. CASE i = 1
      BY <1>5, <3>1, <3>2
    <3>3. CASE i # 1
      <4>1. order'[i] = order[i - 1] /\ i - 1 \in 1 .. k - 1
        BY <1>4, <2>3, <3>3
      <4>2. order[i - 1] \in since[s]
        BY <2>1, <4>1 DEF RecencyInv
      <4> QED
        BY <3>1, <4>1, <4>2
    <3> QED
      BY <3>2, <3>3
  <2>5. order' \in Injection(1 .. CacheSize, since'[s])
    <3>1. DOMAIN order' = 1 .. CacheSize /\ order' = [i \in DOMAIN order' |-> order'[i]]
      BY <1>1, <2>3
    <3>2. order' \in [1 .. CacheSize -> since'[s]]
      BY <2>4, <3>1
    <3> QED
      BY <1>6, <2>3, <3>2 DEF Injection, IsInjective
  <2>6. Cardinality(1 .. CacheSize) = CacheSize
    BY FS_Interval, ReplayAssumption
  <2>7. IsFiniteSet(since'[s])
    BY SinceGrows
  <2>8. Cardinality(1 .. CacheSize) <= Cardinality(since'[s])
    BY <2>5, <2>7, FS_Injection
  <2>9. Cardinality(since'[s]) \in Nat
    BY <2>7, FS_CardinalityType
  <2> QED
    BY <2>6, <2>8, <2>9, ReplayAssumption
<1> QED
  BY <1>1, <1>7, <1>8, <1>9, <1>10, <1>11

(***************************************************************************)
(* The cache never holds a source twice or more than CacheSize entries,    *)
(* and a source missing from it was pushed out by CacheSize others: this   *)
(* is what makes an accepted PDU trustworthy.                              *)
(***************************************************************************)
THEOREM ReplayInvHolds == Spec => []ReplayInv
<1>1. Init => ReplayInv
  <2> SUFFICES ASSUME Init
               PROVE  ReplayInv
    OBVIOUS
  <2>1. Len(order) = 0 /\ order \in Seq(Sources)
    BY DEF Init
  <2>2. TypeOK
    BY <2>1 DEF Init, TypeOK, Entries
  <2>3. CacheInv /\ RecencyInv
    BY <2>1, ReplayAssumption DEF CacheInv, RecencyInv
  <2>4. EvictionInv
    BY DEF Init, EvictionInv
  <2> QED
    BY <2>2, <2>3, <2>4 DEF ReplayInv
<1>2. ReplayInv /\ [Next]_vars => ReplayInv'
  <2> SUFFICES ASSUME ReplayInv, [Next]_vars
               PROVE  ReplayInv'
    OBVIOUS
  <2>1. ASSUME NEW src \in Sources, NEW stamp \in Stamps, Replayed(src, stamp)
        PROVE  ReplayInv'
    <3>1. PICK k \in 1 .. Len(order) : order[k] = src /\ order' = ToFront(k)
      BY <2>1 DEF Replayed
    <3>2. /\ flagged' = TRUE /\ last' = last /\ entry' = entry
          /\ since' = [s \in Sources |-> IF s = src THEN {} ELSE since[s] \cup {src}]
      BY <2>1 DEF Replayed, Hear
    <3>3. /\ order' \in Seq(Sources) /\ CacheInv' /\ RecencyInv'
          /\ \A s \in Sources : Cached(s)' <=> Cached(s)
      BY <3>1, <3>2, HitKeeps DEF ReplayInv
    <3>4. Cached(src)
      BY <3>1 DEF Cached
    <3>5. TypeOK'
      BY <3>2, <3>3, SinceGrows DEF ReplayInv, TypeOK
    <3>6. EvictionInv'
      <4> SUFFICES ASSUME NEW s \in Sources, last[s] # NoStamp
                   PROVE  \/ Cached(s)' /\ entry[s] = Masked(last[s])
                          \/ ~Cached(s)' /\ Cardinality(since'[s]) >= CacheSize
        BY <3>2 DEF EvictionInv, Masked
      <4>1. \/ Cached(s) /\ entry[s] = Masked(last[s])
            \/ ~Cached(s) /\ Cardinality(since[s]) >= CacheSize
        BY DEF ReplayInv, EvictionInv
      <4>2. s # src => Cardinality(since'[s]) >= Cardinality(since[s])
        BY <3>2, SinceGrows DEF ReplayInv
      <4>3. Cardinality(since'[s]) \in Nat /\ Cardinality(since[s]) \in Nat
        BY <3>2, SinceGrows DEF ReplayInv
      <4> QED
        BY <3>3, <3>4, <4>1, <4>2, <4>3, ReplayAssumption
    <3> QED
      BY <3>3, <3>5, <3>6 DEF ReplayInv
  <2>2. ASSUME NEW src \in Sources, NEW stamp \in Stamps, Advanced(src, stamp)
        PROVE  ReplayInv'
    <3>1. PICK k \in 1 .. Len(order) : order[k] = src /\ order' = ToFront(k)
      BY <2>2 DEF Advanced
    <3>2. /\ flagged' = FALSE /\ last' = [last EXCEPT ![src] = stamp]
          /\ entry' = [entry EXCEPT ![src] = Masked(stamp)]
          /\ since' = [s \in Sources |-> IF s = src THEN {} ELSE since[s] \cup {src}]
      BY <2>2 DEF Advanced, Hear
    <3>3. /\ order' \in Seq(Sources) /\ CacheInv' /\ RecencyInv'
          /\ \A s \in Sources : Cached(s)' <=> Cached(s)
      BY <3>1, <3>2, HitKeeps DEF ReplayInv
    <3>4. Cached(src)
      BY <3>1 DEF Cached
    <3>5. TypeOK'
      BY <3>2, <3>3, SinceGrows, StampTypes DEF ReplayInv, TypeOK
    <3>6. EvictionInv'
      <4> SUFFICES ASSUME NEW s \in Sources, last'[s] # NoStamp
                   PROVE  \/ Cached(s)' /\ entry'[s] = Masked(last'[s])
                          \/ ~Cached(s)' /\ Cardinality(since'[s]) >= CacheSize
        BY DEF EvictionInv, Masked
      <4>1. CASE s = src
        BY <3>2, <3>3, <3>4, <4>1 DEF ReplayInv, TypeOK
      <4>2. CASE s # src
        <5>1. last'[s] = last[s] /\ entry'[s] = entry[s]
          BY <3>2, <4>2 DEF ReplayInv, TypeOK
        <5>2. \/ Cached(s) /\ entry[s] = Masked(last[s])
              \/ ~Cached(s) /\ Cardinality(since[s]) >= CacheSize
          BY <5>1 DEF ReplayInv, EvictionInv
        <5>3. /\ Cardinality(since'[s]) >= Cardinality(since[s])
              /\ Cardinality(since'[s]) \in Nat /\ Cardinality(since[s]) \in Nat
          BY <3>2, <4>2, SinceGrows DEF ReplayInv
        <5> QED
          BY <3>3, <5>1, <5>2, <5>3, ReplayAssumption
      <4> QED
        BY <4>1, <4>2
    <3> QED
      BY <3>3, <3>5, <3>6 DEF ReplayInv
  <2>3. ASSUME NEW src \in Sources, NEW stamp \in Stamps, FirstHeard(src, stamp)
        PROVE  ReplayInv'
    <3>1. /\ ~Cached(src) /\ order' = Pushed(src)
          /\ flagged' = FALSE /\ last' = [last EXCEPT ![src] = stamp]
          /\ entry' = [entry EXCEPT ![src] = Masked(stamp)]
          /\ since' = [s \in Sources |-> IF s = src THEN {} ELSE since[s] \cup {src}]
      BY <2>3 DEF FirstHeard, Hear
    <3>2. /\ order' \in Seq(Sources) /\ CacheInv' /\ RecencyInv' /\ Cached(src)'
          /\ \A s \in Sources \ {src} :
                /\ Cached(s)' => Cached(s)
                /\ Cached(s) /\ ~Cached(s)' => Cardinality(since'[s]) >= CacheSize
      BY <3>1, MissKeeps DEF ReplayInv
    <3>3. TypeOK'
      BY <3>1, <3>2, SinceGrows, StampTypes DEF ReplayInv, TypeOK
    <3>4. EvictionInv'
      <4> SUFFICES ASSUME NEW s \in Sources, last'[s] # NoStamp
                   PROVE  \/ Cached(s)' /\ entry'[s] = Masked(last'[s])
                          \/ ~Cached(s)' /\ Cardinality(since'[s]) >= CacheSize
        BY DEF EvictionInv, Masked
      <4>1. CASE s = src
        BY <3>1, <3>2, <4>1 DEF ReplayInv, TypeOK
      <4>2. CASE s # src
        <5>1. last'[s] = last[s] /\ entry'[s] = entry[s]
          BY <3>1, <4>2 DEF ReplayInv, TypeOK
        <5>2. \/ Cached(s) /\ entry[s] = Masked(last[s])
              \/ ~Cached(s) /\ Cardinality(since[s]) >= CacheSize
          BY <5>1 DEF ReplayInv, EvictionInv
        <5>3. /\ Cardinality(since'[s]) >= Cardinality(since[s])
              /\ Cardinality(since'[s]) \in Nat /\ Cardinality(since[s]) \in Nat
          BY <3>1, <4>2, SinceGrows DEF ReplayInv
        <5> QED
          BY <3>2, <4>2, <5>1, <5>2, <5>3, ReplayAssumption
      <4> QED
        BY <4>1, <4>2
    <3> QED
      BY <3>2, <3>3, <3>4 DEF ReplayInv
  <2>4. CASE UNCHANGED vars
    BY <2>4 DEF vars, ReplayInv, TypeOK, CacheInv, RecencyInv, EvictionInv, Cached
  <2> QED
    BY <2>1, <2>2, <2>3, <2>4 DEF Next
<1> QED
  BY <1>1, <1>2, PTL DEF Spec

(* The remainder of a predecessor, away from a multiple.                   *)
LEMMA PredecessorMod ==
    ASSUME NEW a \in Nat \ {0}, NEW m \in Nat \ {0}, a % m # 0
    PROVE  (a - 1) % m = (a % m) - 1
<1>1. PICK q \in Int, r \in 0 .. m - 1 : a = m * q + r /\ a % m = r
  <2> DEFINE d == a \div m
             e == a % m
  <2>1. d \in Int /\ e \in 0 .. m - 1 /\ a = m * d + e /\ a % m = e
    BY SMTT(60)
  <2> HIDE DEF d, e
  <2> QED
    BY <2>1
<1>2. a - 1 = m * q + (r - 1) /\ r - 1 \in 0 .. m - 1
  BY <1>1
<1>3. \A x, y \in Int : y \in 0 .. m - 1 => (m * x + y) % m = y
  BY SMTT(60)
<1>4. (m * q + (r - 1)) % m = r - 1
  BY <1>2, <1>3
<1> QED
  BY <1>1, <1>2, <1>4

(* Away from a wrap of the mask, masking keeps the order of the two        *)
(* accepted IV indexes.                                                    *)
LEMMA MaskKeepsOrder ==
    ASSUME IvIndex % IvModulus # 0, NEW a \in Stamps, NEW b \in Stamps
    PROVE  /\ Masked(a).iv > Masked(b).iv => a.iv > b.iv
           /\ Masked(a).iv = Masked(b).iv => a.iv = b.iv
<1>1. \A s \in Stamps : s.iv \in {IvIndex, IvMinusOne} /\ Masked(s).iv = s.iv % IvModulus
  BY DEF Stamps, Masked
<1>2. ASSUME IvMinusOne # IvIndex
      PROVE  IvMinusOne = IvIndex - 1 /\ IvMinusOne % IvModulus = (IvIndex % IvModulus) - 1
  <2>1. IvMinusOne = IvIndex - 1 /\ IvIndex \in Nat \ {0}
    BY <1>2, ReplayAssumption DEF IvMinusOne
  <2>2. (IvIndex - 1) % IvModulus = (IvIndex % IvModulus) - 1
    BY <2>1, ReplayAssumption, PredecessorMod
  <2> QED
    BY <2>1, <2>2
<1>3. IvIndex % IvModulus \in Nat /\ IvIndex \in Nat
  BY ReplayAssumption
<1>4. CASE IvMinusOne = IvIndex
  BY <1>1, <1>3, <1>4
<1>5. CASE IvMinusOne # IvIndex
  BY <1>1, <1>2, <1>3, <1>5
<1> QED
  BY <1>4, <1>5

(***************************************************************************)
(* Unless the IV index is a multiple of 2^16: the PDUs check lets through  *)
(* from one source ascend, or CacheSize others were heard in between.      *)
(***************************************************************************)
THEOREM AcceptedPdusAscend ==
    ASSUME IvIndex % IvModulus # 0
    PROVE  Spec => AcceptedAscend
<1> DEFINE Ascends == \A s \in Sources : \/ last'[s] = last[s]
                                         \/ Newer(last'[s], last[s])
                                         \/ Cardinality(since[s]) >= CacheSize
<1>1. ReplayInv /\ [Next]_vars => [Ascends]_vars
  <2> SUFFICES ASSUME ReplayInv, Next, NEW s \in Sources, last'[s] # last[s],
                      ~(Cardinality(since[s]) >= CacheSize)
               PROVE  Newer(last'[s], last[s])
    OBVIOUS
  <2>1. PICK src \in Sources, stamp \in Stamps :
            Advanced(src, stamp) \/ FirstHeard(src, stamp)
    BY DEF Next, Replayed, Hear
  <2>2. s = src /\ last'[s] = stamp
    BY <2>1 DEF Advanced, FirstHeard, Hear, ReplayInv, TypeOK
  <2>3. last[s] \in Stamps \cup {NoStamp}
    BY DEF ReplayInv, TypeOK
  <2>4. CASE last[s] = NoStamp
    BY <2>2, <2>4, StampTypes DEF Newer, NoStamp
  <2>5. CASE last[s] # NoStamp
    <3>1. Cached(s) /\ entry[s] = Masked(last[s])
      BY <2>5 DEF ReplayInv, EvictionInv
    <3>2. Passes(stamp, Masked(last[s]))
      BY <2>1, <2>2, <3>1 DEF Advanced, FirstHeard
    <3>3. \/ Masked(stamp).iv > Masked(last[s]).iv
          \/ Masked(stamp).iv = Masked(last[s]).iv /\ stamp.seq > last[s].seq
      BY <3>2 DEF Passes, Masked
    <3> QED
      BY <2>2, <2>3, <2>5, <3>3, MaskKeepsOrder DEF Newer
  <2> QED
    BY <2>4, <2>5
<1> QED
  BY <1>1, ReplayInvHolds, PTL DEF Spec, AcceptedAscend
=============================================================================
