--------------------- MODULE InboundSegmentationProofs ---------------------
(***************************************************************************)
(* What is proved of InboundSegmentation, for any messages, any capacity   *)
(* and any order of arrival, as long as seq_zero tells the messages of one *)
(* source apart: its inductive invariant, and that it is a Reassembly.     *)
(***************************************************************************)
EXTENDS InboundSegmentation, FiniteSetTheorems, TLAPS

(* The shape of a segment.                                                 *)
LEMMA SegmentShape ==
    ASSUME NEW pdu \in Segments
    PROVE  /\ pdu.msg \in Messages /\ pdu.msg.src \in Sources
           /\ pdu.msg.n \in 0 .. MaxSegment
           /\ pdu.seg_o \in 0 .. pdu.msg.n
           /\ pdu = [msg |-> pdu.msg, seg_o |-> pdu.seg_o]
           /\ SeqZero(pdu.msg) \in Nat
<1>1. pdu \in [msg : Messages, seg_o : 0 .. MaxSegment] /\ pdu.seg_o <= pdu.msg.n
  BY DEF Segments
<1>2. /\ pdu.msg.n \in 0 .. MaxSegment
      /\ pdu.msg.seq \in Nat /\ SeqZeroModulus \in Nat \ {0}
  BY <1>1, SegmentationAssumption DEF MessageAssumption
<1>3. pdu.msg.seq % SeqZeroModulus \in Nat
  BY <1>2
<1>4. pdu.seg_o \in 0 .. pdu.msg.n
  BY <1>1, <1>2 DEF MaxSegment
<1> QED
  BY <1>1, <1>2, <1>3, <1>4 DEF Sources, SeqZero

(* A reassembly in progress is not an empty place.                         *)
LEMMA InProgressIsPresent ==
    ASSUME NEW m \in Messages, NEW acked \in SUBSET (0 .. m.n)
    PROVE  InProgress(m, acked) # Absent /\ InProgress(m, acked) \in InFlight
<1>1. SeqZero(m) \in Nat
  BY SegmentationAssumption DEF MessageAssumption, SeqZero
<1>2. InProgress(m, acked).seq_zero # Absent.seq_zero
  BY <1>1 DEF InProgress, Absent
<1> QED
  BY <1>2 DEF InFlight

(* The reassembly process works on holds segments of the PDU's own message:*)
(* this is where seq_zero has to tell messages apart.                      *)
LEMMA WorksOnItsMessage ==
    ASSUME SeqZeroTellsApart, TypeOK, InFlightInv, NEW pdu \in Segments,
           IsValid(InFlightFor(pdu), pdu)
    PROVE  \E acked \in SUBSET (0 .. pdu.msg.n) :
              /\ acked # 0 .. pdu.msg.n
              /\ InFlightFor(pdu) = InProgress(pdu.msg, acked)
              /\ pdu.msg.src \in Busy => current[pdu.msg.src] = InProgress(pdu.msg, acked)
              /\ pdu.msg.src \notin Busy => acked = {}
<1> DEFINE s == pdu.msg.src
<1>1. CASE s \in Busy
  <2>1. InFlightFor(pdu) = current[s]
    BY <1>1 DEF InFlightFor
  <2>2. PICK m \in Messages : \E acked \in SUBSET (0 .. m.n) :
            /\ m.src = s /\ acked # {} /\ acked # 0 .. m.n
            /\ current[s] = InProgress(m, acked)
    BY <1>1 DEF InFlightInv
  <2>5. PICK acked \in SUBSET (0 .. m.n) :
            /\ m.src = s /\ acked # {} /\ acked # 0 .. m.n
            /\ current[s] = InProgress(m, acked)
    BY <2>2
  <2>3. SeqZero(m) = SeqZero(pdu.msg)
    BY <2>1, <2>5 DEF IsValid, InProgress
  <2>4. m = pdu.msg
    BY <2>5, <2>3, SegmentShape DEF SeqZeroTellsApart
  <2> QED
    BY <1>1, <2>1, <2>5, <2>4
<1>2. CASE s \notin Busy
  <2>1. InFlightFor(pdu) = InProgress(pdu.msg, {})
    BY <1>2 DEF InFlightFor, NewInFlight, InProgress
  <2>2. {} # 0 .. pdu.msg.n
    <3>1. 0 \in 0 .. pdu.msg.n
      BY SegmentShape DEF MaxSegment
    <3> QED
      BY <3>1
  <2> QED
    BY <1>2, <2>1, <2>2
<1> QED
  BY <1>1, <1>2

(* Ingesting a segment adds it to those in place.                          *)
LEMMA IngestedAdds ==
    ASSUME NEW pdu \in Segments, NEW acked \in SUBSET (0 .. pdu.msg.n)
    PROVE  /\ Ingested(InProgress(pdu.msg, acked), pdu)
                = InProgress(pdu.msg, acked \cup {pdu.seg_o})
           /\ acked \cup {pdu.seg_o} \in SUBSET (0 .. pdu.msg.n)
           /\ IsComplete(InProgress(pdu.msg, acked \cup {pdu.seg_o}))
                <=> acked \cup {pdu.seg_o} = 0 .. pdu.msg.n
<1> DEFINE m == pdu.msg
           f == InProgress(m, acked)
           more == acked \cup {pdu.seg_o}
<1>1. pdu.seg_o \in 0 .. m.n /\ pdu = [msg |-> m, seg_o |-> pdu.seg_o]
  BY SegmentShape
<1>2. [f.data EXCEPT ![pdu.seg_o] = pdu]
        = [i \in 0 .. m.n |-> IF i \in more THEN [msg |-> m, seg_o |-> i] ELSE Blank]
  BY <1>1 DEF InProgress
<1>3. Ingested(f, pdu) = [f EXCEPT !.acked = more, !.data = [f.data EXCEPT ![pdu.seg_o] = pdu]]
  BY DEF Ingested, InProgress
<1>4. Ingested(f, pdu) = InProgress(m, more)
  BY <1>2, <1>3 DEF InProgress
<1>5. more \in SUBSET (0 .. m.n)
  BY <1>1
<1>6. IsComplete(InProgress(m, more)) <=> more = 0 .. m.n
  BY <1>5 DEF IsComplete, InProgress
<1> QED
  BY <1>4, <1>5, <1>6

(* Collect and Complete, in terms of the message they work on.             *)
LEMMA CollectAdds ==
    ASSUME SeqZeroTellsApart, TypeOK, InFlightInv, NEW pdu \in Segments, Collect(pdu)
    PROVE  \E acked \in SUBSET (0 .. pdu.msg.n) :
              /\ current' = [current EXCEPT ![pdu.msg.src] =
                                InProgress(pdu.msg, acked \cup {pdu.seg_o})]
              /\ acked \cup {pdu.seg_o} \in SUBSET (0 .. pdu.msg.n)
              /\ acked \cup {pdu.seg_o} # 0 .. pdu.msg.n
              /\ pdu.msg.src \in Busy => current[pdu.msg.src] = InProgress(pdu.msg, acked)
              /\ pdu.msg.src \notin Busy => acked = {}
<1>1. PICK acked \in SUBSET (0 .. pdu.msg.n) :
          /\ InFlightFor(pdu) = InProgress(pdu.msg, acked)
          /\ pdu.msg.src \in Busy => current[pdu.msg.src] = InProgress(pdu.msg, acked)
          /\ pdu.msg.src \notin Busy => acked = {}
  BY WorksOnItsMessage DEF Collect
<1>2. /\ Ingested(InFlightFor(pdu), pdu) = InProgress(pdu.msg, acked \cup {pdu.seg_o})
      /\ acked \cup {pdu.seg_o} \in SUBSET (0 .. pdu.msg.n)
      /\ IsComplete(InProgress(pdu.msg, acked \cup {pdu.seg_o}))
                <=> acked \cup {pdu.seg_o} = 0 .. pdu.msg.n
  BY <1>1, IngestedAdds
<1> QED
  BY <1>1, <1>2 DEF Collect

LEMMA CompleteHasAll ==
    ASSUME SeqZeroTellsApart, TypeOK, InFlightInv, NEW pdu \in Segments, Complete(pdu)
    PROVE  \E acked \in SUBSET (0 .. pdu.msg.n) :
              /\ acked \cup {pdu.seg_o} = 0 .. pdu.msg.n
              /\ result'.upper = [i \in 0 .. pdu.msg.n |-> [msg |-> pdu.msg, seg_o |-> i]]
              /\ pdu.msg.src \in Busy => current[pdu.msg.src] = InProgress(pdu.msg, acked)
              /\ pdu.msg.src \notin Busy => acked = {}
<1>1. PICK acked \in SUBSET (0 .. pdu.msg.n) :
          /\ InFlightFor(pdu) = InProgress(pdu.msg, acked)
          /\ pdu.msg.src \in Busy => current[pdu.msg.src] = InProgress(pdu.msg, acked)
          /\ pdu.msg.src \notin Busy => acked = {}
  BY WorksOnItsMessage DEF Complete
<1>2. /\ Ingested(InFlightFor(pdu), pdu) = InProgress(pdu.msg, acked \cup {pdu.seg_o})
      /\ IsComplete(InProgress(pdu.msg, acked \cup {pdu.seg_o}))
                <=> acked \cup {pdu.seg_o} = 0 .. pdu.msg.n
  BY <1>1, IngestedAdds
<1>3. acked \cup {pdu.seg_o} = 0 .. pdu.msg.n
  BY <1>2 DEF Complete
<1>4. result'.upper = InProgress(pdu.msg, 0 .. pdu.msg.n).data
  BY <1>2, <1>3 DEF Complete
<1>5. result'.upper = [i \in 0 .. pdu.msg.n |-> [msg |-> pdu.msg, seg_o |-> i]]
  BY <1>4 DEF InProgress
<1> QED
  BY <1>1, <1>3, <1>5

(***************************************************************************)
(* Every entry of the map holds a proper part of one message of its own    *)
(* source, and there are never more entries than places.                   *)
(***************************************************************************)
THEOREM SegmentationInvHolds ==
    ASSUME SeqZeroTellsApart
    PROVE  Spec => []SegmentationInv
<1>1. Init => SegmentationInv
  <2> SUFFICES ASSUME Init
               PROVE  SegmentationInv
    OBVIOUS
  <2>1. Busy = {}
    BY DEF Init, Busy
  <2>2. TypeOK
    BY DEF Init, TypeOK, NoResult
  <2>3. Cardinality(Busy) <= Capacity
    BY <2>1, FS_EmptySet, SegmentationAssumption
  <2> QED
    BY <2>1, <2>2, <2>3 DEF SegmentationInv, InFlightInv
<1>2. SegmentationInv /\ [Next]_vars => SegmentationInv'
  <2> SUFFICES ASSUME SegmentationInv, [Next]_vars
               PROVE  SegmentationInv'
    OBVIOUS
  <2> USE DEF SegmentationInv
  <2>1. /\ IsFiniteSet(Busy) /\ Busy \subseteq Sources
        /\ Cardinality(Busy) \in Nat /\ Capacity \in Nat \ {0}
    BY FS_Subset, FS_CardinalityType, SegmentationAssumption DEF Busy
  <2>2. ASSUME current' = current,
               result'.pdu \in Segments \cup {Blank}, result'.seen \in BOOLEAN,
               running' \in BOOLEAN, accepted' = Nothing
        PROVE  SegmentationInv'
    <3>1. Busy' = Busy
      BY <2>2 DEF Busy
    <3>2. TypeOK'
      BY <2>2 DEF TypeOK
    <3>3. InFlightInv'
      BY <2>2, <3>1 DEF InFlightInv
    <3> QED
      BY <3>1, <3>2, <3>3
  <2>3. CASE Restart
    <3>1. Busy' = {}
      BY <2>3 DEF Restart, Busy
    <3>2. TypeOK'
      BY <2>3 DEF Restart, TypeOK, NoResult
    <3>3. Cardinality(Busy') <= Capacity
      BY <2>1, <3>1, FS_EmptySet
    <3> QED
      BY <3>1, <3>2, <3>3 DEF InFlightInv
  <2>4. ASSUME NEW pdu \in Segments, Refuse(pdu)
        PROVE  SegmentationInv'
    BY <2>2, <2>4 DEF Refuse, NoResult
  <2>5. ASSUME NEW pdu \in Segments, Seen(pdu)
        PROVE  SegmentationInv'
    BY <2>2, <2>5 DEF Seen, TypeOK
  <2>6. ASSUME NEW pdu \in Segments, Collect(pdu)
        PROVE  SegmentationInv'
    <3> DEFINE s == pdu.msg.src
    <3>1. PICK acked \in SUBSET (0 .. pdu.msg.n) :
              /\ current' = [current EXCEPT ![s] = InProgress(pdu.msg, acked \cup {pdu.seg_o})]
              /\ acked \cup {pdu.seg_o} \in SUBSET (0 .. pdu.msg.n)
              /\ acked \cup {pdu.seg_o} # 0 .. pdu.msg.n
      BY <2>6, CollectAdds
    <3> DEFINE more == acked \cup {pdu.seg_o}
    <3>2. s \in Sources /\ pdu.msg \in Messages
      BY SegmentShape
    <3>3. InProgress(pdu.msg, more) # Absent /\ InProgress(pdu.msg, more) \in InFlight
      BY <3>1, <3>2, InProgressIsPresent
    <3>4. /\ current' \in [Sources -> InFlight \cup {Absent}]
          /\ current'[s] = InProgress(pdu.msg, more)
          /\ \A t \in Sources \ {s} : current'[t] = current[t]
      BY <3>1, <3>2, <3>3 DEF TypeOK
    <3>5. TypeOK'
      BY <2>6, <3>4 DEF TypeOK, Collect
    <3>6. Busy' = Busy \cup {s}
      BY <3>2, <3>3, <3>4 DEF Busy
    <3>7. InFlightInv'
      <4> SUFFICES ASSUME NEW t \in Busy'
                   PROVE  \E m \in Messages : \E a \in SUBSET (0 .. m.n) :
                             /\ m.src = t /\ a # {} /\ a # 0 .. m.n
                             /\ current'[t] = InProgress(m, a)
        BY DEF InFlightInv, InProgress, SeqZero
      <4>1. CASE t = s
        <5>1. more # {} /\ more \in SUBSET (0 .. pdu.msg.n) /\ more # 0 .. pdu.msg.n
          BY <3>1
        <5> HIDE DEF more
        <5> QED
          BY <3>2, <3>4, <4>1, <5>1
      <4>2. CASE t # s
        <5>1. t \in Busy /\ current'[t] = current[t]
          BY <2>1, <3>4, <3>6, <4>2
        <5> QED
          BY <5>1 DEF InFlightInv
      <4> QED
        BY <4>1, <4>2
    <3>8. Cardinality(Busy') <= Capacity
      <4>1. CASE s \in Busy
        <5>1. Busy' = Busy
          BY <3>6, <4>1
        <5> QED
          BY <5>1
      <4>2. CASE s \notin Busy
        <5>1. Cardinality(Busy) < Capacity
          BY <2>6, <4>2 DEF Collect, HasRoom
        <5>2. Cardinality(Busy') = Cardinality(Busy) + 1
          BY <2>1, <3>6, <4>2, FS_AddElement
        <5> QED
          BY <2>1, <5>1, <5>2
      <4> QED
        BY <4>1, <4>2
    <3> QED
      BY <3>5, <3>7, <3>8
  <2>7. ASSUME NEW pdu \in Segments, Complete(pdu)
        PROVE  SegmentationInv'
    <3> DEFINE s == pdu.msg.src
    <3>1. s \in Sources /\ pdu.msg \in Messages
      BY SegmentShape
    <3>2. current' = [current EXCEPT ![s] = Absent]
      BY <2>7 DEF Complete
    <3>3. /\ current' \in [Sources -> InFlight \cup {Absent}]
          /\ current'[s] = Absent
          /\ \A t \in Sources \ {s} : current'[t] = current[t]
      BY <3>1, <3>2 DEF TypeOK
    <3>4. running' \in BOOLEAN
      BY <2>7 DEF Complete, Decrypts
    <3>5. TypeOK'
      BY <2>7, <3>1, <3>3, <3>4 DEF TypeOK, Complete
    <3>6. Busy' = Busy \ {s}
      BY <3>1, <3>3 DEF Busy
    <3>7. InFlightInv'
      <4> SUFFICES ASSUME NEW t \in Busy'
                   PROVE  \E m \in Messages : \E a \in SUBSET (0 .. m.n) :
                             /\ m.src = t /\ a # {} /\ a # 0 .. m.n
                             /\ current'[t] = InProgress(m, a)
        BY DEF InFlightInv, InProgress, SeqZero
      <4>1. t \in Busy /\ current'[t] = current[t]
        BY <2>1, <3>3, <3>6
      <4> QED
        BY <4>1 DEF InFlightInv
    <3>8. Cardinality(Busy') <= Capacity
      <4>1. Busy' \in SUBSET Busy
        BY <3>6
      <4>2. Cardinality(Busy') <= Cardinality(Busy) /\ IsFiniteSet(Busy')
        BY <2>1, <4>1, FS_Subset
      <4>3. Cardinality(Busy') \in Nat
        BY <4>2, FS_CardinalityType
      <4> QED
        BY <2>1, <4>2, <4>3
    <3> QED
      BY <3>5, <3>7, <3>8
  <2>8. CASE UNCHANGED vars
    <3>1. Busy' = Busy
      BY <2>8 DEF vars, Busy
    <3>2. TypeOK' /\ InFlightInv'
      BY <2>8, <3>1 DEF vars, TypeOK, InFlightInv
    <3> QED
      BY <3>1, <3>2
  <2> QED
    BY <2>3, <2>4, <2>5, <2>6, <2>7, <2>8 DEF Next
<1> QED
  BY <1>1, <1>2, PTL DEF Spec

(* The abstract view of a place of the map.                                *)
LEMMA CollectedOf ==
    /\ Collected(Absent) = {}
    /\ \A m \in Messages : \A acked \in SUBSET (0 .. m.n) :
          Collected(InProgress(m, acked)) = {[msg |-> m, seg_o |-> i] : i \in acked}
<1>1. ASSUME NEW m \in Messages, NEW acked \in SUBSET (0 .. m.n)
      PROVE  Collected(InProgress(m, acked)) = {[msg |-> m, seg_o |-> i] : i \in acked}
  <2> DEFINE f == InProgress(m, acked)
  <2>1. f # Absent /\ f.acked = acked
    BY InProgressIsPresent DEF InProgress
  <2>2. \A i \in acked : f.data[i] = [msg |-> m, seg_o |-> i]
    BY DEF InProgress
  <2>3. Collected(f) = {f.data[i] : i \in acked}
    BY <2>1 DEF Collected
  <2> DEFINE segments == {[msg |-> m, seg_o |-> i] : i \in acked}
  <2>4. \A x \in Collected(f) : x \in segments
    <3> SUFFICES ASSUME NEW x \in Collected(f)
                 PROVE  \E i \in acked : x = [msg |-> m, seg_o |-> i]
      OBVIOUS
    <3>1. PICK i \in acked : x = f.data[i]
      BY <2>3
    <3>2. f.data[i] = [msg |-> m, seg_o |-> i]
      BY <2>2
    <3> HIDE DEF f
    <3> QED
      BY <3>1, <3>2
  <2>5. \A x \in segments : x \in Collected(f)
    <3> SUFFICES ASSUME NEW i \in acked
                 PROVE  [msg |-> m, seg_o |-> i] \in Collected(f)
      OBVIOUS
    <3>1. f.data[i] \in Collected(f)
      BY <2>3
    <3>2. f.data[i] = [msg |-> m, seg_o |-> i]
      BY <2>2
    <3> HIDE DEF f
    <3> QED
      BY <3>1, <3>2
  <2> HIDE DEF f
  <2> QED
    BY <2>4, <2>5 DEF f
<1> QED
  BY <1>1 DEF Collected

(* What InFlightFor knows is what the abstract spec has collected.         *)
LEMMA CollectedFor ==
    ASSUME TypeOK, NEW pdu \in Segments, NEW acked \in SUBSET (0 .. pdu.msg.n),
           pdu.msg.src \in Busy => current[pdu.msg.src] = InProgress(pdu.msg, acked),
           pdu.msg.src \notin Busy => acked = {}
    PROVE  Collected(current[pdu.msg.src]) = {[msg |-> pdu.msg, seg_o |-> i] : i \in acked}
<1>1. pdu.msg \in Messages /\ pdu.msg.src \in Sources
  BY SegmentShape
<1>2. CASE pdu.msg.src \in Busy
  BY <1>1, <1>2, CollectedOf
<1>3. CASE pdu.msg.src \notin Busy
  <2>1. current[pdu.msg.src] = Absent /\ acked = {}
    BY <1>1, <1>3 DEF Busy
  <2> QED
    BY <2>1, CollectedOf
<1> QED
  BY <1>2, <1>3

(***************************************************************************)
(* InboundSegmentation is a Reassembly: bytes handed up are all the        *)
(* segments of one message, whatever is lost, repeated or reordered.       *)
(***************************************************************************)
THEOREM SegmentationImplementsReassembly ==
    ASSUME SeqZeroTellsApart
    PROVE  Spec => ImplementsReassembly
<1> DEFINE part == [s \in Sources |-> Collected(current[s])]
           handedUp == {result.upper[i] : i \in DOMAIN result.upper}
<1>1. Init => Abstract!Init
  <2> SUFFICES ASSUME Init
               PROVE  Abstract!Init
    OBVIOUS
  <2>1. \A s \in Sources : Collected(current[s]) = {}
    BY CollectedOf DEF Init
  <2>2. result.upper = <<>>
    BY DEF Init, NoResult
  <2>3. handedUp = {}
    BY <2>2
  <2> QED
    BY <2>1, <2>3 DEF Abstract!Init, Abstract!Sources, Sources
<1>2. SegmentationInv /\ [Next]_vars => [Abstract!Next]_(Abstract!vars)
  <2> SUFFICES ASSUME SegmentationInv, [Next]_vars
               PROVE  [Abstract!Next]_(Abstract!vars)
    OBVIOUS
  <2> USE DEF SegmentationInv
  <2>1. ASSUME current' = current, result'.upper = <<>>
        PROVE  Abstract!Ignore
    <3>1. handedUp' = {}
      BY <2>1
    <3>2. part' = part
      BY <2>1
    <3> QED
      BY <3>1, <3>2 DEF Abstract!Ignore
  <2>2. CASE Restart
    <3>1. part' = [s \in Sources |-> {}]
      BY <2>2, CollectedOf DEF Restart
    <3>2. handedUp' = {}
      <4>1. result'.upper = <<>>
        BY <2>2 DEF Restart, NoResult
      <4> QED
        BY <4>1
    <3>3. Abstract!Reset
      BY <3>1, <3>2 DEF Abstract!Reset, Abstract!Sources, Sources
    <3> QED
      BY <3>3 DEF Abstract!Next
  <2>3. ASSUME NEW pdu \in Segments, Refuse(pdu)
        PROVE  Abstract!Next
    BY <2>1, <2>3 DEF Refuse, NoResult, Abstract!Next
  <2>4. ASSUME NEW pdu \in Segments, Seen(pdu)
        PROVE  Abstract!Next
    BY <2>1, <2>4 DEF Seen, Abstract!Next
  <2>5. ASSUME NEW pdu \in Segments, Collect(pdu)
        PROVE  Abstract!Next
    <3> DEFINE m == pdu.msg
               s == pdu.msg.src
    <3>1. PICK acked \in SUBSET (0 .. m.n) :
              /\ current' = [current EXCEPT ![s] = InProgress(m, acked \cup {pdu.seg_o})]
              /\ acked \cup {pdu.seg_o} \in SUBSET (0 .. m.n)
              /\ acked \cup {pdu.seg_o} # 0 .. m.n
              /\ s \in Busy => current[s] = InProgress(m, acked)
              /\ s \notin Busy => acked = {}
      BY <2>5, CollectAdds
    <3>2. /\ m \in Messages /\ s \in Sources /\ m.n \in 0 .. MaxSegment
          /\ pdu.seg_o \in 0 .. m.n /\ pdu = [msg |-> m, seg_o |-> pdu.seg_o]
      BY SegmentShape
    <3>3. part[s] = {[msg |-> m, seg_o |-> i] : i \in acked}
      BY <3>1, <3>2, CollectedFor
    <3>4. part' = [part EXCEPT ![s] = {[msg |-> m, seg_o |-> i] : i \in acked \cup {pdu.seg_o}}]
      <4>1. Collected(InProgress(m, acked \cup {pdu.seg_o}))
              = {[msg |-> m, seg_o |-> i] : i \in acked \cup {pdu.seg_o}}
        BY <3>1, <3>2, CollectedOf
      <4>2. \A t \in Sources : current'[t] = IF t = s THEN InProgress(m, acked \cup {pdu.seg_o})
                                                       ELSE current[t]
        BY <3>1, <3>2 DEF TypeOK
      <4> QED
        BY <4>1, <4>2
    <3>5. part[s] \cup {pdu} = {[msg |-> m, seg_o |-> i] : i \in acked \cup {pdu.seg_o}}
      BY <3>2, <3>3
    <3>6. part[s] \cup {pdu} # {[msg |-> m, seg_o |-> i] : i \in 0 .. m.n}
      <4>1. PICK j \in 0 .. m.n : j \notin acked \cup {pdu.seg_o}
        BY <3>1
      <4>2. [msg |-> m, seg_o |-> j] \notin {[msg |-> m, seg_o |-> i] : i \in acked \cup {pdu.seg_o}}
        BY <4>1
      <4> QED
        BY <3>5, <4>1, <4>2
    <3>7. \A other \in part[s] : other.msg = m
      BY <3>3
    <3>8. handedUp' = {}
      <4>1. result'.upper = <<>>
        BY <2>5 DEF Collect
      <4> QED
        BY <4>1
    <3> HIDE DEF part, handedUp
    <3>9. Abstract!Collect(pdu)
      BY <3>4, <3>5, <3>6, <3>7, <3>8
      DEF Abstract!Collect, Abstract!Fits, Abstract!Grown, Abstract!SegmentsOf, part, handedUp
    <3> QED
      BY <3>9 DEF Abstract!Next, Abstract!Segments, Segments, Abstract!MaxSegment, MaxSegment
  <2>6. ASSUME NEW pdu \in Segments, Complete(pdu)
        PROVE  Abstract!Next
    <3> DEFINE m == pdu.msg
               s == pdu.msg.src
    <3>1. PICK acked \in SUBSET (0 .. m.n) :
              /\ acked \cup {pdu.seg_o} = 0 .. m.n
              /\ result'.upper = [i \in 0 .. m.n |-> [msg |-> m, seg_o |-> i]]
              /\ s \in Busy => current[s] = InProgress(m, acked)
              /\ s \notin Busy => acked = {}
      BY <2>6, CompleteHasAll
    <3>2. /\ m \in Messages /\ s \in Sources /\ m.n \in 0 .. MaxSegment
          /\ pdu.seg_o \in 0 .. m.n /\ pdu = [msg |-> m, seg_o |-> pdu.seg_o]
      BY SegmentShape
    <3>3. part[s] = {[msg |-> m, seg_o |-> i] : i \in acked}
      BY <3>1, <3>2, CollectedFor
    <3>4. part' = [part EXCEPT ![s] = {}]
      <4>1. \A t \in Sources : current'[t] = IF t = s THEN Absent ELSE current[t]
        BY <2>6, <3>2 DEF Complete, TypeOK
      <4> QED
        BY <4>1, CollectedOf
    <3>5. part[s] \cup {pdu} = {[msg |-> m, seg_o |-> i] : i \in 0 .. m.n}
      BY <3>1, <3>2, <3>3
    <3>6. \A other \in part[s] : other.msg = m
      BY <3>3
    <3>7. handedUp' = {[msg |-> m, seg_o |-> i] : i \in 0 .. m.n}
      BY <3>1
    <3> HIDE DEF part, handedUp
    <3>8. Abstract!HandUp(pdu)
      BY <3>4, <3>5, <3>6, <3>7
      DEF Abstract!HandUp, Abstract!Fits, Abstract!Grown, Abstract!SegmentsOf, part, handedUp
    <3> QED
      BY <3>8 DEF Abstract!Next, Abstract!Segments, Segments, Abstract!MaxSegment, MaxSegment
  <2>7. CASE UNCHANGED vars
    BY <2>7 DEF vars, Abstract!vars
  <2> QED
    BY <2>2, <2>3, <2>4, <2>5, <2>6, <2>7 DEF Next
<1> QED
  BY <1>1, <1>2, SegmentationInvHolds, PTL DEF Spec, ImplementsReassembly, Abstract!Spec

(***************************************************************************)
(* A reassembly whose last segment is in never changes again, other than   *)
(* by a reset: AlreadySeen then holds of every segment that could fill it. *)
(***************************************************************************)
THEOREM LastSegmentAlwaysFreezes ==
    ASSUME SeqZeroTellsApart
    PROVE  Spec => LastSegmentFreezes
<1> DEFINE Frozen == \A s \in Busy : current[s].seg_n \in current[s].acked
                        => current'[s] = current[s] \/ current' = [t \in Sources |-> Absent]
<1>1. SegmentationInv /\ [Next]_vars => [Frozen]_vars
  <2> SUFFICES ASSUME SegmentationInv, Next
               PROVE  Frozen
    OBVIOUS
  <2> USE DEF SegmentationInv
  <2>1. ASSUME current' = current
        PROVE  Frozen
    BY <2>1
  <2>2. CASE Restart
    BY <2>2 DEF Restart
  <2>3. ASSUME NEW pdu \in Segments, NEW f, current' = [current EXCEPT ![pdu.msg.src] = f],
               IsValid(InFlightFor(pdu), pdu), ~AlreadySeen(InFlightFor(pdu), pdu)
        PROVE  Frozen
    <3> SUFFICES ASSUME NEW s \in Busy, current[s].seg_n \in current[s].acked
                 PROVE  current'[s] = current[s]
      OBVIOUS
    <3>1. s \in Sources
      BY DEF Busy
    <3>2. CASE s = pdu.msg.src
      <4>1. InFlightFor(pdu) = current[s]
        BY <3>2 DEF InFlightFor
      <4>2. PICK acked \in SUBSET (0 .. pdu.msg.n) : current[s] = InProgress(pdu.msg, acked)
        BY <2>3, <3>2, WorksOnItsMessage
      <4>3. current[s].seg_n = pdu.msg.n
        BY <4>2 DEF InProgress
      <4> QED
        BY <2>3, <4>1, <4>3 DEF AlreadySeen
    <3>3. CASE s # pdu.msg.src
      BY <2>3, <3>1, <3>3 DEF TypeOK
    <3> QED
      BY <3>2, <3>3
  <2>4. ASSUME NEW pdu \in Segments, Refuse(pdu) \/ Seen(pdu)
        PROVE  Frozen
    BY <2>1, <2>4 DEF Refuse, Seen
  <2>5. ASSUME NEW pdu \in Segments, Collect(pdu)
        PROVE  Frozen
    BY <2>3, <2>5 DEF Collect
  <2>6. ASSUME NEW pdu \in Segments, Complete(pdu)
        PROVE  Frozen
    BY <2>3, <2>6 DEF Complete
  <2> QED
    BY <2>2, <2>4, <2>5, <2>6 DEF Next
<1> QED
  BY <1>1, SegmentationInvHolds, PTL DEF Spec, LastSegmentFreezes

(***************************************************************************)
(* Only the segment n can complete a message, and its sequence number is   *)
(* seq + n: no access message of several segments is ever decrypted.       *)
(***************************************************************************)
THEOREM OnlySingleSegmentsAccepted ==
    ASSUME SeqZeroTellsApart
    PROVE  Spec => []OnlySingleSegmentAccess
<1>1. Init => OnlySingleSegmentAccess
  BY DEF Init, OnlySingleSegmentAccess, Nothing
<1>2. SegmentationInv /\ OnlySingleSegmentAccess /\ [Next]_vars => OnlySingleSegmentAccess'
  <2> SUFFICES ASSUME SegmentationInv, OnlySingleSegmentAccess, [Next]_vars
               PROVE  OnlySingleSegmentAccess'
    OBVIOUS
  <2> USE DEF SegmentationInv
  <2>1. ASSUME accepted' = Nothing
        PROVE  OnlySingleSegmentAccess'
    BY <2>1 DEF OnlySingleSegmentAccess, Nothing
  <2>2. CASE Restart
    BY <2>1, <2>2 DEF Restart
  <2>3. ASSUME NEW pdu \in Segments, Refuse(pdu) \/ Seen(pdu) \/ Collect(pdu)
        PROVE  OnlySingleSegmentAccess'
    BY <2>1, <2>3 DEF Refuse, Seen, Collect
  <2>4. ASSUME NEW pdu \in Segments, Complete(pdu)
        PROVE  OnlySingleSegmentAccess'
    <3>1. PICK acked \in SUBSET (0 .. pdu.msg.n) :
              InFlightFor(pdu) = InProgress(pdu.msg, acked)
      BY <2>4, WorksOnItsMessage DEF Complete
    <3>2. pdu.msg.n \notin acked
      BY <2>4, <3>1 DEF Complete, AlreadySeen, InProgress
    <3>3. acked \cup {pdu.seg_o} = 0 .. pdu.msg.n
      <4>1. /\ Ingested(InFlightFor(pdu), pdu) = InProgress(pdu.msg, acked \cup {pdu.seg_o})
            /\ IsComplete(InProgress(pdu.msg, acked \cup {pdu.seg_o}))
                      <=> acked \cup {pdu.seg_o} = 0 .. pdu.msg.n
        BY <3>1, IngestedAdds
      <4> QED
        BY <2>4, <4>1 DEF Complete
    <3>4. pdu.msg.n \in 0 .. pdu.msg.n /\ pdu.msg.n \in Nat
      BY SegmentShape DEF MaxSegment
    <3>5. pdu.seg_o = pdu.msg.n
      BY <3>2, <3>3, <3>4
    <3>6. pdu.msg \in Messages /\ pdu.msg.seq \in Nat
      BY SegmentShape, SegmentationAssumption DEF MessageAssumption
    <3>7. ASSUME Decrypts(pdu), pdu.msg.tag = "access"
          PROVE  pdu.msg.n = 0
      BY <3>4, <3>5, <3>6, <3>7 DEF Decrypts, NetworkSeq
    <3> QED
      BY <2>4, <3>7 DEF Complete, OnlySingleSegmentAccess, Nothing
  <2>5. CASE UNCHANGED vars
    BY <2>5 DEF vars, OnlySingleSegmentAccess
  <2> QED
    BY <2>2, <2>3, <2>4, <2>5 DEF Next
<1> QED
  BY <1>1, <1>2, SegmentationInvHolds, PTL DEF Spec
=============================================================================
