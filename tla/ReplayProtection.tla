-------------------------- MODULE ReplayProtection --------------------------
(***************************************************************************)
(* Inbound network PDUs of a provisioned node, from the choice of the IV   *)
(* index to the verdict of the replay cache                                *)
(* (process_inbound_network_pdu -> try_decrypt_network_pdu -> check).      *)
(*                                                                         *)
(* PDUs arrive in any order and any number of times: a mesh relays, delays *)
(* and repeats them.  The cache is the uluru LRUCache of the crate: at     *)
(* most CacheSize entries, most recently found or inserted first.          *)
(***************************************************************************)
EXTENDS Integers, Sequences, FiniteSets

CONSTANTS Sources,    \* unicast addresses that send to this node
          CacheSize,  \* the default 100 of ReplayProtection
          IvIndex,    \* the IV index of the network state; nothing updates it
          IvModulus,  \* 2^16: an entry keeps `iv_index & 0xFFFF`
          MaxSeq      \* largest sequence number a PDU carries

ASSUME ReplayAssumption == /\ IsFiniteSet(Sources)
                           /\ CacheSize \in Nat \ {0}
                           /\ IvIndex \in Nat
                           /\ IvModulus \in Nat \ {0}
                           /\ MaxSeq \in Nat

VARIABLES order,    \* the cached sources, most recently used first
          entry,    \* per source: the CacheEntry, meaningful while it is cached
          flagged,  \* meta.replay_protected of the last PDU
          last,     \* history: per source, the last PDU that was not flagged
          since     \* history: per source, the others heard since its last PDU

vars == <<order, entry, flagged, last, since>>

-----------------------------------------------------------------------------
(* The IV index a PDU is decrypted with (IvIndex::accepted_iv_index; Sub   *)
(* leaves an index that is not above the subtrahend alone).                *)

IvMinusOne == IF IvIndex > 1 THEN IvIndex - 1 ELSE IvIndex
AcceptedIv(ivi) == IF IvIndex % 2 = ivi THEN IvIndex ELSE IvMinusOne

Stamps == [iv : {IvIndex, IvMinusOne}, seq : 0 .. MaxSeq]
NoStamp == [iv |-> -1, seq |-> -1]

(* A PDU sent under index iv decrypts when its low bit selects that index. *)
Decrypts(stamp) == AcceptedIv(stamp.iv % 2) = stamp.iv

Masked(stamp) == [iv |-> stamp.iv % IvModulus, seq |-> stamp.seq]

(* The comparison of check: the IV index first, then the number.           *)
Passes(stamp, e) == \/ Masked(stamp).iv > e.iv
                    \/ Masked(stamp).iv = e.iv /\ stamp.seq > e.seq

-----------------------------------------------------------------------------
Cached(src) == \E i \in 1 .. Len(order) : order[i] = src

(* mutants: a hit leaves the entry where it is; a new entry goes in behind.*)
LeftInPlace(k) == order
PushedBehind(src) == [i \in 1 .. (IF Len(order) < CacheSize THEN Len(order) + 1 ELSE CacheSize) |->
                         IF i \in DOMAIN order /\ i < CacheSize THEN order[i] ELSE src]

(* LRUCache::find: the entry moves to the front.                           *)
ToFront(k) == [i \in 1 .. Len(order) |->
                  IF i = 1 THEN order[k] ELSE IF i <= k THEN order[i - 1] ELSE order[i]]

(* LRUCache::insert: a full cache gives up its last entry.                 *)
Pushed(src) == [i \in 1 .. (IF Len(order) < CacheSize THEN Len(order) + 1 ELSE CacheSize) |->
                   IF i = 1 THEN src ELSE order[i - 1]]

Init == /\ order = <<>>
        /\ entry = [s \in Sources |-> NoStamp]
        /\ flagged = FALSE
        /\ last = [s \in Sources |-> NoStamp]
        /\ since = [s \in Sources |-> {}]

(* What every PDU of src does to the history.                              *)
Hear(src, stamp, replayed) ==
    /\ flagged' = replayed
    /\ last' = IF replayed THEN last ELSE [last EXCEPT ![src] = stamp]
    /\ since' = [s \in Sources |-> IF s = src THEN {} ELSE since[s] \cup {src}]

(* find hits, and the PDU is not above the entry.                          *)
Replayed(src, stamp) ==
    /\ Decrypts(stamp)
    /\ \E k \in 1 .. Len(order) : order[k] = src /\ order' = ToFront(k)
    /\ ~Passes(stamp, entry[src])
    /\ Hear(src, stamp, TRUE)
    /\ UNCHANGED entry

(* find hits, and the entry moves up to the PDU.                           *)
Advanced(src, stamp) ==
    /\ Decrypts(stamp)
    /\ \E k \in 1 .. Len(order) : order[k] = src /\ order' = ToFront(k)
    /\ Passes(stamp, entry[src])
    /\ entry' = [entry EXCEPT ![src] = Masked(stamp)]
    /\ Hear(src, stamp, FALSE)

(* find misses: whatever it is, the PDU passes and starts an entry.        *)
FirstHeard(src, stamp) ==
    /\ Decrypts(stamp)
    /\ ~Cached(src)
    /\ order' = Pushed(src)
    /\ entry' = [entry EXCEPT ![src] = Masked(stamp)]
    /\ Hear(src, stamp, FALSE)

Next == \E src \in Sources, stamp \in Stamps :
            Replayed(src, stamp) \/ Advanced(src, stamp) \/ FirstHeard(src, stamp)

Spec == Init /\ [][Next]_vars

-----------------------------------------------------------------------------
Entries == [iv : 0 .. IvModulus - 1, seq : 0 .. MaxSeq] \cup {NoStamp}

TypeOK == /\ order \in Seq(Sources)
          /\ entry \in [Sources -> Entries]
          /\ flagged \in BOOLEAN
          /\ last \in [Sources -> Stamps \cup {NoStamp}]
          /\ since \in [Sources -> SUBSET Sources]

(* The cache proper: no source twice, never more than CacheSize.           *)
CacheInv == /\ Len(order) <= CacheSize
            /\ \A i, j \in 1 .. Len(order) : order[i] = order[j] => i = j

(* Whoever stands ahead of an entry has been heard since that entry's PDU. *)
RecencyInv == \A j \in 1 .. Len(order) : \A i \in 1 .. j - 1 : order[i] \in since[order[j]]

(* A source that is not cached was pushed out by CacheSize others.         *)
EvictionInv ==
    \A s \in Sources : last[s] # NoStamp =>
        \/ Cached(s) /\ entry[s] = Masked(last[s])
        \/ ~Cached(s) /\ Cardinality(since[s]) >= CacheSize

ReplayInv == TypeOK /\ CacheInv /\ RecencyInv /\ EvictionInv

-----------------------------------------------------------------------------
(* What a sender's PDUs do over time, whatever an entry keeps of them.     *)
Newer(a, b) == (a.iv > b.iv) \/ (a.iv = b.iv /\ a.seq > b.seq)

(***************************************************************************)
(* The PDUs of one source that check lets through ascend in (IV index,     *)
(* sequence number), with no repetition, except when CacheSize other       *)
(* sources were heard since the source was heard last.                     *)
(***************************************************************************)
AcceptedAscend ==
    [][\A s \in Sources :
          \/ last'[s] = last[s]
          \/ Newer(last'[s], last[s])
          \/ Cardinality(since[s]) >= CacheSize]_vars
=============================================================================
