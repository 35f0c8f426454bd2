----------------------------- MODULE FlashStore -----------------------------
(***************************************************************************)
(* The decisions of the flash backing store (storage/flash.rs) and of the  *)
(* boot-time sequence advance (storage/mod.rs), as pure operators.         *)
(*                                                                         *)
(* A configuration is a record [kind, id, seq].  `id` stands for           *)
(* everything that goes into its hash (network state, secrets, device      *)
(* info); the sequence number is explicitly left out of the hash by        *)
(* `impl Hash for ProvisionedConfiguration`.                               *)
(***************************************************************************)
EXTENDS Integers

CONSTANTS Threshold,  \* `sequence_threshold` given to FlashBackingStore::new
          Align,      \* the literal 100 of Storage::init
          Reserve     \* the literal 200 of Storage::init

ASSUME StoreAssumption == /\ Threshold \in Nat \ {0}
                          /\ Align \in Nat \ {0}
                          /\ Reserve \in Nat
                          /\ Align <= Reserve

-----------------------------------------------------------------------------
(* Configurations (enum Configuration, plus "none" for Option::None).      *)

NoConfig     == [kind |-> "none",   id |-> 0, seq |-> 0]
Unprovisioned == [kind |-> "unprov", id |-> 0, seq |-> 0]
Provisioned(id, seq) == [kind |-> "prov", id |-> id, seq |-> seq]

(***************************************************************************)
(* load() hashes the inner ProvisionedConfiguration; store() and           *)
(* should_writeback() hash the enclosing enum, whose derived Hash also     *)
(* feeds the variant.  The two never agree.                                *)
(***************************************************************************)
InnerHash(c) == <<"inner", c.id>>
OuterHash(c) == <<"outer", c.id>>

LatestNone == [kind |-> "none", hash |-> <<"none", 0>>, seq |-> 0]

LatestOf(c, hash) == IF c.kind = "unprov"
                     THEN [kind |-> "unprov", hash |-> <<"none", 0>>, seq |-> 0]
                     ELSE [kind |-> "prov", hash |-> hash, seq |-> c.seq]

AfterLoad(c)  == LatestOf(c, InnerHash(c))
AfterStore(c) == LatestOf(c, OuterHash(c))

(* mutants: an off-by-one threshold; no write when a multiple is jumped over; *)
(* a boot that only rounds down; see README.                               *)
SequenceDueOffByOne(old, new) == new # old /\ (new % Threshold = 0 \/ new - old > Threshold)
SequenceDueNoSkip(old, new) == new # old /\ new % Threshold = 0
InitSequenceRoundOnly(seq) == seq - (seq % Align)

SequenceDue(old, new) == /\ new # old
                         /\ \/ new % Threshold = 0
                            \/ new - old >= Threshold

ShouldWriteback(latest, new) ==
    \/ latest.kind = "none"
    \/ latest.kind # "none" /\ latest.kind # new.kind
    \/ /\ latest.kind = "prov" /\ new.kind = "prov"
       /\ OuterHash(new) # latest.hash \/ SequenceDue(latest.seq, new.seq)

(* Storage::init: round down to a multiple of Align, then skip Reserve.    *)
InitSequence(seq) == (seq - (seq % Align)) + Reserve

=============================================================================
