---------------------------- MODULE IndexBlock ----------------------------
(***************************************************************************)
(* IndexBlock::overlaps (src/block.rs), the range filter of an SSTable     *)
(* index block holding the keys from min to max, checked against its      *)
(* meaning: some key in [min, max] lies in the range.  Bounds and block    *)
(* limits are keys one byte shorter than the longest key the reference     *)
(* quantifies over, so that between two distinct bounds there is always   *)
(* a key of the bounded domain whenever there is one among all Vec<u8>.    *)
(* The property quantifies over every block and range of that domain.    *)
(***************************************************************************)
EXTENDS Keys

BoundKeys == KeysUpTo(MaxLen - 1)

(* IndexBlock::new(min, max), for the blocks an SSTable builds: min <= max. *)
Blocks == {b \in [min : BoundKeys, max : BoundKeys] : KeyLeq(b.min, b.max)}

InBlock(b, k) == KeyLeq(b.min, k) /\ KeyLeq(k, b.max)

OverlapsStrictEmptyCheck(b, r) ==
    \/ RangeContains(r, b.min)
    \/ RangeContains(r, b.max)
    \/ /\ r.start.kind # "Unbounded" /\ r.end.kind # "Unbounded"
       /\ ~KeyLeq(r.start.key, r.end.key)
       /\ InBlock(b, r.start.key) /\ InBlock(b, r.end.key)

(* #1: min or max lies in the range; #2: both bounds are finite, start is *)
(* not after end, and both lie in [min, max]; an infinite bound is left    *)
(* to #1.                                                                   *)
Overlaps(b, r) ==
    \/ RangeContains(r, b.min)
    \/ RangeContains(r, b.max)
    \/ /\ r.start.kind # "Unbounded" /\ r.end.kind # "Unbounded"
       /\ ~KeyLess(r.end.key, r.start.key)
       /\ InBlock(b, r.start.key) /\ InBlock(b, r.end.key)

-----------------------------------------------------------------------------
(* The reference: the block and the range share a key.                    *)
SharesKey(b, r) == \E k \in AllKeys : InBlock(b, k) /\ RangeContains(r, k)

NonEmpty(r) == \E k \in AllKeys : RangeContains(r, k)

(* On every range that holds at least one key, overlaps answers exactly    *)
(* whether the block can hold a key of the range: no block that can is     *)
(* skipped (a lost scan result) and none that cannot is read.              *)
OverlapsExactOnNonEmpty ==
    \A b \in Blocks, r \in Ranges(BoundKeys) :
        NonEmpty(r) => (Overlaps(b, r) <=> SharesKey(b, r))
=============================================================================
