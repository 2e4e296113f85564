------------------------------- MODULE Keys -------------------------------
(***************************************************************************)
(* Keys are Vec<u8> (prelude::Key), ordered lexicographically as Rust's   *)
(* Ord for Vec does: byte by byte, a proper prefix before its extensions. *)
(* A byte is 0..MaxByte, where MaxByte stands for u8::max_value(); the     *)
(* arithmetic that depends on the width (scan_prefix's carry) only ever    *)
(* asks whether a byte is the maximum.  Ranges are pairs of                *)
(* std::ops::Bound, and RangeContains is RangeBounds::contains.            *)
(***************************************************************************)
EXTENDS Naturals, Sequences, SequencesExt

CONSTANTS MaxByte,      \* u8::max_value()
          MaxLen        \* longest key considered

Bytes == 0..MaxByte

KeysUpTo(n) == BoundedSeq(Bytes, n)

AllKeys == KeysUpTo(MaxLen)

(* <Vec<u8> as Ord>::cmp, as a strict order.                               *)
RECURSIVE KeyLess(_, _)
KeyLess(a, b) ==
    IF b = <<>> THEN FALSE
    ELSE IF a = <<>> THEN TRUE
    ELSE IF Head(a) # Head(b) THEN Head(a) < Head(b)
    ELSE KeyLess(Tail(a), Tail(b))

KeyLeq(a, b) == a = b \/ KeyLess(a, b)

(* std::ops::Bound<Key>.                                                    *)
Bound(kinds, keys) ==
    {[kind |-> k, key |-> x] : k \in kinds \ {"Unbounded"}, x \in keys}
        \cup (IF "Unbounded" \in kinds
              THEN {[kind |-> "Unbounded", key |-> <<>>]} ELSE {})

BoundKinds == {"Included", "Excluded", "Unbounded"}

(* A range is its start_bound() and end_bound().                           *)
Ranges(keys) == [start : Bound(BoundKinds, keys), end : Bound(BoundKinds, keys)]

(* RangeBounds::contains: the item is after the start bound and before the *)
(* end bound.                                                              *)
RangeContains(r, k) ==
    /\ CASE r.start.kind = "Included" -> KeyLeq(r.start.key, k)
         [] r.start.kind = "Excluded" -> KeyLess(r.start.key, k)
         [] OTHER -> TRUE
    /\ CASE r.end.kind = "Included" -> KeyLeq(k, r.end.key)
         [] r.end.kind = "Excluded" -> KeyLess(k, r.end.key)
         [] OTHER -> TRUE
=============================================================================
