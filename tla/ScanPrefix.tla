---------------------------- MODULE ScanPrefix ----------------------------
(***************************************************************************)
(* TreeBlock::scan_prefix (src/tree.rs) turns a prefix into the range     *)
(* key..upper, where upper drops trailing maximal bytes and increments the *)
(* last byte that can be incremented; with no such byte the range is       *)
(* key.. .  The range is checked against its meaning: it holds exactly the *)
(* keys that start with the prefix, for every prefix of the bounded       *)
(* domain.                                                                 *)
(***************************************************************************)
EXTENDS Keys

(* The same end bound computed without the carry: the last byte is        *)
(* incremented in place, wrapping at the byte width.                       *)
UpperBoundNoCarry(upper) ==
    IF upper = <<>> THEN [kind |-> "Unbounded", key |-> <<>>]
    ELSE [kind |-> "Excluded",
          key |-> Append(Front(upper), (Last(upper) + 1) % (MaxByte + 1))]

(* The while-let loop over upper.pop(): the exclusive end bound, or an     *)
(* unbounded end when every byte is maximal.                               *)
RECURSIVE UpperBound(_)
UpperBound(upper) ==
    IF upper = <<>> THEN [kind |-> "Unbounded", key |-> <<>>]
    ELSE IF Last(upper) < MaxByte
         THEN [kind |-> "Excluded",
               key |-> Append(Front(upper), Last(upper) + 1)]
         ELSE UpperBound(Front(upper))

(* scan_prefix(key) hands this range to range(), i.e. to Iter::new.       *)
ScanRange(key) ==
    [start |-> [kind |-> "Included", key |-> key], end |-> UpperBound(key)]

-----------------------------------------------------------------------------
(* The range scan_prefix builds holds exactly the keys that begin with the *)
(* prefix, for every prefix: trailing 0xFF bytes, an all-0xFF prefix and   *)
(* the empty prefix included.                                               *)
ScanMatchesPrefix ==
    \A prefix, k \in AllKeys :
        RangeContains(ScanRange(prefix), k) <=> IsPrefix(prefix, k)
=============================================================================
