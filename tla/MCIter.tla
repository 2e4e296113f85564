------------------------------- MODULE MCIter -------------------------------
(***************************************************************************)
(* Range scans: the iterator of src/iter.rs under a concurrent writer, and *)
(* the two operators that decide what a scan covers, IndexBlock::overlaps  *)
(* (over bytes 0..1, keys up to three bytes) and the range scan_prefix     *)
(* hands to Iter::new (over bytes 0..2, where 2 plays u8::MAX, prefixes up *)
(* to four bytes).  Beside them, the positional file I/O loops of          *)
(* ParallelIO (files and buffers up to two bytes of two values, offsets    *)
(* up to one past the end, one Interrupted per call).  The operators do    *)
(* not depend on the iterator: they are checked over all their inputs in   *)
(* the state of a fresh, empty block.                                      *)
(***************************************************************************)
EXTENDS Iter

O == INSTANCE IndexBlock WITH MaxByte <- 1, MaxLen <- 3
P == INSTANCE ScanPrefix WITH MaxByte <- 2, MaxLen <- 4
IO == INSTANCE ParallelIO WITH Data <- {1, 2}, MaxLen <- 2, MaxInterrupts <- 1

(* See IndexBlock and ScanPrefix: overlaps is exact on every non-empty     *)
(* range, and scan_prefix's range holds exactly the keys with the prefix.  *)
FreshEmptyBlock ==
    ipc = "new" /\ ~committed /\ cookie = EmptyMap /\ parent = EmptyMap

OverlapsExactOnNonEmpty == FreshEmptyBlock => O!OverlapsExactOnNonEmpty

ScanMatchesPrefix == FreshEmptyBlock => P!ScanMatchesPrefix

(* See ParallelIO: pread_exact and pwrite_all keep the read_exact and      *)
(* write_all contracts whatever short transfers and interruptions occur.   *)
PreadExactContract == FreshEmptyBlock => IO!PreadExactContract

PwriteAllContract == FreshEmptyBlock => IO!PwriteAllContract
=============================================================================
