----------------------------- MODULE ParallelIO -----------------------------
(***************************************************************************)
(* Pio for std::fs::File where there is no pread/pwrite (the non-unix mod  *)
(* of src/pagecache/parallel_io.rs): under GLOBAL_FILE_LOCK, try_clone the *)
(* file, seek the clone to the offset, then loop over read or write until  *)
(* the buffer is used up.  Every call into the OS may move fewer bytes     *)
(* than asked, fail with Interrupted, or fail for good; try_clone and seek *)
(* may fail too.  These choices are enumerated, so a call is the set of    *)
(* its possible outcomes.  The lock serializes every pread_exact and       *)
(* pwrite_all, so one call sees the file as a value.                       *)
(*                                                                         *)
(* A file is a sequence of bytes and an offset (LogId) counts the bytes    *)
(* before a position.  Data are the byte values written; 0 is what the OS  *)
(* puts in a gap a write past the end leaves.                              *)
(***************************************************************************)
EXTENDS Naturals, Sequences, SequencesExt

CONSTANTS Data,           \* byte values other than 0
          MaxLen,         \* longest file and buffer considered
          MaxInterrupts   \* Interrupted errors one call may meet

-----------------------------------------------------------------------------
(* File::read at the cursor: 1 up to the bytes asked for while the file    *)
(* has any left, 0 at its end.                                             *)
ReadCounts(file, pos, need) ==
    IF pos >= Len(file) THEN {0} ELSE 1..Min({need, Len(file) - pos})

(* The read loop with its Eof check dropped: a buffer left short by Ok(0)  *)
(* is reported as filled.                                                  *)
RECURSIVE ReadLoopEofAsOk(_, _, _, _, _)
ReadLoopEofAsOk(file, pos, need, data, intr) ==
    IF need = 0 THEN {[res |-> "Ok", data |-> data]}
    ELSE UNION {IF n = 0 THEN {[res |-> "Ok", data |-> data]}
                ELSE ReadLoopEofAsOk(file, pos + n, need - n,
                                     data \o SubSeq(file, pos + 1, pos + n), intr)
                : n \in ReadCounts(file, pos, need)}
         \cup (IF intr < MaxInterrupts
               THEN ReadLoopEofAsOk(file, pos, need, data, intr + 1) ELSE {})
         \cup {[res |-> "Other", data |-> data]}

(* while !buf.is_empty(): Ok(0) breaks, Ok(n) moves the buffer on by n,    *)
(* Interrupted retries, any other error returns; after the loop a buffer   *)
(* not filled is UnexpectedEof.                                            *)
RECURSIVE ReadLoop(_, _, _, _, _)
ReadLoop(file, pos, need, data, intr) ==
    IF need = 0 THEN {[res |-> "Ok", data |-> data]}
    ELSE UNION {IF n = 0 THEN {[res |-> "UnexpectedEof", data |-> data]}
                ELSE ReadLoop(file, pos + n, need - n,
                              data \o SubSeq(file, pos + 1, pos + n), intr)
                : n \in ReadCounts(file, pos, need)}
         \cup (IF intr < MaxInterrupts
               THEN ReadLoop(file, pos, need, data, intr + 1) ELSE {})
         \cup {[res |-> "Other", data |-> data]}

(* pread_exact(buf, offset): try_clone and seek may fail; then the loop.   *)
PreadExact(file, len, offset) ==
    {[res |-> "Other", data |-> <<>>]} \cup ReadLoop(file, offset, len, <<>>, 0)

-----------------------------------------------------------------------------
(* File::write of bytes at the cursor pos: they replace what is there and  *)
(* extend the file, a gap before them filled with 0.                       *)
WriteAt(file, pos, bytes) ==
    IF bytes = <<>> THEN file
    ELSE [i \in 1..Max({Len(file), pos + Len(bytes)}) |->
            IF i > pos /\ i <= pos + Len(bytes) THEN bytes[i - pos]
            ELSE IF i <= Len(file) THEN file[i] ELSE 0]

(* The write loop moving the buffer on by one byte more than was written.  *)
RECURSIVE WriteLoopSkipByte(_, _, _, _)
WriteLoopSkipByte(file, pos, buf, intr) ==
    IF buf = <<>> THEN {[res |-> "Ok", file |-> file]}
    ELSE {[res |-> "WriteZero", file |-> file], [res |-> "Other", file |-> file]}
         \cup UNION {WriteLoopSkipByte(WriteAt(file, pos, SubSeq(buf, 1, n)),
                                       pos + n, SubSeq(buf, n + 2, Len(buf)), intr)
                     : n \in 1..Len(buf)}
         \cup (IF intr < MaxInterrupts
               THEN WriteLoopSkipByte(file, pos, buf, intr + 1) ELSE {})

(* while !buf.is_empty(): Ok(0) is WriteZero, Ok(n) moves the buffer on by *)
(* n, Interrupted retries, any other error returns; an error leaves what   *)
(* was written so far in the file.                                         *)
RECURSIVE WriteLoop(_, _, _, _)
WriteLoop(file, pos, buf, intr) ==
    IF buf = <<>> THEN {[res |-> "Ok", file |-> file]}
    ELSE {[res |-> "WriteZero", file |-> file], [res |-> "Other", file |-> file]}
         \cup UNION {WriteLoop(WriteAt(file, pos, SubSeq(buf, 1, n)),
                               pos + n, SubSeq(buf, n + 1, Len(buf)), intr)
                     : n \in 1..Len(buf)}
         \cup (IF intr < MaxInterrupts
               THEN WriteLoop(file, pos, buf, intr + 1) ELSE {})

(* pwrite_all(buf, offset): try_clone and seek may fail; then the loop.    *)
PwriteAll(file, buf, offset) ==
    {[res |-> "Other", file |-> file]} \cup WriteLoop(file, offset, buf, 0)

-----------------------------------------------------------------------------
Files == BoundedSeq(Data, MaxLen)
Offsets == 0..MaxLen + 1

(* pread_exact keeps Read::read_exact's contract however the OS splits the *)
(* reads: Ok only with the whole buffer filled by the file's bytes at the  *)
(* offset (an empty buffer at any offset included), UnexpectedEof only    *)
(* when the file ends before the buffer is full, and Interrupted never     *)
(* reaches the caller.                                                     *)
PreadExactContract ==
    \A file \in Files, offset \in Offsets, len \in 0..MaxLen :
        \A o \in PreadExact(file, len, offset) :
            /\ o.res \in {"Ok", "UnexpectedEof", "Other"}
            /\ o.res = "Ok" =>
                  /\ Len(o.data) = len
                  /\ \A i \in 1..len : offset + i <= Len(file) /\ o.data[i] = file[offset + i]
            /\ o.res = "UnexpectedEof" => offset + len > Len(file)

(* pwrite_all keeps Write::write_all's contract however the OS splits the  *)
(* writes: Ok leaves the whole buffer in the file at the offset, and an    *)
(* error (Interrupted is never one) leaves a prefix of it there and        *)
(* nothing else changed.                                                   *)
PwriteAllContract ==
    \A file \in Files, offset \in Offsets, buf \in Files :
        \A o \in PwriteAll(file, buf, offset) :
            /\ o.res \in {"Ok", "WriteZero", "Other"}
            /\ o.res = "Ok" => o.file = WriteAt(file, offset, buf)
            /\ \E n \in 0..Len(buf) : o.file = WriteAt(file, offset, SubSeq(buf, 1, n))
=============================================================================
