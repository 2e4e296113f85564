----------------------------- MODULE BlockStore -----------------------------
(***************************************************************************)
(* What the database promises of committed blocks: a hash, once published *)
(* in the meta page, names one content for good (spec section 1, content- *)
(* addressed snapshots); a published hash becomes durable when the page    *)
(* cache makes its records stable; a crash keeps every durable block and   *)
(* may drop others, never altering what it keeps (section 8, invariants 4  *)
(* and 5, scenarios B and D).  How many threads commit, and in how many    *)
(* steps, is invisible here: publishing a block is one atomic step.        *)
(***************************************************************************)
EXTENDS FiniteSets

VARIABLES
    blocks,     \* published blocks: hash -> content
    durable     \* the published hashes that survive any crash

vars == <<blocks, durable>>

(* One new hash is published with its content; nothing published before   *)
(* changes.                                                                 *)
Publish ==
    /\ DOMAIN blocks \subseteq DOMAIN blocks'
    /\ Cardinality(DOMAIN blocks' \ DOMAIN blocks) = 1
    /\ \A h \in DOMAIN blocks : blocks'[h] = blocks[h]
    /\ UNCHANGED durable

(* More published blocks reach the disk.                                   *)
MakeStable ==
    /\ durable \subseteq durable'
    /\ durable' \subseteq DOMAIN blocks
    /\ UNCHANGED blocks

(* Crash and reopen: the survivors include every durable block, keep their *)
(* content, and are all on disk afterwards.                                *)
Crash ==
    /\ durable \subseteq DOMAIN blocks'
    /\ DOMAIN blocks' \subseteq DOMAIN blocks
    /\ \A h \in DOMAIN blocks' : blocks'[h] = blocks[h]
    /\ durable' = DOMAIN blocks'

Init ==
    /\ DOMAIN blocks = {}
    /\ durable = {}

Next == Publish \/ MakeStable \/ Crash

Spec == Init /\ [][Next]_vars
=============================================================================
