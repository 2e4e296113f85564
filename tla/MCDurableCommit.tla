--------------------------- MODULE MCDurableCommit ---------------------------
(* Model-checking instance of DurableCommit: one key, one value, three     *)
(* pages (a genesis block, a child and a grandchild), two crashes.         *)
EXTENDS DurableCommit

CONSTANTS k1, v1
=============================================================================
