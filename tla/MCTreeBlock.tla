---------------------------- MODULE MCTreeBlock ----------------------------
(* Model-checking instances of TreeBlock.                                  *)
EXTENDS TreeBlock

CONSTANTS w1, w2, r1, k1, k2, v1

(* One writer thread and one reader thread, two keys and three blocks: a   *)
(* genesis block, a child and a grandchild, so that values and deletions   *)
(* are shadowed along a chain of committed pages.                          *)
SingleWriterThreads == {w1, r1}
SingleWriter == {w1}
TwoKeys == {k1, k2}

(* Two writer threads sharing one block handle.                            *)
TwoWriterThreads == {w1, w2}
OneKey == {k1}
=============================================================================
