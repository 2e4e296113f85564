------------------------------ MODULE MCStack ------------------------------
(* Model-checking instance of Stack: two threads, three heap cells, so     *)
(* that a chain of two nodes, a displaced chain awaiting reclamation and   *)
(* the reuse of a freed cell all occur.                                    *)
EXTENDS Stack

CONSTANTS t1, t2, n1, n2, n3

MCThreads == {t1, t2}
MCNodes == {n1, n2, n3}
=============================================================================
