---------------------------- MODULE MCPromisePool ----------------------------
(* Model-checking instance of PromisePool: four callers against the two   *)
(* static workers, so that two callers find nobody in recv; a cap of one  *)
(* dynamic worker, so that both the start of a worker and the inline      *)
(* fallback at the cap occur.                                              *)
EXTENDS PromisePool

CONSTANTS c1, c2, c3, c4, s1, s2, d1, d2, d3

MCCallers == {c1, c2, c3, c4}
MCStatic == {s1, s2}
MCDynamic == {d1, d2}
=============================================================================
