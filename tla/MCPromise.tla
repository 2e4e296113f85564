----------------------------- MODULE MCPromise -----------------------------
(* Model-checking instance of Promise: three resolver clones (the resolver *)
(* and the rejecter pool::spawn makes, and one more) and two values.     *)
EXTENDS Promise

CONSTANTS r1, r2, r3, v1, v2

MCResolvers == {r1, r2, r3}
MCValues == {v1, v2}
=============================================================================
