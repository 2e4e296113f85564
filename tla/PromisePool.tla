---------------------------- MODULE PromisePool ----------------------------
(***************************************************************************)
(* Promise::new(work) = pool::spawn(work) (src/promise/pool.rs) composed   *)
(* with the promise it returns (src/promise/mod.rs).  spawn makes a pair,  *)
(* clones the resolver into a rejecter, and boxes a task that runs work() *)
(* and resolves with its result; the task goes to a worker or runs inline *)
(* (the Pool module), and spawn returns the promise, dropping the rejecter *)
(* as it leaves.  The caller then blocks in Promise::resolve().            *)
(*                                                                         *)
(* The pool part is Pool's actions unchanged; each caller's PromiseState   *)
(* {item, rejected} and its live resolver clones are added.  A thread      *)
(* parked in resolve() takes no step until the state lets it return: that  *)
(* every resolver path notifies the Condvar is the Promise module's        *)
(* BlockingResolveReturns.                                                  *)
(***************************************************************************)
EXTENDS Pool

CONSTANTS RESULT        \* the value work() returns

VARIABLES item,         \* PromiseState.item of each caller's promise
          rejected,     \* PromiseState.rejected
          live,         \* the caller's resolver clones still alive
          ppc,          \* the caller after the pool part: "spawn", "resolve", "done"
          got           \* what its resolve() returned

pvars == <<item, rejected, live, ppc, got>>

allVars == <<vars, pvars>>

-----------------------------------------------------------------------------
(* Clones gone of c's pair are dropped, after the item is stored when the  *)
(* step resolves; dropping the last one runs PromiseResolverInner::drop,   *)
(* which marks the promise rejected.                                        *)
Settle(c, resolves, gone) ==
    LET left == live[c] \ gone IN
    /\ live' = [live EXCEPT ![c] = left]
    /\ rejected' = [rejected EXCEPT ![c] = @ \/ left = {}]
    /\ item' = IF resolves THEN [item EXCEPT ![c] = RESULT] ELSE item

(* The boxed task: work(), then resolver.resolve(result), which consumes   *)
(* and drops the resolver.                                                 *)
Task(c) ==
    /\ Settle(c, TRUE, {"resolver"})
    /\ UNCHANGED <<ppc, got>>

(* try_send, maybe_create_another_blocking_thread and send: the promise is *)
(* untouched.                                                              *)
SpawnStep(c) ==
    /\ TrySend(c) \/ CreateAnother(c) \/ Send(c)
    /\ UNCHANGED pvars

(* task() on the calling thread.                                            *)
SpawnInline(c) ==
    /\ RunInline(c)
    /\ Task(c)

(* A worker runs the task it received.                                     *)
WorkerRun(w) ==
    /\ RunTask(w)
    /\ Task(wtask[w])

DynStep(d) ==
    /\ DynStart(d) \/ DynExit(d)
    /\ UNCHANGED pvars

ReturnPromiseRejecting(c) ==
    /\ ppc[c] = "spawn" /\ cpc[c] = "done"
    /\ live' = [live EXCEPT ![c] = @ \ {"rejecter"}]
    /\ rejected' = [rejected EXCEPT ![c] = TRUE]
    /\ ppc' = [ppc EXCEPT ![c] = "resolve"]
    /\ UNCHANGED <<item, got>>
    /\ UNCHANGED vars

(* spawn returns the promise once the task is handed off or has run; the   *)
(* rejecter, unused, is dropped on the way out.                            *)
ReturnPromise(c) ==
    /\ ppc[c] = "spawn" /\ cpc[c] = "done"
    /\ Settle(c, FALSE, {"rejecter"})
    /\ ppc' = [ppc EXCEPT ![c] = "resolve"]
    /\ UNCHANGED got
    /\ UNCHANGED vars

(* Promise::resolve(): once the promise is filled or rejected, return      *)
(* item.take().                                                             *)
ConsumerResolve(c) ==
    /\ ppc[c] = "resolve"
    /\ item[c] # NONE \/ rejected[c]
    /\ got' = [got EXCEPT ![c] = item[c]]
    /\ item' = [item EXCEPT ![c] = NONE]
    /\ ppc' = [ppc EXCEPT ![c] = "done"]
    /\ UNCHANGED <<rejected, live>>
    /\ UNCHANGED vars

-----------------------------------------------------------------------------
(* The pool after init_pool; each caller holds a fresh Promise::pair and   *)
(* its rejecter clone.                                                     *)
PInit ==
    /\ Init
    /\ item = [c \in Callers |-> NONE]
    /\ rejected = [c \in Callers |-> FALSE]
    /\ live = [c \in Callers |-> {"resolver", "rejecter"}]
    /\ ppc = [c \in Callers |-> "spawn"]
    /\ got = [c \in Callers |-> NONE]

CallerThread(c) == SpawnStep(c) \/ SpawnInline(c) \/ ReturnPromise(c) \/ ConsumerResolve(c)

PNext ==
    \/ \E c \in Callers : CallerThread(c)
    \/ \E w \in Workers : WorkerRun(w)
    \/ \E d \in Dynamic : DynStep(d)

(* The OS keeps running every runnable thread: callers, workers with a     *)
(* task, a started thread's first statement.  A recv timeout gets none.    *)
PFairness ==
    /\ \A c \in Callers : WF_allVars(CallerThread(c))
    /\ \A w \in Workers : WF_allVars(WorkerRun(w))
    /\ \A d \in Dynamic : WF_allVars(DynStart(d) /\ UNCHANGED pvars)

PSpec == PInit /\ [][PNext]_allVars /\ PFairness

-----------------------------------------------------------------------------
(* Promise::new(work).resolve() returns Some(work()) for every caller      *)
(* (test_promise_resolve): whether the task runs on a static worker, on a  *)
(* freshly started one or inline at the cap, and whether spawn's return    *)
(* drops the rejecter before or after the task's resolve drops the         *)
(* resolver (the last drop marks the promise rejected).                    *)
PromiseNewResolves == \A c \in Callers : <>(ppc[c] = "done" /\ got[c] = RESULT)
=============================================================================
