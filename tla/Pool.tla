------------------------------- MODULE Pool -------------------------------
(***************************************************************************)
(* The adaptive blocking pool behind Promise::new (src/promise/pool.rs).   *)
(* Two static workers and up to MAX_THREADS dynamic workers receive boxed *)
(* tasks over a zero-capacity crossbeam channel, so a send succeeds only   *)
(* by handing the task to a worker that is blocked in recv at that moment. *)
(* spawn() first try_sends; when no worker is waiting it reads             *)
(* DYNAMIC_THREAD_COUNT and either starts another dynamic worker and       *)
(* blocks in send, or runs the task on the calling thread.  A dynamic      *)
(* worker counts itself only once it runs, and leaves after a recv        *)
(* timeout.  Each caller submits one task; PromisePool adds the promise    *)
(* the task resolves.                                                      *)
(***************************************************************************)
EXTENDS Naturals, FiniteSets

CONSTANTS Callers,      \* threads calling spawn, one task each
          Static,       \* the two workers init_pool starts
          Dynamic,      \* identities for dynamically started workers
          MAX_THREADS,  \* the cap on dynamic workers
          NONE

VARIABLES cpc,          \* caller: "try", "check", "send", "inline", "done"
          ran,          \* callers whose task has run
          wstate,       \* worker: "unborn", "starting", "recv", "running", "exited"
          wtask,        \* the caller whose task a running worker runs
          count         \* DYNAMIC_THREAD_COUNT

vars == <<cpc, ran, wstate, wtask, count>>

Workers == Static \cup Dynamic

Receiving == {w \in Workers : wstate[w] = "recv"}

(* The rendezvous of a zero-capacity channel: worker w, blocked in recv,   *)
(* takes caller c's task.                                                   *)
HandOff(c, w) ==
    /\ wstate' = [wstate EXCEPT ![w] = "running"]
    /\ wtask' = [wtask EXCEPT ![w] = c]
    /\ cpc' = [cpc EXCEPT ![c] = "done"]

-----------------------------------------------------------------------------
(* POOL.sender.try_send(task): Ok when a worker is waiting, Full otherwise *)
(* (the receiver lives in a static, so Disconnected cannot happen).        *)
TrySend(c) ==
    /\ cpc[c] = "try"
    /\ \/ \E w \in Receiving : HandOff(c, w)
       \/ /\ Receiving = {}
          /\ cpc' = [cpc EXCEPT ![c] = "check"]
          /\ UNCHANGED <<wstate, wtask>>
    /\ UNCHANGED <<ran, count>>

(* maybe_create_another_blocking_thread(): a relaxed load of the count;    *)
(* below the cap a new worker is started (it increments the count itself  *)
(* when it runs) and the caller goes on to a blocking send; at the cap, or *)
(* when the OS refuses the thread, the caller runs the task inline.        *)
CreateAnother(c) ==
    /\ cpc[c] = "check"
    /\ \/ /\ count < MAX_THREADS
          /\ \E d \in Dynamic :
                /\ wstate[d] = "unborn"
                /\ wstate' = [wstate EXCEPT ![d] = "starting"]
          /\ cpc' = [cpc EXCEPT ![c] = "send"]
       \/ /\ count < MAX_THREADS
          /\ cpc' = [cpc EXCEPT ![c] = "inline"]
          /\ UNCHANGED wstate
       \/ /\ count >= MAX_THREADS
          /\ cpc' = [cpc EXCEPT ![c] = "inline"]
          /\ UNCHANGED wstate
    /\ UNCHANGED <<ran, wtask, count>>

(* POOL.sender.send(task): blocks until some worker receives it.           *)
Send(c) ==
    /\ cpc[c] = "send"
    /\ \E w \in Receiving : HandOff(c, w)
    /\ UNCHANGED <<ran, count>>

(* task(): the caller runs its own task.                                   *)
RunInline(c) ==
    /\ cpc[c] = "inline"
    /\ ran' = ran \cup {c}
    /\ cpc' = [cpc EXCEPT ![c] = "done"]
    /\ UNCHANGED <<wstate, wtask, count>>

-----------------------------------------------------------------------------
(* A worker runs the task it received and goes back to recv.               *)
RunTask(w) ==
    /\ wstate[w] = "running"
    /\ ran' = ran \cup {wtask[w]}
    /\ wstate' = [wstate EXCEPT ![w] = "recv"]
    /\ wtask' = [wtask EXCEPT ![w] = NONE]
    /\ UNCHANGED <<cpc, count>>

(* The first statement of a dynamic worker: fetch_add(1).                  *)
DynStart(d) ==
    /\ wstate[d] = "starting"
    /\ count' = count + 1
    /\ wstate' = [wstate EXCEPT ![d] = "recv"]
    /\ UNCHANGED <<cpc, ran, wtask>>

(* recv_timeout of one second expired: fetch_sub(1) and the thread ends.   *)
DynExit(d) ==
    /\ wstate[d] = "recv"
    /\ count' = count - 1
    /\ wstate' = [wstate EXCEPT ![d] = "exited"]
    /\ UNCHANGED <<cpc, ran, wtask>>

-----------------------------------------------------------------------------
(* The pool after init_pool: both static workers wait in recv, no dynamic *)
(* worker exists; every caller is about to try_send.                       *)
Init ==
    /\ cpc = [c \in Callers |-> "try"]
    /\ ran = {}
    /\ wstate = [w \in Workers |-> IF w \in Static THEN "recv" ELSE "unborn"]
    /\ wtask = [w \in Workers |-> NONE]
    /\ count = 0

CallerStep(c) == TrySend(c) \/ CreateAnother(c) \/ Send(c) \/ RunInline(c)

Next ==
    \/ \E c \in Callers : CallerStep(c)
    \/ \E w \in Workers : RunTask(w)
    \/ \E d \in Dynamic : DynStart(d) \/ DynExit(d)

(* Fairness: the OS keeps scheduling every thread that can run, so a       *)
(* caller makes progress, a started thread runs its first statement and a  *)
(* worker finishes its task.  A recv timeout gets none: it may or may not  *)
(* fire before work arrives.                                               *)
Fairness ==
    /\ \A c \in Callers : WF_vars(CallerStep(c))
    /\ \A w \in Workers : WF_vars(RunTask(w))
    /\ \A d \in Dynamic : WF_vars(DynStart(d))

Spec == Init /\ [][Next]_vars /\ Fairness

=============================================================================
