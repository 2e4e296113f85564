------------------------------ MODULE Promise ------------------------------
(***************************************************************************)
(* The one-shot promise of src/promise/mod.rs.  One Promise (the consumer) *)
(* shares a PromiseState {rejected, item, waker} and a Condvar with any    *)
(* number of PromiseResolver clones; the last clone to go runs             *)
(* PromiseResolverInner::drop.  The consumer either awaits the Promise as *)
(* a Future (poll, woken through the stored Waker) or blocks in resolve() *)
(* or timeout() on the Condvar.  Every method body up to its unlock runs  *)
(* under the state mutex and is one step.  resolve and reject call         *)
(* notify_all after the unlock and drop self after that: a step of its own,*)
(* so a wait_for deadline can expire between the two.  The last clone's    *)
(* PromiseResolverInner::drop (lock, mark rejected, notify) is one step.   *)
(***************************************************************************)
EXTENDS Naturals, FiniteSets

CONSTANTS Resolvers,    \* identities of PromiseResolver clones
          Values,       \* values a resolver may deliver
          NONE          \* Option::None

VARIABLES rejected,     \* PromiseState.rejected
          item,         \* PromiseState.item, NONE when empty
          waker,        \* PromiseState.waker is Some
          live,         \* resolver clones not yet dropped
          notifying,    \* clones between their unlock and notify_all
          born,         \* resolver clones ever created
          cpc,          \* where the consumer is
          sleeping,     \* the consumer is parked in Condvar::wait(_for)
          got           \* what the consumer's call returned

vars == <<rejected, item, waker, live, notifying, born, cpc, sleeping, got>>

(* Consumer states: "idle" between calls, "pending" after poll returned   *)
(* Pending, "woken" once its Waker was woken, "resolve" and "timeout"      *)
(* inside the loops of resolve() and timeout(), "done" once it returned a  *)
(* final answer.                                                           *)
CPCs == {"idle", "pending", "woken", "resolve", "timeout", "done"}

-----------------------------------------------------------------------------
(* Condvar::notify_all: every parked waiter wakes and re-checks.           *)
NotifyAll == sleeping' = FALSE

(* Drop of one resolver clone; dropping the last runs                      *)
(* PromiseResolverInner::drop, which marks the promise rejected and        *)
(* notifies the Condvar but does not touch the Waker.                      *)
DropClone(r) ==
    /\ live' = live \ {r}
    /\ rejected' = (rejected \/ live' = {})

(* Clones that hold no call in progress.                                  *)
Idle == live \ notifying

(* PromiseResolver::clone.                                                  *)
Clone(r, r2) ==
    /\ r \in Idle
    /\ r2 \notin born
    /\ live' = live \cup {r2}
    /\ born' = born \cup {r2}
    /\ UNCHANGED <<rejected, item, waker, notifying, cpc, sleeping, got>>

ResolverResolveNoWake(r, v) ==
    /\ r \in Idle
    /\ item' = v
    /\ waker' = FALSE
    /\ cpc' = cpc
    /\ notifying' = notifying \cup {r}
    /\ UNCHANGED <<rejected, live, born, sleeping, got>>

(* PromiseResolver::resolve(self, item), up to drop(state): store the     *)
(* item, take and wake the Waker.                                          *)
ResolverResolve(r, v) ==
    /\ r \in Idle
    /\ item' = v
    /\ waker' = FALSE
    /\ cpc' = IF waker /\ cpc = "pending" THEN "woken" ELSE cpc
    /\ notifying' = notifying \cup {r}
    /\ UNCHANGED <<rejected, live, born, sleeping, got>>

(* PromiseResolver::reject(self), up to drop(state): mark rejected.  The   *)
(* Waker is left where it is.                                              *)
ResolverReject(r) ==
    /\ r \in Idle
    /\ rejected' = TRUE
    /\ notifying' = notifying \cup {r}
    /\ UNCHANGED <<item, waker, live, born, cpc, sleeping, got>>

(* The end of resolve and reject: notify_all, then self is dropped.        *)
ResolverNotify(r) ==
    /\ r \in notifying
    /\ NotifyAll
    /\ notifying' = notifying \ {r}
    /\ DropClone(r)
    /\ UNCHANGED <<item, waker, born, cpc, got>>

(* A resolver clone dropped without resolving (its task ended, panicked or *)
(* was discarded, as pool::spawn discards the rejecter clone).             *)
ResolverDropNoNotify(r) ==
    /\ r \in Idle
    /\ DropClone(r)
    /\ UNCHANGED <<item, waker, notifying, born, cpc, sleeping, got>>

(* Only the last clone's drop runs PromiseResolverInner::drop and so      *)
(* notifies the Condvar.                                                    *)
ResolverDrop(r) ==
    /\ r \in Idle
    /\ DropClone(r)
    /\ sleeping' = (sleeping /\ live' # {})
    /\ UNCHANGED <<item, waker, notifying, born, cpc, got>>

-----------------------------------------------------------------------------
(* Future::poll for a Promise, polled first by the caller and again by the *)
(* executor once the Waker is woken.                                       *)
PollRejectFirst ==
    /\ cpc \in {"idle", "woken"}
    /\ \/ /\ rejected
          /\ got' = NONE
          /\ cpc' = "done"
          /\ UNCHANGED <<item, waker>>
       \/ /\ ~rejected /\ item # NONE
          /\ got' = item
          /\ item' = NONE
          /\ cpc' = "done"
          /\ UNCHANGED waker
       \/ /\ ~rejected /\ item = NONE
          /\ waker' = TRUE
          /\ cpc' = "pending"
          /\ UNCHANGED <<item, got>>
    /\ UNCHANGED <<rejected, live, notifying, born, sleeping>>

Poll ==
    /\ cpc \in {"idle", "woken"}
    /\ \/ /\ item # NONE
          /\ got' = item
          /\ item' = NONE
          /\ cpc' = "done"
          /\ UNCHANGED waker
       \/ /\ item = NONE /\ rejected
          /\ got' = NONE
          /\ cpc' = "done"
          /\ UNCHANGED <<item, waker>>
       \/ /\ item = NONE /\ ~rejected
          /\ waker' = TRUE
          /\ cpc' = "pending"
          /\ UNCHANGED <<item, got>>
    /\ UNCHANGED <<rejected, live, notifying, born, sleeping>>

(* The loop condition shared by Promise::resolve and Promise::timeout: on  *)
(* a filled or rejected promise return item.take(), otherwise park on the  *)
(* Condvar.                                                                 *)
CheckOrPark(call) ==
    \/ /\ item # NONE \/ rejected
       /\ got' = item
       /\ item' = NONE
       /\ cpc' = "done"
       /\ UNCHANGED sleeping
    \/ /\ item = NONE /\ ~rejected
       /\ cpc' = call
       /\ sleeping' = TRUE
       /\ UNCHANGED <<item, got>>

(* Promise::resolve(self): entered from "idle", re-entered after a wakeup. *)
Resolve ==
    /\ \/ cpc = "idle"
       \/ cpc = "resolve" /\ ~sleeping
    /\ CheckOrPark("resolve")
    /\ UNCHANGED <<rejected, waker, live, notifying, born>>

(* Promise::timeout(&self, d): the same loop on wait_for.                  *)
Timeout ==
    /\ \/ cpc = "idle"
       \/ cpc = "timeout" /\ ~sleeping
    /\ CheckOrPark("timeout")
    /\ UNCHANGED <<rejected, waker, live, notifying, born>>

(* wait_for timed out: timeout() returns Err(()) and the caller is back    *)
(* where it started, even when a resolver has filled the item and not yet *)
(* notified (timed_out() is not followed by a re-check).                   *)
TimedOut ==
    /\ cpc = "timeout" /\ sleeping
    /\ cpc' = "idle"
    /\ sleeping' = FALSE
    /\ UNCHANGED <<rejected, item, waker, live, notifying, born, got>>

(* parking_lot's Condvar may wake a waiter spuriously; the loop re-checks. *)
SpuriousWakeup ==
    /\ sleeping
    /\ sleeping' = FALSE
    /\ UNCHANGED <<rejected, item, waker, live, notifying, born, cpc, got>>

-----------------------------------------------------------------------------
(* Promise::pair: one resolver clone, empty state.                         *)
Init ==
    /\ rejected = FALSE
    /\ item = NONE
    /\ waker = FALSE
    /\ \E r \in Resolvers : live = {r} /\ born = {r}
    /\ notifying = {}
    /\ cpc = "idle"
    /\ sleeping = FALSE
    /\ got = NONE

ResolverStep(r) ==
    \/ \E v \in Values : ResolverResolve(r, v)
    \/ ResolverReject(r)
    \/ ResolverNotify(r)
    \/ ResolverDrop(r)

ConsumerStep == Poll \/ Resolve \/ Timeout \/ TimedOut

Next ==
    \/ \E r \in Resolvers :
          \/ ResolverStep(r)
          \/ \E r2 \in Resolvers : Clone(r, r2)
    \/ ConsumerStep
    \/ SpuriousWakeup

(* Fairness: a resolver clone's owner eventually resolves, rejects or      *)
(* drops it (the closure run by the pool always ends, dropping what it     *)
(* captured); the consumer's thread or the executor keeps running a call   *)
(* that can make progress; a wait_for deadline eventually expires.         *)
(* Spurious wakeups get no fairness: nothing promises one.                 *)
Fairness ==
    /\ \A r \in Resolvers : WF_vars(ResolverStep(r))
    /\ WF_vars(ConsumerStep)

Spec == Init /\ [][Next]_vars /\ Fairness

-----------------------------------------------------------------------------
(* A call that returns None (poll's Ready(None), resolve() or timeout()     *)
(* returning Ok(None)) does so only when no item is stored: a value that  *)
(* a resolver delivered is never reported as a rejection, even though the *)
(* drop of the last resolver marks the promise rejected right after every *)
(* resolve.                                                                 *)
NoneOnlyWhenEmpty ==
    [][cpc # "done" /\ cpc' = "done" /\ got' = NONE => item = NONE]_vars

(* A value a resolver stored is eventually returned by a consumer that    *)
(* keeps asking: timeout() may return Err after the item was filled (its  *)
(* deadline expiring before the resolver's notify_all), but it leaves the *)
(* item for the next call, and a polled future is woken by the resolve.   *)
StoredValueDelivered ==
    (item # NONE /\ cpc # "done") ~> (cpc = "done" /\ got # NONE)

(* A thread blocked in Promise::resolve() eventually returns: whatever the *)
(* resolvers do (resolve, reject, or drop the last clone), each path       *)
(* notifies the Condvar.                                                    *)
BlockingResolveReturns == (cpc = "resolve") ~> (cpc = "done")

(* A task awaiting the Promise as a Future eventually completes: once it   *)
(* returned Pending, whatever settles the promise wakes its Waker.         *)
AwaitCompletes == (cpc = "pending") ~> (cpc = "done")
=============================================================================
