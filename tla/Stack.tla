------------------------------- MODULE Stack -------------------------------
(***************************************************************************)
(* The lock-free fragment stack of src/ds/stack.rs, used by the page cache *)
(* as the in-memory chain of one page, together with                      *)
(*   - the callers of the page cache that drive it (link = cap, replace =  *)
(*     cas, get = a walk of the chain, all under a pinned guard), and      *)
(*   - the epoch reclamation contract of crossbeam-epoch that it relies on *)
(*     for defer_destroy (spec section 4.1).                               *)
(* Memory is explicit: every node is "free" or "live", freed nodes are     *)
(* reused by later allocations, and dropping a node frees its whole        *)
(* next-chain as Node's Drop does.                                         *)
(***************************************************************************)
EXTENDS Naturals, FiniteSets, Sequences, SequencesExt

CONSTANTS
    Threads,    \* threads using the page
    Nodes,      \* heap cells that stack nodes are allocated in
    NULL        \* the null pointer

ASSUME NULL \notin Nodes

VARIABLES
    head,       \* Stack.head
    next,       \* Node.next of every heap cell
    mem,        \* allocation state of every heap cell
    garbage,    \* deferred destructions: [node, threads it still waits for]
    pinned,     \* whether a thread holds an epoch guard
    pc,         \* program counter of each thread
    key,        \* the head a thread loaded (its `old` / page key)
    cursor,     \* the node a reading thread is about to dereference
    own         \* the Owned<Node> a thread holds, not yet in the stack

vars == <<head, next, mem, garbage, pinned, pc, key, cursor, own>>

Ptr == Nodes \cup {NULL}

PCs == {"idle", "ready", "loaded", "walk", "cap", "capFailed", "cas",
        "casFailed", "done", "pushLoad", "pushCas"}

(* The nodes reachable from n through next, head first.  The visited set   *)
(* keeps the operator total on a (faulty) cyclic heap.                     *)
RECURSIVE ListFrom(_, _)
ListFrom(n, seen) ==
    IF n = NULL \/ n \in seen THEN <<>>
    ELSE <<n>> \o ListFrom(next[n], seen \cup {n})

Chain(n) == ToSet(ListFrom(n, {}))

(* Drop for Node (stack.rs 21-29) frees the node and, recursively, every   *)
(* node its next pointer leads to.                                         *)
Drop(n) == mem' = [c \in Nodes |-> IF c \in Chain(n) THEN "free" ELSE mem[c]]

Goto(t, from, to) ==
    /\ pc[t] = from
    /\ pc' = [pc EXCEPT ![t] = to]

-----------------------------------------------------------------------------
(* Epoch reclamation (crossbeam-epoch, spec section 4.1).                  *)

Pin(t) ==
    /\ Goto(t, "idle", "ready")
    /\ pinned' = [pinned EXCEPT ![t] = TRUE]
    /\ UNCHANGED <<head, next, mem, garbage, key, cursor, own>>

(* Dropping the guard: the thread's Shared pointers die with it, and no    *)
(* deferred destruction waits for this thread any longer.                  *)
Unpin(t) ==
    /\ Goto(t, "done", "idle")
    /\ pinned' = [pinned EXCEPT ![t] = FALSE]
    /\ key' = [key EXCEPT ![t] = NULL]
    /\ cursor' = [cursor EXCEPT ![t] = NULL]
    /\ garbage' = {[g EXCEPT !.waitFor = @ \ {t}] : g \in garbage}
    /\ UNCHANGED <<head, next, mem, own>>

(* defer_destroy(old): destroyed once every guard pinned now is dropped.   *)
DeferDestroy(n) ==
    garbage' = garbage \cup {[node |-> n, waitFor |-> {u \in Threads : pinned[u]}]}

(* The collector runs a deferred destruction whose guards are all gone.    *)
Collect ==
    \E g \in garbage :
        /\ g.waitFor = {}
        /\ Drop(g.node)
        /\ garbage' = garbage \ {g}
        /\ UNCHANGED <<head, next, pinned, pc, key, cursor, own>>

-----------------------------------------------------------------------------
(* Stack operations (stack.rs).                                            *)

(* head(): an Acquire load of the head under the thread's guard.           *)
LoadHead(t) ==
    /\ Goto(t, "ready", "loaded")
    /\ key' = [key EXCEPT ![t] = head]
    /\ UNCHANGED <<head, next, mem, garbage, pinned, cursor, own>>

(* Owned::new(Node { inner, next: Atomic::null() }) before a cap or cas.   *)
Alloc(t, n, then) ==
    /\ mem[n] = "free"
    /\ Goto(t, "loaded", then)
    /\ mem' = [mem EXCEPT ![n] = "live"]
    /\ next' = [next EXCEPT ![n] = NULL]
    /\ own' = [own EXCEPT ![t] = n]
    /\ UNCHANGED <<head, garbage, pinned, key, cursor>>

(* A cap that forgets to null the rejected node's next pointer.            *)
CapNoReset(t) ==
    LET n == own[t] IN
    /\ pc[t] = "cap"
    /\ IF head = key[t]
       THEN /\ head' = n
            /\ next' = [next EXCEPT ![n] = key[t]]
            /\ own' = [own EXCEPT ![t] = NULL]
            /\ pc' = [pc EXCEPT ![t] = "done"]
            /\ UNCHANGED key
       ELSE /\ next' = [next EXCEPT ![n] = key[t]]
            /\ key' = [key EXCEPT ![t] = head]
            /\ pc' = [pc EXCEPT ![t] = "capFailed"]
            /\ UNCHANGED <<head, own>>
    /\ UNCHANGED <<mem, garbage, pinned, cursor>>

(* A cap whose exchange does not compare the head with `old`.              *)
CapBlind(t) ==
    LET n == own[t] IN
    /\ pc[t] = "cap"
    /\ head' = n
    /\ next' = [next EXCEPT ![n] = key[t]]
    /\ own' = [own EXCEPT ![t] = NULL]
    /\ pc' = [pc EXCEPT ![t] = "done"]
    /\ UNCHANGED <<mem, garbage, pinned, key, cursor>>

(* cap(old, node): node.next = old; compare_exchange(old, node).  On       *)
(* failure the rejected node gets next = null and is handed back together  *)
(* with the current head.                                                  *)
Cap(t) ==
    LET n == own[t] IN
    /\ pc[t] = "cap"
    /\ IF head = key[t]
       THEN /\ head' = n
            /\ next' = [next EXCEPT ![n] = key[t]]
            /\ own' = [own EXCEPT ![t] = NULL]
            /\ pc' = [pc EXCEPT ![t] = "done"]
            /\ UNCHANGED key
       ELSE /\ next' = [next EXCEPT ![n] = NULL]
            /\ key' = [key EXCEPT ![t] = head]
            /\ pc' = [pc EXCEPT ![t] = "capFailed"]
            /\ UNCHANGED <<head, own>>
    /\ UNCHANGED <<mem, garbage, pinned, cursor>>

(* A cas that destroys the displaced head at once instead of deferring it. *)
CasDestroyNow(t) ==
    /\ pc[t] = "cas"
    /\ IF head = key[t]
       THEN /\ head' = own[t]
            /\ own' = [own EXCEPT ![t] = NULL]
            /\ pc' = [pc EXCEPT ![t] = "done"]
            /\ IF key[t] # NULL THEN Drop(key[t]) ELSE UNCHANGED mem
            /\ UNCHANGED <<key, garbage>>
       ELSE /\ key' = [key EXCEPT ![t] = head]
            /\ pc' = [pc EXCEPT ![t] = "casFailed"]
            /\ UNCHANGED <<head, own, mem, garbage>>
    /\ UNCHANGED <<next, pinned, cursor>>

(* A cas whose success path leaves the installed node with the caller.    *)
CasKeepOwn(t) ==
    /\ pc[t] = "cas"
    /\ IF head = key[t]
       THEN /\ head' = own[t]
            /\ pc' = [pc EXCEPT ![t] = "done"]
            /\ IF key[t] # NULL THEN DeferDestroy(key[t]) ELSE UNCHANGED garbage
            /\ UNCHANGED <<key, own>>
       ELSE /\ key' = [key EXCEPT ![t] = head]
            /\ pc' = [pc EXCEPT ![t] = "casFailed"]
            /\ UNCHANGED <<head, own, garbage>>
    /\ UNCHANGED <<next, mem, pinned, cursor>>

(* cas(old, new): compare_exchange(old, new); on success the displaced     *)
(* head, and with it its whole chain, is deferred for destruction; on      *)
(* failure the current head and the new node are handed back.             *)
Cas(t) ==
    /\ pc[t] = "cas"
    /\ IF head = key[t]
       THEN /\ head' = own[t]
            /\ own' = [own EXCEPT ![t] = NULL]
            /\ pc' = [pc EXCEPT ![t] = "done"]
            /\ IF key[t] # NULL THEN DeferDestroy(key[t]) ELSE UNCHANGED garbage
            /\ UNCHANGED key
       ELSE /\ key' = [key EXCEPT ![t] = head]
            /\ pc' = [pc EXCEPT ![t] = "casFailed"]
            /\ UNCHANGED <<head, own, garbage>>
    /\ UNCHANGED <<next, mem, pinned, cursor>>

(* The caller retries with the head a failed exchange returned.            *)
Retry(t) ==
    /\ \/ Goto(t, "capFailed", "cap")
       \/ Goto(t, "casFailed", "cas")
    /\ UNCHANGED <<head, next, mem, garbage, pinned, key, cursor, own>>

(* The caller gives up and drops the rejected Owned node.                  *)
Abandon(t) ==
    /\ pc[t] \in {"capFailed", "casFailed"}
    /\ pc' = [pc EXCEPT ![t] = "done"]
    /\ Drop(own[t])
    /\ own' = [own EXCEPT ![t] = NULL]
    /\ UNCHANGED <<head, next, garbage, pinned, key, cursor>>

(* push(inner): allocate, then loop { load head unprotected; node.next =   *)
(* head; compare_exchange(head, node) }.  No guard is pinned.              *)
PushAlloc(t, n) ==
    /\ mem[n] = "free"
    /\ Goto(t, "idle", "pushLoad")
    /\ mem' = [mem EXCEPT ![n] = "live"]
    /\ next' = [next EXCEPT ![n] = NULL]
    /\ own' = [own EXCEPT ![t] = n]
    /\ UNCHANGED <<head, garbage, pinned, key, cursor>>

PushLoad(t) ==
    /\ Goto(t, "pushLoad", "pushCas")
    /\ key' = [key EXCEPT ![t] = head]
    /\ next' = [next EXCEPT ![own[t]] = head]
    /\ UNCHANGED <<head, mem, garbage, pinned, cursor, own>>

PushCas(t) ==
    /\ pc[t] = "pushCas"
    /\ IF head = key[t]
       THEN /\ head' = own[t]
            /\ own' = [own EXCEPT ![t] = NULL]
            /\ key' = [key EXCEPT ![t] = NULL]
            /\ pc' = [pc EXCEPT ![t] = "idle"]
       ELSE /\ pc' = [pc EXCEPT ![t] = "pushLoad"]
            /\ UNCHANGED <<head, own, key>>
    /\ UNCHANGED <<next, mem, garbage, pinned, cursor>>

-----------------------------------------------------------------------------
(* Reading a page (page cache get): walk the chain from the loaded head,   *)
(* dereferencing every node under the guard.                               *)

BeginWalk(t) ==
    /\ Goto(t, "loaded", "walk")
    /\ cursor' = [cursor EXCEPT ![t] = key[t]]
    /\ UNCHANGED <<head, next, mem, garbage, pinned, key, own>>

WalkStep(t) ==
    /\ pc[t] = "walk"
    /\ IF cursor[t] = NULL
       THEN /\ pc' = [pc EXCEPT ![t] = "done"]
            /\ UNCHANGED cursor
       ELSE /\ cursor' = [cursor EXCEPT ![t] = next[cursor[t]]]
            /\ UNCHANGED pc
    /\ UNCHANGED <<head, next, mem, garbage, pinned, key, own>>

-----------------------------------------------------------------------------

Init ==
    /\ head = NULL
    /\ next = [n \in Nodes |-> NULL]
    /\ mem = [n \in Nodes |-> "free"]
    /\ garbage = {}
    /\ pinned = [t \in Threads |-> FALSE]
    /\ pc = [t \in Threads |-> "idle"]
    /\ key = [t \in Threads |-> NULL]
    /\ cursor = [t \in Threads |-> NULL]
    /\ own = [t \in Threads |-> NULL]

Next ==
    \/ Collect
    \/ \E t \in Threads :
        \/ Pin(t) \/ Unpin(t) \/ LoadHead(t) \/ BeginWalk(t) \/ WalkStep(t)
        \/ Cap(t) \/ Cas(t) \/ Retry(t) \/ Abandon(t)
        \/ PushLoad(t) \/ PushCas(t)
        \/ \E n \in Nodes :
            \/ Alloc(t, n, "cap") \/ Alloc(t, n, "cas") \/ PushAlloc(t, n)

Spec == Init /\ [][Next]_vars

-----------------------------------------------------------------------------
(* Properties                                                              *)

TypeOK ==
    /\ head \in Ptr
    /\ next \in [Nodes -> Ptr]
    /\ mem \in [Nodes -> {"free", "live"}]
    /\ \A g \in garbage : g.node \in Nodes /\ g.waitFor \subseteq Threads
    /\ pinned \in [Threads -> BOOLEAN]
    /\ pc \in [Threads -> PCs]
    /\ key \in [Threads -> Ptr]
    /\ cursor \in [Threads -> Ptr]
    /\ own \in [Threads -> Ptr]
    /\ \A t \in Threads :
        /\ own[t] # NULL <=> pc[t] \in {"cap", "capFailed", "cas", "casFailed",
                                        "pushLoad", "pushCas"}
        /\ pinned[t] <=> pc[t] \in {"ready", "loaded", "walk", "cap", "capFailed",
                                    "cas", "casFailed", "done"}

(* The owners of heap cells: the stack head, every pending deferred        *)
(* destruction and every Owned node a thread holds.  Each owner owns the   *)
(* whole chain its pointer reaches, since that is what its Drop frees; a   *)
(* node being pushed is a raw shared pointer that is never dropped, so it  *)
(* owns only itself.                                                       *)
Owners ==
    {<<"head", head>>}
    \cup {<<"retired", g.node>> : g \in garbage}
    \cup {<<"owned", t>> : t \in {u \in Threads : own[u] # NULL}}

Owns(o) ==
    CASE o[1] = "owned" /\ pc[o[2]] \in {"pushLoad", "pushCas"} -> {own[o[2]]}
      [] o[1] = "owned" -> Chain(own[o[2]])
      [] OTHER -> Chain(o[2])

(* Every live node is owned exactly once and every owned node is live:     *)
(* no node is leaked, none will be freed twice, and none in use is free.   *)
(* This is about cap's failure path nulling the rejected node's next, and  *)
(* cas handing the displaced chain, and only it, to defer_destroy.         *)
OwnershipSound ==
    \A n \in Nodes :
        Cardinality({o \in Owners : n \in Owns(o)}) = IF mem[n] = "live" THEN 1 ELSE 0

(* The pointers a thread may still dereference: what it loaded and where   *)
(* its walk stands, for as long as its guard is pinned.                    *)
Protected(t) == IF pinned[t] THEN {key[t], cursor[t]} \ {NULL} ELSE {}

(* No step frees a node that is reachable from the head or that a thread   *)
(* holding a guard may still dereference: defer_destroy in cas must wait   *)
(* for every guard pinned when the head was displaced.                     *)
NoFreeWhileReachable ==
    [][\A n \in Chain(head) \cup UNION {Protected(t) : t \in Threads} :
          mem[n] = "live" => mem'[n] = "live"]_vars

(* The stack implements PageChain: read oldest first, the chain changes    *)
(* only by appending the node of a successful cap or push, or by becoming  *)
(* the single node of a successful cas.                                    *)
Abstract == INSTANCE PageChain WITH Fragments <- Nodes,
                                    chain <- Reverse(ListFrom(head, {}))

ChainRefinement == Abstract!Spec
=============================================================================
