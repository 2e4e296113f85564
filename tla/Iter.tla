------------------------------- MODULE Iter -------------------------------
(***************************************************************************)
(* The range iterator of src/iter.rs over one uncommitted TreeBlock while *)
(* a writer inserts, deletes and commits it.  Iter::new collects keys     *)
(* into a min-heap from the cookie, the block's page and every prev page, *)
(* all under the cookie's read lock; next() pops keys, skips a            *)
(* repeat of the previous key and reads each value through get() at that *)
(* moment; last() drains the heap and reads the greatest key.             *)
(*                                                                         *)
(* The block is abstracted to its cookie, its own page's entries and the  *)
(* entries of its committed ancestors (one merged map).  commit holds the *)
(* cookie write lock from taking the cookie until the node is linked, so  *)
(* to the iterator it moves the cookie into the page in one step; get is  *)
(* one step, as the TreeBlock model's GetLinearizable shows it may be.    *)
(* The range is the whole key space (iter() is range(..)); ranges         *)
(* themselves are the Keys and ScanPrefix modules' business.              *)
(***************************************************************************)
EXTENDS Naturals, Sequences, FiniteSets, FiniteSetsExt

CONSTANTS NKeys,        \* keys are 1..NKeys, in key order
          Values,
          Deletion,     \* Entry::Deletion
          NONE

Keys == 1..NKeys
Entries == Values \cup {Deletion}
Slot == Entries \cup {NONE}

VARIABLES cookie,       \* TreeBlock.cookie
          page,         \* entries of the block's own page (materialized)
          parent,       \* entries of the committed ancestors, newest wins
          committed,    \* TreeBlock.hash is set
          ipc,          \* iterator: "new", "iter", "done", "lastDone"
          heap,         \* the BinaryHeap: how often each key was pushed
          prev,         \* Iter.prev
          yielded,      \* keys returned by next(), in order
          lastOut,      \* what last() returned
          alive         \* keys with a value ever since Iter::new began

vars == <<cookie, page, parent, committed, ipc, heap, prev, yielded, lastOut, alive>>

EmptyMap == [k \in Keys |-> NONE]

(* TreeBlock::get_inner: cookie, then the own page, then the ancestors;   *)
(* the first entry found decides, a Deletion meaning None.                *)
View(k) ==
    LET e == IF cookie[k] # NONE THEN cookie[k]
             ELSE IF page[k] # NONE THEN page[k]
             ELSE parent[k]
    IN IF e \in Values THEN e ELSE NONE

Live == {k \in Keys : View(k) # NONE}

Pushed(m) == [k \in Keys |-> IF m[k] # NONE THEN 1 ELSE 0]

AddCounts(a, b) == [k \in Keys |-> a[k] + b[k]]

InHeap == {k \in Keys : heap[k] > 0}

-----------------------------------------------------------------------------
(* TreeBlock::insert / delete: refused once committed, otherwise the      *)
(* entry goes into the cookie.                                             *)
Insert(k, e) ==
    /\ ~committed
    /\ cookie' = [cookie EXCEPT ![k] = e]
    /\ UNCHANGED <<page, parent, committed>>

(* TreeBlock::commit as the iterator sees it: the cookie's entries become *)
(* a node linked on the page, the cookie is empty, the hash is set.       *)
Commit ==
    /\ ~committed
    /\ page' = [k \in Keys |-> IF cookie[k] # NONE THEN cookie[k] ELSE page[k]]
    /\ cookie' = EmptyMap
    /\ committed' = TRUE
    /\ UNCHANGED parent

Writer ==
    /\ \/ \E k \in Keys, e \in Entries : Insert(k, e)
       \/ Commit
    /\ UNCHANGED <<ipc, heap, prev, yielded, lastOut>>

-----------------------------------------------------------------------------
IterNewOwnPageOnly ==
    /\ ipc = "new"
    /\ heap' = AddCounts(Pushed(cookie), Pushed(page))
    /\ ipc' = "iter"
    /\ UNCHANGED <<prev, yielded, lastOut>>

(* Iter::new: the keys of the cookie, then of the block's page and of     *)
(* every prev page.  The cookie read guard taken for #1 lives until new() *)
(* returns, so no insert or commit (both take the cookie write lock) can  *)
(* fall between the two collections: they are one step.                   *)
IterNew ==
    /\ ipc = "new"
    /\ heap' = AddCounts(Pushed(cookie), AddCounts(Pushed(page), Pushed(parent)))
    /\ ipc' = "iter"
    /\ UNCHANGED <<prev, yielded, lastOut>>

Pop(k) == heap' = [heap EXCEPT ![k] = @ - 1]

NextNoDedup ==
    /\ ipc = "iter"
    /\ \/ /\ InHeap = {}
          /\ ipc' = "done"
          /\ UNCHANGED <<heap, prev, yielded>>
       \/ /\ InHeap # {}
          /\ LET k == Min(InHeap) IN
             /\ Pop(k)
             /\ prev' = k
             /\ yielded' = IF View(k) # NONE THEN yielded \o <<k>> ELSE yielded
          /\ UNCHANGED ipc
    /\ UNCHANGED lastOut

(* Iter::next_inner, one pass of its loop: pop the least key; a repeat of *)
(* prev is skipped; otherwise it becomes prev and get() decides whether    *)
(* it is returned or (a Deletion) skipped.  An empty heap ends the scan.   *)
NextInner ==
    /\ ipc = "iter"
    /\ \/ /\ InHeap = {}
          /\ ipc' = "done"
          /\ UNCHANGED <<heap, prev, yielded>>
       \/ /\ InHeap # {}
          /\ LET k == Min(InHeap) IN
             /\ Pop(k)
             /\ \/ /\ k = prev
                   /\ UNCHANGED <<prev, yielded>>
                \/ /\ k # prev
                   /\ prev' = k
                   /\ yielded' = IF View(k) # NONE THEN yielded \o <<k>> ELSE yielded
          /\ UNCHANGED ipc
    /\ UNCHANGED lastOut

(* Iter::last_inner: drain the heap into prev, then get(prev).             *)
Last ==
    /\ ipc = "iter"
    /\ ipc' = "lastDone"
    /\ LET k == IF InHeap = {} THEN prev ELSE Max(InHeap) IN
       /\ lastOut' = IF k = NONE THEN NONE ELSE View(k)
       /\ prev' = k
    /\ heap' = [k \in Keys |-> 0]
    /\ UNCHANGED yielded

Iterator ==
    /\ IterNew \/ NextInner \/ Last
    /\ UNCHANGED <<cookie, page, parent, committed>>

-----------------------------------------------------------------------------
(* An uncommitted child of a committed block: anything may be in its      *)
(* cookie and in its ancestors; its own page is still empty.               *)
Init ==
    /\ cookie \in [Keys -> Slot]
    /\ page = EmptyMap
    /\ parent \in [Keys -> Slot]
    /\ committed = FALSE
    /\ ipc = "new"
    /\ heap = [k \in Keys |-> 0]
    /\ prev = NONE
    /\ yielded = <<>>
    /\ lastOut = NONE
    /\ alive = Live

(* The keys that keep a value through every step of the scan.              *)
TrackAlive ==
    alive' = IF ipc \in {"done", "lastDone"} THEN alive
             ELSE alive \cap (Live)'

Next == (Writer \/ Iterator) /\ TrackAlive

Spec == Init /\ [][Next]_vars

-----------------------------------------------------------------------------
(* next() returns keys in strictly ascending order: the heap holds a key  *)
(* once per level it was found on (cookie, page, ancestors), and every    *)
(* repeat is skipped.                                                       *)
YieldedAscending ==
    \A i, j \in DOMAIN yielded : i < j => yielded[i] < yielded[j]

(* A scan run to its end by next() returns every key that had a value     *)
(* from the moment Iter::new began until the end, however the writer's    *)
(* inserts, deletes and commit interleave with the collection of keys.    *)
StableKeysYielded ==
    ipc = "done" => alive \subseteq {yielded[i] : i \in DOMAIN yielded}

(* What next() would return last from here: the greatest remaining key    *)
(* other than prev that has a value.                                        *)
LastOfNext ==
    LET c == {k \in InHeap : k # prev /\ View(k) # NONE}
    IN IF c = {} THEN NONE ELSE View(Max(c))

(* last() returns what the iterator's final next() would have returned     *)
(* (Iterator::last's contract, which the override must keep).              *)
LastAgreesWithNext ==
    [][ipc = "iter" /\ ipc' = "lastDone" => lastOut' = LastOfNext]_vars
=============================================================================
