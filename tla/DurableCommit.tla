---------------------------- MODULE DurableCommit ----------------------------
(***************************************************************************)
(* TreeBlock::commit's way to disk (src/tree.rs), over the page cache's    *)
(* log.  The page cache (not in this repository; modelled from the         *)
(* specification's Log, Durability and Recovery sections) appends one      *)
(* record per mutation in LSN order: Allocate for TreeBlock::new, Link for *)
(* commit's link, Meta for cas_block_in_meta.  The in-memory page table is *)
(* the replay of the whole log; records up to the flushed LSN are on disk; *)
(* a background flusher fsyncs from time to time.  A crash keeps a prefix *)
(* of the log at least as long as the flushed one (a torn tail ends       *)
(* replay at the last good record), and Database::open replays it.        *)
(*                                                                         *)
(* One thread uses the database, as in test_block_persistence; what        *)
(* several threads do to a block is the TreeBlock module's business.  The  *)
(* commit keeps the code's order of steps: link (186), hash (192), meta    *)
(* cas (196), flush (199), return.  Faults are the page cache failures the *)
(* code can meet there: a flush that returns an I/O error.                 *)
(***************************************************************************)
EXTENDS Node, Naturals, FiniteSets

CONSTANTS
    MaxBlocks,      \* bound on the pages allocated
    MaxCrashes,     \* bound on crashes
    Faults          \* subset of {"flush_error"}

Pids == 1..MaxBlocks

VARIABLES
    log,            \* the log's records, in LSN order
    stable,         \* records 1..stable are on disk
    handle,         \* the running process's TreeBlock handles: pid -> [hash, cookie] or NONE
    pc,             \* the thread: "idle", "link", "meta", "flush"
    cur,            \* the block being committed
    root,           \* the hash the commit computed
    acked,          \* history: the hashes commits returned Ok for
    flushedAcked,   \* history: those returned after a flush that succeeded
    crashes

vars == <<log, stable, handle, pc, cur, root, acked, flushedAcked, crashes>>

-----------------------------------------------------------------------------
(* Replay: the page table and the meta page the log describes.             *)

AllocRec(pid, node) == [kind |-> "alloc", pid |-> pid, node |-> node, hash |-> NONE]
LinkRec(pid, node)  == [kind |-> "link", pid |-> pid, node |-> node, hash |-> NONE]
MetaRec(h, pid)     == [kind |-> "meta", pid |-> pid, node |-> NONE, hash |-> h]

(* The fragment chain of page p: its anchor and links, in log order.       *)
Chain(l, p) ==
    LET frags == SelectSeq(l, LAMBDA r : r.kind # "meta" /\ r.pid = p)
    IN [i \in DOMAIN frags |-> frags[i].node]

NPages(l) == Len(SelectSeq(l, LAMBDA r : r.kind = "alloc"))

(* Meta.blocks, hash -> page id, as replay builds it with set_block:      *)
(* a later record for a hash overrides an earlier one.                     *)
MetaOf(l) ==
    LET ms == {i \in DOMAIN l : l[i].kind = "meta"}
    IN [h \in {l[i].hash : i \in ms} |-> l[Max({i \in ms : l[i].hash = h})].pid]

PageNow(p) == MaterializeChain(Chain(log, p))

MetaNow == MetaOf(log)

-----------------------------------------------------------------------------
(* TreeBlock::new(context, prev): allocate a page whose anchor is           *)
(* Node::new(prev) and hand out a handle with no hash and an empty cookie.  *)
NewBlock(prev) ==
    LET p == NPages(log) + 1 IN
    /\ pc = "idle"
    /\ p <= MaxBlocks
    /\ log' = Append(log, AllocRec(p, NewNode(prev)))
    /\ handle' = [handle EXCEPT ![p] = [hash |-> NONE, cookie |-> EmptyMap]]
    /\ UNCHANGED <<stable, pc, cur, root, acked, flushedAcked, crashes>>

Genesis == NewBlock(NONE)

(* open_block(hash): a new block on top of the page the meta page maps the *)
(* hash to; a hash it lacks yields Ok(None).                               *)
OpenBlock(h) ==
    /\ h \in DOMAIN MetaNow
    /\ NewBlock(MetaNow[h])

(* insert / delete on a block not yet committed: the entry goes into the   *)
(* cookie (a committed block refuses with Err(CommitedState)).             *)
Insert(p, k, e) ==
    /\ pc = "idle"
    /\ handle[p] # NONE /\ handle[p].hash = NONE
    /\ handle' = [handle EXCEPT ![p].cookie[k] = e]
    /\ UNCHANGED <<log, stable, pc, cur, root, acked, flushedAcked, crashes>>

(* commit: a block that has a hash returns it at once.                     *)
CommitCheck(p) ==
    /\ pc = "idle"
    /\ handle[p] # NONE
    /\ IF handle[p].hash # NONE
       THEN /\ acked' = acked \cup {handle[p].hash}
            /\ UNCHANGED <<pc, cur>>
       ELSE /\ pc' = "link" /\ cur' = p
            /\ UNCHANGED <<acked, flushedAcked>>
    /\ UNCHANGED <<log, stable, handle, root, flushedAcked, crashes>>

CommitLinkMetaFirst ==
    LET p    == cur
        prev == PageNow(p).prev
        h    == CalcRoot(IF prev = NONE THEN NONE ELSE PageNow(prev).hash,
                         handle[p].cookie)
    IN
    /\ pc = "link"
    /\ log' = Append(IF h \in DOMAIN MetaNow THEN log ELSE Append(log, MetaRec(h, p)),
                     LinkRec(p, [prev |-> prev, hash |-> h, inner |-> handle[p].cookie]))
    /\ handle' = [handle EXCEPT ![p].cookie = EmptyMap]
    /\ root' = h
    /\ pc' = "meta"
    /\ UNCHANGED <<stable, cur, acked, flushedAcked, crashes>>

(* Take the cookie, hash its Value entries on top of the prev page's hash, *)
(* and link Node { prev, hash, inner } onto the block's page.             *)
CommitLink ==
    LET p    == cur
        prev == PageNow(p).prev
        h    == CalcRoot(IF prev = NONE THEN NONE ELSE PageNow(prev).hash,
                         handle[p].cookie)
    IN
    /\ pc = "link"
    /\ log' = Append(log, LinkRec(p, [prev |-> prev, hash |-> h,
                                      inner |-> handle[p].cookie]))
    /\ handle' = [handle EXCEPT ![p].cookie = EmptyMap]
    /\ root' = h
    /\ pc' = "meta"
    /\ UNCHANGED <<stable, cur, acked, flushedAcked, crashes>>

CommitCasMetaBlind ==
    /\ pc = "meta"
    /\ handle' = [handle EXCEPT ![cur].hash = root]
    /\ log' = Append(log, MetaRec(root, cur))
    /\ pc' = "flush"
    /\ UNCHANGED <<stable, cur, root, acked, flushedAcked, crashes>>

(* hash_rwl.replace(hash); cas_block_in_meta(hash, None, Some(id)): the   *)
(* meta page gets hash -> id unless the hash is mapped already.            *)
CommitCasMeta ==
    /\ pc = "meta"
    /\ handle' = [handle EXCEPT ![cur].hash = root]
    /\ log' = IF root \in DOMAIN MetaNow THEN log ELSE Append(log, MetaRec(root, cur))
    /\ pc' = "flush"
    /\ UNCHANGED <<stable, cur, root, acked, flushedAcked, crashes>>

CommitFlushSkipped ==
    /\ pc = "flush"
    /\ acked' = acked \cup {root}
    /\ flushedAcked' = flushedAcked \cup {root}
    /\ pc' = "idle"
    /\ UNCHANGED <<log, stable, handle, cur, root, crashes>>

(* self.context.flush(): everything logged is made stable; then Ok(hash).  *)
CommitFlush ==
    /\ pc = "flush"
    /\ stable' = Len(log)
    /\ acked' = acked \cup {root}
    /\ flushedAcked' = flushedAcked \cup {root}
    /\ pc' = "idle"
    /\ UNCHANGED <<log, handle, cur, root, crashes>>

(* flush() returns an I/O error; its Result is not looked at and commit    *)
(* returns Ok(hash) all the same.                                          *)
CommitFlushError ==
    /\ "flush_error" \in Faults
    /\ pc = "flush"
    /\ acked' = acked \cup {root}
    /\ pc' = "idle"
    /\ UNCHANGED <<log, stable, handle, cur, root, flushedAcked, crashes>>

-----------------------------------------------------------------------------
(* The page cache's background flusher fsyncs a longer prefix.             *)
BackgroundFlush ==
    /\ stable < Len(log)
    /\ stable' \in stable + 1..Len(log)
    /\ UNCHANGED <<log, handle, pc, cur, root, acked, flushedAcked, crashes>>

(* The process dies at any point; Database::open (Context::new,            *)
(* PageCache::start) replays what reached the disk: a prefix of the log    *)
(* no shorter than the flushed one.  Handles and calls in flight are gone. *)
CrashAndReopen ==
    /\ crashes < MaxCrashes
    /\ \E n \in stable..Len(log) :
          /\ log' = SubSeq(log, 1, n)
          /\ stable' = n
    /\ handle' = [p \in Pids |-> NONE]
    /\ pc' = "idle" /\ cur' = NONE /\ root' = NONE
    /\ crashes' = crashes + 1
    /\ UNCHANGED <<acked, flushedAcked>>

-----------------------------------------------------------------------------
Init ==
    /\ log = <<>>
    /\ stable = 0
    /\ handle = [p \in Pids |-> NONE]
    /\ pc = "idle" /\ cur = NONE /\ root = NONE
    /\ acked = {}
    /\ flushedAcked = {}
    /\ crashes = 0

Next ==
    \/ Genesis
    \/ \E h \in DOMAIN MetaNow : OpenBlock(h)
    \/ \E p \in Pids, k \in Keys, e \in Entries : Insert(p, k, e)
    \/ \E p \in Pids : CommitCheck(p)
    \/ CommitLink \/ CommitCasMeta \/ CommitFlush \/ CommitFlushError
    \/ BackgroundFlush
    \/ CrashAndReopen

Spec == Init /\ [][Next]_vars

-----------------------------------------------------------------------------
(* Every hash a commit returned Ok for survives any crash: the meta page   *)
(* after reopening maps it to a page whose committed node carries it, so  *)
(* open_block(hash) builds on the committed block (test_block_persistence *)
(* in src/tree.rs asks exactly this after a clean reopen).                 *)
AckedCommitDurable ==
    \A h \in acked : h \in DOMAIN MetaNow /\ PageNow(MetaNow[h]).hash = h

(* Whatever prefix of the log a crash leaves, every hash the meta page     *)
(* maps leads to a page whose last committed node carries that hash: the  *)
(* node is logged before the meta update that publishes it.                *)
(* Every hash a commit returned after its own flush succeeded survives any *)
(* crash, whatever failed flushes and re-commits of committed blocks (which *)
(* return the stored hash without flushing) happened around it.           *)
FlushedCommitDurable ==
    \A h \in flushedAcked : h \in DOMAIN MetaNow /\ PageNow(MetaNow[h]).hash = h

MetaPointsToCommittedNode ==
    \A h \in DOMAIN MetaNow : PageNow(MetaNow[h]).hash = h

-----------------------------------------------------------------------------
(* The block store the database implements: the blocks are the hashes the  *)
(* meta page maps, each with its page's materialized node (inner, prev    *)
(* page, hash); the durable ones are those the flushed prefix of the log   *)
(* maps.                                                                   *)
Store == INSTANCE BlockStore
    WITH blocks  <- [h \in DOMAIN MetaNow |-> PageNow(MetaNow[h])],
         durable <- DOMAIN MetaOf(SubSeq(log, 1, stable))

(* The commit protocol, the flusher and crash recovery implement the block *)
(* store: a meta update publishes a new hash without changing any content  *)
(* already published, flushes only add durable blocks, and a crash at any  *)
(* record keeps every durable block with its content.                       *)
StoreRefinement == Store!Spec
=============================================================================
