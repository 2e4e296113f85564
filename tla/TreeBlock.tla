----------------------------- MODULE TreeBlock -----------------------------
(***************************************************************************)
(* The block layer of src/tree.rs and src/database.rs: TreeBlock handles   *)
(* shared between threads (TreeBlock is Clone; its hash and cookie are     *)
(* Arc<RwLock<..>>), their insert/delete, get and commit, and the          *)
(* database's genesis and open_block.  The page cache is used as a service *)
(* whose calls (allocate, get, link, cas of the meta page) are atomic; the *)
(* page of a block is its chain of Node fragments, materialized with       *)
(* Node::merge of src/pagecache/materializer.rs.                           *)
(*                                                                         *)
(* A read-lock section is one step (nothing else happens inside it); the   *)
(* write locks commit holds across several steps are explicit.  The blake3 *)
(* root of calc_root is represented by its input, i.e. assumed collision   *)
(* free.                                                                   *)
(***************************************************************************)
EXTENDS Node, Naturals, FiniteSets, TLC

CONSTANTS
    Threads,    \* threads sharing the database and its block handles
    Writers,    \* the threads that insert, delete, commit and open blocks
    MaxBlocks   \* bound on the blocks (and so pages) the database allocates

ASSUME Writers \subseteq Threads /\ MaxBlocks \in Nat \ {0}

Blocks == 1..MaxBlocks          \* a block handle and its page id coincide

VARIABLES
    nblocks,        \* blocks allocated so far
    pages,          \* page cache: the fragment chain of each block's page
    meta,           \* page cache meta page: blocks, hash -> page id
    hash,           \* TreeBlock.hash
    cookie,         \* TreeBlock.cookie
    hashWriter,     \* holder of hash.write(), or NONE
    cookieWriter,   \* holder of cookie.write(), or NONE
    pc, arg,        \* each thread's position and the arguments of its call
    local,          \* commit: the root it computed; get: the value found
    acked,          \* history: last entry written with Ok, per block and key
    returned,       \* history: the hashes each block's commits returned
    seen            \* history: values a key had during a pending get

vars == <<nblocks, pages, meta, hash, cookie, hashWriter, cookieWriter,
          pc, arg, local, acked, returned, seen>>

-----------------------------------------------------------------------------
(* The page cache's get: a page materialized from its chain of Nodes.      *)
Materialize(pid) == MaterializeChain(pages[pid])

(* get_inner #2: the entry of the nearest page on the prev chain that has  *)
(* the key.                                                                *)
RECURSIVE Lookup(_, _)
Lookup(pid, k) ==
    LET node == Materialize(pid) IN
    IF node.inner[k] # NONE \/ node.prev = NONE THEN node.inner[k]
    ELSE Lookup(node.prev, k)

AsValue(e) == IF e \in Values THEN e ELSE NONE

(* What get(k) on block b answers if run alone: the cookie first, then the *)
(* chain of pages.                                                         *)
View(b, k) ==
    IF cookie[b][k] # NONE THEN AsValue(cookie[b][k]) ELSE AsValue(Lookup(b, k))

-----------------------------------------------------------------------------
(* The meta page's blocks map, hash -> page (Meta::get_block), and         *)
(* cas_block_in_meta(hash, None, Some(id)): Meta::set_block, taken only    *)
(* when the hash is not mapped yet.                                        *)
GetBlock(h) == meta[h]

CasBlockInMeta(h, b) == IF h \in DOMAIN meta THEN meta ELSE meta @@ (h :> b)

-----------------------------------------------------------------------------
(* Block handles (database.rs genesis / open_block, TreeBlock::new).       *)

(* TreeBlock::new: allocate a page whose anchor is Node::new(prev).        *)
NewBlock(prev) ==
    /\ nblocks < MaxBlocks
    /\ nblocks' = nblocks + 1
    /\ pages' = [pages EXCEPT ![nblocks + 1] = <<NewNode(prev)>>]
    /\ UNCHANGED <<meta, hash, cookie, hashWriter, cookieWriter, pc, arg,
                   local, acked, returned>>

Genesis(t) ==
    /\ t \in Writers /\ pc[t] = "idle"
    /\ NewBlock(NONE)

(* open_block(hash): a new block whose prev is the page the meta page maps *)
(* the hash to; a hash the meta page lacks yields Ok(None).                *)
OpenBlock(t, h) ==
    /\ t \in Writers /\ pc[t] = "idle"
    /\ h \in DOMAIN meta
    /\ NewBlock(GetBlock(h))

-----------------------------------------------------------------------------
(* insert / delete = insert_inner(key, entry).                             *)

(* if self.commited() { return Err(CommitedState) }: a hash read section.  *)
InsertCheck(t, b, k, e) ==
    /\ t \in Writers /\ pc[t] = "idle" /\ b <= nblocks
    /\ hashWriter[b] = NONE
    /\ hash[b] = NONE
    /\ pc' = [pc EXCEPT ![t] = "insert"]
    /\ arg' = [arg EXCEPT ![t] = [block |-> b, key |-> k, entry |-> e]]
    /\ UNCHANGED <<nblocks, pages, meta, hash, cookie, hashWriter, cookieWriter,
                   local, acked, returned>>

(* self.cookie.write().insert(key, entry), then Ok.                        *)
InsertWrite(t) ==
    LET a == arg[t] IN
    /\ pc[t] = "insert"
    /\ cookieWriter[a.block] = NONE
    /\ cookie' = [cookie EXCEPT ![a.block][a.key] = a.entry]
    /\ acked' = [acked EXCEPT ![a.block][a.key] = a.entry]
    /\ pc' = [pc EXCEPT ![t] = "idle"]
    /\ UNCHANGED <<nblocks, pages, meta, hash, hashWriter, cookieWriter, arg,
                   local, returned>>

-----------------------------------------------------------------------------
(* commit.                                                                 *)

(* A commit without the early return for an already committed block.      *)
CommitCheckNoEarlyReturn(t, b) ==
    /\ t \in Writers /\ pc[t] = "idle" /\ b <= nblocks
    /\ hashWriter[b] = NONE
    /\ pc' = [pc EXCEPT ![t] = "lockHash"]
    /\ arg' = [arg EXCEPT ![t] = [block |-> b, key |-> NONE, entry |-> NONE]]
    /\ UNCHANGED <<nblocks, pages, meta, hash, cookie, hashWriter, cookieWriter,
                   local, acked, returned>>

(* if let Some(hash) = *self.hash.read() { return Ok(hash) }               *)
CommitCheck(t, b) ==
    /\ t \in Writers /\ pc[t] = "idle" /\ b <= nblocks
    /\ hashWriter[b] = NONE
    /\ IF hash[b] # NONE
       THEN /\ returned' = [returned EXCEPT ![b] = @ \cup {hash[b]}]
            /\ UNCHANGED <<pc, arg>>
       ELSE /\ pc' = [pc EXCEPT ![t] = "lockHash"]
            /\ arg' = [arg EXCEPT ![t] = [block |-> b, key |-> NONE, entry |-> NONE]]
            /\ UNCHANGED returned
    /\ UNCHANGED <<nblocks, pages, meta, hash, cookie, hashWriter, cookieWriter,
                   local, acked>>

(* let mut hash_rwl = self.hash.write();                                   *)
CommitLockHash(t) ==
    LET b == arg[t].block IN
    /\ pc[t] = "lockHash"
    /\ hashWriter[b] = NONE
    /\ hashWriter' = [hashWriter EXCEPT ![b] = t]
    /\ pc' = [pc EXCEPT ![t] = "lockCookie"]
    /\ UNCHANGED <<nblocks, pages, meta, hash, cookie, cookieWriter, arg,
                   local, acked, returned>>

(* let mut cookie = self.cookie.write();                                   *)
CommitLockCookie(t) ==
    LET b == arg[t].block IN
    /\ pc[t] = "lockCookie"
    /\ cookieWriter[b] = NONE
    /\ cookieWriter' = [cookieWriter EXCEPT ![b] = t]
    /\ pc' = [pc EXCEPT ![t] = "link"]
    /\ UNCHANGED <<nblocks, pages, meta, hash, cookie, hashWriter, arg,
                   local, acked, returned>>

(* A commit that drops Deletion entries from the linked node as it does    *)
(* from the hashed ones.                                                   *)
CommitLinkValuesOnly(t) ==
    LET b      == arg[t].block
        inner  == [k \in Keys |-> IF cookie[b][k] \in Values THEN cookie[b][k] ELSE NONE]
        prev   == Materialize(b).prev
        root   == CalcRoot(IF prev = NONE THEN NONE ELSE Materialize(prev).hash, cookie[b])
    IN
    /\ pc[t] = "link"
    /\ cookie' = [cookie EXCEPT ![b] = EmptyMap]
    /\ pages' = [pages EXCEPT ![b] = Append(@, [prev |-> prev, hash |-> root, inner |-> inner])]
    /\ local' = [local EXCEPT ![t] = root]
    /\ pc' = [pc EXCEPT ![t] = "publish"]
    /\ UNCHANGED <<nblocks, meta, hash, hashWriter, cookieWriter, arg, acked, returned>>

(* Take the cookie, get the page, hash the Value entries on top of the     *)
(* prev page's hash, and link Node { prev, hash, inner } onto the page.    *)
CommitLink(t) ==
    LET b      == arg[t].block
        inner  == cookie[b]
        prev   == Materialize(b).prev
        root   == CalcRoot(IF prev = NONE THEN NONE ELSE Materialize(prev).hash, inner)
    IN
    /\ pc[t] = "link"
    /\ cookie' = [cookie EXCEPT ![b] = EmptyMap]
    /\ pages' = [pages EXCEPT ![b] = Append(@, [prev |-> prev, hash |-> root, inner |-> inner])]
    /\ local' = [local EXCEPT ![t] = root]
    /\ pc' = [pc EXCEPT ![t] = "publish"]
    /\ UNCHANGED <<nblocks, meta, hash, hashWriter, cookieWriter, arg, acked, returned>>

(* A commit that returns without dropping the hash write guard.           *)
CommitPublishKeepLock(t) ==
    LET b == arg[t].block
        h == local[t]
    IN
    /\ pc[t] = "publish"
    /\ hash' = [hash EXCEPT ![b] = h]
    /\ meta' = CasBlockInMeta(h, b)
    /\ cookieWriter' = [cookieWriter EXCEPT ![b] = NONE]
    /\ returned' = [returned EXCEPT ![b] = @ \cup {h}]
    /\ pc' = [pc EXCEPT ![t] = "idle"]
    /\ UNCHANGED <<nblocks, pages, cookie, hashWriter, arg, local, acked>>

(* hash_rwl.replace(hash); cas_block_in_meta(hash, None, Some(id)); flush; *)
(* return, dropping both write guards.  The meta cas installs the mapping  *)
(* only if the hash is not mapped yet.                                     *)
CommitPublish(t) ==
    LET b == arg[t].block
        h == local[t]
    IN
    /\ pc[t] = "publish"
    /\ hash' = [hash EXCEPT ![b] = h]
    /\ meta' = CasBlockInMeta(h, b)
    /\ hashWriter' = [hashWriter EXCEPT ![b] = NONE]
    /\ cookieWriter' = [cookieWriter EXCEPT ![b] = NONE]
    /\ returned' = [returned EXCEPT ![b] = @ \cup {h}]
    /\ pc' = [pc EXCEPT ![t] = "idle"]
    /\ UNCHANGED <<nblocks, pages, cookie, arg, local, acked>>

-----------------------------------------------------------------------------
(* get = get_inner(key).                                                   *)

(* #1: a cookie read section; a hit answers at once.                       *)
GetCookie(t, b, k) ==
    /\ pc[t] = "idle" /\ b <= nblocks
    /\ cookieWriter[b] = NONE
    /\ arg' = [arg EXCEPT ![t] = [block |-> b, key |-> k, entry |-> NONE]]
    /\ IF cookie[b][k] # NONE
       THEN /\ local' = [local EXCEPT ![t] = AsValue(cookie[b][k])]
            /\ pc' = [pc EXCEPT ![t] = "answered"]
       ELSE /\ pc' = [pc EXCEPT ![t] = "chain"]
            /\ UNCHANGED local
    /\ UNCHANGED <<nblocks, pages, meta, hash, cookie, hashWriter, cookieWriter,
                   acked, returned>>

(* A lookup that treats a Deletion in a page as a miss and goes on to the  *)
(* prev page.                                                              *)
RECURSIVE LookupSkipDeletion(_, _)
LookupSkipDeletion(pid, k) ==
    LET node == Materialize(pid) IN
    IF node.inner[k] \in Values \/ node.prev = NONE THEN node.inner[k]
    ELSE LookupSkipDeletion(node.prev, k)

GetChainSkipDeletion(t) ==
    /\ pc[t] = "chain"
    /\ local' = [local EXCEPT ![t] = AsValue(LookupSkipDeletion(arg[t].block, arg[t].key))]
    /\ pc' = [pc EXCEPT ![t] = "answered"]
    /\ UNCHANGED <<nblocks, pages, meta, hash, cookie, hashWriter, cookieWriter,
                   arg, acked, returned>>

(* #2: materialize the block's page, then each prev page, newest first.    *)
GetChain(t) ==
    /\ pc[t] = "chain"
    /\ local' = [local EXCEPT ![t] = AsValue(Lookup(arg[t].block, arg[t].key))]
    /\ pc' = [pc EXCEPT ![t] = "answered"]
    /\ UNCHANGED <<nblocks, pages, meta, hash, cookie, hashWriter, cookieWriter,
                   arg, acked, returned>>

GetReturn(t) ==
    /\ pc[t] = "answered"
    /\ pc' = [pc EXCEPT ![t] = "idle"]
    /\ UNCHANGED <<nblocks, pages, meta, hash, cookie, hashWriter, cookieWriter,
                   arg, local, acked, returned>>

-----------------------------------------------------------------------------

(* History for linearizability of get: every value the key had from the   *)
(* call's first step to its answer.                                        *)
Pending == {"chain", "answered"}
ViewOf(t) == View(arg[t].block, arg[t].key)
RecordSeen ==
    seen' = [t \in Threads |->
               CASE pc'[t] \notin Pending -> {}
                 [] pc[t] = "answered"    -> seen[t]
                 [] pc[t] \in Pending     -> seen[t] \cup {ViewOf(t)'}
                 [] OTHER                 -> {View(arg'[t].block, arg'[t].key),
                                              ViewOf(t)'}]

Init ==
    /\ nblocks = 0
    /\ pages = [b \in Blocks |-> <<>>]
    /\ meta = <<>>
    /\ hash = [b \in Blocks |-> NONE]
    /\ cookie = [b \in Blocks |-> EmptyMap]
    /\ hashWriter = [b \in Blocks |-> NONE]
    /\ cookieWriter = [b \in Blocks |-> NONE]
    /\ pc = [t \in Threads |-> "idle"]
    /\ arg = [t \in Threads |-> [block |-> NONE, key |-> NONE, entry |-> NONE]]
    /\ local = [t \in Threads |-> NONE]
    /\ acked = [b \in Blocks |-> EmptyMap]
    /\ returned = [b \in Blocks |-> {}]
    /\ seen = [t \in Threads |-> {}]

Step ==
    \E t \in Threads :
        \/ Genesis(t)
        \/ \E h \in DOMAIN meta : OpenBlock(t, h)
        \/ \E b \in Blocks, k \in Keys :
              \/ GetCookie(t, b, k)
              \/ \E e \in Entries : InsertCheck(t, b, k, e)
        \/ \E b \in Blocks : CommitCheck(t, b)
        \/ CommitLockHash(t) \/ CommitLockCookie(t) \/ CommitLink(t) \/ CommitPublish(t)
        \/ InsertWrite(t) \/ GetChain(t) \/ GetReturn(t)

Next == Step /\ RecordSeen

Spec == Init /\ [][Next]_vars

-----------------------------------------------------------------------------
(* Properties                                                              *)

TypeOK ==
    /\ nblocks \in 0..MaxBlocks
    /\ \A b \in Blocks : Len(pages[b]) > 0 <=> b <= nblocks
    /\ hash \in [Blocks -> {NONE} \cup DOMAIN meta]
    /\ cookie \in [Blocks -> [Keys -> Entries \cup {NONE}]]
    /\ hashWriter \in [Blocks -> Threads \cup {NONE}]
    /\ cookieWriter \in [Blocks -> Threads \cup {NONE}]
    /\ pc \in [Threads -> {"idle", "insert", "lockHash", "lockCookie", "link",
                           "publish", "chain", "answered"}]
    /\ acked \in [Blocks -> [Keys -> Entries \cup {NONE}]]
    /\ \A b \in Blocks, t \in Threads :
        /\ hashWriter[b] = t => pc[t] \in {"lockCookie", "link", "publish"} /\ arg[t].block = b
        /\ cookieWriter[b] = t => pc[t] \in {"link", "publish"} /\ arg[t].block = b

(* Every write that insert/delete acknowledged with Ok on a block that has *)
(* since been committed is in the block's page: commit takes every entry   *)
(* of the cookie into the linked node, and no write is accepted after the  *)
(* commit has taken the cookie.                                            *)
WritesPersistedAtCommit ==
    \A b \in Blocks, k \in Keys :
        hash[b] # NONE /\ acked[b][k] # NONE => Materialize(b).inner[k] = acked[b][k]

(* A get answers a value the key had at some instant between the call and  *)
(* the answer, although it reads the cookie and the chain of pages in      *)
(* separate steps while commits move entries from the one to the other and *)
(* a Deletion in a newer page must hide a value in an older one.           *)
GetLinearizable ==
    \A t \in Threads : pc[t] = "answered" => local[t] \in seen[t]

(* Committing a block is idempotent: every commit of the same block        *)
(* returns the same hash (a later commit finds the stored hash and returns *)
(* it).                                                                    *)
CommitIdempotent ==
    \A b \in Blocks : Cardinality(returned[b]) <= 1

(* A hash identifies what was committed under it: two committed blocks     *)
(* whose commits produced the same hash read the same value for every key  *)
(* through their chains of pages, so open_block(hash) (which resolves the  *)
(* hash through the meta page to one of them) opens that content.         *)
HashIdentifiesContent ==
    \A b1, b2 \in Blocks :
        hash[b1] # NONE /\ hash[b1] = hash[b2] =>
            \A k \in Keys : AsValue(Lookup(b1, k)) = AsValue(Lookup(b2, k))
=============================================================================
