# TLA+ models of cloyster

This directory holds the TLA+ models of the cloyster storage engine
(`src/src`), the TLC configurations that check them, and `PROJECT.json`. That
file maps every definition to the source lines it models. It also lists the
runs, the mutants, the findings and the hazards.

## The system

cloyster is a sled-style, log-structured page cache with an append-only
block store on top of it.

| Part | Source | State | Operations | Interacts with |
|---|---|---|---|---|
| Fragment stack | `ds/stack.rs` | `head: Atomic<Node>`, each `Node {inner, next}` | `head`, `push`, `cas` (replace head, defer-destroy the old chain), `cap` (link a new node on top of an expected head), `Drop` | epoch guards; the page cache keeps one stack per page |
| Epoch reclamation | crossbeam-epoch (external) | pinned guards, deferred garbage | `pin`, guard drop, `defer_destroy` | every reader and writer of a stack |
| Page cache facade | `pagecache/ds/mod.rs`, `meta.rs`. The rest (`pagecache/mod.rs`, page table, log) is **not in the repository** | page table of stacks, meta page | `allocate`, `link`, `replace`, `get`, `free`, `meta`, `cas_block_in_meta` | stack, materializer, block layer |
| Materializer | `pagecache/materializer.rs` | — | `merge` folds a page's fragments into one `Node` | page cache `get` |
| Meta | `pagecache/meta.rs` | `blocks: hash -> PageId`, buckets | `get/set/del_block`, buckets | commit, `open_block` |
| Block (`TreeBlock`) | `tree.rs`, `node.rs`, `hasher.rs` | `hash: RwLock<Option<Hash>>`, `cookie: RwLock<BTreeMap>`, page `id` | `new`, `insert`, `delete`, `get`, `commit`, `prev`, `range`, `scan_prefix` | page cache, meta, iterator |
| Database | `database.rs`, `context.rs`, `config.rs` | context | `genesis`, `open_block` (`open_bucket` is `todo!()`) | block layer |
| Iterator | `iter.rs` | the collected keys, cursor block | `new`, `next`, `last` | block layer, page cache |
| Range filter | `block.rs` | `IndexBlock {min, max}` | `overlaps` | (unused by the other parts) |
| Promise and pool | `promise/mod.rs`, `promise/pool.rs` | `Mutex<Option<T>>`, rejected flag, condvar, waker; thread counter | `resolve`, `reject`, resolver drop, `wait`, `timeout`, `poll`; `spawn` | parallel I/O |
| FastLock | `lock.rs` | `AtomicBool` | `try_lock`, guard drop | — |
| Doubly linked list | `ds/dll.rs` | — | unfinished (`todo!()`) | — |
| Positional I/O | `pagecache/parallel_io.rs` | the file, behind `GLOBAL_FILE_LOCK` | `pread_exact`, `pwrite_all` | page cache (not in the repository) |
| Metrics | `pagecache/metrics.rs` | counters | — | — |

The hard behaviours are these:
- Lock-free CAS loops on the stack, racing with epoch-deferred destruction of whole chains.
- A failed `cap` hands back a node that is pre-wired to the live chain.
- `TreeBlock` splits check and act across separate `RwLock` sections (`insert`, `commit`).
- `get` reads the cookie and the page chain at different moments.
- `commit` is content-addressed: the hash identifies a block in meta.
- Promises wake futures from another thread.

## Modules

### `PageChain.tla`: abstract fragment chain
This module is what a page's chain promises (spec §3, §4.4, §8):
- a successful link appends a new fragment;
- a successful replace leaves a one-element chain;
- nothing else changes the chain.

### `Stack.tla`: fragment stack under epoch reclamation
The model uses three kinds of explicit memory:
- `mem[n] \in {"free","live"}` is a heap cell, which can be reused after it is freed;
- `next` holds the nodes' links;
- `garbage` holds `defer_destroy`ed nodes, each with the set of threads pinned at deferral.

Each thread runs one operation as a small program counter:

| Operation | Code it models |
|---|---|
| `Pin`, `LoadHead` | pin a guard and load `head` (stack.rs `head`) |
| `Alloc` | build a node, as the page cache's link/replace do |
| `Cap` | `cap`, including `next = old` and the reset of `next` to null on failure (stack.rs 126-147) |
| `Cas` | `cas`, including `defer_destroy(old)` (stack.rs 100-123) |
| `Retry` or `Abandon` | the caller retries, or drops the rejected node (`Node::drop` frees its whole `next` chain, stack.rs 21-29) |
| `PushAlloc`, `PushLoad`, `PushCas` | `push`, with an unprotected guard (stack.rs 70-97) |
| `BeginWalk`, `WalkStep` | a reader's `StackIter` walk |
| `Unpin`, `Collect` | guard drop, and the collector freeing garbage that no guard pinned at deferral still holds |

The epoch is modelled by its contract, not by its counter. That contract is exactly what the code relies on.

The refinement maps the stack to `PageChain` by `chain <- Reverse(ListFrom(head, {}))`, which puts the oldest fragment first.

### `Node.tla`: the page type
`Node` of `node.rs` as a record `[prev, hash, inner]`:
- `NewNode(prev)` is `Node::new`;
- `Merge` is the materializer's `Node::merge` (keep the header, take the later hash, overlay the entries);
- `MaterializeChain` folds `Merge` over a page's fragments, oldest first;
- `CalcRoot` is `calc_root` with `Deletion` entries filtered out, represented by its input.

`TreeBlock` and `DurableCommit` both extend it.

### `TreeBlock.tla`: blocks, commit, get, meta, database
Its state:
- `pages[pid]`: a sequence of `Node` fragments;
- `meta`: hash → page;
- `hash[b]`, `cookie[b]`;
- the holders of the two write locks (`hashWriter`, `cookieWriter`).

Each read-locked section is one step. Each write lock is held across the steps between its acquisition and its release, as in the code.

| Action | Code |
|---|---|
| `NewBlock`, `Genesis`, `OpenBlock` | `TreeBlock::new`; `Database::genesis`; `open_block` (allocates a new child page every time) |
| `InsertCheck`, `InsertWrite` | `insert_inner`: the `commited()` check (read lock), then the cookie write lock; `delete` is an insert of `Deletion` |
| `CommitCheck` | read-lock check of `hash`, which returns the stored hash early |
| `CommitLockHash`, `CommitLockCookie` | `hash.write()`, `cookie.write()` |
| `CommitLink` | take the cookie, `Node::new(prev)`, `prev_hash`, `calc_root` with `Deletion` filtered, `link` |
| `CommitPublish` | `hash_rwl.replace`, `cas_block_in_meta`, unlock |
| `GetCookie`, `GetChain`, `GetReturn` | `get_inner`: cookie under a read lock, then the materialized page and the `prev` chain; a `Deletion` answers `None` |

Two simplifications:
- A hash is abstracted by its input (`[prev, kvs]`), i.e. a collision-free hash. The hash finding therefore comes from the code's choice of input, not from a collision.
- `flush` is not modelled (see below).

`Materialize(pid)` is `Node`'s `MaterializeChain` of the page.

### `Promise.tla`: promise and resolvers (`promise/mod.rs`)
The state:
- `rejected`, `item` and `waker` are `PromiseState`;
- `live` is the set of `PromiseResolver` clones still alive;
- `notifying` holds the clones that have unlocked the state in `resolve` or `reject` and not yet called `notify_all`;
- `cpc` and `sleeping` are the consumer.

Every method body up to its unlock runs under the state mutex, so it is one step. The `notify_all` after the unlock, and the drop of `self` after it, are one more step. A `wait_for` deadline can therefore expire after the item was filled and before the notify: `timeout()` then returns `Err` with the value still stored. The last clone's `PromiseResolverInner::drop` is one step.

| Action | Code |
|---|---|
| `ResolverResolve` | `resolve` up to the unlock: stores the item, takes and wakes the waker |
| `ResolverReject` | `reject` up to the unlock: sets the flag; the waker is untouched |
| `ResolverNotify` | the end of both: `notify_all`, then the drop of `self` (`DropClone`) |
| `ResolverDrop` | dropping a clone; only the last one runs `PromiseResolverInner::drop`, which marks the promise rejected and notifies |
| `Clone` | cloning a resolver |
| `Poll` | `Future::poll`: item first, then the rejected flag, else it stores the waker |
| `Resolve`, `Timeout` (via `CheckOrPark`) | the Condvar loops |
| `TimedOut` | `wait_for` expiring |
| `SpuriousWakeup` | parking_lot's permitted spurious wakeup |

### `Pool.tla`: the blocking thread pool (`promise/pool.rs`)
The state:
- callers (`cpc`), each spawning one task;
- two static workers and a set of dynamic worker ids (`wstate`, `wtask`);
- `count` is `DYNAMIC_THREAD_COUNT`.

The zero-capacity channel is a rendezvous (`HandOff`) with a worker blocked in `recv`.

| Action | Code |
|---|---|
| `TrySend` | `try_send` |
| `CreateAnother` | `maybe_create_another_blocking_thread`: it starts a worker, fails to, or is at the cap |
| `Send` | blocking `send` |
| `RunInline` | the inline fallback |
| `RunTask` | a worker runs its task |
| `DynStart`, `DynExit` | a dynamic worker's `fetch_add`, and its `recv_timeout` exit with `fetch_sub` |

### `DurableCommit.tla`: commit over a crashing page cache
The page cache's log, flusher and recovery are not in the repository, so this
part is modelled from the spec's Log, Durability and Recovery sections. The
commit itself follows `tree.rs` step by step.

Its state:
- `log`: the records in LSN order: `alloc` (`TreeBlock::new`), `link` (commit's `link`), `meta` (`cas_block_in_meta`);
- `stable`: the records up to it are on disk;
- `handle`: the process's `TreeBlock`s (hash and cookie), lost on a crash;
- `pc`, `cur`, `root`: where the one thread is inside `commit`;
- `acked`, `flushedAcked`: history of the hashes `commit` returned `Ok` for, and of those returned after a flush that succeeded.

The page table and the meta page are the replay of the log (`Chain`, `MetaOf`),
so recovery is the same function as the running state. In replay, a later
`meta` record for a hash overrides an earlier one.

| Action | Code |
|---|---|
| `NewBlock`, `Genesis`, `OpenBlock` | `TreeBlock::new` (an `alloc` record); `Database::genesis`; `open_block` through the meta page |
| `Insert` | `insert_inner` on an uncommitted block |
| `CommitCheck` | the early return of a stored hash (no flush), or entering the commit |
| `CommitLink` | take the cookie, `prev_hash`, `calc_root`, `link` (tree.rs 152-187) |
| `CommitCasMeta` | `hash_rwl.replace`, `cas_block_in_meta` (a `meta` record unless the hash is mapped) |
| `CommitFlush`, `CommitFlushError` | `self.context.flush()` succeeding, or failing with its `Result` dropped; both return `Ok(hash)` |
| `BackgroundFlush` | the page cache's flusher making a longer prefix stable |
| `CrashAndReopen` | the process dies anywhere; `Database::open` replays any prefix of the log no shorter than `stable` (a torn tail) |

One thread uses the database, as in `test_block_persistence`. Concurrency on a
block is `TreeBlock`'s concern.

### `BlockStore.tla`: what the database promises of committed blocks
This is an abstract specification with two variables:
- `blocks`: the published hashes, each with its content;
- `durable`: the published hashes that survive any crash.

Its steps:
- `Publish` adds one new hash and leaves every published content unchanged.
- `MakeStable` makes more published hashes durable.
- `Crash` keeps a set of blocks that includes every durable one, with unchanged content, and makes them all durable.

`DurableCommit` implements it (`StoreRefinement`, via `INSTANCE BlockStore WITH`):
- `blocks` is mapped to the meta page, each hash going to its page's materialized node;
- `durable` is mapped to the hashes that the flushed prefix of the log maps.

Under this mapping:
- `CommitCasMeta` is `Publish`;
- `BackgroundFlush` and `CommitFlush` are `MakeStable`;
- `CrashAndReopen` is `Crash`;
- every other step is a stutter.

### `PromisePool.tla`: `Promise::new` = the pool composed with its promise
`Promise::new(work)` is `pool::spawn(work)`, which:
- makes a `Promise::pair` and clones the resolver into a rejecter;
- hands a task that runs `work()` and resolves with its result to the pool;
- returns the promise, dropping the rejecter on the way out.

The module extends `Pool` and reuses its actions unchanged. It adds each
caller's `item`, `rejected` and live resolver clones, and the caller's
blocking `resolve()` after `spawn` returns.

| Action | Code |
|---|---|
| `SpawnStep` | `try_send`, `maybe_create_another_blocking_thread`, `send` (pool.rs 108-119) |
| `SpawnInline`, `WorkerRun` | the task run inline or by a worker: `work()`, then `resolve`, which drops the resolver (pool.rs 15-18) |
| `ReturnPromise` | `spawn` returns; the rejecter is dropped (pool.rs 137) |
| `ConsumerResolve` | `Promise::resolve` returning `item.take()` once the promise is filled or rejected |
| `Settle` | a resolver drop; the last one runs `PromiseResolverInner::drop` and marks the promise rejected |

A thread parked in `resolve()` takes no step until it can return. That every
resolver path notifies the `Condvar` is `Promise`'s `BlockingResolveReturns`.

### `Keys.tla`, `IndexBlock.tla`, `ScanPrefix.tla`: key-range operators
- **`Keys`:** keys are byte sequences (`prelude::Key = Vec<u8>`) under Vec's lexicographic order (`KeyLess`). Ranges are pairs of `Bound`s with `RangeBounds::contains`.
- **`IndexBlock`:** `Overlaps` is `IndexBlock::overlaps`, line for line. `SharesKey` is the reference: the block and the range share a key.
- **`ScanPrefix`:** `UpperBound` is `scan_prefix`'s `pop`/increment loop. The reference is `IsPrefix`.
- **`MCIter`:** instantiates both, with different byte and length bounds, and `ParallelIO`. Their properties are checked over every input in the state of a fresh, empty block of the `iter_scan` run.

### `ParallelIO.tla`: positional file I/O (`pagecache/parallel_io.rs`)
On unix, `Pio` delegates to std's `read_exact_at` and `write_all_at`. The other targets' implementation is modelled here. Each call:
- takes `GLOBAL_FILE_LOCK`;
- `try_clone`s the file and seeks the clone;
- loops over `read` or `write` until the buffer is used up.

The lock serializes every call, so each call is a function from the file to the set of its outcomes. These sets are enumerated over every way the OS may answer a transfer: fewer bytes than asked, `Interrupted`, another error, or a failing `try_clone` or `seek`.

| Operator | Code |
|---|---|
| `ReadCounts` | what one `File::read` may return: 1 up to the bytes asked while the file has any, 0 at its end |
| `ReadLoop`, `PreadExact` | the `pread_exact` loop (`Ok(0)` breaks, `Ok(n)` reslices, `Interrupted` retries), then the `UnexpectedEof` check |
| `WriteAt` | `seek` and one `File::write`: bytes replace the file's and extend it, a gap filled with 0 |
| `WriteLoop`, `PwriteAll` | the `pwrite_all` loop (`Ok(0)` is `WriteZero`, `Ok(n)` reslices, `Interrupted` retries) |

The properties state std's `read_exact` and `write_all` contracts:
- `PreadExactContract`: `Ok` only with the whole buffer filled from the offset; `UnexpectedEof` only when the file is too short; never `Interrupted`.
- `PwriteAllContract`: `Ok` leaves the whole buffer at the offset; an error leaves a prefix of it, nothing else changed.

The clone shares the original handle's cursor, so `seek` moves the caller's file position, although `Pio` promises to leave it unchanged. Nothing in the repository reads the file through the cursor, so this is listed as a hazard and not modelled.

### `Iter.tla`: the range iterator (`iter.rs`) against a concurrent writer
The block is abstracted to three maps: its cookie, its own page, and the merged ancestors.

`commit` holds the cookie write lock from taking the cookie until the link, so to a reader it is one step (`Commit`). `get` is one step (`View`), as `GetLinearizable` in `TreeBlock` justifies.

| Action | Code |
|---|---|
| `IterNew` | `Iter::new`: the keys of the cookie, the own page and every `prev` page, pushed while the cookie read guard is held, so no insert or commit falls in between |
| `NextInner` | one pass of `next_inner`'s loop: pop the least key, skip a repeat of `prev`, `get` |
| `Last` | `last_inner` |

`alive` is a history variable: the keys that had a value at every step since `Iter::new` began.

## Runs

| Run | Config | Checks | Shows |
|---|---|---|---|
| `stack_memory` | `MCStack.cfg` | `TypeOK`, `OwnershipSound`, `NoFreeWhileReachable`, `ChainRefinement` | every live cell has exactly one owner (head chain, a deferred chain, or a thread's unpublished node), every free cell none; no node reachable from `head` or held by a pinned thread is freed; and the stack implements `PageChain`. Passes (19,738 states). |
| `tree_single_writer` | `MCTreeBlock.cfg` | `TypeOK`, `WritesPersistedAtCommit`, `GetLinearizable`, `CommitIdempotent` | with one writer thread and one reader: acknowledged writes are in the page once committed; every `get` returns a value the key had at some point during the call; a block's commits all return one hash. Passes (581,313 states). |
| `tree_insert_race` | `MCTreeBlockInsertRace.cfg` | `WritesPersistedAtCommit` | **violation**: an insert checked before a concurrent commit writes into the emptied cookie after it; it gets `Ok` and is never persisted (tree.rs 220-224). |
| `tree_double_commit` | `MCTreeBlockDoubleCommit.cfg` | `CommitIdempotent` | **violation**: two commits both pass the read-locked check, because it is not repeated under the write lock (tree.rs 148-152); two nodes are linked and two hashes returned. |
| `tree_hash_collision` | `MCTreeBlockHash.cfg` | `HashIdentifiesContent` | **violation**: `calc_root` skips `Deletion` entries, so a block that deletes a key hashes like its empty sibling (tree.rs 171-180). |
| `promise_pass` | `MCPromise.cfg` | `NoneOnlyWhenEmpty`, `BlockingResolveReturns`, `StoredValueDelivered` | a consumer never reports None while a value is stored (the last resolver's drop sets `rejected` right after every resolve, so `poll`'s order matters); a thread blocked in `Promise::resolve` always returns; a stored value reaches a consumer that keeps asking, also after a `timeout()` that expired between the resolver's unlock and its `notify_all`. Passes (1,716 states). |
| `promise_await_lost_wakeup` | `MCPromiseAwait.cfg` | `AwaitCompletes` | **violation**: an awaiting task that got `Pending` is never woken when the promise is rejected or its last resolver dropped (mod.rs 137-157). |
| `promise_pool` | `MCPromisePool.cfg` | `PromiseNewResolves` | every caller of `Promise::new` eventually gets `Some` of its task's value from `resolve()`. This holds through a static worker, a freshly started dynamic worker that may time out before the blocking send, or the inline fallback at the cap. It also holds whichever of the rejecter (dropped when `spawn` returns) and the resolver (dropped by the task's `resolve`) goes last and marks the promise rejected. Passes (87,233 states). |
| `iter_scan` | `MCIter.cfg` | `YieldedAscending`, `StableKeysYielded`, `OverlapsExactOnNonEmpty`, `ScanMatchesPrefix`, `PreadExactContract`, `PwriteAllContract` | a scan run by `next()` returns strictly ascending keys, including every key that kept a value throughout, under any interleaving with inserts, deletes and the commit. `overlaps` is exact on every non-empty range. `scan_prefix`'s range is exactly the keys with the prefix, so it is never one `BTreeMap::range` panics on. `pread_exact` and `pwrite_all` keep the `read_exact` and `write_all` contracts under every split, interruption and failure of the OS calls. Passes (177,369 states, 6 s). |
| `iter_last` | `MCIterLast.cfg` | `LastAgreesWithNext` | **violation**: `last()` returns None when the greatest collected key is deleted, although smaller keys have values; after `next()` has drained the heap it returns the already-returned key (iter.rs 101-116). |

Every property of a passing run has a mutant in `PROJECT.json` that breaks it:

| Mutant | Plausible bug it models |
|---|---|
| `CapNoReset` | no reset of `next` on a failed cap |
| `CapBlind` | cap without the head comparison |
| `CasDestroyNow` | destroying the old head instead of deferring it |
| `CasKeepOwn` | the ownership hand-off skipped |
| `CommitLinkValuesOnly` | deletions dropped from the node |
| `GetChainSkipDeletion` | a `Deletion` not stopping the lookup |
| `CommitCheckNoEarlyReturn` | the early return removed |
| `CommitPublishKeepLock` | a lock not released |
| `PollRejectFirst` | `poll` testing `rejected` before the item |
| `ResolverDropNoNotify` | the resolver's drop without `notify_all` |
| `ResolverResolveNoWake` | `resolve` taking the waker without waking it |
| `ReturnPromiseRejecting` | `spawn` rejecting the promise on return (the `send(..).is_err()` branch taken on success) |
| `OverlapsStrictEmptyCheck` | `>=` for `>` in the emptiness test |
| `UpperBoundNoCarry` | `scan_prefix` without the carry over maximal bytes |
| `ReadLoopEofAsOk` | `pread_exact` without the check after the loop: a buffer left short by `Ok(0)` returned as `Ok` |
| `WriteLoopSkipByte` | `pwrite_all` reslicing one byte past what was written |
| `NextNoDedup` | `next` without the duplicate skip |
| `IterNewOwnPageOnly` | `Iter::new` without the walk over `prev` pages |
| `CommitFlushSkipped` | `commit` without its `flush` |
| `CommitLinkMetaFirst` | the meta page updated before the node is linked |
| `CommitCasMetaBlind` | `set_block` in place of `cas_block_in_meta`: a colliding hash is remapped to another page |

| `durable_commit` | `MCDurableCommit.cfg` | `FlushedCommitDurable`, `MetaPointsToCommittedNode`, `StoreRefinement` | with flushes that may fail, crashes at any step and torn tails: every hash returned after a successful flush is still mapped by meta to a page whose node carries it; and whatever prefix survives, meta never maps a hash to a page whose node lacks it, because `link` is logged before the meta update. The database also implements `BlockStore`. This holds even when genesis is created twice, once empty and once with a `Deletion`, so that the two nodes collide on one hash: `cas_block_in_meta(hash, None, ..)` keeps the first page. Passes (54,936 states, about 2.5 minutes, nearly all of it spent evaluating the refinement mapping). |
| `durable_flush_error` | `MCDurableCommitFlushError.cfg` | `AckedCommitDurable` | **violation**: `flush`'s `Result` is dropped (tree.rs 199), so `commit` returns `Ok(hash)` after a failed flush; a crash then loses the block, and `open_block(hash)` yields `None`. The spec says I/O errors bubble up. |

## Bounds and why they suffice

- **Stack: two threads and three cells.** That is enough for a two-node chain, a displaced chain waiting in `garbage` while the other thread walks it, and the reuse of a freed cell: the ABA window of `push` and the failed-cap hand-back. The mutants above show that these cases are reached.
- **TreeBlock pass run: one writer thread, one reader, one key, one value and three blocks.** Three blocks give genesis, a child and a sibling. The value and `Deletion` give the three cookie states (absent, value, deleted) across two generations, which is what `get` must order. Two keys × three blocks did not finish in 30 minutes; two keys × two blocks pass.
- **Violation runs: two writer threads on one block.** That is the smallest setting in which each race occurs.
- **Promise: three resolver clones and two values.** Three clones cover the resolver, the rejecter that `pool::spawn` makes, and one more clone. So resolve, reject and drop happen in every order, including a resolve followed by the last drop.
- **PromisePool: four callers, two static workers, two dynamic worker ids and a cap of one.** Two callers find no worker in `recv`. So a dynamic worker is started, and a caller later meets the cap and runs its task inline. Two dynamic ids let racing callers start one worker more than the cap. A third id made the liveness check take minutes without adding a case.
- **Key ranges:**
  - `overlaps`: bytes 0..1, with bounds and limits of up to two bytes, checked against every key of up to three bytes. A key of the bounded domain lies between two bounds whenever any `Vec<u8>` does.
  - `scan_prefix`: bytes 0..2 and prefixes of up to four bytes. The byte 2 plays `u8::MAX`, which gives one to three trailing maximal bytes.
- **DurableCommit: one key, one value, two pages and two crashes.** Two pages give genesis and a child whose hash chains on its parent's. Two crashes let a reopened database commit again and crash again over a log that was cut and re-grown. Three pages with one crash (2.2 million states, 54 s) also pass; three pages with two crashes take several minutes.
- **Iter: three keys, one value, every initial cookie and ancestor content.** Keys can be duplicated across levels, deleted in the cookie over an ancestor's value, or moved by the commit before `Iter::new` or between two `next()` calls. A third key lets the writer touch a key between two that the scan has passed.
- **ParallelIO: files and buffers of up to two bytes over two values, offsets up to one past the end, and one `Interrupted` per call.** Two bytes allow a short transfer followed by the rest. An offset past the end gives the zero-filled gap and the empty read past the end. One `Interrupted` is enough, since a retry returns the loop to the same state.

## Fairness

The stack, `TreeBlock` and `DurableCommit` runs check safety only.
`MCDurableCommit.cfg` turns deadlock checking off. Its behaviours really stop
once every page of the bound is allocated and the crash budget is spent: the
program then has nothing left to do. The stack's loops are lock-free, not wait-free: a thread can fail its CAS forever. So no per-thread liveness would be justified there.

`Promise` assumes weak fairness for two kinds of step:
- each resolver clone's step: its owner eventually resolves, rejects or drops it. The pool's closure always ends and drops what it captured;
- the consumer's step: its thread, or the executor after a wake, keeps running.

Spurious wakeups get no fairness.

`PromisePool` assumes weak fairness for each caller thread (its `spawn` steps, the return and the blocking `resolve`), for a worker running its task, and for a started thread's first statement: the OS schedules runnable threads. The `recv_timeout` exit gets none.

## Not modelled, and why

- **Page table, segment accountant, snapshot files:** their code (`pagecache/mod.rs` and what it uses) is not in this repository. `DurableCommit` models the log only as far as commit needs it: records in LSN order, the flushed prefix, and replay. Segments, their reuse and the snapshot format are left out.
- **`range` with reversed bounds:** `Iter::new` hands the range to `BTreeMap::range`, which panics when start > end. The crate's own ranges are safe: `scan_prefix`'s contains the prefix (`ScanMatchesPrefix`). The iterator model scans the whole key space, so a caller's reversed range is not modelled.
- **`commit`'s ignored inner link failure (tree.rs 186):** no other writer touches a block page in the code, so the link cannot fail in the model.
- **`FastLock`:** it has no caller in the crate, so no behaviour of the system depends on it.
- **Panics in a pool task:** a task whose `work()` panics unwinds its worker thread. A dynamic worker then skips the `fetch_sub` at pool.rs 92, so `DYNAMIC_THREAD_COUNT` stays high for good. This is listed as a hazard. Panics are not modelled, so no property covers it.
- **The dynamic-thread cap:** racing callers can start more than `MAX_THREADS` workers, because the count is incremented inside the new thread. The comment beside the load calls the cap a heuristic, so it is listed as a hazard rather than checked.
- **`overlaps` on empty ranges:** `s..s` is answered as overlapping, because the emptiness test is `start > end`. That costs only a needless read, so `OverlapsExactOnNonEmpty` is restricted to non-empty ranges.
- **`TreeBlock::prev`:** it builds the parent's handle with the hash read from the child's page. For an uncommitted child, the committed parent's handle then accepts writes, and its commit links onto a page already published under a hash. `prev` has no caller in the crate. Checking it needs handles distinct from pages and one more violation run, so it is listed as a hazard.
- **`ds/dll.rs`:** unfinished (`todo!()`).
- **The unix `Pio` and the shared cursor:** the unix implementation is std's `read_exact_at` and `write_all_at`. The cursor that the non-unix clone moves is read by no code in the repository.
- **`metrics.rs`, `config.rs`, `context.rs`:** counters and wiring, with no behaviour to check.

## Plan, in order of importance

1. The stack composed with a spec-modelled page table and `replace`-based consolidation. That would make `commit`'s ignored link failure (tree.rs 186) reachable, with a property to catch it.
2. `TreeBlock` liveness under fair scheduling: a commit eventually releases both locks, and no insert waits forever.
3. `DurableCommit` with two threads, so that a commit's flush can also make another thread's records stable.
4. Broader bounds for the `TreeBlock` pass run (two keys), using a state constraint or a larger time budget.
