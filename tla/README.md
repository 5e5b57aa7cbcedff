# emboss in TLA+

`emboss` caches the results of Python functions: a decorator, `cached`, and a
family of backends that store its entries. Its hard part is concurrency. Threads,
asyncio tasks, processes and machines share one cache; several of them write the
same log files; a file syncer delivers writes late and in pieces; a consolidation
pass deletes files that other processes are still writing to.

This directory holds TLA+ models of that part, TLC configurations that check
them on small instances, and TLAPS proofs about every module that models code,
which hold for every instance.

    tlc -workers 2 -config MCInflightLatch.cfg MCInflightLatch
    tlapm InflightLatchProofs.tla

`PROJECT.json` lists the components, the runs, what each definition translates
(file, lines, symbol), the hazards with the properties that cover them, and for
every property a *defect*: an operator named in the modules by a comment
`\* Defect: ...` that changes one definition the way a plausible bug would, and
that makes TLC find the property violated.

Contents: [1 The system](#1-the-system) · [2 Modules](#2-modules-and-how-they-correspond-to-the-code)
· [3 Runs](#3-runs-and-what-they-show) · [4 Bounds](#4-bounds-and-abstractions)
· [5 Fairness](#5-fairness) · [6 Proofs](#6-proofs) · [7 Findings](#7-findings)
· [8 Not modelled](#8-not-modelled) · [9 Plan](#9-plan)

---

## 1 The system

All paths are under `src/emboss/`.

| component | state it keeps | operations | what makes it correct |
|---|---|---|---|
| **In-flight latch, threads** (`_cached.py`, `_InflightLatch`) | a table key → (RLock, refcount) under a guard lock | `hold` (register, acquire, release, drop), `reset` after a fork | one thread per key; re-entry never deadlocks; the table holds exactly the keys in flight, also after an interrupt or a fork; every waiter gets in |
| **In-flight latch, asyncio** (`_AsyncInflightLatch`) | per event loop: a dict key → slot (asyncio.Lock, refcount, holder) | `hold` | the same, with cancellation in place of interrupts: no slot leaks, no wake-up is lost |
| **`cached` wrapper** (`_wrap_sync`, `_wrap_async`, `_lookup`, `_serve`, `_settle`) | none of its own; the cache and the latch | probe, migrate a fallback hit, re-check under the latch, draw, settle | concurrent misses compute once; first write wins; a value in reach is never recomputed or refused; every call ends |
| **Cache-only mode** | a context variable and an environment variable | `cache_only()`, `CacheMiss` | a sealed call never draws, and never refuses what it could read |
| **Keying and canonicalisation** | none | AST → identity, arguments → key | pure functions |
| **Value codec** | none | encode, decode, raise `_SchemaDrift` | a drifted value reads as a miss |
| **LogCache: index and own writes** (`_log_cache.py`) | per instance and prefix: the packed index, an overlay of own appends, the size signature, the time of the last check | `get`, `set`, `delete` | an index that believes itself current serves the winners; a caller reads its own writes |
| **LogCache: append, compaction, clear** | one log and one lock file per writer, shared by its processes | `_append`, `compact`, `clear` | the newest live record of a key is never lost to a rewrite, a sibling or a crash |
| **LogCache: consolidation, conflict copies, pruning** | all logs of a prefix, the syncer's conflict copies | `consolidate` | what can be read stays readable, whatever fails, grows, arrives or dies during the pass |
| **LogCache: spill pool, legacy spills** | a content-addressed pool shared by the writers; old per-writer namespaces | spill, mark and sweep, adopt, migrate | no referenced spill is swept; garbage goes |
| **LogCache: framing and salvage** | none | frames with CRC, resync, restricted unpickling | a torn frame costs only itself |
| **LogCache: admin scans** | none | `len`, iteration, `volume` | agree with `get` |
| **SqliteCache** (`_sqlite_cache.py`) | rows, totals kept by triggers, spill files beside the database, one lock per instance | `get`, `set`, `delete`, `expire`, `clear`, cull | a row's spill exists and no other does; totals equal the rows; the size limit holds; a key is one cell |
| **FanoutCache** | none; routes a key to one of several SqliteCaches | as SqliteCache | one key, one shard |
| **FileCache** (`_file_cache.py`) | a file per key, a running total per instance | `get`, `set`, `delete`, evict, `clear`, `nuke`, iteration | readers see whole values; the total of a sole writer is never too low |
| **transfer** (`_transfer.py`) | what it has yielded, copied and skipped | listing, copy loop, `clear_source` | every source entry is at the destination before the source is cleared |
| **Cache protocol** (`_protocol.py`) | none | `get`, `set` | a typing protocol |
| **CLI**, **benchmark script** | none | print an identity; measure | pure I/O |

**How they interact.** A decorated function calls the wrapper. The wrapper calls
`get` on the backend without a latch, copies a hit on an older key to the
current one (`set`), and otherwise takes the latch of its key, reads again, runs
the function while holding the latch, reads a third time and stores. The latch
therefore holds user code inside, which may call further cached functions: latch
tables nest, along the call graph. The backend is reached only through `get` and
`set`. Latches exclude within one process (threads) or one event loop (tasks);
across processes only the third read narrows the window.

A LogCache writes one append-only log per writer. Processes of one writer on one
node exclude each other with an flock on `<writer>.lock`; other writers only read
that log, and learn of changes by comparing file sizes. `self._lock` orders the
threads of one instance, but not the batch forms of `compact` and `consolidate`,
which run without it. Large values are in the pool, referred to by content hash
from any log. Consolidation folds every log into the writer's own, then deletes
the logs it was asked to prune and the conflict copies it folded, then sweeps the
pool.

**What is hard about it.** Interleavings inside every one of these steps;
KeyboardInterrupt and task cancellation inside a lock acquisition; forks that
catch a lock held; function calls and `set`s that raise; size signatures, index
locations and snapshots that go stale between two steps; processes that die
between a rewrite and a deletion; a syncer that delivers a record before the
value it names. `PROJECT.json` lists these as hazards, at the line where each one
bites.

A SqliteCache keeps small values in rows and large ones in files beside the
database. The rows are under SQLite's transactions; the files are not: a file is
written before the lock is taken, unlinked before the transaction commits, and
read after lock and transaction are over. A FileCache has no lock at all, only
atomic renames, and each instance keeps an estimate of the total of its own.
transfer walks a source that others go on using and ends by clearing it.

---

## 2 Modules and how they correspond to the code

```
 KeyMutex  <--implements--  InflightLatch       <--proofs--  InflightLatchProofs
    ^  ^---implements-----  AsyncInflightLatch  <--proofs--  AsyncInflightLatchProofs
    |
    +--- used as its latch by ---  CachedCall  --implements-->  FirstWriteWins
                                       ^---proofs--  CachedCallProofs

 SqliteCache  --implements-->  CacheProtocol  (what CachedCall assumes of its cache)
      ^                            ^
      |---proofs--  SqliteCacheProofs
                                   |
 FileCache  <--EXTENDS--  Transfer -+ implements, with its transfer running
                              ^---proofs--  TransferProofs

 LogCache        the order of records: index, appends, rewrites, clear
      ^---proofs--  LogCacheProofs
 Consolidation   one pass: logs, conflict copies, pool, legacy namespaces
      ^---proofs--  ConsolidationProofs

 SumTheorems     sums over finite sets, for the proofs about sizes
```

Each model has an `MC...` module with the values for TLC; the proofs EXTEND the
model itself.

**`KeyMutex`** is what a latch promises: the calls inside a key all belong to one
party. Both latches are shown to implement it, and `CachedCall` takes it as its
latch, so the composition rests on what was checked, not on a second model.

**`InflightLatch`** is `_InflightLatch`. `pc` goes `idle → wait → held → drop →
done`; `tableLock` and `refs` are the two halves of a `self._locks` entry;
`owner` and `count` are the RLock objects, which live on the heap and are reused
only when nothing refers to them (`Fresh`). `Register` and `Drop` are the two
sections under `self._guard`: they do not block, so each is one step. `Acquire`
and `Leave` are the acquire and the inner `finally`. `Interrupt` is
KeyboardInterrupt out of a blocked acquire. `caller` nests frames: a body may
call another key (`Nests`), only the innermost frame of a thread runs. `Fork`
continues the behaviour in the child, where the frames of the parent's threads do
not exist, the locks are as the fork caught them, and `reset` empties the table.

**`AsyncInflightLatch`** is `_AsyncInflightLatch` on one loop. A stretch between
two awaits is one action. The asyncio.Lock inside a slot is external code,
modelled as CPython implements it: a FIFO of futures, a release that resolves the
head's future, a woken task that takes the lock without looking again, a
cancellation before the wake-up (`cancelled`) or after it (`doomed`), which must
wake the next one. `Pass` is the re-entrant path, which takes no reference.

**`CachedCall`** is the wrapper. `pc` names its phases; `at` and `hand` are the
position of `_lookup` in the chain of fallback keys and the hit it is about to
copy forward. Every `cache.get` and `cache.set` is a step of its own. A value is
the call that drew it: no two draws are equal, so a replaced value shows. A scope
is a latch table: a process for threads, an event loop for tasks, and tasks of
one loop interleave only where they suspend (`Scheduled`). `Evict`, raising
`get`s and `set`s (a `set` also after it has stored), a raising function, an
interrupted wait (`GiveUp`) and a dying process are steps. `author`, `lost`,
`warm` and `landed` are history variables.

**`FirstWriteWins`** is the abstract promise: of the draws made under one latch,
a later one replaces an earlier one only if that one was lost or can no longer be
read.

**`LogCache`** is one prefix of a directory. A log is the sequence of its frames.
Each guarded operation is cut where another process or a batch thread can see a
difference: `Stamp` (the clock is read before the lock), `Enter`, `Check` (the
TTL, the sizes), `Fetch` (the index that `Check` found current is taken; if a batch
pass has popped it in between, KeyError leaves the call), `Scan`, `Keep`, `Serve`
with its one retry (`Invalidate`),
`Verify`, `OpenLock` (the lock file is opened before the flock is waited for),
`AppendFrame` (under the flock), `Fold` (own append into the overlay, own size
into the signature, the size trigger), `StartPass`, `ReadLogs`, `Replace`, `Pop`,
and `Wipe`. The lock file is a generation number, because `clear` unlinks it: a
waiter on the old file and an opener of the new one do not exclude each other.
`best`, `mine` and `split` are history variables: the newest record of each key;
per instance and key, the record it wrote last itself and the one that was newest
once that was appended; and the writers whose lock file was unlinked under a waiter. A `clear` hands `best` to the next winner, but not to one
that a rewrite under way has left out (`LeftOut`): that one is about to go. `world`
says which threads call what in this behaviour, so that one run holds several
casts of processes.

**`Consolidation`** is one pass of `_consolidate_prefix` in the order of the
code: `Snapshot` (sizes and mtimes; a log that cannot be stat'ed counts as not
read), `ReadLog` in the sorted order, `Abort` if our own log was not read,
`Resolve` (references repointed into the pool, legacy spills linked or copied,
absent ones dropped, faulty ones deferred), `Write`, `Restat` and `Unlink` per
source, `StartSweep`, `Probe` and `Delete` per pool file, `SweepLegacy`,
`RemoveOwn`. Around it, `Put` and `Land` are a concurrent `set` or `delete`
(spill first, record later), `ArriveLog` and `ArriveFile` the syncer, `Age` the
passing of the grace period, `Crash` the death of a process.

**`CacheProtocol`** is what `cached` needs of a backend, whatever runs
concurrently: a key is one cell, a `get` answers what was in it at one moment of
the call or a miss, a `set` lands at one moment or not at all, entries may be
lost, and any call may raise. The wrapper is checked over it, two backends are
checked to implement it.

**`SqliteCache`** cuts each call where another thread or process can see a
difference: `Begin` (the clock is read and the spill written, before the lock),
`EnterWrite` / `Select` (under `self._lock`), `Transact` (BEGIN IMMEDIATE and the
body, whose unlinks take effect at once while the rows are a `draft` that only
`Commit` publishes), `Commit` or `Rollback` (followed by `Retry` or `Raise`),
`Sweep` (the rmtree of `clear`), `ReadSpill` (after the lock). `GiveUp` is a call
that found the database locked to the last retry, `Interrupt` a KeyboardInterrupt
in the wait for the lock, `Crash` the death of a process, which drops its
transaction but not what it did to the files. `Body` has one operator per
operation; `Victims` is `_cull`, `Upsert` and `Delete` carry the triggers. A tick
of the clock is more than the access-time resolution.

**`FileCache`** has one step per file-system call that others can see: `Touch`
and `Read`; `Exists`, `StatOld`, `Dump` (mkstemp and the pickle), `Replace` or
`Abandon`, `StatNew`, `Scan`, `Add`; `StartEvict`, `EvictOne`, `EndEvict`;
`Delete`; `StartClear`, `ClearOne`, `EndClear`; `Nuke`. `total` is `self._size`;
the TypeErrors of a total that another thread has set to None are answers
`"raised"`. `After` chains the calls of one thread. `slack` is a history
variable. The module has no next-state relation of its own: **`Transfer`** adds
`List` (iteration), `Copy`, `Finish`, and the clear, which is the FileCache call
`Clearer`, begun by `Finish` alone. A fault in `List` is a file that cannot be read
and is passed over (`Listed`, with the history variable `unread`), or an error of
another kind, which ends the transfer.

---

## 3 Runs and what they show

| run | question | result |
|---|---|---|
| `latch` | Threads, nesting, re-entry, interrupts, forks: does the latch exclude, is its table exact, does every waiter get in? | holds |
| `async_latch` | The same on an event loop, with cancellations in every order relative to wake-ups | holds |
| `cached_call` | Two threads of a process; on the event loop of a peer that may die, a sealed task of the new code and a task of the old code that writes the fallback key; drifted values, evictions, failures: one draw per key and process, no value superseded, warm calls served, every call ends | holds |
| `drifted_fallback` | "First-write-wins is exact within a process" with a drifted fallback entry | violated |
| `log` | Two processes of one writer append, compact, consolidate and clear, or append, delete, rewrite and die: does the newest live record of every key stand? A caller beside batch passes of its own process, callers beside a peer that writes: does an index that believes itself current, alone on its writer, serve the winners, does a caller read its own writes? | holds, save when a `clear` unlinks the lock under a waiter |
| `sibling_index` | the same for two processes of one writer | violated |
| `delete_undone` | Does a delete outlive a compaction while a peer holds an older record? | violated |
| `consolidation` | Two passes over three directories with a concurrent `set`, a fault and a crash anywhere: does what can be read stay readable, does a conflict copy lose nothing, does garbage go? | holds |
| `legacy_swept` | the same when a retired writer with legacy spills writes again during the pass | violated |
| `sqlite` | Two processes, three calls of every kind, inline and spilled values, expiry, culls, one rollback, retry, interrupt or crash: is a key one atomic cell, is the size exact and within the limit, which spill files can be lost or orphaned, does every call end? | holds |
| `cleared_spill` | Does every row have its spill file when a `set` meets a `clear`, with no fault at all? | violated |
| `transfer` | A FileCache whose users get, store, delete and nuke while a second process transfers and clears it, one fault, a file that cannot be read while listing or copying among them: is a key one atomic cell, is a sole writer bounded, does the clear remove, of what the listing yielded, only what was copied? | holds, with the files that the listing could not read exempted |

What the properties say:

* `MutualExclusion`, `TableExact` / `SlotsExact`, `ReentryNeverWaits`,
  `NoLostWakeup`, `EveryWaitEnds`, `ImplementsKeyMutex` — the latches. The hard
  part is that lock objects are created and dropped while waiters exist: an entry
  dropped a moment early splits a key over two locks; one dropped late leaks.
  `NoLostWakeup` says that a free asyncio.Lock with waiters has a head that will
  run; `EveryWaitEnds` that every waiter gets its turn or its cancellation.
* `ComputeOnce`, `AnswerStands`, `ExactUntilUnsettled` (and `ExactWithinProcess`,
  its version without an exception), `LandedValuesStand` — four sides of
  first-write-wins: no second draw in a process, the caller's answer
  stays what the cache serves, no step of a process replaces a value of that
  process (until the key loses its value or a peer on older code writes the
  fallback: an unlatched copy forward may then land on top), and no draw replaces a value that was there when the function
  returned. `ImplementsFirstWriteWins` is the part that survives drift, upgrades
  and eviction.
* `WarmCallsAreServed` — a call that begins with a readable value in reach, under
  the current or a fallback key, neither draws nor raises `CacheMiss`, whatever
  migrations are under way and whichever copies forward fail.
* `LiveWinnersStand` — the newest record of a key is on disk and wins the merge as
  long as it lives, until a `clear` unlinks a lock file under a waiter (`split`).
  From then on nothing is promised of any key, since the unlocked rewrite of one
  writer can put back a record that wins over those of every other.
* `SoleIndexServes` (and `EveryIndexServes`) — an instance at rest whose size
  signature matches the disk finds, for every key, the winner, its own last
  write, or a location that fails to verify and leads to a rebuild. It answers "no
  record" only for a key whose newest record has died (`Over`): a compaction that
  drops a dead winner uncovers the record below it, of which the index knows
  nothing. The sole instance of a writer has this (`Alone`), while the logs of its
  peers only grow, since the size of a rewritten log may recur, and while no lock
  is split, since two rewrites at once may put an older record at an indexed place.
  Two instances of one writer do not have it.
* `ReadOwnWrites`, `DeletesStand` — a `get` after a `set` by the same instance,
  alone on its writer as above, returns that record or a newer one, as long as it
  and the record that was newest once it was appended are alive (a `set` that read
  its clock early lands below a record that is there already, and if that one dies
  first the later merge has neither). It may miss only where a newer record has
  died, or where the log was rewritten twice under one `get`. The promise that
  a `get` after a `delete` never returns an older record is the one that the run
  `delete_undone` refutes.
* `ReadableStaysReadable` — a step never makes the newest record of a key
  unreadable, unless a newer one supersedes it or the step closes one of three
  windows the code leaves open, which `Raced` names: a `set` that refreshes a pool
  file between the sweep's stat and its unlink, a log that grows between its
  second stat and its unlink, and a value that arrives after its absence dropped
  its record. Everything else the pass does is covered without exception.
* `UnsyncedCopiesStay` — the newest record that a conflict copy carries stays on
  disk, its value delivered or not. `GarbageIsSwept` — a completed pass leaves no
  file in the pool that was past its grace and that no record refers to.

* `WithinLimit` — the committed rows add up to the size the triggers keep, and to
  no more than the limit, across processes, overwrites, culls, rollbacks and
  crashes.
* `RowsKeepTheirSpills` — a committed row loses its spill file only to a
  transaction that drops the row (and may yet be rolled back, or die), to the
  rmtree of a `clear`, or to a retry that follows a rolled-back cull of its own
  row. Readers, failing `set`s and other culls never take a live row's file.
  `RowsHaveTheirSpills` is the version without windows.
* `NoNewOrphans` — a spill file that nothing will ever remove appears only when a
  process dies, when a `set` is interrupted in the wait for the lock, or when an
  expired `get` deletes by rowid a row that was overwritten meanwhile.
* `ImplementsCacheProtocol` (of both backends) — the outcome of a `get` is fixed
  at its SELECT, though the file is opened after the lock, and at its open in
  FileCache; a `set` lands at COMMIT, or at `os.replace`, though it may raise
  afterwards. No call answers another key's value, a value overwritten before it
  began, or one of a `set` that failed.
* `SoleWriterStaysBounded` — as long as one thread does all the storing and
  nothing clears, the total is never below what is on disk and each returning
  `set` leaves the cache within its limit, whatever others read and delete —
  up to `slack`, see Findings. With two writing processes each total knows only
  its own writes, which the code documents as approximate.
* `TransferLosesNothing` — the final clear unlinks a value only if the
  destination has it, or it was stored after its key was copied or the keys were
  listed (`late`), or the listing never yielded its key: its file holds no key
  (`Bare`), or could not be read just then (`unread`). This is what the docstring of
  `transfer` claims, "a key that was yielded", and not more: what a failed read
  while listing does is under Findings. The property covers a listing, a copy loop
  and a clear between which the source changes arbitrarily.

---

## 4 Bounds and abstractions

Every bound is a constant of its module, and checked in its guards.

| runs | instance | why it is enough |
|---|---|---|
| `latch` | 3 threads, 5 calls, an outer key (re-entrant) and an inner one, 2 RLocks | two threads can nest while a third waits, which is what it takes to drop and re-create an entry under a waiter; as many locks as keys, since an idle one is reused |
| `async_latch` | 4 tasks, 5 calls, the same keys | a queue of three: a cancelled, a woken and a pending waiter at once |
| `cached_call` | threads `a`, `b` of `p`; tasks `c` (sealed, new code) and `z` (old code) on the loop of `q`; current key volatile; `q` mortal; 4 initial stores | two parties under one latch, one writer outside it, one call that must not draw; the stores are absent, readable and drifted fallbacks |
| `log`, `sibling_index`, `delete_undone` | 2 records, 2 keys, 1 tick, at most 1 pass, 1 clear, 1 crash; 3 instances, 4 threads, of which each of five worlds uses two | two records are what it takes to lose one or to order two; a log of one frame triggers the size limit on the second |
| `consolidation`, `legacy_swept` | 3 writers and a conflict copy, 2 keys, 2 values, 1 concurrent put, 2 passes, 1 fault, 1 crash | the second pass sees what the first left, whole or cut short; each of the three directories exercises one way of losing a value |
| `sqlite` | 3 calls in 2 processes, 2 keys, inline and spilled values of which two large ones exceed the limit, 1 tick, 1 fault | an overwrite, a cull and a reader that has left the lock at once; two threads behind one lock and one beside it |
| `cleared_spill` | 2 calls of one process | the smallest cast |
| `transfer` | a thread that stores twice, one that makes any call, a transfer with its clear; 2 keys, 1 tick, 1 fault | two stores are what it takes to use a total that the first one took; a set, a delete and a transfer in every order |

Abstractions that matter, and the direction in which they err:

* **Frames have one length**, so two logs with as many frames have the same size.
  That is the worst case for a signature made of sizes.
* **Sizes are taken in one step** (`Check`); the code stats the logs one after
  another. Append and the `stat` after it are one step: both are under the flock.
* **In `Consolidation`, the set of a log's records stands for (size, mtime)**:
  between the snapshot and the second stat a log only grows.
* **All spills of a pass are resolved in one step, and the legacy sweep is one
  step.** The windows inside the pool sweep, by contrast, are steps.
* **A file does not age** while a pass runs, while a `set` is between its spill
  and its record, or while a record that names it is still to be delivered: each
  of these is far shorter than the grace period (`_SHARED_SPILL_GRACE_S`), which
  is what the code relies on.
* **No second stat fails in the directory with legacy spills**, because a source
  that is kept while its legacy namespace is swept is the defect `legacy_swept`
  exhibits.
* **One janitor.** Two writers consolidating one directory at a time is a
  separate question (see Findings).
* **Keys nest acyclically.** A cached function that calls itself on its own key
  is included; two functions that call each other's keys crosswise from two
  threads would wait for each other, in the code and in the model: with `Nests`
  cyclic, `EveryWaitEnds` is violated. `Nests` is the call graph, and the runs take
  it acyclic, as nothing in the code stands against such a cycle.
* **The children of a fork** are those of `multiprocessing`, which do not return
  into the parent's frames.
* **Values are inline in `LogCache`**, there is no `size_limit`, and I/O faults
  other than absence are left out there; `Consolidation` has faults and spills.
* In `CachedCall` the cache's `get` and `set` of a key are atomic and may raise,
  which is what `CacheProtocol` says and the backends are shown to implement.
* **SqliteCache's unlinks do not fail** and its spills are written in one step: a
  `.tmp` left by a death in the middle of one is out of sight. A locked database
  is waited for (`writer = Nobody`) or given up (`GiveUp`); the number of retries
  is not counted.
* **Scans and rmtrees are one step** in `FileCache`, and each key has a directory
  of its own. A read fault on a warm entry answers the default; it is kept apart
  as `"unread"` so that `ImplementsCacheProtocol` can tell it from a true miss.
* **The destination of a transfer is private**, so a read and the write that
  follows it are one step.

Deadlock is checked in the latch and wrapper runs (a behaviour may end only in
`Finished`). The LogCache and Consolidation runs have bounded operations, so they
stop by running out of them, and deadlock is not checked there, nor in
`SqliteCache`'s; its `EveryCallEnds` says more. `MCTransfer` checks it.

Symmetry is used only in runs without liveness properties: keys, and the two
sibling processes.

---

## 5 Fairness

| module | assumed weakly fair | justified by |
|---|---|---|
| `InflightLatch` | `Acquire`, `Leave`, `Drop` of each call | threads are scheduled; the acquire of a lock that stays free returns; the wrapped function ends |
| `AsyncInflightLatch` | `Resume`, `Unwind`, `Leave`, `LeavePass` of each call | the loop runs every ready task; the wrapped coroutine ends |
| `CachedCall` | that some call with a step to take takes one | the same, and a waiter gets the latch because both latches satisfy `EveryWaitEnds` |
| `SqliteCache` | that some call with a step to take takes one | threads are scheduled, and a transaction, once begun, ends |

Nothing owes a first call, an interrupt, a cancellation, a fork, an eviction or a
crash. The calls of a behaviour are finitely many, so a lock is contended finitely
often and weak fairness of `Acquire` suffices; with unboundedly many callers a
fair lock would be needed, and Python's is not specified to be one. In
`CachedCall` and `SqliteCache` even less is asked, no order among the calls at
all: each call has finitely many steps, so it is enough that some call moves.
`LogCache` and `Consolidation` are checked for safety only; `FileCache` waits for
nothing.

---

## 6 Proofs

Every module that models code has a module of TLAPS proofs; what they prove holds
for every set of calls, threads, keys, logs and values, every limit and bound.

| module | theorem | statement |
|---|---|---|
| `InflightLatchProofs` | `Inductive` | `Spec => []IInv` |
| | `TypeCorrect`, `Exclusive`, `Exact`, `Reentrant` | `Spec => []TypeOK`, `[]MutualExclusion`, `[]TableExact`, `[]ReentryNeverWaits` |
| | `Refinement` | `Spec => ImplementsKeyMutex` |
| `AsyncInflightLatchProofs` | `Invariant` | `Spec => []IInv` |
| | `TypeCorrect`, `Exclusive`, `Exact`, `WakeupKept` | `Spec => []TypeOK`, `[]MutualExclusion`, `[]SlotsExact`, `[]NoLostWakeup` |
| | `Refinement` | `Spec => ImplementsKeyMutex` |
| `CachedCallProofs` | `TypeCorrect`, `ComputesOnce`, `WarmServed`, `LandedStand`, `AnswersStand` | `Spec => []TypeOK`, `[]ComputeOnce`, `[]WarmCallsAreServed`, `[]LandedValuesStand`, `[]AnswerStands` |
| | `ExactUntil`, `Refinement` | `Spec => ExactUntilUnsettled`, `ImplementsFirstWriteWins` |
| `SqliteCacheProofs` | `TypeCorrect`, `SizeBounded` | `Spec => []TypeOK`, `[]WithinLimit` |
| | `SpillsStay`, `NoOrphans` | `Spec => RowsKeepTheirSpills`, `NoNewOrphans` |
| | `Refinement` | `Spec => ImplementsCacheProtocol` |
| `TransferProofs` (with `FileCache`) | `TypeCorrect`, `WriterBounded` | `Spec => []TypeOK`, `[]SoleWriterStaysBounded` |
| | `NothingLost`, `Refinement` | `Spec => TransferLosesNothing`, `ImplementsCacheProtocol` |
| `ConsolidationProofs` | `TypeCorrect` | `Spec => []TypeOK` |
| | `Swept` | `OneJanitor` implies `Spec => []GarbageIsSwept` |
| | `NeverLost` | `OneJanitor` and `AtHome` imply `Spec => ReadableStaysReadable` |
| `LogCacheProofs` | `ControlHolds` | `Spec => []Control` |
| | `TypeCorrect`, `WinnersStand` | `Spec => []TypeOK`, `[]LiveWinnersStand` |
| | `ServingHolds` | `Spec => []Serving` |
| | `IndexServes`, `OwnWritesRead` | `Spec => []SoleIndexServes`, `[]ReadOwnWrites` |

`SumTheorems` holds the lemmas about sums over finite sets (`SumRemove`,
`SumChange`, `SumSplit`, ...) on which the proofs about sizes rest.

They compose: the two latches implement `KeyMutex`, `CachedCall` uses a `KeyMutex`
and a cache; two backends implement the cache it is given. The assumptions are those
the modules name: calls and keys are finitely many in any one behaviour, sizes and
limits are natural numbers, "none" values differ from real ones, a chain of
fallback keys begins with the key itself, and so on. TLC evaluates each of them.

**`InflightLatch`.** Mutual exclusion is not inductive. Two calls inside one key exclude
each other only because both wait on the *same* lock object; they do only because
both found it in the table; and it was there for both only because an entry
outlives every reference to it. The invariant `IInv` adds exactly that chain:

* `FramesRegistered` — a call between its two guarded sections finds its own lock
  in the table under its key;
* `LocksDistinct` — no lock serves two keys (a fresh lock is one nobody can reach);
* `TableExact` — the reference count is the number of calls in flight, so `Drop`
  removes the entry exactly with the last of them;
* `OwnerHolds`, `CountExact` — the lock of a call in the body is owned by its
  thread, with one acquisition per call in the body, so `Leave` frees the lock
  exactly with the last of them.

There is one lemma per action (`RegisterIInv`, `AcquireIInv`, ...), and under it
one step per conjunct that the action disturbs; the counting steps rest on the
library's theorems on finite sets, since the in-flight and holding sets of a key
are sets of calls. The refinement maps
`Acquire` to `Enter`, `Leave` to `Leave`, `Fork` to `Abandon`, and everything
else to stuttering.

**`AsyncInflightLatch`.** The table is exact for the same reason, but two arguments
meet. `LockExact`: the queue of a slot is the waiting calls without repetition, a
resolved future (`Woken`) is the queue's head and the lock is free, so the woken
task that takes the lock without looking is the only one that can; `WakeSent`, that
a free lock with a queue has woken its head, survives a cancellation because the
cancelled head wakes the next on its way out. `Stack`: a re-entrant call takes no
reference, and is safe only because it lies above the holder of its key in the
stack of its task and ends first; that needs the frames of a task to be a stack
(`Stacked`), which needs every caller to be in its body (`CallersInBody`).

**`CachedCall`.** Layers: `Control` (where a call is says what its locals are; one
call per latch is between `EnterLatch` and `LeaveLatch`), `Draws` (a call that has
re-read the key under its latch finds no draw of that latch there, unless the key
lost a value), `Reach` (a call that began with a readable value in its chain, and
has not passed it, still has one ahead of it or in hand: a migration overwrites
only what it has read), and `Settled` (until the first unsettled copy, an unlatched
copy can only restore what stands). `ComputesOnce` and the refinement use the
second layer, `WarmServed` and `LandedStand` the third, `AnswersStand` and
`ExactUntil` the last.

**`SqliteCache`.** `Control` ties `pc` to the two locks and says that outside a
transaction the draft is the committed table. `Counted`: both tables add up to
their recorded size, which is within the limit; the cull is the difficult step,
as its result must be within the limit whichever order the policy picks, which
needs that a prefix of the victims is enough and that the sum over what is left
is the difference (`SumTheorems`). `Identities`: a file is named after the one
`set` whose value it has, that value is in one row at most, and the row a `get`
has selected is recognisable for as long as it exists. So the file opened after
the lock is left has the selected value or is gone, and the refinement maps a `get`
to its `SELECT`. `SpillsKept` relates the open transaction to the files: what it
has dropped it has unlinked, what it keeps has its file.

**`Transfer` and `FileCache`.** `Shape` ties `pc`, temporary files and answers.
`NothingLost` rests on `Covered` (every file that holds a key was copied, stored
since, is still to do, or was not yielded; the clear begins only when nothing is to
do). `WriterBounded` rests on
`Bounds`: while there is one writing thread, the total plus `slack` is never below
what is on disk, and between the two stats of a `set` never below it by more than
the difference it is about to add (`Covers`). What an eviction scanned is all there
is, save what has gone since.

**`Consolidation`.** `Grounded`: what the pass has read is still there, or in its
own rewritten log, or was removed by the pass; `Combed`: an old file that no record
on disk names is still on the sweep's list. With them garbage goes. For
`NeverLost`, `ServedIf` turns "a reader finds the newest record" into "the newest
record is in a log, and its file is present" (`Holds`), since stamps are apart
(`Stamps`). `ReadAll` says that what the pass has not read is no older than the
pass, so what the rewrite replaces is what it read; `KeepsAll` that each newest live
record it read is either written (repointed to a present pool file, or where it was
because adoption failed), or dropped as absent and its arrival then is `Raced`.
One lemma per kind of step that removes something: `WriteServes`, `UnlinkServes`,
`DeleteServes`, `LegacyServes`.

The two hypotheses are about constants and are needed. `OneJanitor`: with two
passes at a time a spill adopted by one can be swept by the other (Findings).
`AtHome`: a legacy namespace is named only by the log of its own writer, and that
writer is not being pruned; without it the sweep of pruned namespaces removes files
that a log that grew meanwhile still names, which is the finding `legacy_swept`.
Of the three directories of `MCConsolidation`, `Shared` and `Unsynced` satisfy
`AtHome`; `Legacy`, where a retired writer that stays silent has legacy spills, does
not, and is covered by the run `consolidation` alone.

**`LogCache`.** `Control` is about where an operation is: which locals it has, who
holds `self._lock` (exactly the thread inside a guarded operation, through the
retry, the errors and the deaths), and that no log can outgrow what the operations
allow. The last is `Bounded`: the records stamped and the crashes, less the records
not yet appended (`Room`), bound each log and each rewrite under way, so that a
location is always one of `Places`. A rewrite keeps within it because it keeps at
most the frames of its own log.

`WinnersStand` needs three more facts, together `Standing`, which hold until a lock
is split:

* `OneLock` — a thread at the flock of its writer has opened the lock file that is
  in place, so at most one rewrite per writer is between its read and its replace,
  and nothing is appended between the two;
* `InHand` — what such a rewrite will put back comes from its own log, once per key,
  and has every best record of that log that still lives;
* `OnTop` — a best record, while it lives, is on disk and comes after every other
  record of its key in the order of the merge: by time, then by the rank of the
  writer, then by place in the log.

The lemmas `WinnerFacts`, `KeptFacts` and `Numbered` say what the merge (`Winner`)
and the filter (`Kept`) return: both are choices from finite sets, so that the
winner exists and comes last, and what is kept are the live winners of that log,
none twice. Then one lemma per step that touches the disk: an append is later
than everything (`AppendFrameStanding`), a read takes the winners
(`ReadLogsStanding`), a replace loses only what had not won (`ReplaceStanding`), a
`clear` passes on to the next winner (`WipeStanding`), and a torn frame is no record
(`CrashStanding`).

`IndexServes` and `OwnWritesRead` relate an index to a disk that has moved on since
it was built. Their invariant, `Serving`, adds to `Standing`:

* `Confined` — a thread that may call nothing is idle, and a writer whose threads
  only `set`, `get` and `delete` with room to spare never rewrites;
* `Heads` — what a rewrite will put back is, for each key, the record of its own
  log that comes last in the merge, so a rewrite moves the head of a key and never
  lets an older record take its place;
* `View(i)`, for each instance alone on its writer: a key without a best record has
  no record at all (`Vacant`); the record that was newest when the instance wrote is
  still the best, or a peer's record of that time or a later one outranks everything
  of the key in the own log (`Newer`); and what an operation carries from step to
  step (`Holding`) and what the index holds at rest (`Standby`) is as follows.

An index entry is right in one of two ways. A packed location is `Current`: the peers'
logs are at least as long as the signature says, and if they are exactly as long
the location is the winner (`Packed`), or it is a place in the own log, which a
rewrite may have refilled, and any record of the key there is the winner. An overlay
entry is `Written`: the last frame of its key in the own log, or a tombstone for it.
Both are `Good`: the own write that is still owed is there or something newer is, or
the place is in the own log, which has nothing older of the key, or a newer record
of a peer has died. The exceptions are the key that is just being folded, and an index under a rewrite
that has not yet popped it (`Undisturbed`).

`Peak`, `Packed`, `Written` and `Good` speak of frames and places only, so that
each kind of step carries them once and for all: one that leaves the logs alone
(`StillCarries`), a peer's append (`PeerCarries`), an own one (`OwnCarries`), a
rewrite (`RewriteCarries`). On these rests one lemma per step (`CheckView`,
`FetchView`, `ScanView`, `KeepView`, `FoldView`, `OwnAppendView`, `ReplaceView`, `WipeView`,
`PeerAppendView`, `CrashView`, ...), put together in `NextView`.

The proof corrected the properties. In an earlier form, without `Over` and `newest`
and with nothing asked of the peers or of the lock, they held of every state that TLC
reached and were false beyond its bounds: the steps that could not be proved gave the
casts of threads in which TLC then found the counterexamples, and the hypotheses are
what these left standing (Findings).

**Only model-checked**

Every invariant that a passing run checks has its theorem. What is left:

* Liveness (`EveryWaitEnds`, `EveryCallEnds`): under fairness it is outside this
  prover's reach.
* `UnsyncedCopiesStay` of `Consolidation`, which is a property of the directories
  checked: where one record is both in a conflict copy and in a log that is pruned
  and sorts later, the pass folds it from the log, and drops the copy.
* `ReadableStaysReadable` in directories that are not `AtHome`.

---

## 7 Findings

Five runs show the code doing something else than a sentence of the repository
says. Each counterexample is short enough to follow by hand.

1. **`drifted_fallback`** — The probe migrates a fallback hit outside the latch
   and copies what it *read*, not what is there now. A thread that read a drifted
   fallback entry puts it over the value another thread has settled and returned
   in the meantime: first-write-wins is not exact within a process
   (`_cached.py:1016`; README.md:401).
2. **`sibling_index`** — After an append, `set` takes the log's size as its
   signature. A sibling's frame inside that size is then never indexed, so the
   sibling's key stays missing until some log changes size again, even with
   `index_ttl=0` (`_log_cache.py:1831`; the comment at :856).
3. **`delete_undone`** — Compaction drops a tombstone while a peer's log still
   holds the older live record; the deleted key is served again
   (`_log_cache.py:1078`, `:1542`; tests/test_log_cache.py:891).
4. **`cleared_spill`** — `set` spills a large value before it takes the lock;
   `clear` deletes the rows and then removes the whole store directory; a `set`
   between the two commits a row whose file is gone, and every `get` of the key
   raises FileNotFoundError until it is stored again (`_sqlite_cache.py:315`; the
   module's docstring at :18 and :23).
5. **`legacy_swept`** — The sweep of legacy namespaces covers every writer in
   `prune_writer_ids`, also one whose log the same pass has just kept because it
   grew. Its records still name the swept files and, in the later log, win over
   the repointed copies; the next pass drops both (`_log_cache.py:1446`; comments
   at :1430 and :1126).

Others are stated as named exceptions of the properties, or are visible from the
code:

* *LogCache* — `clear` unlinks the lock file under processes that wait for its
  flock; the two sides then exclude nobody and an append can be lost to a rewrite
  (`_log_cache.py:1941`; the docstring at :672 says the lock file is never
  replaced): `split` in `LiveWinnersStand`. A rewrite under the old lock can then put
  back what a second `clear`, under the new one, removed, and that may win over the
  next best record, another writer's.
* *LogCache* — what an index that believes itself current may miss or get wrong,
  even without a sibling: a batch compaction beside the caller drops a dead newest
  record, and the older one of a peer that this uncovers is not found until the
  index is rebuilt (`Over`); a peer's rewritten log that grows back to the size it
  had leaves the signature equal (`Alone`; `_log_cache.py:851`); after a split lock,
  two rewrites of one log can put an older record where the index expects a newer
  one, and it verifies, as only the key is compared. And a `set` that read its clock
  early lands below a newer record that is there already; once a rewrite has dropped
  the one and the other has died, a `get` finds neither, though the `set` is alive
  (`newest` in `ReadOwnWrites`).
* *LogCache* — a batch pass pops the index without `self._lock` (:1100, :1349). If
  it does between the test `prefix in self._index` and the use of
  `self._index[prefix]` (:859-870), KeyError leaves the `get`, `set` or `delete` of
  another thread of the instance: `Fetch`.
* *LogCache* — adopting a legacy spill whose value is already in the pool does
  not refresh that file's age, so a second janitor that saw no reference deletes
  it (`Janitors = {me, peer}` with the world `Legacy` shows it); and a pass
  removes its own legacy namespace though a conflict copy of its own log that it
  did not read may still name it.
* *cached* — two event loops of one process compute one key twice, as latches are
  per loop (README.md:236 speaks of the process). The exactness that
  `drifted_fallback` refutes also fails when a peer on older code writes the
  fallback, or when a drifted current entry is evicted: `Unsettled`.
* *SqliteCache* — a `set` whose first attempt culled its own row and was rolled
  back retries without its file; a `set` interrupted in the wait for `self._lock`
  leaves its spill behind, the wait being outside of the `try` that removes it
  (:262); an expired `get` deletes by rowid and orphans the spill of a row that
  was overwritten meanwhile; a `get` raises FileNotFoundError if its file goes
  between the lock and the open; a rollback, or a death before COMMIT, brings
  back rows whose files the body has already unlinked.
* *FileCache* — the first `set` of an instance takes the total from a tree that
  already holds its replacement and then adds the change of size again
  (`_file_cache.py:148`). If it shrank an entry the total is too low and the cache
  grows past its limit by that much, with one thread and no concurrency: `slack`.
  A `set` can raise after it has stored (`StatNew`, and the TypeError of `Add`
  when another thread deletes).
* *transfer* — files of the older format hold no key, so `__iter__` passes over
  them without a warning and `clear_source=True` then removes them, although
  README.md:353 says that what could not be copied survives: `Bare`.
* *transfer* — `__iter__` passes over a file that it cannot read just then
  (`_file_cache.py:233`). The key is not yielded, not counted as skipped, and
  `clear_source=True` removes its only copy, though README.md:353 counts what is
  "unreadable in this environment" among the keys that keep the source; the
  docstring (`_transfer.py:36-39`) speaks of yielded keys only: `unread`. Without
  that exception `TransferLosesNothing` is violated in five steps, none of them
  concurrent.

---

## 8 Not modelled

* **FanoutCache**: it routes every call to one SqliteCache by a hash of the key
  and keeps no state of its own; its `clear` and `expire` go over the shards.
* **Admin scans** (len, iteration, volume, `in`) of the backends, which change
  nothing, other than the iteration `transfer` rests on.
* **SqliteCache**: `close`, torn spill writes, failing unlinks, no limit.
  **FileCache**: failing unlinks of an eviction, no limit (a `set` then ends at its
  replace), keys whose paths
  collide (a `/` and a `_` in a key give one path).
* **LogCache**: `size_limit` trimming, truncated pool files, orphaned `.tmp`
  files and the migrate-on-sight trigger; framing only as "a torn frame is stepped
  over".
* **Cache-only mode** only as "sealed or not"; **the value codec** only as "decodes
  or has drifted".
* **Keying and canonicalisation, the salvage unpickler, the CLI, the benchmark
  script**: pure functions of data a finite model does not tell apart, or I/O.

---

## 9 Plan

Done, in this order: the latches and their abstract mutex; the wrapper composed
with the mutex; LogCache's index, appends and rewrites; the consolidation pass;
the promise of a backend, SqliteCache and FileCache as its implementations, and the
transfer out of a FileCache; the proofs of section 6, component by component.

Next, by importance:

1. **Proofs**: `ReadableStaysReadable` with legacy spills of a pruned writer that
   stays silent.
2. **Consolidation, extended**: two janitors; conflict copies of our own log; the
   size limit and the migrate-on-sight trigger in `LogCache`.

The runs are meant to stay few: a new question is put to an existing run, as
another world or another member of its cast, before it gets one of its own.
