# A TLA+ verification of autorocks

autorocks is a Rust binding over RocksDB's pessimistic `TransactionDB`. This
directory holds TLA+ modules that model its transactional core, the lock manager
under it, how a transaction reads its own writes, the life of its column family
handles and the block cache, the TLC configurations that check them on small
instances, and TLAPS proofs about the core, the lock manager and the handles for
every value of the constants. `PROJECT.json` maps every definition to the lines it models.

## The system

Paths are relative to the repository root; `txn/` abbreviates
`autorocks-sys/rocksdb/utilities/transactions/`.

| Part | Code | State | Operations | What makes it hard |
| --- | --- | --- | --- | --- |
| Transaction | `src/transaction.rs`, `autorocks-sys/src/db.h` (`TransactionWrapper`), `txn/pessimistic_transaction.cc`, `txn/transaction_base.cc` | state word, options, snapshot, write batch, lock tracker | put, delete, get, iter, snapshot, commit, rollback, drop | the object survives commit and rollback; its locks may be stolen by another thread while it commits; a put can fail after it has locked |
| TransactionDb writes | `src/db.rs`, `txn/pessimistic_transaction_db.cc` | none of its own: an internal transaction per call | put, delete, write, write without concurrency control | several locks per batch; failure half way |
| Point locks | `txn/lock/point/point_lock_manager.cc`, `point_lock_tracker.cc` | key -> holder, expiration; per-transaction tracker | TryLock, UnLock, stealing, deadlock detection | timeouts racing unlocks, expiry racing commit |
| Snapshots | `src/snapshot.rs` | a sequence number, a reference to the database | get, iter, release | keeps the database and its handles alive; the reads are the engine's |
| Database handles | `src/db.rs`, `db.h` (`TransactionDBWrapper`) | `Arc`, vector of column family handles | open, clear_cf, drop_cf, close | half-done operations, exclusive access |
| DbOptions | `src/db.rs`, `db.h` (`DbOptionsWrapper`) | list of column descriptors | new, load, setters, repair, open | index arithmetic between columns and descriptors |
| Iterators | `src/iter.rs`, RocksDB's `BaseDeltaIterator` | base and delta cursors, direction, `just_seeked` | seek, next, prev, key, value | merging two cursors in two directions |
| Indexed write batch | RocksDB's `WriteBatchWithIndex` | records, skip list over them | put, delete, merge, get, rollback to a savepoint | entries taken over by later writes, merge operands |
| Block cache | `autorocks-sys/rocksdb/cache/lru_cache.cc` | table, LRU list in three pools, reference counts, usage | insert, lookup, release, erase, limits | accounting over many paths, freeing outside the mutex |
| Read-only database, status and slice conversion | `src/db.rs`, `src/error.rs`, `src/slice.rs` | none that changes | reads, conversions | - |
| Storage engine | `autorocks-sys/rocksdb` (third party, `db/` not in the tree) | sequence numbers, versions | `WriteImpl`, `Get`, iterators | external: modelled by what the code above relies on |
| Build script, generated FFI | `autorocks-sys/build.rs`, `autorocks-sys/src/lib.rs` | - | - | not modelled |

They meet in the write path: a `Transaction` call, or the internal transaction
of a `TransactionDb` call, takes point locks, validates against its snapshot,
tracks its keys, and publishes its batch through the storage engine.

## Modules

**`SnapshotStore`** is what callers are promised, with no locks and no calls in
progress: versions tagged with a sequence number and a transaction; a
transaction adds all its writes at once and once only (`Commit`), and, if it
works from a snapshot, only to keys nobody under concurrency control has written
since.

**`TransactionDb`** is the code. Its variables and their counterparts:

| Variable | Code |
| --- | --- |
| `seq`, `versions` | the engine's last published sequence number; committed entries |
| `locks` | `LockMapStripe::keys`, all stripes and column families together |
| `state`, `opts`, `snapshot`, `batch` | `txn_state_`, the `TransactionOptions`, `snapshot_`, `write_batch_` |
| `tracked` | `tracked_locks_` (for `TransactionDb::write`: `keys_to_unlock`), key -> `tracked_at_seq` |
| `expired` | has the clock passed `expiration_time_`? |
| `kind` | is the object a user's `Transaction`, or the internal one of a put/delete or of a write? |
| `pc`, `rkey` | where the call in progress is, and which key it is locking |

A transaction object is driven by one thread at a time (`&mut self`), objects by
different threads. A call is one action per stretch between two points where
another thread can act on shared state:

- `Put`/`DbPut`/`DbWrite` start a call; `Acquire`, `Steal`, `LockFail` are the
  outcomes of `PointLockManager::TryLock`; `Validated`, `Invalid`, `Undo` are
  the rest of `PessimisticTransaction::TryLock` and `Operate`;
- `Commit` (`IsExpired` was false), `CommitCas` (the state word decides),
  `CommitWrite`/`CommitWriteFail` (the engine's write), then `UnLock` key by key
  and `ClearDone`; `Rollback` and `Drop` share the last part, `DeleteDone` is the
  end of the destructor;
- `Steal` is a step of the thief that changes the victim's state word;
- `PutUnlocked` and `DbWriteUnlocked` are the writes that skip concurrency
  control.

Abstractions: a key is a (column family, key) pair, a number because `LockBatch`
sorts; values and the difference between put and delete do not influence the
write path; time is one bit per transaction; RocksDB gives every key of a batch
its own sequence number but publishes only the last, so a batch has one here.
Transaction ids are not reused, as in `GenTxnID`.

Not reachable through the binding, hence absent: two-phase commit, savepoints,
shared and range locks, untracked reads for update, user timestamps.

**`PointLockManager`** is the lock manager in full, where `TransactionDb` has only
what a put sees of it. `lock` is the stripes' maps (holders, exclusive,
expiration time as the set of transactions it is the maximum over), `mutex` who
keeps a stripe's mutex between two steps, `waitMap` and `rev` the deadlock
detector's maps, `held` what a transaction tracks, `pc` and `req` its call.
`Request` is `PessimisticTransaction::TryLock` up to the lock manager; `Take`,
`Share`, `Steal`, `Refuse` are the outcomes of `AcquireLocked` and
`IsLockExpired`; `Wait` is `IncrementWaiters` and going to sleep, `TimeOut` and
`SpuriousWakeUp` the ends of a wait; `Track`, `Invalid`, `TrackUndone` the rest
of `TryLock`, the way back from an upgrade included; `UnLock` and `NotifyAll`
alternate stripe by stripe, because `UnLock` notifies after it has given up the
mutex; `RemoveColumnFamily` may come at any time. `End` is the destructor. Time is
one bit per transaction. Left out: the `Clear` of a commit or rollback, which unlocks
everything and leaves the object usable (here a transaction unlocks everything once,
when it is destroyed; `TransactionDb` has both); `max_num_locks` and its counter; the
buffer of reported deadlocks; the thread-local cache of lock maps (a stale one is a map
found just before `RemoveColumnFamily`, which is modelled). Transactions that prepare,
and savepoints, are left out.

**`MergedCursor`** is what an iterator over a transaction promises: a cursor over
one map. **`BaseDeltaIterator`** is the code behind it: the skip list that
indexes the batch (`AddOrUpdateIndex`, `ReBuildIndex`), the cursor over it
(`WBWIIteratorImpl`: `Seek`, `AdvanceKey`, `FindLatestUpdate`), point reads
(`GetFromBatchAndDB`), `BaseDeltaIterator` (`UpdateCurrent`, `ChangeDirection`,
`Advance`), and autorocks' `DbIterator` on top (`new`, `seek`, `seek_for_prev`,
`next`, and `InnerMove` for the moves callers make through `as_inner_mut`). A
value is the sequence of records it is made of, so that a wrong base value, a
lost or a doubled merge operand all show. The database's iterator is external: a
cursor over a fixed set of keys, some of which cannot be read. A merge operator
is assumed to be configured and to succeed; a batch is not written while an
iterator over it is open (RocksDB forbids it, `&mut self` keeps autorocks from
it); there are no iterator bounds.

**`LRUCacheShard`** is a shard of the block cache without a secondary cache. A
call is one step, as it is one critical section of `mutex_`; the entries it
removed are in `doomed` until `Free`, which runs outside the mutex. What is there for
a secondary cache, such as the test in `Release` for a lookup that failed, is left
out. The list is a
sequence and the heads of the pools are positions in it.

**`ColumnFamilies`** is the rest of the binding's own state: `descs` is
`cf_descriptors`, `handles` is `cf_handles`, `live` the handles not yet deleted,
`cfs` the column families on disk, `ref` the Rust values that hold the `Arc`,
`using` the handle a running call has obtained, `op` the `clear_cf` or `drop_cf` in
progress. `Open`, `OpenFail`, `WrapFail` are the outcomes of `open`;
`StartReplace`, `DestroyHandle`, `Recreate`, `RecreateFail` the steps of
`clear_cf`/`drop_cf`, with `Crash` possible between them (the returns after a failed
`DestroyColumnFamilyHandle` are dead: it fails for the default column only, which
`DropColumnFamily` refuses first); `DropRef` of the last
reference runs the destructor. External: which descriptor lists `DBImpl::Open`
accepts, and that a failing `CreateColumnFamily` resets the handle. Options other
than names and the create flags are left out. It does not interact with
`TransactionDb`: no column family can be replaced while a transaction lives, which
is what `NoUseAfterDestroy` checks.

The other modules do not interact at run time beyond what `TransactionDb` says of
them: it contains the lock steps a put can see, and a batch as the set of its
keys.

**`MCTransactionDb`**, **`MCPointLockManager`**, **`MCBaseDeltaIterator`**,
**`MCLRUCacheShard`** and **`MCColumnFamilies`** name the sets the runs use.
**`PointLockManagerProofs`**, **`ColumnFamiliesProofs`** and the chain
**`TransactionDbTypes`**, **`TransactionDbLocks`**, **`TransactionDbCommits`** and
**`TransactionDbProofs`** (each extending the one before) hold the proofs.

Operators named `Def_Slip` (`CanCommit_Again`, `UnLockKey_Anybody`, ...) are `Def`
with a plausible slip. No specification uses them; each makes TLC report the
property listed with it in `PROJECT.json`, which shows that the property depends
on that piece of code.

## Runs

Deadlock is not checked in the runs of `TransactionDb` and `PointLockManager`:
transaction objects are finitely many and never reused, so the system ends when
all have been dropped. It is checked in the others.

| Run | Instance | Shows |
| --- | --- | --- |
| `isolation` | 2 keys, 2 objects, 2 sequence numbers; transactions with a snapshot, without concurrency control, or not prepared; db puts, a two-key write, the same without locks | `NoLostUpdate`, `AtomicCommit`, `TrackedUnmodified`, `DbWritesDoNotDeadlock`, the refinement `StoreSpec`, and `IndInv` |
| `expiry` | 1 key, 2 objects, expiring transactions and db writes, with fairness | `NoLeakedLocks`, `LostOnlyByExpiry`, `WritesUnderLock`, `StolenNeverCommits`, `IndInv`, and `EveryCallReturns` |
| `stolen_once` | 2 keys, 2 objects | `ExpiredLocksAreNotValid` is violated |
| `point_locks` | 2 keys in 2 column families, 2 expiring transactions | `MutualExclusion`, `NoLockLeak`, `IndInv` |
| `deadlocks` | 3 keys in 2 stripes, 3 transactions that detect deadlocks, depth 4; no column family is dropped | `NoLostWakeUp`, `DeadlocksAreSeen` |
| `upgrade` | as `point_locks` | `TrackedIsLocked` is violated |
| `cursor` | 3 keys, batches of up to 3 records with neighbours in other column families, 3 stores (one with an unreadable key) | `ReadYourWrites`, `IteratorsAgree`, and the refinement `CursorSpec` |
| `class_comment` | the same | `CurrentAtBaseAsDocumented` is violated |
| `cache` | 3 entries, 2 keys, charges 1 and 2, capacities 2 and 3, up to 2 references | `UsageIsExact`, `OverCapacityIsPinned`, `ListedIffIdle`, `NoUseAfterFree`, `PoolsAreSegments`, `StrictLimit` |
| `pools` | 2 entries, capacities 3 and 4, a low-pri pool | `PoolUsageCovers` is violated |
| `lifetime` | up to 2 columns, 2 references, 5 column families ever created | `IndInv`, `HandlesMatchColumns`, `ColumnsAreAddressable`, `NoUseAfterDestroy`, `NoHandleLeak`, `OnlyTheNamedColumn` |
| `failed_open` | the same | `DestructorFindsHandles` is violated |

Bounds. `MaxSeq` bounds the number of publishing writes. Two are enough for a
lost update (one write unseen, one over it) and for a transaction committed
twice; a write beyond the bound can still fail, so no call gets stuck on it.
Two keys are enough for a batch that is half locked and for a cycle of two
writes. `expiry` has one key: its waits are for a holder that may never end, which
is what each side of a mutual wait looks like from the other. In `point_locks` the
two transactions are an owner and a thief, or two that share; that some of several
holders are robbed in vain takes three, and is left to the theorem. `deadlocks` has
three keys and three transactions, for cycles of two and of three, two keys in one
stripe and one in another, one key that may be shared after the search, and a depth
that lets a search follow every chain. `Droppable` says which column families may be
dropped: both in `point_locks`, none in `deadlocks`. In `cursor`
three keys give a current one and one on each side, three records a key that is
put, deleted and merged; `MaxUpdates` bounds the batch. In `cache` three entries
allow one in each pool or one replaced while it is in use; `MaxPins` bounds the
references. There the capacity changes only while there is no low-pri pool; `pools`
shows why. In `lifetime` five column families allow a database of three to have two
re-created, and two references are one that replaces and one that uses. The runs
are symmetric in the transactions, handles and cache keys, except `expiry`, where
symmetry would be unsound for the liveness property. Every property of
`isolation`, `expiry` and `point_locks` except `DbWritesDoNotDeadlock` and
`EveryCallReturns` is also proved without bounds, and so are `NoLostWakeUp` and
every property of `lifetime`.

Fairness (in `expiry`): `WF_vars(Step(t))` for each transaction, that is, a thread
inside a call keeps running. Nothing is assumed of clients: they may never commit
or drop. Lock waits end because `Initialize` replaces an unset `lock_timeout` by the
database's default and internal transactions use `default_lock_timeout`, both
positive in the binding; `LockFail` is the step that gives up.

**What `stolen_once` shows.** `LockInfo` says "Transaction locks are not valid
after this time in us". `TryStealingLocks` succeeds only from `STARTED`, and
leaves `LOCKS_STOLEN` behind. So when an expired transaction holds two locks and
one is stolen, the other cannot be: waiters time out on it until the owner object
is dropped.

**What `failed_open` shows.** If `Initialize` fails, `WrapDB` deletes handles and
database, `db` stays null, and `cf_handles` keeps the pointers: the destructor
calls through the null `db`. The passing run's properties hold with such failures
included.

**What `upgrade` shows.** A transaction with a shared lock asks for it exclusively
and gets it, and the validation against its snapshot fails. `TryLock` turns the
lock back with a second call of the lock manager and assigns that call's OK to
the status it returns. So it returns OK for a key it has not locked
exclusively and that was written after the snapshot, and tracks it as exclusive,
against its comment. `MutualExclusion` excludes exactly these keys (`undone`).
The binding never takes shared locks.

**What `pools` shows.** `SetCapacity` shrinks the high-pri pool without moving
entries out of it. The next low-pri insertion links its entry after
`lru_low_pri_` and calls `MaintainPoolSize` before it moves `lru_low_pri_`, so the
loop takes the new entry for the oldest one of the high-pri pool and subtracts its
charge there. `high_pri_pool_usage_` is then smaller than the charge of an entry in
the pool, against the assertion in `LRU_Remove`.

**What `class_comment` shows.** The comment on `BaseDeltaIterator` says that, going
forward, `current_at_base_` holds when the database's iterator is *beyond* the
batch's, and the assertions of `AssertInvariants` say so too. `UpdateCurrent` does
the opposite, and has to: the current entry is the nearer of the two. Nobody notices
because `AssertInvariants` is called after a `while (true)` that only returns.
`IteratorsAgree` states the relation the code keeps, and `CursorSpec` shows that it
is the one that makes the iterator right.

## Proofs

### The transactional core

`TransactionDbProofs` proves, for every `Key \subseteq Nat`, `Txn`, set of
options and set of batches, and every `MaxSeq`:

- `Invariance`: `Spec => []IndInv`, hence `TypeCorrect`, `NoUpdateIsLost`,
  `CommitsAreAtomic`, `LocksAreNotLeaked`, `LocksAreLostByExpiry`,
  `TrackedSeqIsSound`;
- `Implementation`: `Spec => StoreSpec`;
- the action properties `WritesAreLocked` and `StolenTransactionsStayDead`.

Assumptions: those named in `TransactionDb` (keys are numbers, `NoTxn` is not a
transaction, options and batches are what their names say, `MaxSeq` is a
number).

The argument. `NoLostUpdate` is not inductive: a commit's write preserves it only
because its keys were validated *and nothing has happened to them since*.
`IndInv` says why:

1. `CallInv`: which steps run in which kind of object, and that an object that
   has not begun or is gone owns nothing;
2. `LockInv`: unless its locks were stolen, a transaction holds the lock of every
   key it tracks and of the key its running call has just locked;
3. `BatchInv`: what a commit may still write is tracked, so (2) locked;
4. `CommitInv`: between `CommitCas` and the write the state word is
   `AWAITING_COMMIT`, which no thief can change, so (2) applies to the write; and
   no version of a transaction exists before its one write;
5. `TrackedUnmodified`: since its tracked sequence number nobody else under
   concurrency control has written a tracked key. A write by somebody else would
   need the key's lock by (2)-(4). This is the fact that
   `ValidateSnapshot`'s shortcut (`tracked_at_seq <= snap_seq`) relies on;
6. `SnapshotInv`: what was validated against a snapshot is tracked at or before
   it. With (5) this is the guard of `SnapshotStore!Commit`, so every step
   refines the store (`StoreStep`), and the store's steps preserve
   `NoLostUpdate` and `AtomicCommit` (`StoreSafetyStep`);
7. `ExpiryInv`: only an expired transaction is robbed, which with (2) gives
   `LostOnlyByExpiry`; and `NoLeakedLocks` is a conjunct of its own.

Each part has a step lemma with one case per action (`TypeStep`, `CallStep`,
`HeldStep`, `LockStep`, `ExpiryStep`, `BatchStep`, `SnapshotStep`, `CommitStep`,
`TrackedStep`), and `IndStep` puts them together.

### The lock manager

`PointLockManagerProofs` proves, for every set of transactions and keys, every
layout of stripes and column families, every set of requests and every depth of
the detector, from the assumptions named in `PointLockManager` and `Uniform` (all
transactions can expire, or none can): `LockInvariance`, hence `LocksExclude`,
`WakeUpsAreNotLost` and `NoLockIsLeaked`.

`Uniform` is needed: the expiration time of a shared lock is the maximum over its
holders, 0 for one that cannot expire, so a lock shared by both kinds is stolen
from both, and the holder that cannot expire is not marked.

The argument. What a transaction tracks is not the lock table, and a thief
changes the table under its victim. `IndInv` relates the two:

1. `CallsAreSound`: a call asks for a lock that is not tracked, an upgrade, or the
   way back from one; an unlocking call is for locks no longer tracked;
2. `GrantsAreKept`: unless it was marked as robbed, a transaction is among the
   holders of what it tracks and of what it was just granted, with the mode it
   believes. A thief marks every other holder before it takes over;
3. `OneExclusiveHolder`: an exclusive lock in the table has one holder. With (2)
   this is `MutualExclusion`;
4. `RefusedKeepsMutex`: between its refusal and its sleep a thread keeps the
   stripe's mutex, and the conflict stays. Without this a lock could be released
   between the two and the sleeper miss it;
5. `NoLostWakeUp`: preserved by `Wait` because of (4), and by `UnLock` because it
   leaves its thread at `notify`;
6. `HoldersKnow`: every holder tracks its lock, was just granted it, is about to
   unlock it, or gave up on it in an `UnLock`; and `GaveUpAtDropped`: an `UnLock`
   gives up at a dropped column family only. Together they give `NoLockLeak`. The
   history variable `abandoned` records what was given up; no step reads it.

There is a step lemma for types and for each part, with one case per action.

### Handles

`ColumnFamiliesProofs` proves, for every set of references and all bounds, from
the assumptions that the bounds are numbers: `HandleInvariance`, hence
`ColumnsKeepTheirMeaning`, `HandlesOutliveTheirUse`, `HandlesAreDeleted` and the
action property `OtherColumnsAreKept`; and, with `AskedAreListed` (there is a
descriptor, and in an open database a place in the vector, for every column asked
for), `AskedColumnsAreAddressable`.

The argument. `NoUseAfterDestroy` rests on who may act, `HandlesMatchColumns` on
what the numbers mean while a column is half replaced. `IndInv` says of the first
that only owners use the database (`OnlyOwnersUse`) and that a replacing call is
the only one (`ReplacedAlone`), from which `OnlyReplacing` follows: until it is
done nobody else takes a step. Of the second it says that the descriptors are in
order (`DescsInOrder`), that no two names share a column family (`DiskIsSound`; the
numbers the engine gives out are new, `CreateAllSound`), and that all handles but
the one being replaced are live and match (`OthersMatch`). So the handle given to
`DropColumnFamily` is that of the name `CreateColumnFamily` gets afterwards
(`Replaced`).

### Only model-checked

`EveryCallReturns` (liveness); `DbWritesDoNotDeadlock` and `DeadlocksAreSeen` (they
need inductions over data: a greatest key, a search); `BaseDeltaIterator` and
`LRUCacheShard` (recursive definitions).

## Not modelled

- The storage engine (`WriteImpl`, `Get`, its iterator, column family creation):
  the `db/` directory of RocksDB is not in the tree. What the modelled code relies
  on is marked external.
- Most of the vendored RocksDB sources: table formats, memtables, compression,
  file systems, environment, backup, checkpoints, BlobDB, TTL and other utilities.
  The binding does not call them directly; they are formats and I/O, or their
  callers are in `db/`. This is nearly all of the tree's lines.
- Write-prepared, write-unprepared and optimistic transactions, range locks, the
  clock cache and secondary caches: complete subsystems that the binding never
  selects.
- Status and slice conversion, the read-only database, the build script and the
  generated FFI: no state that changes.

Observed in the code and covered by no property: `DbIterator::next` gives `None` at
the end of the data and after a read error alike; at `iterate_upper_bound`
`BaseDeltaIterator` stays valid at a batch entry beyond the bound (the binding sets
no bounds); an upgrade turned back to a shared lock notifies nobody, so those who
wait to share it sleep until their timeout; `load` takes the number of descriptors, the
default one included, for the number of columns, so that each load adds a column and
`default_col()` grows by one (`ColumnsAreAddressable` shows that the columns asked for
keep their numbers; a database written before with fewer columns needs
`create_missing_column_families` to be opened then).

## Plan

1. `PointLockManager` shown to implement the lock steps of `TransactionDb`.
2. `max_num_locks` and its counter; the secondary cache of `LRUCacheShard`.
