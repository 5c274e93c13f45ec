# A formal model of LedgerFS

TLA+ modules, TLC configurations and TLAPS proofs for the repository in `src/`
(Rust, three crates). Paths below are relative to `src/crates/`.

## The system

| component | state | operations | hard behaviours | correct when |
|---|---|---|---|---|
| **event store, writes** (`ledgerfs-event-store/src/store.rs`) | a RocksDB database, the configuration it was opened with, a `tokio::sync::RwLock<()>` | `new`, `append_event`, `append_events`, `append_events_optimized`, `compact` | concurrent callers, check-then-put, power failure before the log is on disk, reopening with another configuration | no key is put twice, what returned `Ok` is stored, every call returns |
| **event store, reads** (same file) | none of its own | `query_events` and `get_account_events`, `get_events_in_range` on top of it, `get_event`, `get_latest_events`, `get_statistics` | key order against time order, limits and offsets, appends between pages | an answer is the page of the matching events that was asked for |
| **storage keys** (`serialization.rs`) | none | `generate_event_key`, `generate_time_key_prefix` | i64 nanoseconds cast to u64 | keys are unique and ordered like time |
| **serializer, configuration** (`serialization.rs`, `config.rs`) | `use_compression` | `serialize`, `deserialize` | a value does not say how it is encoded | what was written can be read |
| **batch processor** (`batch.rs`) | bounded channel, shared receiver behind a mutex, one batch per processor, metrics, a `Notify` | `start`, `run_batch_processor`, `flush_batch`, `get_metrics`, `shutdown` | several processors, `select!`, signals that are not stored, failed flushes | every accepted event is handled once and in the end |
| **synchronous batch writer** (`batch.rs`) | pending events | `add_event`, `flush_if_full`, `flush` | drain before append, dropped futures | every event is stored or its flush did not return `Ok` |
| **recovery** (`recovery.rs`) | statistics | `recover` and its four checks | four snapshots while writers go on, default limits, balance replay | inconsistencies are found and counted once |
| **core types** (`ledgerfs-core`) | none | checked amounts, envelopes, hashes | overflow | sums are exact or refused |
| **FUSE filesystem, paths** (`ledgerfs-fuse/src/filesystem.rs`, `path_resolver.rs`) | inode tables | `lookup`, `getattr`, `read`, `readdir` | inodes for names that do not exist, directory offsets | one inode per path, answers agree with each other |
| **mount manager, service** (`mount.rs`, `lib.rs`) | the mount | `mount_and_serve`, `unmount` | signal against the end of the session, fallbacks of unmount | no mount is left behind |

Callers share the event store through an `Arc`. The batch processors and the
synchronous writer call its append operations, recovery its queries. The FUSE
side talks to repositories (traits; the binary brings mock ones) and not yet to
the event store: the mount manager or the service owns a `LedgerFilesystem`, a
blocking task mounts a clone of it, and the kernel calls its handlers one at a time.

## Modules

| module | models |
|---|---|
| `EventKeys` | keys and their order, write batches as sequences of puts |
| `AppendOnlyLog` | abstract: the events a reader sees, those on disk, power failures |
| `EventStore` | the write side, the lock, RocksDB's log, crash and reopen |
| `EventStoreProofs` | theorems about `EventStore`, and that it implements `AppendOnlyLog` |
| `SyncBatchWriter` | the synchronous writer, composed with `EventStore` |
| `SyncBatchWriterProofs` | theorems about it |
| `EventScan` | the reads, as operators on the set of stored events |
| `EventScanProofs` | lemmas about sorting and about the loops of the reads |
| `EventQuery` | what they answer, and a client that pages |
| `EventQueryProofs` | theorems about it |
| `Recovery` | the recovery manager while writers append |
| `RecoveryProofs` | theorems about it |
| `BatchProcessor` | channel, processors, flush, metrics, shutdown |
| `BatchProcessorProofs` | theorems about it |
| `FlushTimer` | one processor's clock: waiting times and the average latency |
| `FlushTimerProofs` | theorems about it |
| `PathResolver` | paths, their classification, parsers and generators |
| `LedgerFilesystem` | inode tables, `lookup`, `getattr`, `read`, `readdir`, the repositories |
| `FuseMount` | mount task, manager, service and binary, composed with the filesystem |
| `FuseMountProofs` | theorems about mounting, the filesystem and paths |
| `MC...` | constants of the TLC runs |

**EventStore.** A call goes `idle -> waiting -> locked -> validated -> returning
-> idle` (`reading` in place of the middle two for reads). `Invoke` queues for
the lock, `AcquireWrite`/`AcquireRead` are the two `await`s on it, `Validate` is
the append-only check, `Write` serializes and writes with the sync flag that
`WriteSync` computes, `Fail` is any `?` before or at the write, `Return` drops
the guard. An empty vector returns before any of this and is no call. `wal`
stands for RocksDB: the sequence of its atomic writes, of which `synced` are on
disk; `Crash` keeps any prefix that contains those (a mere process crash keeps
all), `Reopen` picks any configuration. A write that returns an error is taken
not to have happened. `acked` and `crashes` are history. `result = "corrupt"` is
a deserialization error. The read operation here is a scan of everything, as
`get_statistics` makes; what queries answer is in `EventQuery`.

**EventScan, EventQuery.** `Visit` is one turn of the loop of `query_events`, and
`QueryTurns` a recursive function: the state of the loop after each turn
(`CountTurns` is the same for `get_statistics`). Every public read is an operator
on the set of stored envelopes.
The state machine appends one envelope at a time and lets a client page with
`offset` and `has_more`. An envelope has the fields the filters look at.

**Recovery.** `recover()` is a sequence of checks; each makes a query of its own,
and between them, and between two turns of the validation loop, writers append
and the clock ticks. `Replay` is one envelope of the balance replay: the debit,
then the credit, each skipped for an account not seen yet and refused when the
balance leaves the i64 range; `ReplayTurns` has the balances after each. `repair_event` is not implemented and never
succeeds. Any query may fail, and then `recover()` returns no statistics. The
order of the replay is that of the keys. `startDb` and `startNow` are history.

**BatchProcessor.** A processor is at the head of its loop, in `select!`, in
`flush_batch` before or after the append, or gone. `LeaveSelect` is what the end
of a `select!` does: the futures of the other branches are dropped, among them
the guard of the receiver's mutex and a `Notified` that had just been woken.
`Shutdown` wakes the futures that exist; the sleep after it has no effect. When
the last processor ends the receiver goes, and the channel's contents with it.
The store is a set with the append-only check. Rates, latencies and bytes are
left out of the metrics, and delays are left out altogether: `TickFlush` and
`TickIdle` may happen at any time. `rejected`, `overwritten` and `lost` are
history.

**FlushTimer.** What `BatchProcessor` leaves out: time. One processor, a clock in
units, `tokio::time::interval` as the deadline `next_tick` that advances by
`max_batch_delay` whether or not the tick was on time, and flushes of any length
up to `MaxLatency`, during which ticks are missed and afterwards delivered in a
burst. An envelope is the time it was received. The processor is taken to be
scheduled promptly: in `select!`, no time passes while a tick is due. Without that
no bound on waiting holds.

**SyncBatchWriter.** Extends `EventStore`: the writer is one client of the store,
`flush` drains `pending_events` and invokes `append_events`, `FlushReturns` is the
store's `Return` to it. The owner may drop the future of a flush while it waits
for the lock, which is the only `await` on the way (`CancelFlush`), or the process may
stop. `added`, `flushes` and `cut_off` are history. Every step
of the writer is a step of the store or leaves the store alone, except `CancelFlush`,
which takes its client from the lock's queue.

**PathResolver.** A path is the sequence of the names between its slashes, a name a
stem and an extension. `Uuid` maps stems to ids: an id has several spellings, of
which `Display` writes one.

**LedgerFilesystem.** `inode_map`, `path_map` and `next_inode` are the code's tables;
`get_or_create_inodes` stands for the calls of `get_or_create_inode` that one
handler makes, for the paths `listed_paths` in their order. `lookup` gives every
name an inode, `readdir` every path it lists. `getattr` changes nothing and is the
operator `getattr_kind`. `readdir` and `read` are called with an offset until they
return nothing: `cursor` is the kernel's side of that, one open directory or file.
The kernel asks for names only in what `getattr` called a directory. Repositories
change and fail at any call.

**FuseMount.** The blocking task goes `queued -> starting -> mounted -> ended`,
`detached` after a lazy unmount; `fuser::mount2`, `fusermount` and the runtime are
external and may fail where they can. The manager goes from waiting to
`unmounting` and `lazy` on Ctrl-C, the service waits for its task. Every mount works on a
clone of the tables as `new` made them, since the owner keeps its `Arc`.

## Runs

| run | shows |
|---|---|
| `sync_batch_writer` | the store and one of its clients, the writer. `NoOverwrite`, `AckedStored`, and the store implements `AppendOnlyLog` (`Refinement`): two clients, batches with shared keys (shared because a timestamp is out of range), both sync settings, a crash and the reopening. `NothingForgotten`: each envelope is, in order, in a flush that ended, in flight or pending; `NoGhostWrites`: what is in the database was, or is about to be, acknowledged, or a crash cut its call off; `CallsReturn`: both clients on the fair lock, flushes dropped from its queue included |
| `event_query` | `QueryMatches`: 144 queries on each of 32 stores, while a client pages (`PagingExact`); `SummariesAgree` |
| `recovery` | `BalancesExact`: the replay against what each account's history says (the last balance set, and the flows since), on each of 32 stores; `VerdictTrue`, `CountsTrue`: what is reported is true of stores that existed while it ran, as far as its queries reach; three option sets |
| `batch_processor` | `NoneMissing`, `NoneTwice`, `MetricsAgree`, `Bounded`, `RejectedWithCause`, and under fairness `EventuallySettled`, `ClosedExits`: two processors, two producers, a retry, an error, any number of shutdowns |
| `flush_timer` | `WaitBounded`: less than twice `max_batch_delay`; `AverageOfOneMore`: what `average_write_latency` is |
| `fuse` | `InodesMatch`, `InodeStable`: the tables are a bijection and keep their entries; `AnswersAgree`: `readdir`, `lookup`, `getattr` and the path resolver agree on every entry; `ReadsResolve`, `PathsResolve`: data and paths are those of the account; `CursorExact`: reading in pieces; `LeftBehind`: what an `Ok` may leave mounted |

Runs that are expected to fail, each for a statement the code makes about itself:

| run | statement | what happens |
|---|---|---|
| `event_store_reopened` | a value says how it was written (`SerializedEventEnvelope`) | a store opened with another `enable_compression` cannot be read |
| `event_store_large_batch` | `sync_writes` gives durability | optimized batches of more than 100 are not synced |
| `event_query_range` | events in a time range | none if the range starts before 1970 |
| `recovery_counts` | a store with one event has one checked (`recovery.rs:424`) | the default options count every event twice |
| `batch_processor_shutdown_stops` | graceful shutdown | a processor not in `select!` misses it |
| `flush_timer_delay` | `max_batch_delay` is the maximum wait | a tick that comes just too early leaves the batch to the next |

**Bounds.** `LargeBatch` is 1 for 100 and `DefaultLimit` 3, 4 or 8 for 1000, so that
batches and answers of both sizes occur; `I64Bound` is 8 for 2^63, with
timestamps on both sides of it in the store runs, and amounts that reach it in
the recovery run. Two clients suffice for the
races on the database, since a third can only do what one of the two does after
returning. One of the two is the writer, which calls `append_events` with any
sequence of up to two of the three envelopes; the other makes every other kind of
call: a large optimized append, a read, a compaction (`append_event` differs from
`append_events` in nothing but the length of its batch). Two
processors, a channel of one or two and batches of two give full and partial
batches, a full channel, and one processor in each phase while the other is in
any other. `MaxCrashes` and `MaxErrors` bound failures; everything else is
bounded by the inputs. `event_store_reopened` passes the default
configuration and the development preset to the openings of one path. The writer adds two envelopes (`MaxAdds`) with a
`MaxBatchSize` of one, so that `flush_if_full` meets both a full batch and one that
has outgrown it. In `FlushTimer` the delay is three units, a flush
takes up to five (`MaxLatency`), so that it misses a tick, and fourteen units
(`MaxTime`) with four envelopes (`MaxEvents`) hold several flushes. The theorems
need none of these bounds. The filesystem has three inodes beyond the fixed four
(`MaxInode` 7): an account, its two files, or names that do not exist. One account
exists at first and another may appear (`MaxData` 3 counts accounts and versions of
their data). `balance.json` is the name that is looked up, in every directory: in an
account it exists, in the root reading it panics, in `/accounts` and `/docs` it is
taken for a directory. A content has two pieces (`ContentLength`).

**Fairness.** A call that holds the lock does not block, and tokio's lock is
first come first served: weak fairness of each client's steps on an explicit
queue. A tokio task that can run does: weak fairness of the processors'
steps. `select!` chooses at random among the branches that are ready and the
receiver's mutex is first come first served, so a branch that is ready again and
again is taken: strong fairness of receiving, of acquiring the receiver and of
the timer's flush. Producers and shutdown callers owe nothing, and an error or
the choice not to flush yet is never forced. `sync_batch_writer` uses the store's
fairness; the owner of the writer owes nothing, and dropping a flush is never
forced. `event_query`, `recovery`, `flush_timer` and `fuse` check safety only.

Also met while reading:

* Two envelopes of one batch under one key both pass the append-only check, which
  looks in the database only (`store.rs:154`): the call returns `Ok` and the first is
  gone, although the comments say "append-only guarantees" (`store.rs:137`) and
  "prevents overwrites" (`store.rs:156`). `AckedStored` is about the last envelope of each key;
  `DistinctBatchIsStored` proves that this is the only way to lose one.
* `get_latest_events` is documented "most recent first" (`store.rs:293`) and
  returns oldest first, as its own comment at line 306 says. `SummariesAgree` says
  which envelopes the answer has, and nothing of their order.
* `get_account_events`, "Get all events for a specific account" (`store.rs:259`),
  passes no limit, which means 1000, and does not say when it has cut the answer;
  recovery's `max_events_to_check` "0 = all" (`recovery.rs:51`) is the first 1000 too.
  `SummariesAgree` and `CountsTrue` speak of all events only where these are within
  that limit.
* With the default options `recover()` counts each event twice, once in the
  integrity check and once in the deep check (`recovery_counts`). `CountsTrue` bounds
  the count with `deep_check` from below only.
* The balance replay warns of "insufficient funds" (`recovery.rs:225`) when a
  debit leaves the i64 range; an overdraft is no error (`Fits`).
* The temporal check can only fail for stores with events on both sides of the
  epoch, or beyond the i64 range: others are read in time order (`VerdictTrue`).
* `shutdown()` says "Give processors time to flush remaining batches"
  (`batch.rs:370`); what is still in the channel is dropped with the last processor
  (`lost` in `NoneMissing`).
* `average_write_latency` divides by one batch more than there were
  (`AverageOfOneMore`).
* A flush of the synchronous writer that fails, or is dropped, costs its caller
  everything pending (`NothingForgotten`).
* `snapshot_path` generates `snapshot_<timestamp>.json`; `is_valid_file` knows
  `snapshot.json` only. `document_path` puts documents three levels below `/docs`,
  where the second level is no directory. Directories below `/docs` exist for
  `lookup` and `getattr` and answer ENOENT to `readdir`.
* `read` takes the second name of a path for an account id whatever the first is:
  `/docs/<uuid>/balance.json` reads as the account's balance (`ReadsResolve` is
  about paths below `/accounts`).
* `lookup` reports size 0 and `getattr` size 1024 for a file.
* Reading `/balance.json` or `/tx.log` in the root panics and ends the session (`ReadPanics`).
* A failure of the account repository lists `/accounts` as empty.
* Every `read` formats anew, so a file read in pieces may mix versions, as the mock
  query service, which makes up new transactions at every call, always does.
* "LedgerFS mounted successfully" is logged before the mount (`mount.rs:50`); the
  manager returns `Ok` when the mount failed (`TaskAwaited`); the binary prints
  "LedgerFS unmounted successfully" with the mount still there when Ctrl-C came
  before it or both runs of `fusermount` failed (`LeftBehind`).

Every property of a passing run has a mutant of the model that violates it
(`PROJECT.json`); mutants stand before the definition they change and are
marked as such.

## Proofs

Every invariant of the passing runs is also a theorem, for all values of the constants,
and so are the refinement and the stability of inodes. The theorems assume what
the `ASSUME` of the modules says of the constants (types; limits and buffers that
are not zero where the code's are not) and nothing else, except where a
hypothesis is named below.

A conclusion about all the steps of a loop or about a whole sequence is an
induction. The models write such loops as recursive functions on `0 .. n`; the
induction is over the set of the positions up to which the claim holds
(`Induction` in `EventScanProofs`, from the least number that is missing), and that
the function is what its equations say comes from `LoopExists`. No theorem with an
operator for a parameter is used.

**The store.** `EventStoreProofs`, for all clients, batches, configurations and
numbers of power failures:

* `TypeCorrect`. `TypeOK` needs `OpInv`: only an append can be `validated`, so only
  batches enter the log.
* `AppendOnly`: `NoOverwrite`. Inductive with `LockInv` (who is past
  `write().await` holds the lock, and nobody else does) and `Fresh` (the keys of
  a validated batch are not in the log): a write makes the log longer while
  nobody else is validated, so what `Validate` saw is still true.
* `AcknowledgedIsStored`: `AckedStored`. Inductive with `OkInv` (an append about to
  return `Ok` is in the log, in the part on disk if it was synchronous), `AckInv`
  (the same of those that returned, except that an unsynced one counts only until
  the next crash) and `DownInv` (nothing is in flight while the database is
  closed, so reopening with another configuration changes no promise). With
  `NoOverwrite`, being in the log is being visible.
* `DistinctBatchIsStored`: in a batch of distinct keys every envelope is a last
  put, so nothing of it is missing; two envelopes of one batch with one key are
  the only way to lose an acknowledged one.
* `Implements`: `Spec => Refinement`. By `NoOverwrite` the visible events of a log
  are the union of what its writes put (`VisibleIsPuts`), so a write adds to
  `events` what the abstract append adds (`LogWrite`), a crash that keeps a prefix
  keeps at least what was on disk (`LogCrash`), `compact` at most makes the visible
  durable (`LogCompact`), and every other step changes neither (`LogQuiet`).

**The synchronous writer.** `SyncBatchWriterProofs`, on top of the store's lemmas:

* `WriterTypesHold` and `NeverForgets`: `WriterTypeOK`, `NothingForgotten`. The
  invariant `WriterInv` adds to the types that the writer's client only appends
  and has nothing in flight when idle. What was added is cut into pieces that
  follow one another, one for each flush that ended, one in flight, one pending;
  a flush moves the last cut, its end makes the piece in flight the last that
  ended (`PiecesSplit`, `BatchEnds`).
* `NeverGhostWrites`: `NoGhostWrites`. `GhostInv` adds that only appends get as far
  as the write. The write moves its call to those that have written, a return
  from there is an acknowledgement, and a dropped flush was still waiting for the
  lock.
* `WriterAppendOnly`, `WriterAcknowledgedIsStored`, `WriterImplements`: the store's
  `NoOverwrite`, `AckedStored` and `Refinement` for `WriterSpec`, which is what the run
  checks. Every step of it is one of the store's (`StoreSteps`) except a dropped flush,
  which waited for the lock and had promised nothing (`CancelKeeps`).

**The reads.** `EventScanProofs` shows that sorting by rank gives each element once
and in order (`SortedFacts`), that keys are a strict order which from the epoch on
is the order of time (`KeysOrdered`, `ByTimeIsScan`), and what the loops compute.
After `i` turns of `query_events` the matches among the first `i` envelopes have been
counted off against the offset and then collected up to the limit
(`VisitSkipped`, `VisitMatching`, `FullPage`, `LoopAnswers`); the `break` at `end_time`
loses nothing, since whatever follows in key order is past the end too.
`EventQueryProofs`:

* `TypesHold`, with `StoreInv` (one envelope for each key) and `IdleInv`.
* `QueriesMatch`, `PagingAlwaysExact`, `SummariesAlwaysAgree`: `QueryMatches`,
  `PagingExact`, `SummariesAgree`, if envelopes and the start times of queries lie
  between 1970 and 2262 (`SinceEpoch`; run `event_query_range` shows that it cannot be
  dropped). Paging is inductive with `PageInv`: as long as nothing was inserted
  before what had been returned, that is how the matching envelopes of the store,
  as it is by now, begin.

**Recovery.** `RecoveryProofs`, with the same lemmas on the queries (which without a
filter need no hypothesis on times: `UnfilteredAnswers`):

* `TypesHold`, with `RecoveryInv` (the database is a store with one envelope for each
  key).
* `BalancesAlwaysExact`: `BalancesExact`. After `k` envelopes the replay `Agrees` with
  the history: no error if and only if the first `k` fit, and then every known
  account has the last balance set plus the flows since. `AgreesStep` adds one
  envelope (a transfer from an account to itself is the case that needs care:
  its debit must fit although the sum is zero), `ReplayExact` is the induction.
* `VerdictAlwaysTrue`: `VerdictTrue`, if times are in the i64 range, 1677 to 2262
  (`InRange`; a time beyond it has the key of the epoch and is out of order without
  being `Mixed`). `TemporalExact` says what the temporal check can see: key order is
  the order of time from the epoch on, then of time before it. `VerdictInv` keeps,
  once the balances are replayed, a store since the start that explains the count.
* `CountsAlwaysTrue`: `CountsTrue`. `CountsInv` keeps the two stores that were counted
  and how far the validation has come in the second (`Validating`): `k` envelopes are
  behind, `todo` is the rest, and what was found lies between those invalid
  `Throughout` and `Sometimes`. A tick widens that interval (`FoundLater`), a turn of
  the loop moves it by one envelope (`FoundNext`). Positions in what was read become
  envelopes of the store since it is read without repetition, and as a whole where
  it is small enough (`FirstReads`, `FoundAmong`).

**The batch processor.** `BatchProcessorProofs`, for any producers, processors and
inputs:

* `TypeCorrect` and `AlwaysBounded`.
* `NoneEverMissing`: `NoneMissing`, which follows every envelope from one place to the next: what
  leaves the channel enters a batch, what leaves a batch is stored, rejected or
  overwritten by its own batch, and what the channel holds when the last processor
  ends is lost.
* `NoneEverTwice`: `NoneTwice` speaks of batches that the store has not had yet and is
  not inductive. `OnePlace` says it of all batches, that a batch waiting for the
  metrics lies within the outcome of its append, and that no producer has sent
  more than its input.
* `MetricsAlwaysAgree`: `MetricsAgree`, with `CountedAgree` (the set that is counted is
  finite); a batch of `OnePlace` has as many envelopes as positions.
* `AlwaysRejectedWithCause`: `RejectedWithCause`, with `CauseKnown` (at least as many
  errors as violations): by `OnePlace` a batch is no part of the store, so a key that
  is there already belongs to another accepted envelope.

**The flush timer.** `FlushTimerProofs`, for any delay, size and duration of flushes:
`TypeCorrect`, with `RoomLeft` (a full batch does not stay in `select!`);
`WaitAlwaysBounded`, with `TickInTime` (the next tick is at most one delay away and,
for every waiting envelope, comes before its bound, since a tick that did not
flush fell less than a delay after `created_at`, which is not after the arrival);
`AverageAlwaysOfOneMore`, with a lemma on one rounded division.

**FUSE.** `FuseMountProofs`, for any names, ids, spellings, accounts and numbers of
inodes:

* `NothingElseLeftBehind`, with `AttemptsInv` (which runs of `fusermount` there were when
  the manager is where it is).
* `FuseTypesHold`, `InodesAlwaysMatch`, `InodesAreStable`: `FuseTypeOK`, `InodesMatch`,
  `InodeStable`, with `FuseInv` (where no task serves a mount, the tables are those of
  `new`) and `TablesInv` (the tables are inverse, hold the four fixed paths and the
  parent of every path). A listing gives inodes to several paths at once:
  `InodesDistinct` and `PathsInserted` say that they are the next free ones, each once.
* `AnswersAlwaysAgree`, `ReadsAlwaysResolve`: `AnswersAgree`, `ReadsResolve`, from
  `TablesInv` and `RepoInv` (no account is listed twice), over the listings of every
  directory (`EntriesShape`, `ListedCases`).
* `CursorAlwaysExact`: `CursorExact`, with `CursorInv`: what was read is the first part of
  the contents up to the offset, and the entries of a directory that was read from
  are in the tables, so a later call gives them the same inodes.
* `PathsAlwaysResolve`, with `PathsReadBack` for every id and spelling;
  `GeneratedFileTypes`, for the generators that the handlers do not use.

Only model-checked: liveness (`CallsReturn`, `EventuallySettled`, `ClosedExits`), since
fairness and ENABLED are out of the prover's reach.

## Not modelled

Bytes (bincode, LZ4, JSON), RocksDB's tuning, error texts, logging, the
`commands`, `errors` and `traits` of the core crate (declarations only), argument
parsing and the mock data of the binary (the repositories of `LedgerFilesystem` stand
for any), file attributes other than the kind, the unmount of macOS, memory
(`readdir` leaks the text of every account id, `filesystem.rs:306`).
`enable_wal`, `batch_size`, `enforce_append_only`, `BatchProcessor::event_sender` and
the `read_only`, `allow_other` and `auto_unmount` of `FuseConfig` are never used by
the code.

## Plan

Done: every component with state of its own, and a theorem for every invariant,
action property and refinement that a run checks. What is left would add detail
rather than parts:

1. A composition of `BatchProcessor` with `EventStore`, whose lock and durability it
   takes for granted now (its store is a set with the append-only check).
2. A specification of what `query_events` promises that the whole of `EventStore`
   refines, with the lock between readers and writers.
