----------------------------- MODULE EventStore -----------------------------
(***************************************************************************)
(* The event store (event-store/src/store.rs): clients append batches of   *)
(* envelopes, read and compact, under a tokio RwLock; RocksDB underneath   *)
(* keeps an ordered log of atomic writes of which a power failure may take *)
(* back everything that was not synced.                                    *)
(*                                                                         *)
(* RocksDB (external) is its write-ahead log: wal is the sequence of       *)
(* writes, each atomic and tagged with the encoding it was written in, and *)
(* synced is the length of the prefix that is known to be on disk.         *)
(* tokio::sync::RwLock (external) is a FIFO queue of waiting tasks, one    *)
(* writer or several readers.                                              *)
(***************************************************************************)
EXTENDS EventKeys, FiniteSets

CONSTANTS
    Clients,      \* tasks that share the Arc<EventStore>
    NoClient,
    Envelopes,    \* records [timestamp, event_id, body]
    Batches,      \* the vectors of envelopes that callers pass
    LargeBatch,   \* 100 in the code: longer optimized batches are not synced
    Configs,      \* records [sync_writes, enable_compression]
    MaxCrashes    \* bound on power failures

ASSUME EventStoreAssumption ==
    /\ NoClient \notin Clients
    /\ Batches \subseteq Seq(Envelopes)
    /\ Configs \subseteq [sync_writes : BOOLEAN, enable_compression : BOOLEAN]
    /\ LargeBatch \in Nat
    /\ MaxCrashes \in Nat

VARIABLES
    wal,       \* sequence of [envs, compressed]: RocksDB's atomic writes
    synced,    \* length of the prefix of wal that is on disk
    up,        \* the process runs and holds the database open
    config,    \* EventStoreConfig the database was opened with
    lock,      \* client that holds write_lock for writing, or NoClient
    readers,   \* clients that hold write_lock for reading
    queue,     \* clients that wait for write_lock, first come first
    pc,        \* where each client's call is
    call,      \* the call each client makes
    result,    \* what the call is about to return
    acked,     \* history: the appends that returned Ok
    crashes    \* history: number of power failures

vars == <<wal, synced, up, config, lock, readers, queue, pc, call, result, acked, crashes>>

dbVars   == <<wal, synced>>
lockVars == <<lock, readers, queue>>
envVars  == <<up, config, crashes>>

\* EventStoreConfig, as far as behaviour depends on it: the default and the
\* presets that change it.
DefaultConfig == [sync_writes |-> FALSE, enable_compression |-> TRUE]

high_throughput(cfg) == [cfg EXCEPT !.sync_writes = FALSE]
high_durability(cfg) == [cfg EXCEPT !.sync_writes = TRUE]
development(cfg)     == [cfg EXCEPT !.sync_writes = FALSE, !.enable_compression = FALSE]

AppendOps == {"append_event", "append_events", "append_events_optimized"}
WriteOps  == AppendOps \cup {"compact"}

NoCall == [op |-> "none", envs |-> <<>>]

\* Empty vectors return Ok before the lock is asked for: they are no calls.
Calls ==
    {[op |-> "append_event", envs |-> b] : b \in {b \in Batches : Len(b) = 1}}
    \cup {[op |-> o, envs |-> b] : o \in AppendOps \ {"append_event"}, b \in Batches \ {<<>>}}
    \cup {[op |-> o, envs |-> <<>>] : o \in {"compact", "read"}}

Acks == [envs : Batches, epoch : Nat, sync : BOOLEAN, sync_writes : BOOLEAN]

----------------------------------------------------------------------------
(* What the database holds.                                                *)

WalKeys(log) == UNION {KeysOf(log[w].envs) : w \in DOMAIN log}

\* The envelopes a read finds: of several puts under one key, the last.
Visible(log) ==
    UNION {{e \in LastPuts(log[w].envs) :
                \A v \in DOMAIN log : v > w => generate_event_key(e) \notin KeysOf(log[v].envs)} :
           w \in DOMAIN log}

\* Mutant: only the first envelope of the batch is looked up.
AlreadyExistsFirst(b) == KeysOf(<<Head(b)>>) \cap WalKeys(wal) # {}

\* self.db.get(&key)?.is_some() for some envelope of the batch
AlreadyExists(b) == KeysOf(b) \cap WalKeys(wal) # {}

\* WriteOptions::set_sync of each append
WriteSync(op, b) ==
    config.sync_writes /\ ~(op = "append_events_optimized" /\ Len(b) > LargeBatch)

\* The log left by a power failure that keeps p writes.
Surviving(p) == SubSeq(wal, 1, p)

\* The value of a write: with use_compression as the store was opened, and bare,
\* so that compressed is only in the model.
serialize(b) == [envs |-> b, compressed |-> config.enable_compression]

\* Deserializing succeeds when the value was written in the encoding that the
\* store was opened with: the value itself does not say which that was.
Readable(log) == \A w \in DOMAIN log : log[w].compressed = config.enable_compression

----------------------------------------------------------------------------
Init ==
    /\ wal = <<>> /\ synced = 0
    /\ up = TRUE /\ config \in Configs
    /\ lock = NoClient /\ readers = {} /\ queue = <<>>
    /\ pc = [c \in Clients |-> "idle"]
    /\ call = [c \in Clients |-> NoCall]
    /\ result = [c \in Clients |-> "none"]
    /\ acked = {} /\ crashes = 0

\* A client makes a call and asks for the lock.
Invoke(c, r) ==
    /\ up
    /\ pc[c] = "idle"
    /\ pc' = [pc EXCEPT ![c] = "waiting"]
    /\ call' = [call EXCEPT ![c] = r]
    /\ queue' = Append(queue, c)
    /\ UNCHANGED <<dbVars, envVars, lock, readers, result, acked>>

\* Mutant: the writer does not wait for another writer.
AcquireWriteShared(c) ==
    /\ pc[c] = "waiting"
    /\ call[c].op \in WriteOps
    /\ queue # <<>> /\ Head(queue) = c
    /\ readers = {}
    /\ lock' = c
    /\ queue' = Tail(queue)
    /\ pc' = [pc EXCEPT ![c] = "locked"]
    /\ UNCHANGED <<dbVars, envVars, readers, call, result, acked>>

\* write_lock.write().await
AcquireWrite(c) ==
    /\ pc[c] = "waiting"
    /\ call[c].op \in WriteOps
    /\ queue # <<>> /\ Head(queue) = c
    /\ lock = NoClient /\ readers = {}
    /\ lock' = c
    /\ queue' = Tail(queue)
    /\ pc' = [pc EXCEPT ![c] = "locked"]
    /\ UNCHANGED <<dbVars, envVars, readers, call, result, acked>>

\* write_lock.read().await
AcquireRead(c) ==
    /\ pc[c] = "waiting"
    /\ call[c].op = "read"
    /\ queue # <<>> /\ Head(queue) = c
    /\ lock = NoClient
    /\ readers' = readers \cup {c}
    /\ queue' = Tail(queue)
    /\ pc' = [pc EXCEPT ![c] = "reading"]
    /\ UNCHANGED <<dbVars, envVars, lock, call, result, acked>>

\* Mutant: a batch that exists is tried again under the lock.
ValidateRetries(c) ==
    /\ pc[c] = "locked"
    /\ call[c].op \in AppendOps
    /\ pc' = [pc EXCEPT ![c] = IF AlreadyExists(call[c].envs) THEN @ ELSE "validated"]
    /\ UNCHANGED <<dbVars, envVars, lockVars, call, result, acked>>

\* The append-only check: every key of the batch is looked up in the database.
Validate(c) ==
    /\ pc[c] = "locked"
    /\ call[c].op \in AppendOps
    /\ IF AlreadyExists(call[c].envs)
         THEN /\ pc' = [pc EXCEPT ![c] = "returning"]
              /\ result' = [result EXCEPT ![c] = "exists"]
         ELSE /\ pc' = [pc EXCEPT ![c] = "validated"]
              /\ UNCHANGED result
    /\ UNCHANGED <<dbVars, envVars, lockVars, call, acked>>

\* Mutant: envelopes are counted where writes should be.
WriteMiscounted(c) ==
    /\ pc[c] = "validated"
    /\ wal' = Append(wal, serialize(call[c].envs))
    /\ synced' = IF config.sync_writes THEN Len(wal) + Len(call[c].envs) ELSE synced
    /\ pc' = [pc EXCEPT ![c] = "returning"]
    /\ result' = [result EXCEPT ![c] = "ok"]
    /\ UNCHANGED <<envVars, lockVars, call, acked>>

\* put_opt / write_opt of the batch, in the encoding of this store.  A
\* synchronous write puts the log before it on disk too.
Write(c) ==
    /\ pc[c] = "validated"
    /\ wal' = Append(wal, serialize(call[c].envs))
    /\ synced' = IF WriteSync(call[c].op, call[c].envs) THEN Len(wal) + 1 ELSE synced
    /\ pc' = [pc EXCEPT ![c] = "returning"]
    /\ result' = [result EXCEPT ![c] = "ok"]
    /\ UNCHANGED <<envVars, lockVars, call, acked>>

\* A `?` on get, serialize, write or the iterator returns early; nothing was
\* written.
Fail(c) ==
    /\ \/ pc[c] = "locked" /\ call[c].op \in AppendOps
       \/ pc[c] \in {"validated", "reading"}
    /\ pc' = [pc EXCEPT ![c] = "returning"]
    /\ result' = [result EXCEPT ![c] = "error"]
    /\ UNCHANGED <<dbVars, envVars, lockVars, call, acked>>

\* compact_range flushes the memtables first; its failure is not reported.
Compact(c) ==
    /\ pc[c] = "locked"
    /\ call[c].op = "compact"
    /\ synced' \in {synced, Len(wal)}
    /\ pc' = [pc EXCEPT ![c] = "returning"]
    /\ result' = [result EXCEPT ![c] = "ok"]
    /\ UNCHANGED <<wal, envVars, lockVars, call, acked>>

\* A scan over the whole database that deserializes every value.
Read(c) ==
    /\ pc[c] = "reading"
    /\ pc' = [pc EXCEPT ![c] = "returning"]
    /\ result' = [result EXCEPT ![c] = IF Readable(wal) THEN "ok" ELSE "corrupt"]
    /\ UNCHANGED <<dbVars, envVars, lockVars, call, acked>>

\* The guard is dropped and the caller gets the result.
Release(c) ==
    /\ lock' = IF lock = c THEN NoClient ELSE lock
    /\ readers' = readers \ {c}
    /\ UNCHANGED queue

Return(c) ==
    /\ pc[c] = "returning"
    /\ Release(c)
    /\ acked' = IF call[c].op \in AppendOps /\ result[c] = "ok"
                  THEN acked \cup {[envs |-> call[c].envs, epoch |-> crashes,
                                    sync |-> WriteSync(call[c].op, call[c].envs),
                                    sync_writes |-> config.sync_writes]}
                  ELSE acked
    /\ pc' = [pc EXCEPT ![c] = "idle"]
    /\ call' = [call EXCEPT ![c] = NoCall]
    /\ result' = [result EXCEPT ![c] = "none"]
    /\ UNCHANGED <<dbVars, envVars>>

\* The machine (or, keeping all of wal, the process) stops: calls in flight
\* never return, and an unsynced suffix of the log may be gone.
Crash ==
    /\ up
    /\ crashes < MaxCrashes
    /\ up' = FALSE
    /\ crashes' = crashes + 1
    /\ \E p \in synced .. Len(wal) : wal' = Surviving(p) /\ synced' = p
    /\ lock' = NoClient /\ readers' = {} /\ queue' = <<>>
    /\ pc' = [c \in Clients |-> "idle"]
    /\ call' = [c \in Clients |-> NoCall]
    /\ result' = [c \in Clients |-> "none"]
    /\ UNCHANGED <<config, acked>>

\* EventStore::new on the same path, with whatever configuration is passed.
Reopen ==
    /\ ~up
    /\ up' = TRUE
    /\ config' \in Configs
    /\ UNCHANGED <<dbVars, lockVars, pc, call, result, acked, crashes>>

Acquire(c) == AcquireWrite(c) \/ AcquireRead(c)

Step(c) == Validate(c) \/ Write(c) \/ Compact(c) \/ Read(c) \/ Return(c)

Next ==
    \/ \E c \in Clients : \E r \in Calls : Invoke(c, r)
    \/ \E c \in Clients : AcquireWrite(c)
    \/ \E c \in Clients : AcquireRead(c)
    \/ \E c \in Clients : Validate(c)
    \/ \E c \in Clients : Write(c)
    \/ \E c \in Clients : Fail(c)
    \/ \E c \in Clients : Compact(c)
    \/ \E c \in Clients : Read(c)
    \/ \E c \in Clients : Return(c)
    \/ Crash
    \/ Reopen

Spec == Init /\ [][Next]_vars

\* Calls do not block while they hold the lock, and tokio's lock is fair.
Fairness == \A c \in Clients : WF_vars(Acquire(c)) /\ WF_vars(Step(c))

FairSpec == Spec /\ Fairness

----------------------------------------------------------------------------
TypeOK ==
    /\ wal \in Seq([envs : Batches, compressed : BOOLEAN])
    /\ synced \in 0 .. Len(wal)
    /\ up \in BOOLEAN
    /\ config \in Configs
    /\ lock \in Clients \cup {NoClient}
    /\ readers \in SUBSET Clients
    /\ queue \in Seq(Clients)
    /\ pc \in [Clients -> {"idle", "waiting", "locked", "validated", "reading", "returning"}]
    /\ call \in [Clients -> Calls \cup {NoCall}]
    /\ result \in [Clients -> {"none", "ok", "exists", "error", "corrupt"}]
    /\ acked \in SUBSET Acks
    /\ crashes \in Nat

\* "Append-only store prevents overwrites": no two writes of the database,
\* whoever made them and whatever crashed in between, put the same key.
NoOverwrite ==
    \A w, v \in DOMAIN wal : w # v => KeysOf(wal[w].envs) \cap KeysOf(wal[v].envs) = {}

\* What an append acknowledged with Ok can still be read: until the next power
\* failure in any case, for ever if its write was synchronous.  (Of several
\* envelopes of one batch under one key, the last.)
AckedStored ==
    \A a \in acked : a.sync \/ a.epoch = crashes => LastPuts(a.envs) \subseteq Visible(wal)

\* Every call comes back, whatever the other callers do.
CallsReturn == \A c \in Clients : pc[c] # "idle" ~> pc[c] = "idle"

\* The store implements the append-only log.
Log == INSTANCE AppendOnlyLog WITH
           events <- Visible(wal), durable <- Visible(SubSeq(wal, 1, synced)), epoch <- crashes

Refinement == Log!Spec

----------------------------------------------------------------------------
(* What comments in the code say, and the code does not do.                *)

\* sync_writes is "Sync writes to disk for durability": with it, what was
\* acknowledged outlives a power failure.
AckedDurable ==
    \A a \in acked : a.sync_writes => LastPuts(a.envs) \subseteq Visible(wal)

\* SerializedEventEnvelope gives a value a "Format version for backward
\* compatibility" and "Whether the data is compressed": what one opening of the
\* store wrote, another can read, whatever enable_compression either was given.
ReadsSucceed == \A c \in Clients : result[c] # "corrupt"
============================================================================
