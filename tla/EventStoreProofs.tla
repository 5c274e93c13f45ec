-------------------------- MODULE EventStoreProofs --------------------------
(***************************************************************************)
(* Theorems about EventStore, for any clients, batches, configurations and *)
(* number of power failures.                                               *)
(***************************************************************************)
EXTENDS EventStore, SequenceTheorems, TLAPS

\* A call is where its operation can be.
OpInv ==
    \A c \in Clients :
        /\ pc[c] = "locked" => call[c].op \in WriteOps
        /\ pc[c] = "validated" => call[c].op \in AppendOps
        /\ pc[c] = "reading" => call[c].op = "read"

\* The write lock is held by exactly the calls that are past write().await.
Holds(c) ==
    \/ pc[c] \in {"locked", "validated"}
    \/ pc[c] = "returning" /\ call[c].op \in WriteOps

LockInv == \A c \in Clients : lock = c <=> Holds(c)

\* No call is in flight while the database is closed.
DownInv == ~up => \A c \in Clients : pc[c] = "idle"

\* What the append-only check found is still true when the batch is written.
Fresh ==
    \A c \in Clients : pc[c] = "validated" => KeysOf(call[c].envs) \cap WalKeys(wal) = {}

\* A write of batch b is in the log, on disk if it was synchronous.
InLog(b) == \E w \in DOMAIN wal : wal[w].envs = b

OnDisk(b) == \E w \in 1 .. synced : wal[w].envs = b

AppendedOk(c) == pc[c] = "returning" /\ result[c] = "ok" /\ call[c].op \in AppendOps

StoredFor(c) ==
    /\ InLog(call[c].envs)
    /\ WriteSync(call[c].op, call[c].envs) => OnDisk(call[c].envs)

OkInv == \A c \in Clients : AppendedOk(c) => StoredFor(c)

AckInv ==
    \A a \in acked :
        /\ a.epoch \in 0 .. crashes
        /\ a.epoch = crashes => InLog(a.envs)
        /\ a.sync => OnDisk(a.envs)

----------------------------------------------------------------------------
\* The batch of an append is one of the batches.
LEMMA CallBatch ==
    ASSUME NEW r \in Calls \cup {NoCall}, r.op \in AppendOps
    PROVE  r.envs \in Batches
BY DEF Calls, NoCall, AppendOps

\* What a prefix of a sequence is.
LEMMA PrefixFacts ==
    ASSUME NEW S, NEW s \in Seq(S), NEW p \in 0 .. Len(s)
    PROVE  /\ SubSeq(s, 1, p) \in Seq(S)
           /\ Len(SubSeq(s, 1, p)) = p
           /\ \A i \in 1 .. p : SubSeq(s, 1, p)[i] = s[i]
<1>1. p \in Int /\ 1 \in Int /\ \A i \in 1 .. p : s[i] \in S
      OBVIOUS
<1>2. /\ SubSeq(s, 1, p) \in Seq(S)
      /\ Len(SubSeq(s, 1, p)) = IF 1 <= p THEN p - 1 + 1 ELSE 0
      /\ \A i \in 1 .. p - 1 + 1 : SubSeq(s, 1, p)[i] = s[1 + i - 1]
      BY <1>1, SubSeqProperties
<1> QED BY <1>2

TypeInv == TypeOK /\ OpInv

\* Init establishes the types.
LEMMA TypeInit == Init => TypeInv
<1> SUFFICES ASSUME Init PROVE TypeInv
    OBVIOUS
<1>1. TypeOK
      BY DEF Init, TypeOK
<1>2. OpInv
      BY DEF Init, OpInv
<1> QED BY <1>1, <1>2 DEF TypeInv

\* A write adds one entry at the end of the log, and the log is on disk up to
\* it when the write is synchronous.
LEMMA WriteAppends ==
    ASSUME TypeInv, NEW c \in Clients, Write(c)
    PROVE  /\ wal' \in Seq([envs : Batches, compressed : BOOLEAN])
           /\ Len(wal') = Len(wal) + 1
           /\ \A i \in 1 .. Len(wal) : wal'[i] = wal[i]
           /\ wal'[Len(wal) + 1].envs = call[c].envs
           /\ synced' \in synced .. Len(wal')
           /\ WriteSync(call[c].op, call[c].envs) => synced' = Len(wal')
<1> USE EventStoreAssumption
<1>1. call[c].envs \in Batches
      BY CallBatch DEF Write, TypeInv, TypeOK, OpInv
<1>2. config.enable_compression \in BOOLEAN
      BY DEF TypeInv, TypeOK
<1> DEFINE entry == [envs |-> call[c].envs, compressed |-> config.enable_compression]
<1>3. entry \in [envs : Batches, compressed : BOOLEAN]
      BY <1>1, <1>2
<1>4. wal \in Seq([envs : Batches, compressed : BOOLEAN]) /\ wal' = Append(wal, entry)
      BY DEF Write, serialize, TypeInv, TypeOK
<1>5. /\ wal' \in Seq([envs : Batches, compressed : BOOLEAN])
      /\ Len(wal') = Len(wal) + 1
      /\ \A i \in 1 .. Len(wal) : wal'[i] = wal[i]
      /\ wal'[Len(wal) + 1] = entry
      BY <1>3, <1>4
<1>6. synced \in 0 .. Len(wal)
      BY DEF TypeInv, TypeOK
<1>7. CASE WriteSync(call[c].op, call[c].envs)
      BY <1>5, <1>6, <1>7 DEF Write
<1>8. CASE ~WriteSync(call[c].op, call[c].envs)
      BY <1>5, <1>6, <1>8 DEF Write
<1> QED BY <1>7, <1>8

\* A power failure leaves a prefix of the log that includes what was on disk.
LEMMA CrashKeepsPrefix ==
    ASSUME TypeInv, Crash
    PROVE  /\ wal' \in Seq([envs : Batches, compressed : BOOLEAN])
           /\ Len(wal') \in synced .. Len(wal)
           /\ synced' = Len(wal')
           /\ \A i \in 1 .. Len(wal') : wal'[i] = wal[i]
<1>1. PICK p \in synced .. Len(wal) : wal' = Surviving(p) /\ synced' = p
      BY DEF Crash
<1>2. wal \in Seq([envs : Batches, compressed : BOOLEAN])
      BY DEF TypeInv, TypeOK
<1>3. p \in 0 .. Len(wal)
      BY <1>1 DEF TypeInv, TypeOK
<1>4. /\ wal' \in Seq([envs : Batches, compressed : BOOLEAN])
      /\ Len(wal') = p
      /\ \A i \in 1 .. p : wal'[i] = wal[i]
      BY <1>1, <1>2, <1>3, PrefixFacts DEF Surviving
<1> QED BY <1>1, <1>4

\* Every step preserves them.
LEMMA TypeNext == TypeInv /\ [Next]_vars => TypeInv'
<1> SUFFICES ASSUME TypeInv, [Next]_vars PROVE TypeInv'
    OBVIOUS
<1> USE EventStoreAssumption DEF TypeInv, dbVars, lockVars, envVars
<1>1. ASSUME NEW c \in Clients, NEW r \in Calls, Invoke(c, r)
      PROVE  TypeInv'
      BY <1>1 DEF Invoke, TypeOK, OpInv
<1>2. ASSUME NEW c \in Clients, AcquireWrite(c)
      PROVE  TypeInv'
      BY <1>2 DEF AcquireWrite, TypeOK, OpInv
<1>3. ASSUME NEW c \in Clients, AcquireRead(c)
      PROVE  TypeInv'
      BY <1>3 DEF AcquireRead, TypeOK, OpInv
<1>4. ASSUME NEW c \in Clients, Validate(c)
      PROVE  TypeInv'
      BY <1>4 DEF Validate, TypeOK, OpInv
<1>5. ASSUME NEW c \in Clients, Write(c)
      PROVE  TypeInv'
  <2>1. /\ wal' \in Seq([envs : Batches, compressed : BOOLEAN])
        /\ synced' \in synced .. Len(wal')
        BY <1>5, WriteAppends
  <2>2. synced' \in 0 .. Len(wal')
        BY <2>1 DEF TypeOK
  <2> QED BY <1>5, <2>1, <2>2 DEF Write, TypeOK, OpInv
<1>6. ASSUME NEW c \in Clients, Fail(c)
      PROVE  TypeInv'
      BY <1>6 DEF Fail, TypeOK, OpInv
<1>7. ASSUME NEW c \in Clients, Compact(c)
      PROVE  TypeInv'
      BY <1>7 DEF Compact, TypeOK, OpInv
<1>8. ASSUME NEW c \in Clients, Read(c)
      PROVE  TypeInv'
      BY <1>8 DEF Read, TypeOK, OpInv
<1>9. ASSUME NEW c \in Clients, Return(c)
      PROVE  TypeInv'
  <2>1. acked' \in SUBSET Acks
    <3>1. CASE call[c].op \in AppendOps /\ result[c] = "ok"
      <4>1. call[c].envs \in Batches
            BY <3>1, CallBatch DEF TypeOK
      <4>2. config.sync_writes \in BOOLEAN
            BY DEF TypeOK
      <4>3. WriteSync(call[c].op, call[c].envs) \in BOOLEAN
            BY <4>2 DEF WriteSync
      <4> QED BY <1>9, <3>1, <4>1, <4>2, <4>3 DEF Return, TypeOK, Acks
    <3>2. CASE ~(call[c].op \in AppendOps /\ result[c] = "ok")
          BY <1>9, <3>2 DEF Return, TypeOK
    <3> QED BY <3>1, <3>2
  <2> QED BY <1>9, <2>1 DEF Return, Release, TypeOK, OpInv
<1>10. ASSUME Crash
       PROVE  TypeInv'
  <2>1. wal' \in Seq([envs : Batches, compressed : BOOLEAN]) /\ synced' \in 0 .. Len(wal')
        BY <1>10, CrashKeepsPrefix DEF TypeOK
  <2>2. up' \in BOOLEAN /\ config' \in Configs /\ acked' \in SUBSET Acks
        BY <1>10 DEF Crash, TypeOK
  <2>6. crashes' \in Nat
        BY <1>10 DEF Crash, TypeOK
  <2>3. /\ lock' \in Clients \cup {NoClient} /\ readers' \in SUBSET Clients
        /\ queue' \in Seq(Clients)
        BY <1>10 DEF Crash
  <2>4. /\ pc' \in [Clients -> {"idle", "waiting", "locked", "validated", "reading", "returning"}]
        /\ call' \in [Clients -> Calls \cup {NoCall}]
        /\ result' \in [Clients -> {"none", "ok", "exists", "error", "corrupt"}]
        BY <1>10 DEF Crash
  <2>5. OpInv'
        BY <1>10 DEF Crash, OpInv
  <2> QED BY <2>1, <2>2, <2>3, <2>4, <2>5, <2>6 DEF TypeOK
<1>11. ASSUME Reopen
       PROVE  TypeInv'
       BY <1>11 DEF Reopen, TypeOK, OpInv
<1>12. CASE UNCHANGED vars
       BY <1>12 DEF vars, TypeOK, OpInv
<1> QED BY <1>1, <1>2, <1>3, <1>4, <1>5, <1>6, <1>7, <1>8, <1>9, <1>10, <1>11, <1>12 DEF Next

\* The variables of the store have their types in every behaviour.
THEOREM TypeCorrect == Spec => []TypeOK
<1>1. TypeInv => TypeOK
      BY DEF TypeInv
<1> QED BY <1>1, TypeInit, TypeNext, PTL DEF Spec

----------------------------------------------------------------------------
(* The write lock.                                                         *)

\* Holding the lock is being past write().await, before and after every step.
LEMMA LockNext == TypeInv /\ LockInv /\ DownInv /\ [Next]_vars => LockInv' /\ DownInv'
<1> SUFFICES ASSUME TypeInv, LockInv, DownInv, [Next]_vars PROVE LockInv' /\ DownInv'
    OBVIOUS
<1> USE EventStoreAssumption
    DEF TypeInv, TypeOK, OpInv, LockInv, DownInv, Holds, AppendOps, WriteOps, dbVars, lockVars, envVars
<1>1. ASSUME NEW c \in Clients, NEW r \in Calls, Invoke(c, r)
      PROVE  LockInv' /\ DownInv'
      BY <1>1 DEF Invoke
<1>2. ASSUME NEW c \in Clients, AcquireWrite(c)
      PROVE  LockInv' /\ DownInv'
      BY <1>2 DEF AcquireWrite
<1>3. ASSUME NEW c \in Clients, AcquireRead(c)
      PROVE  LockInv' /\ DownInv'
      BY <1>3 DEF AcquireRead
<1>4. ASSUME NEW c \in Clients, Validate(c)
      PROVE  LockInv' /\ DownInv'
      BY <1>4 DEF Validate
<1>5. ASSUME NEW c \in Clients, Write(c)
      PROVE  LockInv' /\ DownInv'
      BY <1>5 DEF Write
<1>6. ASSUME NEW c \in Clients, Fail(c)
      PROVE  LockInv' /\ DownInv'
      BY <1>6 DEF Fail
<1>7. ASSUME NEW c \in Clients, Compact(c)
      PROVE  LockInv' /\ DownInv'
      BY <1>7 DEF Compact
<1>8. ASSUME NEW c \in Clients, Read(c)
      PROVE  LockInv' /\ DownInv'
      BY <1>8 DEF Read
<1>9. ASSUME NEW c \in Clients, Return(c)
      PROVE  LockInv' /\ DownInv'
      BY <1>9 DEF Return, Release
<1>10. ASSUME Crash
       PROVE  LockInv' /\ DownInv'
       BY <1>10 DEF Crash
<1>11. ASSUME Reopen
       PROVE  LockInv' /\ DownInv'
       BY <1>11 DEF Reopen
<1>12. CASE UNCHANGED vars
       BY <1>12 DEF vars
<1> QED BY <1>1, <1>2, <1>3, <1>4, <1>5, <1>6, <1>7, <1>8, <1>9, <1>10, <1>11, <1>12 DEF Next

----------------------------------------------------------------------------
(* No key is written twice.                                                *)

KeyInv == TypeInv /\ LockInv /\ DownInv /\ Fresh /\ NoOverwrite

\* The keys of an entry of the log are keys of the log.
LEMMA EntryKeys ==
    ASSUME NEW log, NEW w \in DOMAIN log
    PROVE  KeysOf(log[w].envs) \subseteq WalKeys(log)
BY DEF WalKeys

\* The initial state satisfies the invariant.
LEMMA KeyInit == Init => KeyInv
<1> SUFFICES ASSUME Init PROVE KeyInv
    OBVIOUS
<1>1. LockInv /\ DownInv /\ Fresh
      BY EventStoreAssumption DEF Init, LockInv, Holds, DownInv, Fresh
<1>2. NoOverwrite
      BY DEF Init, NoOverwrite
<1> QED BY <1>1, <1>2, TypeInit DEF KeyInv

\* Only Validate makes a batch fresh, and only the holder of the lock writes.
LEMMA KeyNext == KeyInv /\ [Next]_vars => KeyInv'
<1> SUFFICES ASSUME KeyInv, [Next]_vars PROVE Fresh' /\ NoOverwrite'
    BY TypeNext, LockNext DEF KeyInv
<1> USE DEF KeyInv, dbVars, lockVars, envVars
<1>1. ASSUME NEW c \in Clients, NEW r \in Calls, Invoke(c, r)
      PROVE  Fresh' /\ NoOverwrite'
      BY <1>1 DEF Invoke, TypeInv, TypeOK, Fresh, NoOverwrite
<1>2. ASSUME NEW c \in Clients, AcquireWrite(c)
      PROVE  Fresh' /\ NoOverwrite'
      BY <1>2 DEF AcquireWrite, TypeInv, TypeOK, Fresh, NoOverwrite
<1>3. ASSUME NEW c \in Clients, AcquireRead(c)
      PROVE  Fresh' /\ NoOverwrite'
      BY <1>3 DEF AcquireRead, TypeInv, TypeOK, Fresh, NoOverwrite
<1>4. ASSUME NEW c \in Clients, Validate(c)
      PROVE  Fresh' /\ NoOverwrite'
      BY <1>4 DEF Validate, AlreadyExists, TypeInv, TypeOK, Fresh, NoOverwrite
<1>5. ASSUME NEW c \in Clients, Write(c)
      PROVE  Fresh' /\ NoOverwrite'
  <2>1. \A d \in Clients : pc'[d] # "validated"
        BY <1>5 DEF Write, LockInv, Holds, TypeInv, TypeOK
  <2>2. /\ wal \in Seq([envs : Batches, compressed : BOOLEAN])
        /\ wal' \in Seq([envs : Batches, compressed : BOOLEAN])
        /\ Len(wal') = Len(wal) + 1
        /\ \A i \in 1 .. Len(wal) : wal'[i] = wal[i]
        /\ wal'[Len(wal) + 1].envs = call[c].envs
        BY <1>5, WriteAppends DEF TypeInv, TypeOK
  <2>3. \A w \in 1 .. Len(wal) : KeysOf(wal[w].envs) \cap KeysOf(call[c].envs) = {}
    <3>1. KeysOf(call[c].envs) \cap WalKeys(wal) = {}
          BY <1>5 DEF Write, Fresh
    <3>2. \A w \in 1 .. Len(wal) : KeysOf(wal[w].envs) \subseteq WalKeys(wal)
          BY <2>2, EntryKeys
    <3> QED BY <3>1, <3>2
  <2>4. NoOverwrite'
    <3>1. DOMAIN wal = 1 .. Len(wal) /\ DOMAIN wal' = 1 .. Len(wal) + 1
          BY <2>2
    <3> SUFFICES ASSUME NEW w \in 1 .. Len(wal) + 1, NEW v \in 1 .. Len(wal) + 1, w # v
                 PROVE  KeysOf(wal'[w].envs) \cap KeysOf(wal'[v].envs) = {}
        BY <3>1, Zenon DEF NoOverwrite
    <3>2. CASE w \in 1 .. Len(wal) /\ v \in 1 .. Len(wal)
      <4>1. KeysOf(wal[w].envs) \cap KeysOf(wal[v].envs) = {}
            BY <3>2, <3>1, Zenon DEF NoOverwrite
      <4> QED BY <2>2, <3>2, <4>1
    <3>3. CASE w = Len(wal) + 1 /\ v \in 1 .. Len(wal)
          BY <2>2, <2>3, <3>3
    <3>4. CASE v = Len(wal) + 1 /\ w \in 1 .. Len(wal)
          BY <2>2, <2>3, <3>4
    <3> QED BY <2>2, <3>2, <3>3, <3>4
  <2> QED BY <2>1, <2>4 DEF Fresh
<1>6. ASSUME NEW c \in Clients, Fail(c)
      PROVE  Fresh' /\ NoOverwrite'
      BY <1>6 DEF Fail, TypeInv, TypeOK, Fresh, NoOverwrite
<1>7. ASSUME NEW c \in Clients, Compact(c)
      PROVE  Fresh' /\ NoOverwrite'
      BY <1>7 DEF Compact, TypeInv, TypeOK, Fresh, NoOverwrite
<1>8. ASSUME NEW c \in Clients, Read(c)
      PROVE  Fresh' /\ NoOverwrite'
      BY <1>8 DEF Read, TypeInv, TypeOK, Fresh, NoOverwrite
<1>9. ASSUME NEW c \in Clients, Return(c)
      PROVE  Fresh' /\ NoOverwrite'
      BY <1>9 DEF Return, TypeInv, TypeOK, Fresh, NoOverwrite
<1>10. ASSUME Crash
       PROVE  Fresh' /\ NoOverwrite'
  <2>1. Fresh'
        BY <1>10 DEF Crash, Fresh
  <2>2. /\ wal \in Seq([envs : Batches, compressed : BOOLEAN])
        /\ wal' \in Seq([envs : Batches, compressed : BOOLEAN])
        /\ Len(wal') <= Len(wal)
        /\ \A i \in 1 .. Len(wal') : wal'[i] = wal[i]
    <3>1. synced \in 0 .. Len(wal)
          BY DEF TypeInv, TypeOK
    <3> QED BY <1>10, <3>1, CrashKeepsPrefix DEF TypeInv, TypeOK
  <2>3. NoOverwrite'
    <3>1. DOMAIN wal = 1 .. Len(wal) /\ DOMAIN wal' = 1 .. Len(wal')
          BY <2>2
    <3> SUFFICES ASSUME NEW w \in 1 .. Len(wal'), NEW v \in 1 .. Len(wal'), w # v
                 PROVE  KeysOf(wal'[w].envs) \cap KeysOf(wal'[v].envs) = {}
        BY <3>1, Zenon DEF NoOverwrite
    <3>2. w \in DOMAIN wal /\ v \in DOMAIN wal
          BY <2>2, <3>1
    <3>3. KeysOf(wal[w].envs) \cap KeysOf(wal[v].envs) = {}
          BY <3>2, Zenon DEF NoOverwrite
    <3> QED BY <2>2, <3>3
  <2> QED BY <2>1, <2>3
<1>11. ASSUME Reopen
       PROVE  Fresh' /\ NoOverwrite'
       BY <1>11 DEF Reopen, Fresh, NoOverwrite
<1>12. CASE UNCHANGED vars
       BY <1>12 DEF vars, Fresh, NoOverwrite
<1> QED BY <1>1, <1>2, <1>3, <1>4, <1>5, <1>6, <1>7, <1>8, <1>9, <1>10, <1>11, <1>12 DEF Next

\* Append-only: no two writes of the database put the same key, whatever the
\* callers, the interleaving of their calls and the power failures.
THEOREM AppendOnly == Spec => []NoOverwrite
<1>1. KeyInv => NoOverwrite
      BY DEF KeyInv
<1> QED BY <1>1, KeyInit, KeyNext, PTL DEF Spec

----------------------------------------------------------------------------
(* What was acknowledged is stored.                                        *)

\* What is in a log, or on disk, is so in a log that extends it.
LEMMA Extension ==
    ASSUME NEW b, TypeOK, wal' \in Seq([envs : Batches, compressed : BOOLEAN]),
           Len(wal) <= Len(wal'), \A i \in 1 .. Len(wal) : wal'[i] = wal[i],
           synced' \in synced .. Len(wal')
    PROVE  /\ InLog(b) => InLog(b)'
           /\ OnDisk(b) => OnDisk(b)'
<1>1. /\ wal \in Seq([envs : Batches, compressed : BOOLEAN])
      /\ synced \in 0 .. Len(wal)
      BY DEF TypeOK
<1>2. ASSUME InLog(b) PROVE InLog(b)'
  <2>1. PICK w \in DOMAIN wal : wal[w].envs = b
        BY <1>2 DEF InLog
  <2>2. w \in DOMAIN wal' /\ wal'[w] = wal[w]
        BY <1>1, <2>1
  <2> QED BY <2>1, <2>2 DEF InLog
<1>3. ASSUME OnDisk(b) PROVE OnDisk(b)'
  <2>1. PICK w \in 1 .. synced : wal[w].envs = b
        BY <1>3 DEF OnDisk
  <2>2. w \in 1 .. synced' /\ wal'[w] = wal[w]
        BY <1>1, <2>1
  <2> QED BY <2>1, <2>2 DEF OnDisk
<1> QED BY <1>2, <1>3

\* What is on disk stays there in a power failure.
LEMMA CrashKeepsDisk ==
    ASSUME NEW b, TypeInv, Crash, OnDisk(b)
    PROVE  OnDisk(b)'
<1>1. PICK w \in 1 .. synced : wal[w].envs = b
      BY DEF OnDisk
<1>2. synced \in 0 .. Len(wal)
      BY DEF TypeInv, TypeOK
<1>3. w \in 1 .. synced' /\ wal'[w] = wal[w]
      BY <1>1, <1>2, CrashKeepsPrefix
<1> QED BY <1>1, <1>3 DEF OnDisk

AckedInv == TypeInv /\ LockInv /\ DownInv /\ OkInv /\ AckInv

\* The initial state satisfies the invariant.
LEMMA AckedInit == Init => AckedInv
<1> SUFFICES ASSUME Init PROVE AckedInv
    OBVIOUS
<1>1. LockInv /\ DownInv
      BY KeyInit DEF KeyInv
<1>2. OkInv /\ AckInv
      BY DEF Init, OkInv, AppendedOk, AckInv
<1> QED BY <1>1, <1>2, TypeInit DEF AckedInv

\* A step that at most extends the log keeps every promise: the acknowledged
\* appends, and the appends that were about to be.
LEMMA AckedQuiet ==
    ASSUME AckedInv, wal' \in Seq([envs : Batches, compressed : BOOLEAN]),
           Len(wal) <= Len(wal'), \A i \in 1 .. Len(wal) : wal'[i] = wal[i],
           synced' \in synced .. Len(wal'),
           UNCHANGED <<config, acked, crashes>>
    PROVE  /\ AckInv'
           /\ \A c \in Clients : AppendedOk(c) /\ call'[c] = call[c] => StoredFor(c)'
<1>1. TypeOK
      BY DEF AckedInv, TypeInv
<1>2. \A b : (InLog(b) => InLog(b)') /\ (OnDisk(b) => OnDisk(b)')
      BY <1>1, Extension
<1>3. AckInv'
      BY <1>2 DEF AckedInv, AckInv
<1>4. ASSUME NEW c \in Clients, AppendedOk(c), call'[c] = call[c]
      PROVE  StoredFor(c)'
  <2>1. StoredFor(c)
        BY <1>4 DEF AckedInv, OkInv
  <2> QED BY <1>2, <1>4, <2>1 DEF StoredFor, WriteSync
<1> QED BY <1>3, <1>4

\* In particular a step that leaves the log alone.
LEMMA AckedStill ==
    ASSUME AckedInv, UNCHANGED <<wal, synced, config, acked, crashes>>,
           \A c \in Clients : AppendedOk(c)' => AppendedOk(c) /\ call'[c] = call[c]
    PROVE  OkInv' /\ AckInv'
<1>1. /\ wal \in Seq([envs : Batches, compressed : BOOLEAN])
      /\ synced \in 0 .. Len(wal)
      BY DEF AckedInv, TypeInv, TypeOK
<1>2. /\ AckInv'
      /\ \A c \in Clients : AppendedOk(c) /\ call'[c] = call[c] => StoredFor(c)'
      BY <1>1, AckedQuiet
<1> QED BY <1>2 DEF OkInv

\* An append returns Ok only after its write, and the log keeps what it promised.
LEMMA AckedNext == AckedInv /\ [Next]_vars => AckedInv'
<1> SUFFICES ASSUME AckedInv, [Next]_vars PROVE OkInv' /\ AckInv'
    BY TypeNext, LockNext DEF AckedInv
<1>0. TypeInv /\ TypeOK
      BY DEF AckedInv, TypeInv
<1> USE DEF dbVars, lockVars, envVars
<1>1. ASSUME NEW c \in Clients, NEW r \in Calls, Invoke(c, r)
      PROVE  OkInv' /\ AckInv'
      BY <1>0, <1>1, AckedStill DEF Invoke, TypeOK, AppendedOk
<1>2. ASSUME NEW c \in Clients, AcquireWrite(c)
      PROVE  OkInv' /\ AckInv'
      BY <1>0, <1>2, AckedStill DEF AcquireWrite, TypeOK, AppendedOk
<1>3. ASSUME NEW c \in Clients, AcquireRead(c)
      PROVE  OkInv' /\ AckInv'
      BY <1>0, <1>3, AckedStill DEF AcquireRead, TypeOK, AppendedOk
<1>4. ASSUME NEW c \in Clients, Validate(c)
      PROVE  OkInv' /\ AckInv'
      BY <1>0, <1>4, AckedStill DEF Validate, TypeOK, AppendedOk
<1>5. ASSUME NEW c \in Clients, Write(c)
      PROVE  OkInv' /\ AckInv'
  <2>1. /\ wal' \in Seq([envs : Batches, compressed : BOOLEAN])
        /\ Len(wal') = Len(wal) + 1
        /\ \A i \in 1 .. Len(wal) : wal'[i] = wal[i]
        /\ wal'[Len(wal) + 1].envs = call[c].envs
        /\ synced' \in synced .. Len(wal')
        /\ WriteSync(call[c].op, call[c].envs) => synced' = Len(wal')
        BY <1>0, <1>5, WriteAppends
  <2>2. Len(wal) \in Nat
        BY <1>0 DEF TypeOK
  <2>3. UNCHANGED <<config, acked, crashes, call>>
        BY <1>5 DEF Write
  <2>4. /\ AckInv'
        /\ \A d \in Clients : AppendedOk(d) /\ call'[d] = call[d] => StoredFor(d)'
        BY <2>1, <2>2, <2>3, AckedQuiet
  <2>5. StoredFor(c)'
    <3>1. InLog(call[c].envs)'
          BY <2>1, <2>2, <2>3 DEF InLog
    <3>2. WriteSync(call[c].op, call[c].envs)' => OnDisk(call[c].envs)'
          BY <2>1, <2>2, <2>3 DEF OnDisk, WriteSync
    <3> QED BY <3>1, <3>2 DEF StoredFor
  <2>6. \A d \in Clients \ {c} : AppendedOk(d)' => AppendedOk(d)
        BY <1>0, <1>5 DEF Write, AppendedOk, TypeOK
  <2> QED BY <2>3, <2>4, <2>5, <2>6 DEF OkInv
<1>6. ASSUME NEW c \in Clients, Fail(c)
      PROVE  OkInv' /\ AckInv'
      BY <1>0, <1>6, AckedStill DEF Fail, TypeOK, AppendedOk
<1>7. ASSUME NEW c \in Clients, Compact(c)
      PROVE  OkInv' /\ AckInv'
  <2>1. /\ wal \in Seq([envs : Batches, compressed : BOOLEAN])
        /\ synced \in 0 .. Len(wal) /\ Len(wal) \in Nat
        BY <1>0 DEF TypeOK
  <2>2. /\ wal' = wal /\ synced' \in synced .. Len(wal)
        /\ UNCHANGED <<config, acked, crashes, call>>
        BY <1>7, <2>1 DEF Compact
  <2>3. /\ AckInv'
        /\ \A d \in Clients : AppendedOk(d) /\ call'[d] = call[d] => StoredFor(d)'
        BY <2>1, <2>2, AckedQuiet
  <2>4. \A d \in Clients : AppendedOk(d)' => AppendedOk(d)
        BY <1>0, <1>7 DEF Compact, AppendedOk, AppendOps, TypeOK
  <2> QED BY <2>2, <2>3, <2>4 DEF OkInv
<1>8. ASSUME NEW c \in Clients, Read(c)
      PROVE  OkInv' /\ AckInv'
  <2>1. call[c].op \notin AppendOps
        BY <1>0, <1>8 DEF Read, TypeInv, OpInv, AppendOps
  <2> QED BY <1>0, <1>8, <2>1, AckedStill DEF Read, TypeOK, AppendedOk
<1>9. ASSUME NEW c \in Clients, Return(c)
      PROVE  OkInv' /\ AckInv'
  <2>1. OkInv'
    <3>1. \A d \in Clients : AppendedOk(d)' => AppendedOk(d) /\ call'[d] = call[d]
          BY <1>0, <1>9 DEF Return, AppendedOk, TypeOK
    <3>2. UNCHANGED <<wal, synced, config, crashes>>
          BY <1>9 DEF Return
    <3> QED BY <3>1, <3>2 DEF AckedInv, OkInv, StoredFor, InLog, OnDisk, WriteSync
  <2>2. AckInv'
    <3> SUFFICES ASSUME NEW a \in acked'
                 PROVE  /\ a.epoch \in 0 .. crashes
                        /\ a.epoch = crashes => InLog(a.envs)
                        /\ a.sync => OnDisk(a.envs)
        BY <1>9 DEF Return, AckInv, InLog, OnDisk
    <3>1. CASE a \in acked
          BY <3>1 DEF AckedInv, AckInv
    <3>2. CASE a \notin acked
      <4>1. /\ AppendedOk(c)
            /\ a = [envs |-> call[c].envs, epoch |-> crashes,
                    sync |-> WriteSync(call[c].op, call[c].envs),
                    sync_writes |-> config.sync_writes]
            BY <1>9, <3>2 DEF Return, AppendedOk
      <4>2. StoredFor(c)
            BY <4>1 DEF AckedInv, OkInv
      <4>3. crashes \in Nat
            BY <1>0 DEF TypeOK
      <4> QED BY <4>1, <4>2, <4>3 DEF StoredFor
    <3> QED BY <3>1, <3>2
  <2> QED BY <2>1, <2>2
<1>10. ASSUME Crash
       PROVE  OkInv' /\ AckInv'
  <2>1. OkInv'
        BY <1>10 DEF Crash, OkInv, AppendedOk
  <2>2. crashes \in Nat /\ crashes' = crashes + 1 /\ acked' = acked
        BY <1>0, <1>10 DEF Crash, TypeOK
  <2>3. \A b : OnDisk(b) => OnDisk(b)'
        BY <1>0, <1>10, CrashKeepsDisk
  <2>4. AckInv'
        BY <2>2, <2>3 DEF AckedInv, AckInv
  <2> QED BY <2>1, <2>4
<1>11. ASSUME Reopen
       PROVE  OkInv' /\ AckInv'
  <2>1. AckInv'
        BY <1>11 DEF Reopen, AckedInv, AckInv, InLog, OnDisk
  <2>2. OkInv'
        BY <1>11 DEF Reopen, AckedInv, DownInv, OkInv, AppendedOk
  <2> QED BY <2>1, <2>2
<1>12. CASE UNCHANGED vars
       BY <1>12, AckedStill DEF vars, AppendedOk
<1> QED BY <1>1, <1>2, <1>3, <1>4, <1>5, <1>6, <1>7, <1>8, <1>9, <1>10, <1>11, <1>12 DEF Next

\* When no key is written twice, the last puts of every write are visible.
LEMMA WrittenVisible ==
    ASSUME TypeOK, NoOverwrite, NEW w \in DOMAIN wal
    PROVE  LastPuts(wal[w].envs) \subseteq Visible(wal)
<1> SUFFICES ASSUME NEW e \in LastPuts(wal[w].envs) PROVE e \in Visible(wal)
    OBVIOUS
<1>1. generate_event_key(e) \in KeysOf(wal[w].envs)
      BY DEF LastPuts, KeysOf
<1>2. \A v \in DOMAIN wal : v # w => generate_event_key(e) \notin KeysOf(wal[v].envs)
      BY <1>1, Zenon DEF NoOverwrite
<1>3. \A v \in DOMAIN wal : v > w => v # w
      BY DEF TypeOK
<1> QED BY <1>2, <1>3 DEF Visible

\* So what is in the log is visible.
LEMMA AckedVisible == KeyInv /\ AckedInv => AckedStored
<1> SUFFICES ASSUME KeyInv, AckedInv, NEW a \in acked, a.sync \/ a.epoch = crashes
             PROVE  LastPuts(a.envs) \subseteq Visible(wal)
    BY DEF AckedStored
<1>1. PICK w \in DOMAIN wal : wal[w].envs = a.envs
  <2>1. wal \in Seq([envs : Batches, compressed : BOOLEAN]) /\ synced \in 0 .. Len(wal)
        BY DEF KeyInv, TypeInv, TypeOK
  <2>2. InLog(a.envs) \/ OnDisk(a.envs)
        BY DEF AckedInv, AckInv
  <2> QED BY <2>1, <2>2 DEF InLog, OnDisk
<1> QED BY <1>1, WrittenVisible DEF KeyInv, TypeInv

\* What an append acknowledged stays readable until the next power failure, and
\* for ever when its write was synchronous.
THEOREM AcknowledgedIsStored == Spec => []AckedStored
BY AckedVisible, KeyInit, KeyNext, AckedInit, AckedNext, PTL DEF Spec

\* In a batch of distinct keys every envelope is the last put of its key.
LEMMA DistinctLastPuts ==
    ASSUME NEW b \in Seq(Envelopes), DistinctKeys(b)
    PROVE  EnvelopesOf(b) \subseteq LastPuts(b)
<1> SUFFICES ASSUME NEW i \in DOMAIN b PROVE b[i] \in LastPuts(b)
    BY DEF EnvelopesOf
<1>1. \A m \in DOMAIN b : m > i => generate_event_key(b[m]) # generate_event_key(b[i])
  <2> SUFFICES ASSUME NEW m \in DOMAIN b, m > i
               PROVE  generate_event_key(b[m]) # generate_event_key(b[i])
      OBVIOUS
  <2>1. m # i
        OBVIOUS
  <2> QED BY <2>1, Zenon DEF DistinctKeys
<1> QED BY <1>1 DEF LastPuts

\* Every envelope of an acknowledged batch, if the keys of the batch differ.
DistinctStored ==
    \A a \in acked :
        (a.sync \/ a.epoch = crashes) /\ DistinctKeys(a.envs) => EnvelopesOf(a.envs) \subseteq Visible(wal)

\* The check that looks only at the database loses an envelope only when two
\* envelopes of its batch have one key.
THEOREM DistinctBatchIsStored == Spec => []DistinctStored
<1>1. TypeOK /\ AckedStored => DistinctStored
  <2> SUFFICES ASSUME TypeOK, AckedStored, NEW a \in acked,
                      a.sync \/ a.epoch = crashes, DistinctKeys(a.envs)
               PROVE  EnvelopesOf(a.envs) \subseteq Visible(wal)
      BY DEF DistinctStored
  <2>1. a.envs \in Seq(Envelopes)
        BY EventStoreAssumption DEF TypeOK, Acks
  <2>2. LastPuts(a.envs) \subseteq Visible(wal)
        BY DEF AckedStored
  <2> QED BY <2>1, <2>2, DistinctLastPuts
<1> QED BY <1>1, TypeCorrect, AcknowledgedIsStored, PTL

----------------------------------------------------------------------------
(* The event store implements the append-only log.                         *)

\* The puts that stay of the first n writes, each looked at alone.
Puts(log, n) == UNION {LastPuts(log[w].envs) : w \in 1 .. n}

Entries == [envs : Batches, compressed : BOOLEAN]

\* No two of the writes of log have a key in common: NoOverwrite of any log.
Disjoint(log) ==
    \A w, v \in DOMAIN log : w # v => KeysOf(log[w].envs) \cap KeysOf(log[v].envs) = {}

----------------------------------------------------------------------------
(* What a log makes visible.                                               *)

\* A put that stays has one of the batch's keys.
LEMMA LastPutKey ==
    ASSUME NEW b, NEW e \in LastPuts(b)
    PROVE  generate_event_key(e) \in KeysOf(b)
BY DEF LastPuts, KeysOf

\* Of two puts of a batch under one key, one is not the last.
LEMMA LastPutUnique ==
    ASSUME NEW b \in Seq(Envelopes), NEW e \in LastPuts(b), NEW f \in LastPuts(b),
           generate_event_key(e) = generate_event_key(f)
    PROVE  e = f
<1>1. PICK i \in DOMAIN b : /\ e = b[i]
                            /\ \A m \in DOMAIN b : m > i => generate_event_key(b[m]) # generate_event_key(b[i])
      BY Zenon DEF LastPuts
<1>2. PICK j \in DOMAIN b : /\ f = b[j]
                            /\ \A m \in DOMAIN b : m > j => generate_event_key(b[m]) # generate_event_key(b[j])
      BY Zenon DEF LastPuts
<1>3. i \in Nat /\ j \in Nat
      OBVIOUS
<1>4. ~(i > j) /\ ~(j > i)
      BY <1>1, <1>2, Zenon
<1>5. i = j
      BY <1>3, <1>4
<1> QED BY <1>1, <1>2, <1>5

\* A batch that is not empty leaves a put: its last.
LEMMA LastPutExists ==
    ASSUME NEW b \in Seq(Envelopes), b # <<>>
    PROVE  LastPuts(b) # {}
<1>1. Len(b) \in DOMAIN b
      OBVIOUS
<1>2. \A m \in DOMAIN b : ~(m > Len(b))
      OBVIOUS
<1>3. b[Len(b)] \in LastPuts(b)
      BY <1>1, <1>2, Zenon DEF LastPuts
<1> QED BY <1>3

\* Without overwrites, a log shows the puts of all of its writes.
LEMMA VisibleIsPuts ==
    ASSUME NEW log \in Seq(Entries), Disjoint(log)
    PROVE  Visible(log) = Puts(log, Len(log))
<1>1. DOMAIN log = 1 .. Len(log)
      OBVIOUS
<1>2. Visible(log) \subseteq Puts(log, Len(log))
      BY <1>1, Zenon DEF Visible, Puts
<1>3. ASSUME NEW e \in Puts(log, Len(log))
      PROVE  e \in Visible(log)
  <2>1. PICK w \in DOMAIN log : e \in LastPuts(log[w].envs)
        BY <1>1, Zenon DEF Puts
  <2>2. generate_event_key(e) \in KeysOf(log[w].envs)
        BY <2>1, LastPutKey
  <2>3. ASSUME NEW v \in DOMAIN log, v > w
        PROVE  generate_event_key(e) \notin KeysOf(log[v].envs)
    <3>1. v # w
          BY <1>1, <2>3
    <3> QED BY <2>2, <3>1, Zenon DEF Disjoint
  <2>4. e \in {x \in LastPuts(log[w].envs) :
                  \A v \in DOMAIN log : v > w => generate_event_key(x) \notin KeysOf(log[v].envs)}
        BY <2>1, <2>3, Zenon
  <2> QED BY <2>4 DEF Visible
<1> QED BY <1>2, <1>3

\* What a prefix of a log shows.
LEMMA VisiblePrefix ==
    ASSUME NEW log \in Seq(Entries), Disjoint(log), NEW n \in 0 .. Len(log)
    PROVE  Visible(SubSeq(log, 1, n)) = Puts(log, n)
<1> DEFINE pre == SubSeq(log, 1, n)
<1>1. DOMAIN log = 1 .. Len(log)
      OBVIOUS
<1>2. pre \in Seq(Entries) /\ Len(pre) = n /\ \A i \in 1 .. n : pre[i] = log[i]
      BY PrefixFacts
<1> HIDE DEF pre
<1>3. DOMAIN pre = 1 .. n /\ \A i \in 1 .. n : i \in DOMAIN log
      BY <1>1, <1>2
<1>4. Disjoint(pre)
      BY <1>2, <1>3, Zenon DEF Disjoint
<1>5. Puts(pre, n) = Puts(log, n)
      BY <1>2 DEF Puts
<1> QED BY <1>2, <1>4, <1>5, VisibleIsPuts DEF pre

\* Logs that agree on their first n writes agree on what these put.
LEMMA SamePuts ==
    ASSUME NEW log, NEW other, NEW n \in Nat, \A i \in 1 .. n : log[i] = other[i]
    PROVE  Puts(log, n) = Puts(other, n)
BY DEF Puts

\* One write more.
LEMMA NextPuts ==
    ASSUME NEW log, NEW n \in Nat
    PROVE  Puts(log, n + 1) = Puts(log, n) \cup LastPuts(log[n + 1].envs)
<1>1. 1 .. (n + 1) = (1 .. n) \cup {n + 1}
      OBVIOUS
<1> QED BY <1>1 DEF Puts

----------------------------------------------------------------------------
(* The steps of the store, as steps of the log.                            *)

\* The invariant says what is visible, and what is on disk.
LEMMA Mapped ==
    ASSUME KeyInv
    PROVE  /\ wal \in Seq(Entries) /\ Disjoint(wal) /\ synced \in 0 .. Len(wal)
           /\ Visible(wal) = Puts(wal, Len(wal))
           /\ Visible(SubSeq(wal, 1, synced)) = Puts(wal, synced)
<1>1. wal \in Seq(Entries) /\ synced \in 0 .. Len(wal)
      BY DEF KeyInv, TypeInv, TypeOK, Entries
<1>2. Disjoint(wal)
      BY Zenon DEF Disjoint, KeyInv, NoOverwrite
<1> QED BY <1>1, <1>2, VisibleIsPuts, VisiblePrefix

\* The same after a step.
LEMMA MappedNext ==
    ASSUME KeyInv'
    PROVE  /\ wal' \in Seq(Entries) /\ Disjoint(wal') /\ synced' \in 0 .. Len(wal')
           /\ Visible(wal') = Puts(wal', Len(wal'))
           /\ Visible(SubSeq(wal', 1, synced')) = Puts(wal', synced')
<1>1. wal' \in Seq(Entries) /\ synced' \in 0 .. Len(wal')
      BY DEF KeyInv, TypeInv, TypeOK, Entries
<1>2. Disjoint(wal')
      BY Zenon DEF Disjoint, KeyInv, NoOverwrite
<1> QED BY <1>1, <1>2, VisibleIsPuts, VisiblePrefix

\* The log's keys are the store's.
LEMMA SameKey ==
    ASSUME NEW e
    PROVE  Log!generate_event_key(e) = generate_event_key(e)
BY DEF Log!generate_event_key, generate_event_key,
       Log!generate_time_key_prefix, generate_time_key_prefix,
       Log!AsU64, AsU64, Log!NanosOrZero, NanosOrZero, Log!I64, I64

\* Steps that leave the database alone leave the log alone.
LEMMA LogQuiet ==
    ASSUME UNCHANGED <<wal, synced, crashes>>
    PROVE  UNCHANGED Log!vars
BY DEF Log!vars, Visible, LastPuts, KeysOf

\* A write adds the puts that stay of its batch, under fresh keys.
LEMMA LogWrite ==
    ASSUME KeyInv, KeyInv', NEW c \in Clients, Write(c)
    PROVE  \E S \in SUBSET Envelopes, sync \in BOOLEAN : Log!AddEvents(S, sync)
<1> DEFINE b == call[c].envs
           S == LastPuts(b)
           sync == WriteSync(call[c].op, b)
<1>0. TypeInv /\ TypeOK /\ NoOverwrite /\ TypeOK' /\ NoOverwrite' /\ Fresh
      BY DEF KeyInv, TypeInv
<1>1. /\ wal' \in Seq(Entries) /\ wal \in Seq(Entries)
      /\ Len(wal') = Len(wal) + 1
      /\ \A i \in 1 .. Len(wal) : wal'[i] = wal[i]
      /\ wal'[Len(wal) + 1].envs = b
      /\ synced \in 0 .. Len(wal) /\ synced' \in synced .. Len(wal')
      /\ sync => synced' = Len(wal')
      BY <1>0, WriteAppends DEF TypeOK, Entries
<1>2. ~sync => synced' = synced
      BY DEF Write
<1>3. b \in Seq(Envelopes) /\ b # <<>>
  <2>1. call[c] \in Calls \cup {NoCall} /\ call[c].op \in AppendOps
        BY <1>0 DEF TypeInv, TypeOK, OpInv, Write
  <2>2. b \in Batches
        BY <2>1, CallBatch
  <2>3. b # <<>>
        BY <2>1 DEF Calls, NoCall, AppendOps
  <2> QED BY <2>2, <2>3, EventStoreAssumption
<1>4. KeysOf(b) \cap WalKeys(wal) = {}
      BY <1>0 DEF Fresh, Write
<1> HIDE DEF b, sync
<1>5. S \in SUBSET Envelopes /\ S # {}
      BY <1>3, LastPutExists DEF LastPuts
<1>6. \A e, f \in S : generate_event_key(e) = generate_event_key(f) => e = f
      BY <1>3, LastPutUnique
<1>7. \A e \in S : generate_event_key(e) \notin {generate_event_key(f) : f \in Visible(wal)}
  <2> SUFFICES ASSUME NEW e \in S, NEW f \in Puts(wal, Len(wal)),
                      generate_event_key(e) = generate_event_key(f)
               PROVE  FALSE
      BY Mapped
  <2>1. PICK w \in 1 .. Len(wal) : f \in LastPuts(wal[w].envs)
        BY DEF Puts
  <2>2. generate_event_key(f) \in KeysOf(wal[w].envs) /\ generate_event_key(e) \in KeysOf(b)
        BY <2>1, LastPutKey
  <2>3. w \in DOMAIN wal
        BY <1>1
  <2> QED BY <1>4, <2>2, <2>3, EntryKeys
<1>8. Puts(wal', Len(wal')) = Puts(wal, Len(wal)) \cup S
  <2>1. Puts(wal', Len(wal)) = Puts(wal, Len(wal))
        BY <1>1, SamePuts
  <2>2. Puts(wal', Len(wal) + 1) = Puts(wal', Len(wal)) \cup LastPuts(wal'[Len(wal) + 1].envs)
    <3>1. Len(wal) \in Nat
          BY <1>1
    <3> QED BY <3>1, NextPuts, Zenon
  <2> QED BY <1>1, <2>1, <2>2
<1>9. ~sync => Puts(wal', synced') = Puts(wal, synced)
  <2>1. \A i \in 1 .. synced : wal'[i] = wal[i]
        BY <1>1
  <2> QED BY <1>1, <1>2, <2>1, SamePuts
<1>10. Log!AddEvents(S, sync)
  <2>1. crashes' = crashes
        BY DEF Write, envVars
  <2> HIDE DEF S
  <2>2. Visible(wal)' = Visible(wal) \cup S
        BY <1>8, Mapped, MappedNext
  <2>3. Visible(SubSeq(wal, 1, synced))' = IF sync THEN Visible(wal)' ELSE Visible(SubSeq(wal, 1, synced))
        BY <1>1, <1>9, Mapped, MappedNext
  <2>4. \A e \in S : Log!generate_event_key(e) \notin Log!StoredKeys
        BY <1>7, SameKey DEF Log!StoredKeys
  <2>5. \A e, f \in S : Log!generate_event_key(e) = Log!generate_event_key(f) => e = f
        BY <1>6, SameKey
  <2> QED BY <1>5, <2>1, <2>2, <2>3, <2>4, <2>5, Zenon DEF Log!AddEvents
<1>11. sync \in BOOLEAN
       BY <1>0, EventStoreAssumption DEF sync, WriteSync, TypeOK
<1> QED BY <1>5, <1>10, <1>11

\* compact either leaves the log alone or puts all of it on disk.
LEMMA LogCompact ==
    ASSUME KeyInv, KeyInv', NEW c \in Clients, Compact(c)
    PROVE  Log!Sync \/ UNCHANGED Log!vars
<1>1. wal' = wal /\ crashes' = crashes
      BY DEF Compact, envVars
<1>2. CASE synced' = synced
      BY <1>1, <1>2, LogQuiet
<1>3. CASE synced' = Len(wal)
  <2>1. Visible(wal)' = Visible(wal)
        BY <1>1, Mapped, MappedNext
  <2>2. Visible(SubSeq(wal, 1, synced))' = Visible(wal)
        BY <1>1, <1>3, Mapped, MappedNext
  <2> QED BY <1>1, <2>1, <2>2, Zenon DEF Log!Sync
<1> QED BY <1>2, <1>3 DEF Compact

\* A power failure keeps what is on disk and a part of the rest.
LEMMA LogCrash ==
    ASSUME KeyInv, KeyInv', Crash
    PROVE  Log!PowerFailure
<1>0. TypeInv
      BY DEF KeyInv
<1>1. /\ wal' \in Seq(Entries) /\ wal \in Seq(Entries)
      /\ Len(wal') \in synced .. Len(wal)
      /\ synced \in 0 .. Len(wal)
      /\ synced' = Len(wal')
      /\ \A i \in 1 .. Len(wal') : wal'[i] = wal[i]
      BY <1>0, CrashKeepsPrefix DEF TypeInv, TypeOK, Entries
<1> DEFINE n == Len(wal')
<1>2. n \in Nat /\ Puts(wal', n) = Puts(wal, n)
      BY <1>1, SamePuts
<1>3. Puts(wal, synced) \subseteq Puts(wal, n) /\ Puts(wal, n) \subseteq Puts(wal, Len(wal))
  <2>1. 1 .. synced \subseteq 1 .. n /\ 1 .. n \subseteq 1 .. Len(wal)
        BY <1>1
  <2> QED BY <2>1 DEF Puts
<1>4. Visible(wal)' = Puts(wal, n) /\ Visible(SubSeq(wal, 1, synced))' = Puts(wal, n)
      BY <1>1, <1>2, MappedNext
<1> HIDE DEF n
<1>5. /\ Visible(SubSeq(wal, 1, synced)) \subseteq Visible(wal)'
      /\ Visible(wal)' \subseteq Visible(wal)
      BY <1>3, <1>4, Mapped
<1>6. crashes' = crashes + 1
      BY DEF Crash
<1>7. Visible(SubSeq(wal, 1, synced))' = Visible(wal)'
      BY <1>4
<1> QED BY <1>5, <1>6, <1>7, Zenon DEF Log!PowerFailure

\* The log starts empty.
LEMMA LogInit == Init => Log!Init
<1> SUFFICES ASSUME Init PROVE Log!Init
    OBVIOUS
<1>1. wal = <<>> /\ synced = 0 /\ crashes = 0
      BY DEF Init
<1>2. KeyInv
      BY KeyInit
<1>3. Puts(wal, Len(wal)) = {} /\ Puts(wal, synced) = {}
      BY <1>1 DEF Puts
<1> QED BY <1>1, <1>2, <1>3, Mapped DEF Log!Init

\* Every step of the store is a step of the log or leaves it alone.
LEMMA LogNext == KeyInv /\ KeyInv' /\ [Next]_vars => [Log!Next]_Log!vars
<1> SUFFICES ASSUME KeyInv, KeyInv', [Next]_vars PROVE Log!Next \/ UNCHANGED Log!vars
    OBVIOUS
<1>1. ASSUME NEW c \in Clients, Write(c) PROVE Log!Next
      BY <1>1, LogWrite DEF Log!Next
<1>2. ASSUME NEW c \in Clients, Compact(c) PROVE Log!Next \/ UNCHANGED Log!vars
      BY <1>2, LogCompact DEF Log!Next
<1>3. ASSUME Crash PROVE Log!Next
      BY <1>3, LogCrash DEF Log!Next
<1>4. ASSUME NEW c \in Clients,
             \/ \E r \in Calls : Invoke(c, r)
             \/ AcquireWrite(c) \/ AcquireRead(c)
             \/ Validate(c) \/ Fail(c) \/ Read(c) \/ Return(c)
      PROVE  UNCHANGED Log!vars
  <2>1. UNCHANGED <<wal, synced, crashes>>
        BY <1>4 DEF Invoke, AcquireWrite, AcquireRead, Validate, Fail, Read, Return, dbVars, envVars
  <2> QED BY <2>1, LogQuiet
<1>5. ASSUME Reopen \/ UNCHANGED vars PROVE UNCHANGED Log!vars
  <2>1. UNCHANGED <<wal, synced, crashes>>
        BY <1>5 DEF Reopen, vars, dbVars
  <2> QED BY <2>1, LogQuiet
<1> QED BY <1>1, <1>2, <1>3, <1>4, <1>5 DEF Next

\* The store implements the append-only log: every step of clients, lock,
\* database, power failure and reopening is one of the log's steps or none, so
\* readers only ever see whole batches of fresh keys appear, and only a power
\* failure take back what was not on disk.
THEOREM Implements == Spec => Refinement
BY LogInit, LogNext, KeyInit, KeyNext, PTL DEF Spec, Refinement, Log!Spec
============================================================================
