----------------------- MODULE SyncBatchWriterProofs -----------------------
(***************************************************************************)
(* Theorems about SyncBatchWriter, for any clients, envelopes and bounds.  *)
(***************************************************************************)
EXTENDS SyncBatchWriter, EventStoreProofs

CallTypes == [op : AppendOps \cup {"none", "compact", "read"}, envs : Seq(Envelopes)]

\* The part of the types that the argument needs; pending_events may be any
\* sequence of envelopes.
WalTypes ==
    /\ wal \in Seq([envs : Seq(Envelopes), compressed : BOOLEAN])
    /\ synced \in 0 .. Len(wal)
    /\ config \in Configs
    /\ pc \in [Clients -> {"idle", "waiting", "locked", "validated", "reading", "returning"}]
    /\ call \in [Clients -> CallTypes]
    /\ result \in [Clients -> {"none", "ok", "exists", "error", "corrupt"}]
    /\ pending_events \in Seq(Envelopes)

\* Only appends get as far as the write.
OnlyAppendsWrite == \A c \in Clients : pc[c] = "validated" => call[c].op \in AppendOps

GhostInv == WalTypes /\ OnlyAppendsWrite /\ NoGhostWrites

\* All calls have their type.
LEMMA CallsTyped == Calls \subseteq CallTypes /\ NoCall \in CallTypes
<1>1. Batches \subseteq Seq(Envelopes) /\ <<>> \in Seq(Envelopes)
      BY EventStoreAssumption
<1>2. \A r \in Calls : \E o \in AppendOps \cup {"compact", "read"}, b \in Batches \cup {<<>>} :
          r = [op |-> o, envs |-> b]
      BY DEF Calls, AppendOps
<1>3. \A o \in AppendOps \cup {"compact", "read"}, b \in Batches \cup {<<>>} :
          [op |-> o, envs |-> b] \in CallTypes
      BY <1>1 DEF AppendOps, CallTypes
<1>4. NoCall \in CallTypes
      BY <1>1 DEF NoCall, CallTypes
<1> QED BY <1>2, <1>3, <1>4

\* A step that writes nothing and returns from no append.
LEMMA NoWriteStep ==
    ASSUME NoGhostWrites, UNCHANGED <<wal, acked, cut_off>>,
           \A c \in Written : c \in Written' /\ call'[c] = call[c]
    PROVE  NoGhostWrites'
BY DEF NoGhostWrites

\* A client's step from a place other than "returning" leaves those who have
\* written where they are.
LEMMA KeepsWritten ==
    ASSUME WalTypes, NEW c \in Clients, pc[c] # "returning",
           \A d \in Clients \ {c} : pc'[d] = pc[d] /\ call'[d] = call[d] /\ result'[d] = result[d]
    PROVE  \A d \in Written : d \in Written' /\ call'[d] = call[d]
BY DEF Written

\* A step of the store's client c that neither writes nor returns.
LEMMA ClientStep ==
    ASSUME GhostInv, NEW c \in Clients, UNCHANGED writerVars,
           \/ Validate(c) \/ Compact(c) \/ Read(c) \/ Fail(c) \/ Acquire(c)
           \/ \E r \in OtherCalls : Invoke(c, r)
    PROVE  GhostInv'
<1> USE DEF dbVars, envVars, lockVars, writerVars
<1>1. /\ pc[c] # "returning"
      /\ \A d \in Clients \ {c} : pc'[d] = pc[d] /\ call'[d] = call[d] /\ result'[d] = result[d]
      /\ UNCHANGED <<wal, acked, cut_off>>
      BY DEF GhostInv, WalTypes, Validate, Compact, Read, Fail, Acquire, AcquireWrite, AcquireRead, Invoke
<1>2. NoGhostWrites'
      BY <1>1, KeepsWritten, NoWriteStep DEF GhostInv
<1>3. WalTypes'
  <2>1. OtherCalls \subseteq CallTypes
        BY CallsTyped, SyncBatchWriterAssumption
  <2>2. wal' = wal /\ synced' \in {synced, Len(wal)} /\ config' = config /\ pending_events' = pending_events
        BY DEF Validate, Compact, Read, Fail, Acquire, AcquireWrite, AcquireRead, Invoke
  <2>3. synced' \in 0 .. Len(wal')
        BY <2>2 DEF GhostInv, WalTypes
  <2>4. pc' \in [Clients -> {"idle", "waiting", "locked", "validated", "reading", "returning"}]
        BY DEF GhostInv, WalTypes, Validate, Compact, Read, Fail, Acquire, AcquireWrite, AcquireRead, Invoke
  <2>5. /\ call' \in [Clients -> CallTypes]
        /\ result' \in [Clients -> {"none", "ok", "exists", "error", "corrupt"}]
        BY <2>1 DEF GhostInv, WalTypes, Validate, Compact, Read, Fail, Acquire, AcquireWrite, AcquireRead, Invoke
  <2> QED BY <2>2, <2>3, <2>4, <2>5 DEF GhostInv, WalTypes
<1>4. OnlyAppendsWrite'
      BY DEF GhostInv, WalTypes, OnlyAppendsWrite, Validate, Compact, Read, Fail, Acquire, AcquireWrite,
             AcquireRead, Invoke
<1> QED BY <1>2, <1>3, <1>4 DEF GhostInv

\* A write puts the batch of a call that is about to return Ok.
LEMMA WriteStep ==
    ASSUME GhostInv, NEW c \in Clients, Write(c), UNCHANGED writerVars
    PROVE  GhostInv'
<1> USE DEF envVars, lockVars, writerVars
<1> DEFINE entry == [envs |-> call[c].envs, compressed |-> config.enable_compression]
<1>1. pc[c] = "validated" /\ call[c].op \in AppendOps /\ call[c].envs \in Seq(Envelopes)
      BY DEF Write, GhostInv, WalTypes, OnlyAppendsWrite, CallTypes
<1>2. entry \in [envs : Seq(Envelopes), compressed : BOOLEAN] /\ wal' = Append(wal, entry)
      BY <1>1, EventStoreAssumption DEF Write, serialize, GhostInv, WalTypes
<1>3. /\ wal \in Seq([envs : Seq(Envelopes), compressed : BOOLEAN])
      /\ wal' \in Seq([envs : Seq(Envelopes), compressed : BOOLEAN])
      /\ Len(wal') = Len(wal) + 1
      /\ wal'[Len(wal) + 1].envs = call[c].envs
      /\ \A w \in 1 .. Len(wal) : wal'[w] = wal[w]
      BY <1>2 DEF GhostInv, WalTypes
<1>4. synced' \in 0 .. Len(wal')
      BY <1>3 DEF Write, GhostInv, WalTypes
<1>5. /\ pc' = [pc EXCEPT ![c] = "returning"] /\ result' = [result EXCEPT ![c] = "ok"]
      /\ UNCHANGED <<call, config, acked, cut_off, pending_events>>
      BY DEF Write
<1>6. WalTypes'
      BY <1>3, <1>4, <1>5 DEF GhostInv, WalTypes
<1>7. OnlyAppendsWrite'
      BY <1>5 DEF GhostInv, WalTypes, OnlyAppendsWrite
<1>8. c \in Written' /\ \A d \in Written : d \in Written' /\ call'[d] = call[d]
      BY <1>1, <1>5 DEF Written, GhostInv, WalTypes
<1>9. ASSUME NEW w \in DOMAIN wal'
      PROVE  \/ \E a \in acked' : a.envs = wal'[w].envs
             \/ \E d \in Written' : call'[d].envs = wal'[w].envs
             \/ wal'[w].envs \in cut_off'
  <2>1. w \in 1 .. Len(wal) \/ w = Len(wal) + 1
        BY <1>3
  <2>2. CASE w = Len(wal) + 1
        BY <1>3, <1>5, <1>8, <2>2
  <2>3. CASE w \in 1 .. Len(wal)
    <3>1. w \in DOMAIN wal /\ wal'[w] = wal[w]
          BY <1>3, <2>3
    <3> QED BY <1>5, <1>8, <3>1 DEF GhostInv, NoGhostWrites
  <2> QED BY <2>1, <2>2, <2>3
<1> QED BY <1>6, <1>7, <1>9, Zenon DEF GhostInv, NoGhostWrites

\* A call that returns is acknowledged, or wrote nothing.
LEMMA ReturnStep ==
    ASSUME GhostInv, NEW c \in Clients, Return(c), UNCHANGED <<pending_events, cut_off>>
    PROVE  GhostInv'
<1> USE DEF dbVars, envVars
<1>1. /\ pc' = [pc EXCEPT ![c] = "idle"] /\ call' = [call EXCEPT ![c] = NoCall]
      /\ result' = [result EXCEPT ![c] = "none"]
      /\ UNCHANGED <<wal, synced, config>>
      BY DEF Return
<1>2. WalTypes'
      BY <1>1, CallsTyped DEF GhostInv, WalTypes
<1>3. OnlyAppendsWrite'
      BY <1>1 DEF GhostInv, WalTypes, OnlyAppendsWrite
<1>4. acked \subseteq acked'
      BY DEF Return
<1>5. c \in Written => \E a \in acked' : a.envs = call[c].envs
  <2> SUFFICES ASSUME c \in Written PROVE \E a \in acked' : a.envs = call[c].envs
      OBVIOUS
  <2> DEFINE a == [envs |-> call[c].envs, epoch |-> crashes,
                   sync |-> WriteSync(call[c].op, call[c].envs), sync_writes |-> config.sync_writes]
  <2>1. acked' = acked \cup {a}
        BY DEF Return, Written
  <2>2. a \in acked' /\ a.envs = call[c].envs
        BY <2>1
  <2> HIDE DEF a
  <2> QED BY <2>2
<1>6. \A d \in Written \ {c} : d \in Written' /\ call'[d] = call[d]
      BY <1>1 DEF Written, GhostInv, WalTypes
<1>7. ASSUME NEW w \in DOMAIN wal
      PROVE  \/ \E a \in acked' : a.envs = wal[w].envs
             \/ \E d \in Written' : call'[d].envs = wal[w].envs
             \/ wal[w].envs \in cut_off
      BY <1>4, <1>5, <1>6 DEF GhostInv, NoGhostWrites
<1>8. NoGhostWrites'
      BY <1>1, <1>7 DEF NoGhostWrites
<1> QED BY <1>2, <1>3, <1>8 DEF GhostInv

\* What a crash cuts off is noted, and the log only gets shorter.
LEMMA CrashStep ==
    ASSUME GhostInv, WriterCrash
    PROVE  GhostInv'
<1>1. PICK p \in synced .. Len(wal) : wal' = SubSeq(wal, 1, p) /\ synced' = p
      BY DEF WriterCrash, Crash, Surviving
<1>2. wal \in Seq([envs : Seq(Envelopes), compressed : BOOLEAN]) /\ p \in 0 .. Len(wal)
      BY <1>1 DEF GhostInv, WalTypes
<1>3. /\ wal' \in Seq([envs : Seq(Envelopes), compressed : BOOLEAN])
      /\ Len(wal') = p
      /\ \A w \in 1 .. p : wal'[w] = wal[w]
      BY <1>1, <1>2, PrefixFacts
<1>4. WalTypes'
  <2>1. <<>> \in Seq(Envelopes)
        OBVIOUS
  <2> QED BY <1>1, <1>2, <1>3, <2>1, CallsTyped DEF GhostInv, WalTypes, WriterCrash, Crash
<1>5. OnlyAppendsWrite'
      BY DEF OnlyAppendsWrite, WriterCrash, Crash
<1>6. acked' = acked /\ cut_off' = cut_off \cup {call[c].envs : c \in Written}
      BY DEF WriterCrash, Crash
<1>7. ASSUME NEW w \in DOMAIN wal'
      PROVE  (\E a \in acked' : a.envs = wal'[w].envs) \/ wal'[w].envs \in cut_off'
  <2>1. w \in DOMAIN wal /\ wal'[w] = wal[w]
        BY <1>2, <1>3
  <2> QED BY <1>6, <2>1 DEF GhostInv, NoGhostWrites
<1> QED BY <1>4, <1>5, <1>7 DEF GhostInv, NoGhostWrites

\* Every step keeps the invariant.
LEMMA GhostStep == GhostInv /\ [WriterNext]_allVars => GhostInv'
<1> SUFFICES ASSUME GhostInv, [WriterNext]_allVars PROVE GhostInv'
    OBVIOUS
<1>1. ASSUME NEW e \in Envelopes, add_event(e) PROVE GhostInv'
  <2>1. pending_events' \in Seq(Envelopes) /\ UNCHANGED <<vars, cut_off>>
        BY <1>1 DEF add_event, GhostInv, WalTypes
  <2> QED BY <2>1 DEF GhostInv, WalTypes, OnlyAppendsWrite, NoGhostWrites, Written, vars
<1>2. ASSUME flush PROVE GhostInv'
  <2> DEFINE r == [op |-> "append_events", envs |-> pending_events]
  <2>1. r \in CallTypes /\ <<>> \in Seq(Envelopes)
        BY DEF GhostInv, WalTypes, CallTypes, AppendOps
  <2>2. /\ pc[Writer] = "idle" /\ pc' = [pc EXCEPT ![Writer] = "waiting"]
        /\ call' = [call EXCEPT ![Writer] = r]
        /\ UNCHANGED <<wal, synced, config, result, acked, cut_off>> /\ pending_events' = <<>>
        BY <1>2 DEF flush, Invoke, dbVars, envVars
  <2> HIDE DEF r
  <2>3. WalTypes' /\ OnlyAppendsWrite'
        BY <2>1, <2>2 DEF GhostInv, WalTypes, OnlyAppendsWrite
  <2>4. NoGhostWrites'
        BY <2>2, SyncBatchWriterAssumption, KeepsWritten, NoWriteStep DEF GhostInv, WalTypes
  <2> QED BY <2>3, <2>4 DEF GhostInv
<1>3. ASSUME CancelFlush PROVE GhostInv'
  <2>1. /\ pc[Writer] = "waiting" /\ pc' = [pc EXCEPT ![Writer] = "idle"]
        /\ call' = [call EXCEPT ![Writer] = NoCall]
        /\ UNCHANGED <<wal, synced, config, result, acked, cut_off, pending_events>>
        BY <1>3 DEF CancelFlush, dbVars, envVars
  <2>2. WalTypes' /\ OnlyAppendsWrite'
        BY <2>1, CallsTyped DEF GhostInv, WalTypes, OnlyAppendsWrite
  <2>3. NoGhostWrites'
        BY <2>1, SyncBatchWriterAssumption, KeepsWritten, NoWriteStep DEF GhostInv, WalTypes
  <2> QED BY <2>2, <2>3 DEF GhostInv
<1>4. ASSUME NEW c \in Clients, Progress(c) PROVE GhostInv'
  <2>1. Return(c) /\ UNCHANGED <<pending_events, cut_off>> => GhostInv'
        BY ReturnStep
  <2> QED BY <1>4, <2>1, ClientStep, WriteStep DEF Progress, StoreStep, FlushReturns, writerVars
<1>5. ASSUME Reopen, UNCHANGED writerVars PROVE GhostInv'
      BY <1>5 DEF Reopen, GhostInv, WalTypes, OnlyAppendsWrite, NoGhostWrites, Written, dbVars, writerVars
<1>6. ASSUME UNCHANGED allVars PROVE GhostInv'
      BY <1>6 DEF allVars, vars, writerVars, GhostInv, WalTypes, OnlyAppendsWrite, NoGhostWrites, Written
<1> QED BY <1>1, <1>2, <1>3, <1>4, <1>5, <1>6, ClientStep, CrashStep DEF WriterNext, flush_if_full, Others

\* Everything in the database is of an append that returned Ok, is about to, or
\* was cut off by a crash: a flush that failed, or whose future was dropped,
\* stored nothing, whatever the other clients of the store do.
THEOREM NeverGhostWrites == WriterSpec => []NoGhostWrites
<1>1. ASSUME WriterInit PROVE GhostInv
  <2>1. <<>> \in Seq(Envelopes) /\ <<>> \in Seq([envs : Seq(Envelopes), compressed : BOOLEAN])
        OBVIOUS
  <2>2. WalTypes
        BY <1>1, <2>1, CallsTyped DEF WriterInit, Init, WalTypes
  <2>3. OnlyAppendsWrite /\ NoGhostWrites
        BY <1>1 DEF WriterInit, Init, OnlyAppendsWrite, NoGhostWrites
  <2> QED BY <2>2, <2>3 DEF GhostInv
<1>2. GhostInv => NoGhostWrites
      BY DEF GhostInv
<1> QED BY <1>1, <1>2, GhostStep, PTL DEF WriterSpec

----------------------------------------------------------------------------
(* Sequences.                                                              *)

\* A piece of a sequence.
LEMMA PieceOf ==
    ASSUME NEW S, NEW s \in Seq(S), NEW m \in Nat, NEW n \in Nat, m + n <= Len(s)
    PROVE  LET u == SubSeq(s, m + 1, m + n)
           IN  u \in Seq(S) /\ Len(u) = n /\ \A i \in 1 .. n : u[i] = s[m + i]
<1> DEFINE u == SubSeq(s, m + 1, m + n)
<1>1. m + 1 \in Int /\ m + n \in Int /\ \A i \in (m + 1) .. (m + n) : s[i] \in S
  <2>1. \A i \in (m + 1) .. (m + n) : i \in 1 .. Len(s)
        OBVIOUS
  <2> QED BY <2>1
<1>2. /\ u \in Seq(S)
      /\ Len(u) = IF m + 1 <= m + n THEN (m + n) - (m + 1) + 1 ELSE 0
      /\ \A i \in 1 .. (m + n) - (m + 1) + 1 : u[i] = s[(m + 1) + i - 1]
      BY <1>1, SubSeqProperties
<1>3. (m + n) - (m + 1) + 1 = n /\ \A i \in 1 .. n : (m + 1) + i - 1 = m + i
      OBVIOUS
<1> HIDE DEF u
<1>4. Len(u) = n
      BY <1>2, <1>3
<1> QED BY <1>2, <1>3, <1>4 DEF u

\* The same, by its ends.
LEMMA PieceBetween ==
    ASSUME NEW S, NEW s \in Seq(S), NEW a \in Nat, NEW b \in Nat, a <= b, b <= Len(s)
    PROVE  LET u == SubSeq(s, a + 1, b)
           IN  u \in Seq(S) /\ Len(u) = b - a /\ \A i \in 1 .. (b - a) : u[i] = s[a + i]
<1> DEFINE n == b - a
<1>1. n \in Nat /\ a + n = b
      OBVIOUS
<1> HIDE DEF n
<1>2. LET u == SubSeq(s, a + 1, a + n)
      IN  u \in Seq(S) /\ Len(u) = n /\ \A i \in 1 .. n : u[i] = s[a + i]
      BY <1>1, PieceOf
<1> QED BY <1>1, <1>2 DEF n

\* A piece does not change when the sequence grows, and its end grows with it.
LEMMA PieceOfLonger ==
    ASSUME NEW S, NEW s \in Seq(S), NEW e \in S, NEW a \in Nat, NEW b \in Nat, a <= b, b <= Len(s)
    PROVE  /\ SubSeq(Append(s, e), a + 1, b) = SubSeq(s, a + 1, b)
           /\ SubSeq(Append(s, e), a + 1, Len(s) + 1) = Append(SubSeq(s, a + 1, Len(s)), e)
<1> DEFINE t == Append(s, e)
<1>1. /\ t \in Seq(S) /\ Len(t) = Len(s) + 1 /\ Len(s) \in Nat /\ t[Len(s) + 1] = e
      /\ \A i \in 1 .. Len(s) : t[i] = s[i]
      OBVIOUS
<1> HIDE DEF t
<1>2. SubSeq(t, a + 1, b) = SubSeq(s, a + 1, b)
  <2> DEFINE u == SubSeq(t, a + 1, b)
             v == SubSeq(s, a + 1, b)
  <2>0. b <= Len(t)
        BY <1>1
  <2>1. u \in Seq(S) /\ Len(u) = b - a /\ \A i \in 1 .. (b - a) : u[i] = t[a + i]
        BY <1>1, <2>0, PieceBetween
  <2>2. v \in Seq(S) /\ Len(v) = b - a /\ \A i \in 1 .. (b - a) : v[i] = s[a + i]
        BY PieceBetween
  <2>3. \A i \in 1 .. (b - a) : a + i \in 1 .. Len(s)
        BY <1>1
  <2> HIDE DEF u, v
  <2>4. \A i \in 1 .. Len(u) : u[i] = v[i]
        BY <1>1, <2>1, <2>2, <2>3
  <2>5. u = v
        BY <2>1, <2>2, <2>4, SeqEqual
  <2> QED BY <2>5 DEF u, v
<1>3. SubSeq(t, a + 1, Len(s) + 1) = Append(SubSeq(s, a + 1, Len(s)), e)
  <2> DEFINE u == SubSeq(t, a + 1, Len(s) + 1)
             v == SubSeq(s, a + 1, Len(s))
             n == Len(s) - a
  <2>0. n \in Nat /\ a <= Len(s) /\ Len(s) <= Len(s) /\ Len(s) \in Nat /\ a + n = Len(s)
        BY <1>1
  <2>1. u \in Seq(S) /\ Len(u) = n + 1 /\ \A i \in 1 .. (n + 1) : u[i] = t[a + i]
    <3> DEFINE l == Len(s) + 1
    <3>1. l \in Nat /\ a <= l /\ l <= Len(t) /\ l - a = n + 1
          BY <1>1, <2>0
    <3> HIDE DEF l, n
    <3>2. LET w == SubSeq(t, a + 1, l)
          IN  w \in Seq(S) /\ Len(w) = l - a /\ \A i \in 1 .. (l - a) : w[i] = t[a + i]
          BY <1>1, <3>1, PieceBetween
    <3> QED BY <3>1, <3>2 DEF l
  <2>2. v \in Seq(S) /\ Len(v) = n /\ \A i \in 1 .. n : v[i] = s[a + i]
        BY <2>0, PieceBetween
  <2> HIDE DEF u, v, n
  <2>3. /\ Append(v, e) \in Seq(S) /\ Len(Append(v, e)) = n + 1 /\ Append(v, e)[n + 1] = e
        /\ \A i \in 1 .. n : Append(v, e)[i] = v[i]
        BY <2>0, <2>2
  <2>4. ASSUME NEW i \in 1 .. Len(u) PROVE u[i] = Append(v, e)[i]
    <3>1. CASE i = n + 1
      <4>1. a + i = Len(s) + 1 /\ i \in 1 .. (n + 1)
            BY <2>0, <2>1, <3>1
      <4> QED BY <1>1, <2>1, <2>3, <3>1, <4>1
    <3>2. CASE i # n + 1
      <4>1. i \in 1 .. n /\ a + i \in 1 .. Len(s) /\ i \in 1 .. (n + 1)
            BY <2>0, <2>1, <3>2
      <4> QED BY <1>1, <2>1, <2>2, <2>3, <4>1
    <3> QED BY <3>1, <3>2
  <2>5. u = Append(v, e)
        BY <2>1, <2>3, <2>4, SeqEqual
  <2> QED BY <2>5 DEF u, v
<1> QED BY <1>2, <1>3 DEF t

\* From place c on, a sequence is two pieces, one after the other.
TwoPieces(s, c, x, y) == SubSeq(s, c + 1, Len(s)) = x \o y

EachPiece(s, c, x, y) ==
    /\ c + Len(x) \in c .. Len(s)
    /\ SubSeq(s, c + 1, c + Len(x)) = x
    /\ SubSeq(s, c + Len(x) + 1, Len(s)) = y

LEMMA PiecesSplit ==
    ASSUME NEW S, NEW s \in Seq(S), NEW x \in Seq(S), NEW y \in Seq(S), NEW c \in 0 .. Len(s),
           TwoPieces(s, c, x, y)
    PROVE  EachPiece(s, c, x, y)
<1>0. SubSeq(s, c + 1, Len(s)) = x \o y
      BY DEF TwoPieces
<1>1. /\ Len(x) \in Nat /\ Len(y) \in Nat /\ Len(s) \in Nat /\ c \in Nat /\ c <= Len(s) /\ Len(s) <= Len(s)
      /\ x \o y \in Seq(S) /\ Len(x \o y) = Len(x) + Len(y)
      OBVIOUS
<1>2. /\ \A i \in 1 .. Len(x) : (x \o y)[i] = x[i]
      /\ \A i \in 1 .. Len(y) : (x \o y)[Len(x) + i] = y[i]
      OBVIOUS
<1> DEFINE z == x \o y
           m == c + Len(x)
<1>3. Len(z) = Len(s) - c /\ \A i \in 1 .. (Len(s) - c) : z[i] = s[c + i]
  <2> HIDE DEF z
  <2>1. LET u == SubSeq(s, c + 1, Len(s))
        IN  Len(u) = Len(s) - c /\ \A i \in 1 .. (Len(s) - c) : u[i] = s[c + i]
        BY <1>1, PieceBetween
  <2>2. SubSeq(s, c + 1, Len(s)) = z
        BY <1>0 DEF z
  <2> QED BY <2>1, <2>2
<1>4. m \in Nat /\ c <= m /\ m <= Len(s) /\ m - c = Len(x) /\ Len(s) - m = Len(y)
      BY <1>1, <1>3
<1> HIDE DEF z, m
<1>5. SubSeq(s, c + 1, m) = x
  <2> DEFINE u == SubSeq(s, c + 1, m)
  <2>1. u \in Seq(S) /\ Len(u) = m - c /\ \A i \in 1 .. (m - c) : u[i] = s[c + i]
        BY <1>1, <1>4, PieceBetween
  <2>2. \A i \in 1 .. Len(x) : i \in 1 .. (Len(s) - c)
        BY <1>1, <1>4
  <2> HIDE DEF u
  <2>3. Len(u) = Len(x) /\ \A i \in 1 .. Len(u) : u[i] = x[i]
        BY <1>2, <1>3, <1>4, <2>1, <2>2 DEF z
  <2>4. u = x
        BY <2>1, <2>3, SeqEqual
  <2> QED BY <2>4 DEF u
<1>6. SubSeq(s, m + 1, Len(s)) = y
  <2> DEFINE u == SubSeq(s, m + 1, Len(s))
  <2>1. u \in Seq(S) /\ Len(u) = Len(s) - m /\ \A i \in 1 .. (Len(s) - m) : u[i] = s[m + i]
        BY <1>1, <1>4, PieceBetween
  <2>2. \A i \in 1 .. Len(y) : Len(x) + i \in 1 .. (Len(s) - c) /\ c + (Len(x) + i) = m + i
        BY <1>1, <1>4 DEF m
  <2> HIDE DEF u
  <2>3. ASSUME NEW i \in 1 .. Len(y) PROVE u[i] = y[i]
    <3>1. u[i] = s[m + i]
          BY <1>4, <2>1
    <3>2. z[Len(x) + i] = s[m + i]
          BY <1>3, <2>2
    <3>3. z[Len(x) + i] = y[i]
          BY <1>2 DEF z
    <3> QED BY <3>1, <3>2, <3>3
  <2>4. u = y
        BY <1>4, <2>1, <2>3, SeqEqual
  <2> QED BY <2>4 DEF u
<1> QED BY <1>1, <1>4, <1>5, <1>6 DEF m, EachPiece

----------------------------------------------------------------------------
(* What becomes of the envelopes.                                          *)

\* The types of the writer's own variables; its client is idle or appends, and
\* what the append is about to return is no outcome of a read.
WriterTypes ==
    /\ pending_events \in Seq(Envelopes)
    /\ added \in Seq(Envelopes) /\ Len(added) <= MaxAdds
    /\ flushes \in Seq([envs : Seq(Envelopes),
                        outcome : {"ok", "exists", "error", "cancelled", "crashed"}])
    /\ cut_off \subseteq Batches
    /\ call[Writer].op \in {"none", "append_events"}
    /\ pc[Writer] = "idle" => InFlight = <<>>
    /\ pc[Writer] = "returning" => result[Writer] \in {"ok", "exists", "error"}

WriterInv == TypeInv /\ WriterTypes /\ NothingForgotten

\* What is in flight is a sequence of envelopes.
LEMMA InFlightTyped == TypeInv => InFlight \in Seq(Envelopes)
<1> SUFFICES ASSUME TypeInv PROVE InFlight \in Seq(Envelopes)
    OBVIOUS
<1>1. call[Writer] \in Calls \cup {NoCall}
      BY SyncBatchWriterAssumption DEF TypeInv, TypeOK
<1>2. Calls \cup {NoCall} \subseteq CallTypes
      BY CallsTyped
<1> QED BY <1>1, <1>2 DEF InFlight, CallTypes

\* What is pending was added: it is one of the batches that callers pass.
LEMMA PendingIsBatch == WriterInv => pending_events \in Batches
<1> SUFFICES ASSUME WriterInv PROVE pending_events \in Batches
    OBVIOUS
<1>0. added \in Seq(Envelopes) /\ Len(added) <= MaxAdds /\ pending_events \in Seq(Envelopes)
      /\ InFlight \in Seq(Envelopes) /\ MaxAdds \in Nat
      BY InFlightTyped, SyncBatchWriterAssumption DEF WriterInv, WriterTypes
<1>1. PICK cut \in [0 .. Len(flushes) -> 0 .. Len(added)] :
          SubSeq(added, cut[Len(flushes)] + 1, Len(added)) = InFlight \o pending_events
      BY DEF WriterInv, NothingForgotten
<1> DEFINE c == cut[Len(flushes)]
<1>2. c \in 0 .. Len(added)
  <2>1. Len(flushes) \in 0 .. Len(flushes)
        BY DEF WriterInv, WriterTypes
  <2> QED BY <1>1, <2>1
<1> HIDE DEF c
<1>3. EachPiece(added, c, InFlight, pending_events)
  <2>1. TwoPieces(added, c, InFlight, pending_events)
        BY <1>1 DEF c, TwoPieces
  <2> QED BY <1>0, <1>2, <2>1, PiecesSplit
<1>4. /\ c + Len(InFlight) \in c .. Len(added)
      /\ SubSeq(added, c + Len(InFlight) + 1, Len(added)) = pending_events
      BY <1>3 DEF EachPiece
<1> DEFINE m == c + Len(InFlight)
<1>5. m \in Nat /\ m <= Len(added) /\ Len(added) \in Nat
      BY <1>0, <1>2, <1>4
<1> HIDE DEF m
<1>6. Len(SubSeq(added, m + 1, Len(added))) = Len(added) - m
      BY <1>0, <1>5, PieceBetween
<1>7. Len(pending_events) \in 0 .. MaxAdds
      BY <1>0, <1>4, <1>5, <1>6 DEF m
<1>8. pending_events \in [1 .. Len(pending_events) -> Envelopes]
      BY <1>0
<1>9. pending_events \in BoundedSeq(Envelopes, MaxAdds)
      BY <1>7, <1>8 DEF BoundedSeq, SeqOf
<1> QED BY <1>9, SyncBatchWriterAssumption

\* Except for a dropped flush, the writer makes steps of the store.
LEMMA StoreSteps == WriterInv /\ [WriterNext]_allVars => [Next]_vars \/ CancelFlush
<1> SUFFICES ASSUME WriterInv, [WriterNext]_allVars, ~CancelFlush PROVE Next \/ UNCHANGED vars
    OBVIOUS
<1>0. pending_events \in Batches /\ Writer \in Clients /\ OtherCalls \subseteq Calls
      BY PendingIsBatch, SyncBatchWriterAssumption DEF WriterInv
<1>1. CASE flush
  <2> DEFINE r == [op |-> "append_events", envs |-> pending_events]
  <2>1. Invoke(Writer, r)
        BY <1>1 DEF flush
  <2>2. r \in Calls
    <3>1. pending_events \in Batches \ {<<>>}
          BY <1>0, <1>1 DEF flush
    <3>2. "append_events" \in AppendOps \ {"append_event"}
          BY DEF AppendOps
    <3>3. r \in {[op |-> o, envs |-> b] : o \in AppendOps \ {"append_event"}, b \in Batches \ {<<>>}}
          BY <3>1, <3>2
    <3> QED BY <3>3 DEF Calls
  <2> HIDE DEF r
  <2> QED BY <1>0, <2>1, <2>2 DEF Next
<1>2. ASSUME NEW c \in Clients, Progress(c) \/ Acquire(c) \/ Fail(c) \/ \E r \in OtherCalls : Invoke(c, r)
      PROVE  Next
      BY <1>0, <1>2 DEF Next, Progress, StoreStep, FlushReturns, Acquire
<1>3. CASE WriterCrash \/ Reopen
      BY <1>3 DEF Next, WriterCrash
<1>4. CASE \E e \in Envelopes : add_event(e)
      BY <1>4 DEF add_event
<1>5. CASE UNCHANGED allVars
      BY <1>5 DEF allVars
<1> QED BY <1>1, <1>2, <1>3, <1>4, <1>5 DEF WriterNext, flush_if_full, Others

\* A dropped flush only leaves the lock's queue.
LEMMA CancelTypes == TypeInv /\ CancelFlush => TypeInv'
<1> SUFFICES ASSUME TypeInv, CancelFlush PROVE TypeInv'
    OBVIOUS
<1>1. queue' \in Seq(Clients)
  <2>1. PICK i \in DOMAIN queue : queue' = RemoveAt(queue, i)
        BY DEF CancelFlush
  <2>2. queue \in Seq(Clients)
        BY DEF TypeInv, TypeOK
  <2> DEFINE x == SubSeq(queue, 1, i - 1)
             y == SubSeq(queue, i + 1, Len(queue))
  <2>3. x \in Seq(Clients) /\ y \in Seq(Clients)
        BY <2>2
  <2>4. queue' = x \o y
        BY <2>1 DEF RemoveAt
  <2> HIDE DEF x, y
  <2> QED BY <2>3, <2>4
<1>2. TypeOK'
      BY <1>1, SyncBatchWriterAssumption DEF CancelFlush, TypeInv, TypeOK, dbVars, envVars
<1>3. OpInv'
      BY SyncBatchWriterAssumption DEF CancelFlush, TypeInv, TypeOK, OpInv
<1> QED BY <1>2, <1>3 DEF TypeInv

\* So the writer keeps the types of the store.
LEMMA StoreTypes == WriterInv /\ [WriterNext]_allVars => TypeInv'
BY StoreSteps, CancelTypes, TypeNext DEF WriterInv

\* A step of the store that is no return to the writer.
LEMMA WriterStill ==
    ASSUME TypeInv, WriterTypes, UNCHANGED writerVars,
           \/ \E c \in Clients : StoreStep(c) \/ Acquire(c) \/ Fail(c)
           \/ \E c \in Others : Return(c) \/ \E r \in OtherCalls : Invoke(c, r)
           \/ Reopen
    PROVE  WriterTypes' /\ InFlight' = InFlight
<1> USE SyncBatchWriterAssumption DEF writerVars, dbVars, envVars, lockVars
<1>0. /\ call[Writer].op \notin {"compact", "read"} /\ pc[Writer] # "reading"
      /\ pc \in [Clients -> {"idle", "waiting", "locked", "validated", "reading", "returning"}]
      /\ call \in [Clients -> Calls \cup {NoCall}]
      /\ result \in [Clients -> {"none", "ok", "exists", "error", "corrupt"}]
      BY DEF TypeInv, TypeOK, OpInv, WriterTypes
<1>1. /\ call'[Writer] = call[Writer]
      /\ pc'[Writer] = "idle" => pc[Writer] = "idle"
      /\ pc'[Writer] = "returning" =>
             \/ result'[Writer] \in {"ok", "exists", "error"}
             \/ pc[Writer] = "returning" /\ result'[Writer] = result[Writer]
  <2>1. ASSUME NEW c \in Others, Return(c) \/ \E r \in OtherCalls : Invoke(c, r)
        PROVE  UNCHANGED <<pc[Writer], call[Writer], result[Writer]>>
        BY <1>0, <2>1 DEF Others, Return, Invoke
  <2>2. ASSUME NEW c \in Clients \ {Writer}, StoreStep(c) \/ Acquire(c) \/ Fail(c)
        PROVE  UNCHANGED <<pc[Writer], call[Writer], result[Writer]>>
        BY <1>0, <2>2 DEF StoreStep, Validate, Write, Compact, Read, Acquire, AcquireWrite, AcquireRead, Fail
  <2>3. ASSUME StoreStep(Writer) \/ Acquire(Writer) \/ Fail(Writer)
        PROVE  /\ call'[Writer] = call[Writer] /\ pc'[Writer] # "idle"
               /\ pc'[Writer] = "returning" => result'[Writer] \in {"ok", "exists", "error"}
        BY <1>0, <2>3 DEF StoreStep, Validate, Write, Compact, Read, Acquire, AcquireWrite, AcquireRead, Fail
  <2>4. ASSUME Reopen PROVE UNCHANGED <<pc[Writer], call[Writer], result[Writer]>>
        BY <2>4 DEF Reopen
  <2> QED BY <2>1, <2>2, <2>3, <2>4
<1> QED BY <1>1 DEF WriterTypes, InFlight

\* Nothing is forgotten by a step that leaves the envelopes where they are.
LEMMA NothingMoves ==
    ASSUME NothingForgotten, UNCHANGED <<added, flushes>>,
           (InFlight \o pending_events)' = InFlight \o pending_events
    PROVE  NothingForgotten'
BY DEF NothingForgotten

\* Nor by the end of a flush, which takes its batch off the front of what is in
\* flight and pending.
LEMMA BatchEnds ==
    ASSUME NothingForgotten, WriterTypes, InFlight \in Seq(Envelopes),
           NEW x \in Seq(Envelopes), NEW y \in Seq(Envelopes), NEW outcome,
           InFlight \o pending_events = x \o y,
           added' = added, flushes' = Append(flushes, [envs |-> x, outcome |-> outcome]),
           (InFlight \o pending_events)' = y
    PROVE  NothingForgotten'
<1> DEFINE n == Len(flushes)
           last == [envs |-> x, outcome |-> outcome]
<1>0. n \in Nat /\ DOMAIN flushes = 1 .. n /\ added \in Seq(Envelopes) /\ Len(added) \in Nat
      BY DEF WriterTypes
<1>1. PICK cut \in [0 .. n -> 0 .. Len(added)] :
          /\ cut[0] = 0
          /\ \A i \in DOMAIN flushes :
                cut[i - 1] <= cut[i] /\ flushes[i].envs = SubSeq(added, cut[i - 1] + 1, cut[i])
          /\ SubSeq(added, cut[n] + 1, Len(added)) = InFlight \o pending_events
      BY DEF NothingForgotten
<1> DEFINE c == cut[n]
           m == cut[n] + Len(x)
<1>2. c \in 0 .. Len(added)
  <2>1. n \in 0 .. n
        BY <1>0
  <2> QED BY <1>1, <2>1
<1> HIDE DEF c
<1>3. EachPiece(added, c, x, y)
  <2>1. TwoPieces(added, c, x, y)
        BY <1>1 DEF c, TwoPieces
  <2> QED BY <1>0, <1>2, <2>1, PiecesSplit
<1>4. /\ c + Len(x) \in c .. Len(added)
      /\ SubSeq(added, c + 1, c + Len(x)) = x
      /\ SubSeq(added, c + Len(x) + 1, Len(added)) = y
      BY <1>3 DEF EachPiece
<1>5. m \in 0 .. Len(added) /\ c <= m
      BY <1>0, <1>2, <1>4 DEF c
<1>6. /\ Len(flushes') = n + 1 /\ DOMAIN flushes' = 1 .. (n + 1)
      /\ \A i \in 1 .. n : flushes'[i] = flushes[i]
      /\ flushes'[n + 1].envs = x
  <2> DEFINE R == {flushes[i] : i \in DOMAIN flushes} \cup {last}
  <2>1. flushes \in Seq(R) /\ last \in R
        BY DEF WriterTypes
  <2>2. last.envs = x
        OBVIOUS
  <2> HIDE DEF R, last
  <2>3. flushes' = Append(flushes, last)
        BY DEF last
  <2> QED BY <1>0, <2>1, <2>2, <2>3
<1> DEFINE cut2 == [i \in 0 .. (n + 1) |-> IF i <= n THEN cut[i] ELSE m]
<1> HIDE DEF m, n
<1>7. /\ cut2 \in [0 .. (n + 1) -> 0 .. Len(added)]
      /\ \A i \in 0 .. n : cut2[i] = cut[i]
      /\ cut2[n + 1] = m
      BY <1>0, <1>1, <1>5
<1>8. cut2[0] = 0
      BY <1>0, <1>1, <1>7
<1>9. ASSUME NEW i \in 1 .. (n + 1)
      PROVE  cut2[i - 1] <= cut2[i] /\ flushes'[i].envs = SubSeq(added, cut2[i - 1] + 1, cut2[i])
  <2>1. CASE i \in 1 .. n
    <3>1. i \in 0 .. n /\ i - 1 \in 0 .. n
          BY <1>0, <2>1
    <3> QED BY <1>0, <1>1, <1>6, <1>7, <2>1, <3>1
  <2>2. CASE i = n + 1
    <3>1. i - 1 = n /\ n \in 0 .. n
          BY <1>0, <2>2
    <3>2. cut2[i - 1] = c /\ cut2[i] = m
          BY <1>7, <2>2, <3>1 DEF c, n
    <3> QED BY <1>4, <1>5, <1>6, <2>2, <3>2 DEF c, m, n
  <2>3. i \in 1 .. n \/ i = n + 1
        BY <1>0
  <2> QED BY <2>1, <2>2, <2>3
<1>10. SubSeq(added, cut2[n + 1] + 1, Len(added)) = y
       BY <1>4, <1>7 DEF c, m, n
<1> HIDE DEF cut2
<1>11. \E k \in [0 .. Len(flushes') -> 0 .. Len(added')] :
          /\ k[0] = 0
          /\ \A i \in DOMAIN flushes' :
                k[i - 1] <= k[i] /\ flushes'[i].envs = SubSeq(added', k[i - 1] + 1, k[i])
          /\ SubSeq(added', k[Len(flushes')] + 1, Len(added')) = (InFlight \o pending_events)'
       BY <1>6, <1>7, <1>8, <1>9, <1>10
<1> QED BY <1>11 DEF NothingForgotten

\* Nor by add_event: what is added is pending, behind everything else.
LEMMA EnvelopeAdded ==
    ASSUME WriterInv, NEW e \in Envelopes, add_event(e)
    PROVE  NothingForgotten'
<1>0. /\ added \in Seq(Envelopes) /\ pending_events \in Seq(Envelopes) /\ InFlight \in Seq(Envelopes)
      /\ Len(flushes) \in Nat /\ DOMAIN flushes = 1 .. Len(flushes) /\ Len(added) \in Nat
      BY InFlightTyped DEF WriterInv, WriterTypes
<1>1. /\ added' = Append(added, e) /\ pending_events' = Append(pending_events, e)
      /\ flushes' = flushes /\ InFlight' = InFlight
      BY DEF add_event, InFlight, vars
<1>2. PICK cut \in [0 .. Len(flushes) -> 0 .. Len(added)] :
          /\ cut[0] = 0
          /\ \A i \in DOMAIN flushes :
                cut[i - 1] <= cut[i] /\ flushes[i].envs = SubSeq(added, cut[i - 1] + 1, cut[i])
          /\ SubSeq(added, cut[Len(flushes)] + 1, Len(added)) = InFlight \o pending_events
      BY DEF WriterInv, NothingForgotten
<1>3. Len(added') = Len(added) + 1
      BY <1>0, <1>1
<1>4. cut \in [0 .. Len(flushes') -> 0 .. Len(added')]
  <2>1. 0 .. Len(added) \subseteq 0 .. Len(added')
        BY <1>0, <1>3
  <2> QED BY <1>1, <1>2, <2>1
<1>5. ASSUME NEW i \in DOMAIN flushes
      PROVE  flushes[i].envs = SubSeq(added', cut[i - 1] + 1, cut[i])
  <2> DEFINE a == cut[i - 1]
             b == cut[i]
  <2>1. a \in 0 .. Len(added) /\ b \in 0 .. Len(added) /\ a <= b /\ flushes[i].envs = SubSeq(added, a + 1, b)
    <3>1. i \in 0 .. Len(flushes) /\ i - 1 \in 0 .. Len(flushes)
          BY <1>0
    <3> QED BY <1>2, <3>1
  <2> HIDE DEF a, b
  <2>2. SubSeq(Append(added, e), a + 1, b) = SubSeq(added, a + 1, b)
    <3>1. a \in Nat /\ b \in Nat /\ b <= Len(added)
          BY <1>0, <2>1
    <3> QED BY <1>0, <2>1, <3>1, PieceOfLonger
  <2> QED BY <1>1, <2>1, <2>2 DEF a, b
<1>6. SubSeq(added', cut[Len(flushes)] + 1, Len(added')) = (InFlight \o pending_events)'
  <2> DEFINE a == cut[Len(flushes)]
             l == Len(added)
  <2>1. a \in Nat /\ a <= l /\ l \in Nat /\ l <= l
    <3>1. Len(flushes) \in 0 .. Len(flushes)
          BY <1>0
    <3>2. a \in 0 .. Len(added)
          BY <1>2, <3>1
    <3> QED BY <1>0, <3>2
  <2> HIDE DEF a
  <2>2. SubSeq(Append(added, e), a + 1, Len(added) + 1) = Append(SubSeq(added, a + 1, Len(added)), e)
        BY <1>0, <2>1, PieceOfLonger
  <2>3. SubSeq(added, a + 1, Len(added)) = InFlight \o pending_events
        BY <1>2 DEF a
  <2>4. Append(InFlight \o pending_events, e) = InFlight \o Append(pending_events, e)
    <3>1. \A s, t \in Seq(Envelopes) : Append(s \o t, e) = s \o Append(t, e)
      <4> SUFFICES ASSUME NEW s \in Seq(Envelopes), NEW t \in Seq(Envelopes)
                   PROVE  Append(s \o t, e) = s \o Append(t, e)
          OBVIOUS
      <4>1. s \o t \in Seq(Envelopes) /\ <<e>> \in Seq(Envelopes)
            OBVIOUS
      <4>2. Append(t, e) = t \o <<e>>
            BY AppendIsConcat
      <4>3. Append(s \o t, e) = (s \o t) \o <<e>>
            BY <4>1, AppendIsConcat
      <4>4. (s \o t) \o <<e>> = s \o (t \o <<e>>)
            BY <4>1, ConcatAssociative
      <4> QED BY <4>2, <4>3, <4>4
    <3> QED BY <1>0, <3>1
  <2> QED BY <1>1, <1>3, <2>2, <2>3, <2>4 DEF a
<1>7. \E k \in [0 .. Len(flushes') -> 0 .. Len(added')] :
          /\ k[0] = 0
          /\ \A i \in DOMAIN flushes' :
                k[i - 1] <= k[i] /\ flushes'[i].envs = SubSeq(added', k[i - 1] + 1, k[i])
          /\ SubSeq(added', k[Len(flushes')] + 1, Len(added')) = (InFlight \o pending_events)'
      BY <1>1, <1>2, <1>4, <1>5, <1>6
<1> QED BY <1>7 DEF NothingForgotten

\* A batch that ended is one more flush.
LEMMA EndedTyped ==
    ASSUME WriterTypes, NEW x \in Seq(Envelopes),
           NEW o \in {"ok", "exists", "error", "cancelled", "crashed"}
    PROVE  Append(flushes, [envs |-> x, outcome |-> o])
               \in Seq([envs : Seq(Envelopes), outcome : {"ok", "exists", "error", "cancelled", "crashed"}])
<1> DEFINE R == [envs : Seq(Envelopes), outcome : {"ok", "exists", "error", "cancelled", "crashed"}]
           f == [envs |-> x, outcome |-> o]
<1>1. f \in R /\ flushes \in Seq(R)
      BY DEF WriterTypes
<1> HIDE DEF R, f
<1>2. Append(flushes, f) \in Seq(R)
      BY <1>1
<1> QED BY <1>2 DEF R, f

\* A sequence and the empty one.
LEMMA ConcatNothing == \A s \in Seq(Envelopes) : <<>> \o s = s /\ s \o <<>> = s
BY ConcatEmptySeq

\* The writer's flush comes back, or is dropped.
LEMMA FlushEnds ==
    ASSUME WriterInv, FlushReturns \/ CancelFlush
    PROVE  WriterTypes' /\ NothingForgotten'
<1> DEFINE o == IF FlushReturns THEN result[Writer] ELSE "cancelled"
           x == InFlight
           y == pending_events
<1>0. /\ WriterTypes /\ NothingForgotten /\ Writer \in Clients
      /\ InFlight \in Seq(Envelopes) /\ pending_events \in Seq(Envelopes)
      BY InFlightTyped, SyncBatchWriterAssumption DEF WriterInv, WriterTypes
<1>1. o \in {"ok", "exists", "error", "cancelled", "crashed"}
      BY <1>0 DEF WriterTypes, FlushReturns, Return
<1>2. flushes' = Append(flushes, [envs |-> InFlight, outcome |-> o])
      BY DEF FlushReturns, CancelFlush, Ended
<1>3. UNCHANGED <<pending_events, added, cut_off>>
      BY DEF FlushReturns, CancelFlush
<1>4. pc'[Writer] = "idle" /\ call'[Writer] = NoCall
  <2>1. pc' = [pc EXCEPT ![Writer] = "idle"] /\ call' = [call EXCEPT ![Writer] = NoCall]
        BY DEF FlushReturns, Return, CancelFlush
  <2> QED BY <1>0, <2>1 DEF WriterInv, TypeInv, TypeOK
<1>5. InFlight' = <<>> /\ call'[Writer].op = "none"
      BY <1>4 DEF InFlight, NoCall
<1> HIDE DEF o
<1>6. WriterTypes'
      BY <1>0, <1>1, <1>2, <1>3, <1>4, <1>5, EndedTyped DEF WriterTypes
<1>7. (InFlight \o pending_events)' = pending_events
      BY <1>0, <1>3, <1>5, ConcatNothing
<1>8. NothingForgotten'
  <2> SUFFICES ASSUME NEW CONSTANT a, NEW CONSTANT b, a = InFlight, b = pending_events
               PROVE  NothingForgotten'
      OBVIOUS
  <2>1. a \in Seq(Envelopes) /\ b \in Seq(Envelopes) /\ InFlight \o pending_events = a \o b
        BY <1>0
  <2>2. flushes' = Append(flushes, [envs |-> a, outcome |-> o]) /\ (InFlight \o pending_events)' = b
        BY <1>2, <1>7
  <2> QED BY <1>0, <1>3, <2>1, <2>2, BatchEnds
<1> QED BY <1>6, <1>8

\* The process stops, and what was in flight or pending ends there.
LEMMA WriterStops ==
    ASSUME WriterInv, WriterCrash
    PROVE  WriterTypes' /\ NothingForgotten'
<1> DEFINE x == InFlight \o pending_events
<1>0. /\ WriterTypes /\ NothingForgotten /\ Writer \in Clients /\ TypeInv
      /\ InFlight \in Seq(Envelopes) /\ pending_events \in Seq(Envelopes) /\ <<>> \in Seq(Envelopes)
      BY InFlightTyped, SyncBatchWriterAssumption DEF WriterInv, WriterTypes
<1>1. x \in Seq(Envelopes)
      BY <1>0
<1>2. flushes' = Append(flushes, [envs |-> x, outcome |-> "crashed"]) /\ added' = added /\ pending_events' = <<>>
      BY DEF WriterCrash, Ended
<1>3. pc'[Writer] = "idle" /\ call'[Writer] = NoCall
      BY <1>0 DEF WriterCrash, Crash
<1>4. InFlight' = <<>> /\ call'[Writer].op = "none"
      BY <1>3 DEF InFlight, NoCall
<1>5. cut_off' \subseteq Batches
  <2>1. \A c \in Written : call[c].envs \in Batches
        BY <1>0, CallBatch DEF Written, TypeInv, TypeOK
  <2> QED BY <1>0, <2>1 DEF WriterCrash, WriterTypes
<1> HIDE DEF x
<1>6. WriterTypes'
      BY <1>0, <1>1, <1>2, <1>3, <1>4, <1>5, EndedTyped DEF WriterTypes
<1>7. (InFlight \o pending_events)' = <<>>
      BY <1>0, <1>2, <1>4, ConcatNothing
<1>8. NothingForgotten'
  <2> SUFFICES ASSUME NEW CONSTANT a, a = x
               PROVE  NothingForgotten'
      OBVIOUS
  <2>1. InFlight \o pending_events = a \o <<>>
        BY <1>1, ConcatNothing DEF x
  <2> QED BY <1>0, <1>1, <1>2, <1>7, <2>1, BatchEnds
<1> QED BY <1>6, <1>8

\* A flush moves all that is pending into flight.
LEMMA FlushStarts ==
    ASSUME WriterInv, flush
    PROVE  WriterTypes' /\ NothingForgotten'
<1>0. /\ WriterTypes /\ NothingForgotten /\ Writer \in Clients
      /\ pending_events \in Seq(Envelopes) /\ <<>> \in Seq(Envelopes)
      BY SyncBatchWriterAssumption DEF WriterInv, WriterTypes
<1> DEFINE r == [op |-> "append_events", envs |-> pending_events]
<1>1. /\ pc[Writer] = "idle" /\ pc' = [pc EXCEPT ![Writer] = "waiting"]
      /\ call' = [call EXCEPT ![Writer] = r]
      /\ pending_events' = <<>> /\ UNCHANGED <<added, flushes, cut_off>>
      BY DEF flush, Invoke
<1>2. r.op = "append_events" /\ r.envs = pending_events
      OBVIOUS
<1> HIDE DEF r
<1>3. pc'[Writer] = "waiting" /\ call'[Writer] = r
      BY <1>0, <1>1 DEF WriterInv, TypeInv, TypeOK
<1>4. InFlight = <<>> /\ InFlight' = pending_events /\ call'[Writer].op = "append_events"
      BY <1>0, <1>1, <1>2, <1>3 DEF WriterTypes, InFlight
<1>5. WriterTypes'
      BY <1>0, <1>1, <1>3, <1>4 DEF WriterTypes
<1>6. (InFlight \o pending_events)' = InFlight \o pending_events
      BY <1>0, <1>1, <1>4, ConcatNothing
<1>7. NothingForgotten'
      BY <1>0, <1>1, <1>6, NothingMoves
<1> QED BY <1>5, <1>7

\* Every step keeps the types, and every envelope accounted for.
LEMMA WriterStep == WriterInv /\ [WriterNext]_allVars => WriterInv'
<1> SUFFICES ASSUME WriterInv, [WriterNext]_allVars PROVE WriterInv'
    OBVIOUS
<1>0. TypeInv /\ WriterTypes /\ NothingForgotten
      BY DEF WriterInv
<1>1. TypeInv'
      BY StoreTypes
<1>2. ASSUME NEW e \in Envelopes, add_event(e) PROVE WriterTypes' /\ NothingForgotten'
  <2>1. /\ added' = Append(added, e) /\ pending_events' = Append(pending_events, e) /\ Len(added) < MaxAdds
        /\ UNCHANGED <<flushes, cut_off, pc, call, result>>
        BY <1>2 DEF add_event, vars
  <2>2. /\ added' \in Seq(Envelopes) /\ pending_events' \in Seq(Envelopes) /\ Len(added') <= MaxAdds
        BY <1>0, <2>1, SyncBatchWriterAssumption DEF WriterTypes
  <2>3. WriterTypes'
        BY <1>0, <2>1, <2>2 DEF WriterTypes, InFlight
  <2> QED BY <1>2, <2>3, EnvelopeAdded
<1>3. ASSUME UNCHANGED writerVars,
             \/ \E c \in Clients : StoreStep(c) \/ Acquire(c) \/ Fail(c)
             \/ \E c \in Others : Return(c) \/ \E r \in OtherCalls : Invoke(c, r)
             \/ Reopen
      PROVE  WriterTypes' /\ NothingForgotten'
  <2>1. WriterTypes' /\ InFlight' = InFlight
        BY <1>0, <1>3, WriterStill
  <2>2. (InFlight \o pending_events)' = InFlight \o pending_events /\ UNCHANGED <<added, flushes>>
        BY <1>3, <2>1 DEF writerVars
  <2> QED BY <1>0, <2>1, <2>2, NothingMoves
<1>4. ASSUME UNCHANGED allVars PROVE WriterTypes' /\ NothingForgotten'
  <2>1. /\ UNCHANGED <<pending_events, added, flushes, cut_off, pc, call, result>>
        /\ InFlight' = InFlight
        BY <1>4 DEF allVars, vars, writerVars, InFlight
  <2>2. WriterTypes'
        BY <1>0, <2>1 DEF WriterTypes
  <2>3. NothingForgotten'
        BY <1>0, <2>1, NothingMoves
  <2> QED BY <2>2, <2>3
<1>5. ASSUME NEW c \in Clients, Progress(c) PROVE WriterTypes' /\ NothingForgotten'
  <2>1. CASE StoreStep(c)
        BY <1>3, <2>1 DEF StoreStep
  <2>2. CASE c \in Others /\ Return(c) /\ UNCHANGED writerVars
        BY <1>3, <2>2
  <2>3. CASE FlushReturns
        BY <2>3, FlushEnds
  <2> QED BY <1>5, <2>1, <2>2, <2>3 DEF Progress
<1>6. WriterTypes' /\ NothingForgotten'
      BY <1>2, <1>3, <1>4, <1>5, FlushEnds, WriterStops, FlushStarts DEF WriterNext, flush_if_full
<1> QED BY <1>1, <1>6 DEF WriterInv

\* The writer starts with nothing added.
LEMMA WriterStart == WriterInit => WriterInv
<1> SUFFICES ASSUME WriterInit PROVE WriterInv
    OBVIOUS
<1>1. /\ Init /\ pending_events = <<>> /\ added = <<>> /\ flushes = <<>> /\ cut_off = {}
      BY DEF WriterInit
<1>2. TypeInv
      BY <1>1, TypeInit
<1>3. pc[Writer] = "idle" /\ call[Writer] = NoCall /\ InFlight = <<>> /\ call[Writer].op = "none"
      BY <1>1, SyncBatchWriterAssumption DEF Init, InFlight, NoCall
<1>4. WriterTypes
      BY <1>1, <1>3, SyncBatchWriterAssumption DEF WriterTypes
<1>5. NothingForgotten
  <2> DEFINE cut == [i \in {0} |-> 0]
  <2>1. Len(flushes) = 0 /\ Len(added) = 0 /\ 0 .. 0 = {0} /\ DOMAIN flushes = {}
        BY <1>1
  <2>2. cut \in [0 .. Len(flushes) -> 0 .. Len(added)] /\ cut[0] = 0
        BY <2>1
  <2>3. SubSeq(added, cut[Len(flushes)] + 1, Len(added)) = <<>>
        BY <1>1, <2>1
  <2>4. InFlight \o pending_events = <<>>
        BY <1>1, <1>3
  <2> HIDE DEF cut
  <2> QED BY <2>1, <2>2, <2>3, <2>4 DEF NothingForgotten
<1> QED BY <1>2, <1>4, <1>5 DEF WriterInv

\* The writer and the store under it keep their types, whoever else uses the
\* store: in particular a flush never returns what only a read can.
THEOREM WriterTypesHold == WriterSpec => []WriterTypeOK
<1>1. WriterInv => WriterTypeOK
      BY DEF WriterInv, WriterTypes, WriterTypeOK, TypeInv
<1> QED BY <1>1, WriterStart, WriterStep, PTL DEF WriterSpec

\* Every envelope given to add_event is, in that order, in a batch whose flush
\* ended, in the flush in progress or pending: no envelope is skipped, repeated
\* or moved by a flush that fails, is dropped or is cut off by a crash.
THEOREM NeverForgets == WriterSpec => []NothingForgotten
<1>1. WriterInv => NothingForgotten
      BY DEF WriterInv
<1> QED BY <1>1, WriterStart, WriterStep, PTL DEF WriterSpec

----------------------------------------------------------------------------
(* What the store promises, with the writer among its clients.             *)

\* A dropped flush held nothing and had promised nothing.
LEMMA CancelKeeps ==
    ASSUME KeyInv, AckedInv, CancelFlush
    PROVE  KeyInv' /\ AckedInv' /\ UNCHANGED <<wal, synced, crashes>>
<1> USE DEF dbVars, envVars
<1>1. TypeInv' /\ Writer \in Clients /\ pc[Writer] = "waiting"
      /\ pc \in [Clients -> {"idle", "waiting", "locked", "validated", "reading", "returning"}]
      /\ call \in [Clients -> Calls \cup {NoCall}]
      BY CancelTypes, SyncBatchWriterAssumption DEF CancelFlush, KeyInv, TypeInv, TypeOK
<1>2. UNCHANGED <<wal, synced, config, acked, crashes, up, lock, result>>
      BY DEF CancelFlush
<1>3. \A c \in Clients : c # Writer => pc'[c] = pc[c] /\ call'[c] = call[c]
      BY <1>1 DEF CancelFlush
<1>4. pc'[Writer] = "idle"
      BY <1>1 DEF CancelFlush
<1>5. LockInv' /\ DownInv'
      BY <1>1, <1>2, <1>3, <1>4 DEF KeyInv, LockInv, Holds, DownInv
<1>6. Fresh' /\ NoOverwrite'
      BY <1>1, <1>2, <1>3, <1>4 DEF KeyInv, Fresh, NoOverwrite
<1>7. \A c \in Clients : AppendedOk(c)' => AppendedOk(c) /\ call'[c] = call[c]
      BY <1>1, <1>2, <1>3, <1>4 DEF AppendedOk
<1>8. OkInv' /\ AckInv'
      BY <1>2, <1>7, AckedStill
<1> QED BY <1>1, <1>2, <1>5, <1>6, <1>8 DEF KeyInv, AckedInv

StoreInv == WriterInv /\ KeyInv /\ AckedInv

\* The store's invariants hold from the start.
LEMMA StoreStart == WriterInit => StoreInv
BY WriterStart, KeyInit, AckedInit DEF WriterInit, StoreInv

\* And every step of the writer and of the others preserves them.
LEMMA StoreNext == StoreInv /\ [WriterNext]_allVars => StoreInv'
<1> SUFFICES ASSUME StoreInv, [WriterNext]_allVars PROVE StoreInv'
    OBVIOUS
<1>1. WriterInv'
      BY WriterStep DEF StoreInv
<1>2. KeyInv' /\ AckedInv'
      BY StoreSteps, CancelKeeps, KeyNext, AckedNext DEF StoreInv
<1> QED BY <1>1, <1>2 DEF StoreInv

\* No key is written twice, the writer's dropped flushes included.
THEOREM WriterAppendOnly == WriterSpec => []NoOverwrite
<1>1. StoreInv => NoOverwrite
      BY DEF StoreInv, KeyInv
<1> QED BY <1>1, StoreStart, StoreNext, PTL DEF WriterSpec

\* What an append acknowledged, the writer's or another's, stays readable until
\* the next power failure, and for ever when its write was synchronous.
THEOREM WriterAcknowledgedIsStored == WriterSpec => []AckedStored
<1>1. StoreInv => AckedStored
      BY AckedVisible DEF StoreInv
<1> QED BY <1>1, StoreStart, StoreNext, PTL DEF WriterSpec

\* The store with its writer implements the append-only log: a dropped flush
\* is no step of the log.
THEOREM WriterImplements == WriterSpec => Refinement
<1>1. WriterInit => Log!Init
      BY LogInit DEF WriterInit
<1>2. StoreInv /\ StoreInv' /\ [WriterNext]_allVars => [Log!Next]_Log!vars
  <2> SUFFICES ASSUME StoreInv, StoreInv', [WriterNext]_allVars PROVE [Log!Next]_Log!vars
      OBVIOUS
  <2>1. CASE CancelFlush
        BY <2>1, CancelKeeps, LogQuiet DEF StoreInv
  <2>2. CASE [Next]_vars
        BY <2>2, LogNext DEF StoreInv
  <2> QED BY <2>1, <2>2, StoreSteps DEF StoreInv
<1> QED BY <1>1, <1>2, StoreStart, StoreNext, PTL DEF WriterSpec, Refinement, Log!Spec
============================================================================
