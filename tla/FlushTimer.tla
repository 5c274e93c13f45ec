----------------------------- MODULE FlushTimer -----------------------------
(***************************************************************************)
(* The clock of one batch processor (run_batch_processor and flush_batch   *)
(* of event-store/src/batch.rs): how long an envelope waits in a partial   *)
(* batch, and what average_write_latency averages.  BatchProcessor has     *)
(* the processors' interleavings and no time; here there is one processor  *)
(* and time is a number of ticks of the clock behind Instant::now.         *)
(*                                                                         *)
(* tokio::time::interval (external) is ready at once and then every        *)
(* max_batch_delay after its previous DEADLINE; ticks missed during a      *)
(* flush are delivered one after another (MissedTickBehavior::Burst, the   *)
(* default).  The processor is scheduled promptly: while it waits in       *)
(* select!, no time passes once a tick is due.  A flush takes whatever     *)
(* the store takes, up to MaxLatency.                                      *)
(***************************************************************************)
EXTENDS Naturals, Sequences

CONSTANTS
    MaxBatchDelay,  \* BatchConfig::max_batch_delay
    MaxBatchSize,   \* BatchConfig::max_batch_size
    MaxLatency,     \* bound on the duration of a flush
    MaxTime,        \* bound on the clock
    MaxEvents       \* bound on the envelopes received

\* interval(0) panics.
ASSUME FlushTimerAssumption ==
    /\ MaxBatchDelay \in Nat \ {0}
    /\ MaxBatchSize \in Nat
    /\ MaxLatency \in Nat
    /\ MaxTime \in Nat
    /\ MaxEvents \in Nat

VARIABLES
    now,          \* Instant::now()
    next_tick,    \* deadline of batch_timer's next tick
    events,       \* current_batch.events, each as the time it was received
    created_at,   \* current_batch.created_at
    pc,           \* "select", "flush", "last_flush" or "done"
    start_time,   \* start_time of the flush in progress, or of the last one
    batches,      \* metrics.total_batches_processed
    average,      \* metrics.average_write_latency
    latency,      \* history: sum of the durations of the counted flushes
    received      \* history: number of envelopes received

vars == <<now, next_tick, events, created_at, pc, start_time, batches, average,
          latency, received>>

metrics == <<batches, average, latency>>

Partial == events # <<>>

\* Mutant: the batch is flushed when it has outgrown its size.
is_full_late(b) == Len(b) > MaxBatchSize

is_full(b) == Len(b) >= MaxBatchSize

\* Mutant: the deadline is compared with >.
is_expired_late == now - created_at > MaxBatchDelay

is_expired == now - created_at >= MaxBatchDelay

Init ==
    /\ now = 0 /\ next_tick = 0
    /\ events = <<>> /\ created_at = 0
    /\ pc = "select" /\ start_time = 0
    /\ batches = 0 /\ average = 0 /\ latency = 0 /\ received = 0

\* The clock: in select! until the next tick, in a flush up to MaxLatency.
TimePasses ==
    /\ now < MaxTime
    /\ \/ pc = "select" /\ now < next_tick
       \/ pc \in {"flush", "last_flush"} /\ now - start_time < MaxLatency
    /\ now' = now + 1
    /\ UNCHANGED <<next_tick, events, created_at, pc, start_time, metrics, received>>

\* flush_batch begins: it notes the time and calls the store.
BeginFlush(then) == pc' = then /\ start_time' = now

\* An envelope is received; a full batch is flushed.
Receive ==
    /\ pc = "select"
    /\ received < MaxEvents
    /\ received' = received + 1
    /\ events' = Append(events, now)
    /\ IF is_full(events') THEN BeginFlush("flush") ELSE UNCHANGED <<pc, start_time>>
    /\ UNCHANGED <<now, next_tick, created_at, metrics>>

\* The timer branch: a batch that is not empty and has expired is flushed.
Tick ==
    /\ pc = "select"
    /\ now >= next_tick
    /\ next_tick' = next_tick + MaxBatchDelay
    /\ IF Partial /\ is_expired THEN BeginFlush("flush") ELSE UNCHANGED <<pc, start_time>>
    /\ UNCHANGED <<now, events, created_at, metrics, received>>

\* The channel is closed, or the shutdown signal arrives.
Stop ==
    /\ pc = "select"
    /\ IF Partial
         THEN BeginFlush("last_flush")
         ELSE pc' = "done" /\ UNCHANGED start_time
    /\ UNCHANGED <<now, next_tick, events, created_at, metrics, received>>

\* Mutant: the new sum is divided by the count.
average_overstated(n, d) == (average * n + d) \div n

\* average_write_latency after the n-th batch took d: n is the count after its
\* increment, and the sum is divided by one more.
average_write_latency(n, d) == (average * n + d) \div (n + 1)

\* The store answers: an Ok is counted, an error is not, and either way the
\* batch is replaced by a new one, created now.
EndFlush ==
    /\ pc \in {"flush", "last_flush"}
    /\ \/ /\ batches' = batches + 1
          /\ average' = average_write_latency(batches', now - start_time)
          /\ latency' = latency + (now - start_time)
       \/ UNCHANGED metrics
    /\ events' = <<>>
    /\ created_at' = now
    /\ pc' = IF pc = "flush" THEN "select" ELSE "done"
    /\ UNCHANGED <<now, next_tick, start_time, received>>

Next == TimePasses \/ Receive \/ Tick \/ Stop \/ EndFlush

Spec == Init /\ [][Next]_vars

----------------------------------------------------------------------------
TypeOK ==
    /\ now \in Nat /\ next_tick \in Nat
    /\ created_at \in 0 .. now /\ start_time \in 0 .. now
    /\ events \in Seq(0 .. now)
    /\ Len(events) <= MaxBatchSize \/ Len(events) <= 1
    /\ pc \in {"select", "flush", "last_flush", "done"}
    /\ batches \in Nat /\ average \in Nat /\ latency \in Nat /\ received \in Nat

\* The time until which the envelopes of the batch have been waiting.
WaitedUntil == IF pc \in {"flush", "last_flush"} THEN start_time ELSE now

\* No envelope waits 2 * max_batch_delay before its batch is handed to the
\* store, however its arrival, the end of the flush before and the ticks fall,
\* and however many ticks that flush missed.
WaitBounded ==
    \A i \in DOMAIN events : WaitedUntil - events[i] < 2 * MaxBatchDelay

\* average_write_latency is the sum of the latencies over batches + 1, not over
\* batches, as if one more flush had taken no time; rounding takes at most one
\* unit of each division more.
AverageOfOneMore ==
    /\ average * (batches + 1) <= latency
    /\ 2 * (latency - average * (batches + 1)) <= batches * (batches + 1)

----------------------------------------------------------------------------
(* What a comment in the code says, and the code does not do.              *)

\* max_batch_delay is the "Maximum time to wait before flushing a partial
\* batch".
MaxDelay == \A i \in DOMAIN events : WaitedUntil - events[i] <= MaxBatchDelay
============================================================================
