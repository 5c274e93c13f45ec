--------------------------- MODULE BatchProcessor ---------------------------
(***************************************************************************)
(* The batch processor (event-store/src/batch.rs): producers send          *)
(* envelopes over a bounded mpsc channel; several processor tasks share    *)
(* its receiver behind a mutex, gather batches and flush them to the event *)
(* store; shutdown() wakes the tasks that wait in select! at that moment.  *)
(*                                                                         *)
(* External: tokio's channel, mutex, interval, Notify and select!.  The    *)
(* store is what AppendOnlyLog promises plus what it does with two         *)
(* envelopes of one batch under one key (the last put stays).  Time is     *)
(* left out: a tick may come at any moment and may find the batch expired  *)
(* or not.                                                                 *)
(***************************************************************************)
EXTENDS EventKeys, FiniteSets, Functions

CONSTANTS
    Processors,     \* num_processors tasks
    NoProcessor,
    Producers,      \* holders of a clone of the sender
    Input,          \* Input[r]: the envelopes producer r sends, in order
    MaxBatchSize,   \* max_batch_size
    BufferSize,     \* buffer_size
    MaxErrors       \* bound on database errors

ASSUME BatchProcessorAssumption ==
    /\ NoProcessor \notin Processors
    /\ \A r \in Producers : Input[r] \in Seq(EnvelopesOf(Input[r]))
    \* send() moves its envelope: two sends are two envelopes, told apart even
    \* where they have one key.
    /\ \A r, q \in Producers : \A i \in DOMAIN Input[r], j \in DOMAIN Input[q] :
           Input[r][i] = Input[q][j] => r = q /\ i = j
    /\ MaxBatchSize \in Nat \ {0}
    /\ BufferSize \in Nat \ {0}
    /\ MaxErrors \in Nat

VARIABLES
    chan,          \* the mpsc channel
    sent,          \* sent[r]: how many envelopes of r were accepted
    closed,        \* producers that dropped their sender
    rx,            \* processor that holds the receiver's mutex
    pc,            \* "loop" (before select!), "select", "flush", "metrics", "exited"
    batch,         \* current_batch of each processor
    exiting,       \* the processor breaks out of its loop after this flush
    notified,      \* its Notified future has been woken
    result,        \* what the append returned
    store,         \* envelopes in the event store
    metrics,       \* BatchMetrics
    shutdown,      \* shutdown() was called
    rejected,      \* history: envelopes of batches whose append failed
    overwritten,   \* history: envelopes replaced within their batch
    lost           \* history: envelopes dropped with the receiver

vars == <<chan, sent, closed, rx, pc, batch, exiting, notified, result, store, metrics,
          shutdown, rejected, overwritten, lost>>

history == <<rejected, overwritten, lost>>
producerVars == <<sent, closed>>

AllInput == UNION {EnvelopesOf(Input[r]) : r \in Producers}

Accepted == UNION {{Input[r][i] : i \in 1 .. sent[r]} : r \in Producers}

AllExited == \A p \in Processors : pc[p] = "exited"

\* Mutant: one envelope too many.
is_overfull(b) == Len(b) > MaxBatchSize

\* EventBatch::is_full
is_full(b) == Len(b) >= MaxBatchSize

----------------------------------------------------------------------------
Init ==
    /\ chan = <<>>
    /\ sent = [r \in Producers |-> 0]
    /\ closed = {}
    /\ rx = NoProcessor
    /\ pc = [p \in Processors |-> "loop"]
    /\ batch = [p \in Processors |-> <<>>]
    /\ exiting = [p \in Processors |-> FALSE]
    /\ notified = [p \in Processors |-> FALSE]
    /\ result = [p \in Processors |-> "none"]
    /\ store = {}
    /\ metrics = [events |-> 0, batches |-> 0, errors |-> 0, violations |-> 0]
    /\ shutdown = FALSE
    /\ rejected = {} /\ overwritten = {} /\ lost = {}

\* sender.send(envelope).await: waits for room, fails (without effect on this
\* state) once the receiver is gone.
Send(r) ==
    /\ r \notin closed
    /\ sent[r] < Len(Input[r])
    /\ Len(chan) < BufferSize
    /\ ~AllExited
    /\ chan' = Append(chan, Input[r][sent[r] + 1])
    /\ sent' = [sent EXCEPT ![r] = @ + 1]
    /\ UNCHANGED <<closed, rx, pc, batch, exiting, notified, result, store, metrics, shutdown, history>>

\* A producer drops its sender.
CloseSender(r) ==
    /\ r \notin closed
    /\ closed' = closed \cup {r}
    /\ UNCHANGED <<chan, sent, rx, pc, batch, exiting, notified, result, store, metrics, shutdown, history>>

\* The select! of the next iteration begins: a new Notified listens.
Enter(p) ==
    /\ pc[p] = "loop"
    /\ pc' = [pc EXCEPT ![p] = "select"]
    /\ UNCHANGED <<chan, producerVars, rx, batch, exiting, notified, result, store, metrics, shutdown, history>>

\* event_receiver.lock().await
AcquireReceiver(p) ==
    /\ pc[p] = "select"
    /\ rx = NoProcessor
    /\ rx' = p
    /\ UNCHANGED <<chan, producerVars, pc, batch, exiting, notified, result, store, metrics, shutdown, history>>

\* Mutant: the mutex guard outlives the branch.
LeaveSelectHolding(p) ==
    /\ pc[p] = "select"
    /\ rx' = rx
    /\ notified' = [notified EXCEPT ![p] = FALSE]

\* One branch of select! completes: the futures of the others are dropped, the
\* mutex guard and a Notified that was woken meanwhile among them.
LeaveSelect(p) ==
    /\ pc[p] = "select"
    /\ rx' = IF rx = p THEN NoProcessor ELSE rx
    /\ notified' = [notified EXCEPT ![p] = FALSE]

\* The task ends; with the last one the receiver and what is in the channel go.
Exit(p) ==
    /\ pc' = [pc EXCEPT ![p] = "exited"]
    /\ IF \A q \in Processors \ {p} : pc[q] = "exited"
         THEN lost' = lost \cup EnvelopesOf(chan) /\ chan' = <<>>
         ELSE UNCHANGED <<lost, chan>>

\* Mutant: break without a flush.
ExitAtOnce(p) == Exit(p) /\ UNCHANGED exiting

\* Flush what there is, then break.
FlushAndExit(p) ==
    IF batch[p] = <<>>
      THEN Exit(p) /\ UNCHANGED exiting
      ELSE /\ pc' = [pc EXCEPT ![p] = "flush"]
           /\ exiting' = [exiting EXCEPT ![p] = TRUE]
           /\ UNCHANGED <<lost, chan>>

\* recv() gives Some(envelope).
Receive(p) ==
    /\ LeaveSelect(p)
    /\ rx = p
    /\ chan # <<>>
    /\ batch' = [batch EXCEPT ![p] = Append(@, Head(chan))]
    /\ chan' = Tail(chan)
    /\ pc' = [pc EXCEPT ![p] = IF is_full(batch'[p]) THEN "flush" ELSE "loop"]
    /\ UNCHANGED <<producerVars, exiting, result, store, metrics, shutdown, history>>

\* recv() gives None: every sender is gone and the channel is empty.
ChannelClosed(p) ==
    /\ LeaveSelect(p)
    /\ rx = p
    /\ chan = <<>> /\ closed = Producers
    /\ FlushAndExit(p)
    /\ UNCHANGED <<producerVars, batch, result, store, metrics, shutdown, rejected, overwritten>>

\* Mutant: the timer only flushes full batches.
TickFlushFull(p) ==
    /\ LeaveSelect(p)
    /\ is_full(batch[p])
    /\ pc' = [pc EXCEPT ![p] = "flush"]
    /\ UNCHANGED <<chan, producerVars, batch, exiting, result, store, metrics, shutdown, history>>

\* batch_timer.tick() and the batch has expired
TickFlush(p) ==
    /\ LeaveSelect(p)
    /\ batch[p] # <<>>
    /\ pc' = [pc EXCEPT ![p] = "flush"]
    /\ UNCHANGED <<chan, producerVars, batch, exiting, result, store, metrics, shutdown, history>>

\* batch_timer.tick() and the batch is empty or not yet expired
TickIdle(p) ==
    /\ LeaveSelect(p)
    /\ pc' = [pc EXCEPT ![p] = "loop"]
    /\ UNCHANGED <<chan, producerVars, batch, exiting, result, store, metrics, shutdown, history>>

\* shutdown_notify.notified()
ShutdownBranch(p) ==
    /\ LeaveSelect(p)
    /\ notified[p]
    /\ FlushAndExit(p)
    /\ UNCHANGED <<producerVars, batch, result, store, metrics, shutdown, rejected, overwritten>>

----------------------------------------------------------------------------
(* flush_batch                                                             *)

StoredKeys == {generate_event_key(e) : e \in store}

AlreadyExists(b) == KeysOf(b) \cap StoredKeys # {}

AppendOk(p) ==
    /\ pc[p] = "flush"
    /\ ~AlreadyExists(batch[p])
    /\ store' = store \cup LastPuts(batch[p])
    /\ overwritten' = overwritten \cup (EnvelopesOf(batch[p]) \ LastPuts(batch[p]))
    /\ result' = [result EXCEPT ![p] = "ok"]
    /\ pc' = [pc EXCEPT ![p] = "metrics"]
    /\ UNCHANGED <<chan, producerVars, rx, batch, exiting, notified, metrics, shutdown, rejected, lost>>

AppendErr(p, err) ==
    /\ pc[p] = "flush"
    /\ rejected' = rejected \cup EnvelopesOf(batch[p])
    /\ result' = [result EXCEPT ![p] = err]
    /\ pc' = [pc EXCEPT ![p] = "metrics"]
    /\ UNCHANGED <<chan, producerVars, rx, batch, exiting, notified, store, metrics, shutdown, overwritten, lost>>

AppendExists(p) == AlreadyExists(batch[p]) /\ AppendErr(p, "exists")

\* DatabaseError or SerializationError
AppendFails(p) ==
    /\ (metrics.errors - metrics.violations) + Cardinality({q \in Processors : result[q] = "error"}) < MaxErrors
    /\ AppendErr(p, "error")

\* Mutant: every batch counts as a full one.
UpdatedByCapacity(res, n) ==
    IF res = "ok"
      THEN [metrics EXCEPT !.events = @ + MaxBatchSize, !.batches = @ + 1]
      ELSE [metrics EXCEPT !.errors = @ + 1, !.violations = @ + IF res = "exists" THEN 1 ELSE 0]

\* Mutant: a success makes up for an error.
UpdatedForgiving(res, n) ==
    IF res = "ok"
      THEN [metrics EXCEPT !.events = @ + n, !.batches = @ + 1, !.errors = @ - 1]
      ELSE [metrics EXCEPT !.errors = @ + 1, !.violations = @ + IF res = "exists" THEN 1 ELSE 0]

\* The counters of BatchMetrics after an append of n envelopes.
Updated(res, n) ==
    IF res = "ok"
      THEN [metrics EXCEPT !.events = @ + n, !.batches = @ + 1]
      ELSE [metrics EXCEPT !.errors = @ + 1, !.violations = @ + IF res = "exists" THEN 1 ELSE 0]

\* Mutant: the batch is not reset.
FlushMetricsKeepsBatch(p) ==
    /\ pc[p] = "metrics"
    /\ metrics' = Updated(result[p], Len(batch[p]))
    /\ result' = [result EXCEPT ![p] = "none"]
    /\ IF exiting[p]
         THEN Exit(p)
         ELSE pc' = [pc EXCEPT ![p] = "loop"] /\ UNCHANGED <<lost, chan>>
    /\ UNCHANGED <<producerVars, rx, batch, exiting, notified, store, shutdown, rejected, overwritten>>

\* The batch is reset whatever the append returned.
FlushMetrics(p) ==
    /\ pc[p] = "metrics"
    /\ metrics' = Updated(result[p], Len(batch[p]))
    /\ result' = [result EXCEPT ![p] = "none"]
    /\ batch' = [batch EXCEPT ![p] = <<>>]
    /\ IF exiting[p]
         THEN Exit(p)
         ELSE pc' = [pc EXCEPT ![p] = "loop"] /\ UNCHANGED <<lost, chan>>
    /\ UNCHANGED <<producerVars, rx, exiting, notified, store, shutdown, rejected, overwritten>>

\* shutdown(): notify_waiters wakes the Notified futures that exist now.  The
\* sleep that follows changes nothing.
Shutdown ==
    /\ shutdown' = TRUE
    /\ notified' = [p \in Processors |-> notified[p] \/ pc[p] = "select"]
    /\ UNCHANGED <<chan, producerVars, rx, pc, batch, exiting, result, store, metrics, history>>

----------------------------------------------------------------------------
Next ==
    \/ \E r \in Producers : Send(r)
    \/ \E r \in Producers : CloseSender(r)
    \/ \E p \in Processors : Enter(p)
    \/ \E p \in Processors : AcquireReceiver(p)
    \/ \E p \in Processors : Receive(p)
    \/ \E p \in Processors : ChannelClosed(p)
    \/ \E p \in Processors : TickFlush(p)
    \/ \E p \in Processors : TickIdle(p)
    \/ \E p \in Processors : ShutdownBranch(p)
    \/ \E p \in Processors : AppendOk(p)
    \/ \E p \in Processors : AppendExists(p)
    \/ \E p \in Processors : AppendFails(p)
    \/ \E p \in Processors : FlushMetrics(p)
    \/ Shutdown

Spec == Init /\ [][Next]_vars

Flush(p) == AppendOk(p) \/ AppendExists(p) \/ FlushMetrics(p)

\* A task that can run does (WF).  select! picks at random among the branches
\* that are ready and tokio's mutex is FIFO, so a branch that is ready again and
\* again is taken in the end (SF).  Producers owe nothing.
Fairness ==
    \A p \in Processors :
        /\ WF_vars(Enter(p)) /\ WF_vars(Flush(p)) /\ WF_vars(ShutdownBranch(p))
        /\ SF_vars(AcquireReceiver(p)) /\ SF_vars(Receive(p) \/ ChannelClosed(p))
        /\ SF_vars(TickFlush(p))

FairSpec == Spec /\ Fairness

----------------------------------------------------------------------------
TypeOK ==
    /\ chan \in Seq(AllInput)
    /\ sent \in [Producers -> Nat]
    /\ closed \in SUBSET Producers
    /\ rx \in Processors \cup {NoProcessor}
    /\ pc \in [Processors -> {"loop", "select", "flush", "metrics", "exited"}]
    /\ batch \in [Processors -> Seq(AllInput)]
    /\ exiting \in [Processors -> BOOLEAN]
    /\ notified \in [Processors -> BOOLEAN]
    /\ result \in [Processors -> {"none", "ok", "exists", "error"}]
    /\ store \in SUBSET AllInput
    /\ metrics \in [events : Nat, batches : Nat, errors : Nat, violations : Nat]
    /\ shutdown \in BOOLEAN
    /\ rejected \in SUBSET AllInput
    /\ overwritten \in SUBSET AllInput
    /\ lost \in SUBSET AllInput

\* Envelopes that p has received and not yet handed to the store.
Gathered(p) == IF pc[p] \in {"metrics", "exited"} THEN <<>> ELSE batch[p]

InBatches == UNION {EnvelopesOf(Gathered(p)) : p \in Processors}

\* Every envelope the channel accepted is somewhere: in the channel, in a
\* processor's batch, in the store, or among those given up (refused with their
\* batch, replaced within it, or dropped with the receiver); and nothing else is.
NoneMissing ==
    Accepted = EnvelopesOf(chan) \cup InBatches \cup store \cup rejected \cup overwritten \cup lost

\* Envelopes the processors are done with.
Settled == store \cup rejected \cup overwritten \cup lost

\* And it is in one place only: no processor keeps, receives or flushes again
\* what another one or the store already has, and none is given up twice.
NoneTwice ==
    /\ IsInjective(chan) /\ \A p \in Processors : IsInjective(Gathered(p))
    /\ EnvelopesOf(chan) \cap (InBatches \cup Settled) = {}
    /\ \A p, q \in Processors : p # q => EnvelopesOf(Gathered(p)) \cap EnvelopesOf(Gathered(q)) = {}
    /\ InBatches \cap Settled = {}
    /\ store \cap (rejected \cup overwritten \cup lost) = {}
    /\ rejected \cap (overwritten \cup lost) = {} /\ overwritten \cap lost = {}

\* What the store took in appends whose metrics update is still to come.
Uncounted == UNION {EnvelopesOf(batch[p]) : p \in {q \in Processors : result[q] = "ok"}}

\* total_events_processed counts each envelope that the store took once, as soon
\* as its processor has updated the metrics.
MetricsAgree == metrics.events = Cardinality((store \cup overwritten) \ Uncounted)

\* What is buffered is bounded, and a batch that is full is flushed before the
\* processor receives again.
Bounded ==
    /\ Len(chan) <= BufferSize
    /\ \A p \in Processors :
           /\ Len(batch[p]) <= MaxBatchSize
           /\ pc[p] \in {"loop", "select"} => Len(batch[p]) < MaxBatchSize

\* No interleaving of the processors makes the store refuse an envelope: there
\* was a database error, or two accepted envelopes have one key.
RejectedWithCause ==
    rejected # {} =>
        \/ metrics.errors > metrics.violations \/ \E p \in Processors : result[p] = "error"
        \/ \E e, f \in Accepted : e # f /\ generate_event_key(e) = generate_event_key(f)

\* An accepted envelope does not stay in a buffer for ever, shutdown or not.
EventuallySettled ==
    \A e \in AllInput : e \in Accepted ~> e \in store \cup rejected \cup overwritten \cup lost

\* When every sender is dropped all processors flush and end.
ClosedExits == closed = Producers ~> AllExited

\* "Shutdown the batch processor gracefully": after shutdown() the processors
\* end.
ShutdownStops == shutdown ~> AllExited
============================================================================
