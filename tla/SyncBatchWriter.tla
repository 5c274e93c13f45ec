-------------------------- MODULE SyncBatchWriter --------------------------
(***************************************************************************)
(* The synchronous batch writer (SyncBatchWriter of event-store/src/       *)
(* batch.rs) on top of the event store: one of the store's clients gathers *)
(* envelopes in pending_events and appends them in one call.  The others   *)
(* use the store directly.                                                 *)
(*                                                                         *)
(* Its methods take &mut self, so the owner of the writer makes one call   *)
(* at a time, but it may drop the future of a flush (a timeout or select!  *)
(* around it), and go on using the writer.  append_events awaits only the  *)
(* lock, so that is where a dropped flush stops.                           *)
(***************************************************************************)
EXTENDS EventStore, SequencesExt

CONSTANTS
    Writer,        \* the client that owns the writer
    OtherCalls,    \* the calls that the other clients make
    MaxBatchSize,  \* max_batch_size of SyncBatchWriter::new
    MaxAdds        \* bound on the envelopes added

ASSUME SyncBatchWriterAssumption ==
    /\ Writer \in Clients
    /\ OtherCalls \subseteq Calls
    /\ BoundedSeq(Envelopes, MaxAdds) \subseteq Batches
    /\ MaxBatchSize \in Nat
    /\ MaxAdds \in Nat

VARIABLES
    pending_events,
    added,      \* history: every envelope given to add_event, in order
    flushes,    \* history: what became of each drained batch, in order
    cut_off     \* history: batches written by calls that a crash cut off

writerVars == <<pending_events, added, flushes, cut_off>>
allVars    == <<vars, writerVars>>

\* The envelopes drained by the flush in progress.
InFlight == call[Writer].envs

Ended(envs, outcome) == Append(flushes, [envs |-> envs, outcome |-> outcome])

WriterInit == Init /\ pending_events = <<>> /\ added = <<>> /\ flushes = <<>> /\ cut_off = {}

add_event(e) ==
    /\ up
    /\ pc[Writer] = "idle"
    /\ Len(added) < MaxAdds
    /\ pending_events' = Append(pending_events, e)
    /\ added' = Append(added, e)
    /\ UNCHANGED <<vars, flushes, cut_off>>

\* Mutant: a flush takes at most max_batch_size envelopes of those it drains.
flush_truncates ==
    /\ pending_events # <<>>
    /\ Invoke(Writer, [op |-> "append_events",
                       envs |-> SubSeq(pending_events, 1,
                                    IF Len(pending_events) < MaxBatchSize
                                      THEN Len(pending_events) ELSE MaxBatchSize)])
    /\ pending_events' = <<>>
    /\ UNCHANGED <<added, flushes, cut_off>>

\* Mutant: the call that may skip the sync of a large batch is made.
flush_optimized ==
    /\ pending_events # <<>>
    /\ Invoke(Writer, [op |-> "append_events_optimized", envs |-> pending_events])
    /\ pending_events' = <<>>
    /\ UNCHANGED <<added, flushes, cut_off>>

\* Everything pending is drained, and then appended in one call.  With nothing
\* pending it returns Ok(()) and changes nothing.
flush ==
    /\ pending_events # <<>>
    /\ Invoke(Writer, [op |-> "append_events", envs |-> pending_events])
    /\ pending_events' = <<>>
    /\ UNCHANGED <<added, flushes, cut_off>>

\* Below max_batch_size it returns Ok(false) and changes nothing.
flush_if_full == Len(pending_events) >= MaxBatchSize /\ flush

\* The append returns to flush, and flush (by `?`) to its caller: the drained
\* envelopes are not put back, whatever the result.
FlushReturns ==
    /\ Return(Writer)
    /\ flushes' = Ended(InFlight, result[Writer])
    /\ UNCHANGED <<pending_events, added, cut_off>>

\* Mutant: the append can be dropped at any point, its lock released.
CancelFlushAnywhere ==
    /\ pc[Writer] # "idle"
    /\ queue' = SelectSeq(queue, LAMBDA c : c # Writer)
    /\ lock' = IF lock = Writer THEN NoClient ELSE lock
    /\ pc' = [pc EXCEPT ![Writer] = "idle"]
    /\ call' = [call EXCEPT ![Writer] = NoCall]
    /\ result' = [result EXCEPT ![Writer] = "none"]
    /\ flushes' = Ended(InFlight, "cancelled")
    /\ UNCHANGED <<dbVars, envVars, readers, acked, pending_events, added, cut_off>>

\* The future of the flush is dropped while it waits for the lock: it leaves
\* the lock's queue, and the drained envelopes go with it.
CancelFlush ==
    /\ pc[Writer] = "waiting"
    /\ \E i \in DOMAIN queue : queue[i] = Writer /\ queue' = RemoveAt(queue, i)
    /\ pc' = [pc EXCEPT ![Writer] = "idle"]
    /\ call' = [call EXCEPT ![Writer] = NoCall]
    /\ flushes' = Ended(InFlight, "cancelled")
    /\ UNCHANGED <<dbVars, envVars, lock, readers, result, acked, pending_events, added, cut_off>>

\* The calls that have written and not yet returned.
Written == {c \in Clients : call[c].op \in AppendOps /\ pc[c] = "returning" /\ result[c] = "ok"}

\* The process stops: a flush in progress and what is pending end there.
WriterCrash ==
    /\ Crash
    /\ pending_events' = <<>>
    /\ flushes' = Ended(InFlight \o pending_events, "crashed")
    /\ cut_off' = cut_off \cup {call[c].envs : c \in Written}
    /\ UNCHANGED added

Others == Clients \ {Writer}

StoreStep(c) == (Validate(c) \/ Write(c) \/ Compact(c) \/ Read(c)) /\ UNCHANGED writerVars

Progress(c) ==
    \/ StoreStep(c)
    \/ c \in Others /\ Return(c) /\ UNCHANGED writerVars
    \/ c = Writer /\ FlushReturns

WriterNext ==
    \/ \E e \in Envelopes : add_event(e)
    \/ flush
    \/ flush_if_full
    \/ CancelFlush
    \/ WriterCrash
    \/ \E c \in Clients : Progress(c)
    \/ \E c \in Clients : Acquire(c) /\ UNCHANGED writerVars
    \/ \E c \in Clients : Fail(c) /\ UNCHANGED writerVars
    \/ \E c \in Others, r \in OtherCalls : Invoke(c, r) /\ UNCHANGED writerVars
    \/ Reopen /\ UNCHANGED writerVars

\* The store's fairness: the lock is fair, and calls do not block under it.
WriterFairness ==
    \A c \in Clients : WF_allVars(Acquire(c) /\ UNCHANGED writerVars) /\ WF_allVars(Progress(c))

WriterSpec == WriterInit /\ [][WriterNext]_allVars /\ WriterFairness

----------------------------------------------------------------------------
WriterTypeOK ==
    /\ TypeOK
    /\ pending_events \in Seq(Envelopes)
    /\ added \in Seq(Envelopes) /\ Len(added) <= MaxAdds
    /\ flushes \in Seq([envs : Seq(Envelopes),
                        outcome : {"ok", "exists", "error", "cancelled", "crashed"}])
    /\ cut_off \subseteq Batches
    /\ call[Writer].op \in {"none", "append_events"}

\* Every envelope given to the writer is, in the order of add_event, in a batch
\* whose flush ended (with Ok, or with the error, the dropped future or the
\* crash that cost the caller all of it), in the flush in progress, or pending.
NothingForgotten ==
    \E cut \in [0 .. Len(flushes) -> 0 .. Len(added)] :
        /\ cut[0] = 0
        /\ \A i \in DOMAIN flushes :
              cut[i - 1] <= cut[i] /\ flushes[i].envs = SubSeq(added, cut[i - 1] + 1, cut[i])
        /\ SubSeq(added, cut[Len(flushes)] + 1, Len(added)) = InFlight \o pending_events

\* A flush that did not return Ok stored nothing, so that its caller may add
\* the same envelopes again: everything in the database is of an append that
\* returned Ok, is about to, or was cut off by a crash before it could.
NoGhostWrites ==
    \A w \in DOMAIN wal :
        \/ \E a \in acked : a.envs = wal[w].envs
        \/ \E c \in Written : call[c].envs = wal[w].envs
        \/ wal[w].envs \in cut_off
============================================================================
