------------------------ MODULE BatchProcessorProofs ------------------------
(***************************************************************************)
(* Theorems about BatchProcessor, for any processors, producers, input and *)
(* sizes.                                                                  *)
(***************************************************************************)
EXTENDS BatchProcessor, FiniteSetTheorems, TLAPS

----------------------------------------------------------------------------
(* Types.                                                                  *)

\* The end of a task, and with the last one of the channel, keeps the types.
LEMMA ExitTypes ==
    ASSUME TypeOK, NEW p \in Processors, Exit(p)
    PROVE  /\ chan' \in Seq(AllInput) /\ lost' \in SUBSET AllInput
           /\ pc' \in [Processors -> {"loop", "select", "flush", "metrics", "exited"}]
<1>1. pc' \in [Processors -> {"loop", "select", "flush", "metrics", "exited"}]
      BY DEF TypeOK, Exit
<1>2. EnvelopesOf(chan) \subseteq AllInput
      BY DEF TypeOK, EnvelopesOf
<1>3. \/ lost' = lost \cup EnvelopesOf(chan) /\ chan' = <<>>
      \/ lost' = lost /\ chan' = chan
      BY Zenon DEF Exit
<1>4. <<>> \in Seq(AllInput)
      OBVIOUS
<1> QED BY <1>1, <1>2, <1>3, <1>4 DEF TypeOK

\* So does the way out of the loop.
LEMMA FlushAndExitTypes ==
    ASSUME TypeOK, NEW p \in Processors, FlushAndExit(p)
    PROVE  /\ chan' \in Seq(AllInput) /\ lost' \in SUBSET AllInput
           /\ pc' \in [Processors -> {"loop", "select", "flush", "metrics", "exited"}]
           /\ exiting' \in [Processors -> BOOLEAN]
<1>1. CASE batch[p] = <<>>
      BY <1>1, ExitTypes DEF FlushAndExit, TypeOK
<1>2. CASE batch[p] # <<>>
      BY <1>2 DEF FlushAndExit, TypeOK
<1> QED BY <1>1, <1>2

\* What a flush hands to the store is input.
LEMMA BatchEnvelopes ==
    ASSUME TypeOK, NEW p \in Processors
    PROVE  EnvelopesOf(batch[p]) \subseteq AllInput /\ LastPuts(batch[p]) \subseteq EnvelopesOf(batch[p])
<1>1. batch[p] \in Seq(AllInput)
      BY DEF TypeOK
<1> QED BY <1>1 DEF EnvelopesOf, LastPuts

\* Every step keeps the types.
LEMMA TypeStep == TypeOK /\ [Next]_vars => TypeOK'
<1> SUFFICES ASSUME TypeOK, [Next]_vars PROVE TypeOK'
    OBVIOUS
<1> USE DEF producerVars, history
<1>1. ASSUME NEW r \in Producers, Send(r) PROVE TypeOK'
  <2>1. sent[r] + 1 \in DOMAIN Input[r]
        BY <1>1, BatchProcessorAssumption DEF Send, TypeOK
  <2>2. Input[r][sent[r] + 1] \in AllInput
        BY <2>1 DEF AllInput, EnvelopesOf
  <2>3. chan' \in Seq(AllInput) /\ sent' \in [Producers -> Nat]
        BY <1>1, <2>2 DEF Send, TypeOK
  <2> QED BY <1>1, <2>3 DEF Send, TypeOK
<1>2. ASSUME NEW r \in Producers, CloseSender(r) PROVE TypeOK'
      BY <1>2 DEF CloseSender, TypeOK
<1>3. ASSUME NEW p \in Processors, Enter(p) \/ AcquireReceiver(p) PROVE TypeOK'
      BY <1>3 DEF Enter, AcquireReceiver, TypeOK
<1>4. ASSUME NEW p \in Processors, LeaveSelect(p)
      PROVE  rx' \in Processors \cup {NoProcessor} /\ notified' \in [Processors -> BOOLEAN]
      BY <1>4 DEF LeaveSelect, TypeOK
<1>5. ASSUME NEW p \in Processors, Receive(p) PROVE TypeOK'
  <2>1. Head(chan) \in AllInput /\ chan' \in Seq(AllInput)
        BY <1>5 DEF Receive, TypeOK
  <2>2. batch' \in [Processors -> Seq(AllInput)]
        BY <1>5, <2>1 DEF Receive, TypeOK
  <2> QED BY <1>4, <1>5, <2>1, <2>2 DEF Receive, TypeOK
<1>6. ASSUME NEW p \in Processors, ChannelClosed(p) \/ ShutdownBranch(p) PROVE TypeOK'
      BY <1>4, <1>6, FlushAndExitTypes DEF ChannelClosed, ShutdownBranch, TypeOK
<1>7. ASSUME NEW p \in Processors, TickFlush(p) \/ TickIdle(p) PROVE TypeOK'
      BY <1>4, <1>7 DEF TickFlush, TickIdle, TypeOK
<1>8. ASSUME NEW p \in Processors, AppendOk(p) PROVE TypeOK'
      BY <1>8, BatchEnvelopes DEF AppendOk, TypeOK
<1>9. ASSUME NEW p \in Processors, AppendExists(p) \/ AppendFails(p) PROVE TypeOK'
      BY <1>9, BatchEnvelopes DEF AppendExists, AppendFails, AppendErr, TypeOK
<1>10. ASSUME NEW p \in Processors, FlushMetrics(p) PROVE TypeOK'
  <2>1. Len(batch[p]) \in Nat
        BY DEF TypeOK
  <2>2. metrics' \in [events : Nat, batches : Nat, errors : Nat, violations : Nat]
    <3>1. metrics \in [events : Nat, batches : Nat, errors : Nat, violations : Nat]
          BY DEF TypeOK
    <3>2. /\ metrics.events + Len(batch[p]) \in Nat /\ metrics.batches + 1 \in Nat
          /\ metrics.errors + 1 \in Nat /\ metrics.violations + 1 \in Nat /\ metrics.violations + 0 \in Nat
          BY <2>1, <3>1
    <3> QED BY <1>10, <3>1, <3>2 DEF FlushMetrics, Updated
  <2>3. batch' \in [Processors -> Seq(AllInput)] /\ result' \in [Processors -> {"none", "ok", "exists", "error"}]
        BY <1>10 DEF FlushMetrics, TypeOK
  <2>4. /\ chan' \in Seq(AllInput) /\ lost' \in SUBSET AllInput
        /\ pc' \in [Processors -> {"loop", "select", "flush", "metrics", "exited"}]
        BY <1>10, ExitTypes DEF FlushMetrics, TypeOK
  <2> QED BY <1>10, <2>2, <2>3, <2>4 DEF FlushMetrics, TypeOK
<1>11. ASSUME Shutdown PROVE TypeOK'
      BY <1>11 DEF Shutdown, TypeOK
<1>12. ASSUME UNCHANGED vars PROVE TypeOK'
      BY <1>12 DEF vars, TypeOK
<1> QED BY <1>1, <1>2, <1>3, <1>5, <1>6, <1>7, <1>8, <1>9, <1>10, <1>11, <1>12 DEF Next

\* The processors' variables keep their types, for any number of processors
\* and any input.
THEOREM TypeCorrect == Spec => []TypeOK
<1>1. ASSUME Init PROVE TypeOK
  <2>1. <<>> \in Seq(AllInput) /\ 0 \in Nat
        OBVIOUS
  <2>2. chan \in Seq(AllInput) /\ batch \in [Processors -> Seq(AllInput)] /\ sent \in [Producers -> Nat]
        BY <1>1, <2>1 DEF Init
  <2>3. metrics \in [events : Nat, batches : Nat, errors : Nat, violations : Nat]
        BY <1>1, <2>1 DEF Init
  <2>4. /\ pc \in [Processors -> {"loop", "select", "flush", "metrics", "exited"}]
        /\ exiting \in [Processors -> BOOLEAN] /\ notified \in [Processors -> BOOLEAN]
        /\ result \in [Processors -> {"none", "ok", "exists", "error"}]
        BY <1>1 DEF Init
  <2> QED BY <1>1, <2>2, <2>3, <2>4 DEF Init, TypeOK
<1> QED BY <1>1, TypeStep, PTL DEF Spec

----------------------------------------------------------------------------
(* Bounds.                                                                 *)

\* Every step keeps the bounds.
LEMMA BoundStep == TypeOK /\ TypeOK' /\ Bounded /\ [Next]_vars => Bounded'
<1> SUFFICES ASSUME TypeOK, TypeOK', Bounded, [Next]_vars PROVE Bounded'
    OBVIOUS
<1> USE DEF producerVars, history
<1>0. MaxBatchSize \in Nat \ {0} /\ BufferSize \in Nat \ {0} /\ Len(<<>>) = 0
      BY BatchProcessorAssumption
<1>1. ASSUME NEW r \in Producers, Send(r) PROVE Bounded'
  <2>1. Len(chan') = Len(chan) + 1 /\ Len(chan) \in Nat /\ Len(chan) < BufferSize
        BY <1>1 DEF Send, TypeOK
  <2>2. pc' = pc /\ batch' = batch
        BY <1>1 DEF Send
  <2> QED BY <1>0, <2>1, <2>2 DEF Bounded
<1>2. ASSUME chan' = chan \/ chan' = <<>>, batch' = batch,
             \A p \in Processors : pc'[p] \in {"loop", "select"} => pc[p] \in {"loop", "select"}
      PROVE  Bounded'
      BY <1>0, <1>2 DEF Bounded
<1>3. ASSUME NEW p \in Processors, Receive(p) PROVE Bounded'
  <2>1. chan \in Seq(AllInput) /\ chan # <<>> /\ chan' = Tail(chan)
        BY <1>3 DEF Receive, TypeOK
  <2>2. Len(chan') <= BufferSize
        BY <1>0, <2>1 DEF Bounded
  <2>3. pc[p] = "select" /\ Len(batch[p]) \in Nat /\ Len(batch[p]) < MaxBatchSize
        BY <1>3 DEF Receive, LeaveSelect, Bounded, TypeOK
  <2>4. Head(chan) \in AllInput /\ batch[p] \in Seq(AllInput)
        BY <2>1 DEF TypeOK
  <2>5. batch'[p] = Append(batch[p], Head(chan)) /\ Len(batch'[p]) = Len(batch[p]) + 1
        BY <1>3, <2>4 DEF Receive, TypeOK
  <2>6. pc'[p] = IF Len(batch'[p]) >= MaxBatchSize THEN "flush" ELSE "loop"
        BY <1>3 DEF Receive, TypeOK, is_full
  <2>7. \A q \in Processors \ {p} : pc'[q] = pc[q] /\ batch'[q] = batch[q]
        BY <1>3 DEF Receive, TypeOK
  <2>8. Len(batch'[p]) <= MaxBatchSize /\ (pc'[p] \in {"loop", "select"} => Len(batch'[p]) < MaxBatchSize)
        BY <1>0, <2>3, <2>5, <2>6
  <2> QED BY <2>2, <2>7, <2>8 DEF Bounded
<1>4. ASSUME NEW p \in Processors, ChannelClosed(p) \/ ShutdownBranch(p) PROVE Bounded'
  <2>1. FlushAndExit(p) /\ batch' = batch
        BY <1>4 DEF ChannelClosed, ShutdownBranch
  <2>2. chan' = chan \/ chan' = <<>>
        BY <2>1, Zenon DEF FlushAndExit, Exit
  <2>3. \A q \in Processors : pc'[q] = pc[q] \/ pc'[q] \in {"flush", "exited"}
        BY <2>1 DEF FlushAndExit, Exit, TypeOK
  <2> QED BY <1>2, <2>1, <2>2, <2>3
<1>5. ASSUME NEW p \in Processors, FlushMetrics(p) PROVE Bounded'
  <2>1. chan' = chan \/ chan' = <<>>
        BY <1>5, Zenon DEF FlushMetrics, Exit
  <2>2. batch'[p] = <<>> /\ \A q \in Processors \ {p} : pc'[q] = pc[q] /\ batch'[q] = batch[q]
        BY <1>5 DEF FlushMetrics, Exit, TypeOK
  <2> QED BY <1>0, <2>1, <2>2 DEF Bounded
<1>6. ASSUME NEW p \in Processors,
             \/ Enter(p) \/ AcquireReceiver(p) \/ TickFlush(p) \/ TickIdle(p)
             \/ AppendOk(p) \/ AppendExists(p) \/ AppendFails(p)
      PROVE  Bounded'
  <2>1. chan' = chan /\ batch' = batch
        BY <1>6 DEF Enter, AcquireReceiver, TickFlush, TickIdle, AppendOk, AppendExists, AppendFails, AppendErr
  <2>2. \A q \in Processors : \/ pc'[q] = pc[q] \/ pc'[q] \in {"flush", "metrics"}
                              \/ pc[q] \in {"loop", "select"}
        BY <1>6 DEF Enter, AcquireReceiver, TickFlush, TickIdle, AppendOk, AppendExists, AppendFails,
                    AppendErr, LeaveSelect, TypeOK
  <2> QED BY <1>2, <2>1, <2>2
<1>7. ASSUME (\E r \in Producers : CloseSender(r)) \/ Shutdown \/ UNCHANGED vars PROVE Bounded'
      BY <1>2, <1>7 DEF CloseSender, Shutdown, vars
<1> QED BY <1>1, <1>3, <1>4, <1>5, <1>6, <1>7 DEF Next

\* The channel never holds more than buffer_size envelopes, no batch more than
\* max_batch_size, and no processor receives with a full batch, for any number
\* of processors and any sizes.
THEOREM AlwaysBounded == Spec => []Bounded
<1>1. ASSUME Init PROVE Bounded
  <2>1. Len(<<>>) = 0 /\ MaxBatchSize \in Nat \ {0} /\ BufferSize \in Nat
        BY BatchProcessorAssumption
  <2> QED BY <1>1, <2>1 DEF Init, Bounded
<1> QED BY <1>1, BoundStep, TypeCorrect, PTL DEF Spec

----------------------------------------------------------------------------
(* No envelope is lost sight of.                                           *)

\* The envelopes of a sequence, one longer and one shorter.
LEMMA EnvelopesAppend ==
    ASSUME NEW S, NEW s \in Seq(S), NEW e \in S
    PROVE  EnvelopesOf(Append(s, e)) = EnvelopesOf(s) \cup {e}
<1> DEFINE t == Append(s, e)
<1>1. DOMAIN t = 1 .. (Len(s) + 1) /\ DOMAIN s = 1 .. Len(s) /\ Len(s) \in Nat
      OBVIOUS
<1>2. t[Len(s) + 1] = e /\ \A i \in 1 .. Len(s) : t[i] = s[i]
      OBVIOUS
<1> HIDE DEF t
<1>3. 1 .. (Len(s) + 1) = (1 .. Len(s)) \cup {Len(s) + 1}
      BY <1>1
<1>4. EnvelopesOf(t) \subseteq EnvelopesOf(s) \cup {e}
      BY <1>1, <1>2, <1>3 DEF EnvelopesOf
<1>5. EnvelopesOf(s) \cup {e} \subseteq EnvelopesOf(t)
      BY <1>1, <1>2, <1>3 DEF EnvelopesOf
<1> QED BY <1>4, <1>5 DEF t

\* The first envelope of a sequence, and the others.
LEMMA EnvelopesTail ==
    ASSUME NEW S, NEW s \in Seq(S), s # <<>>
    PROVE  EnvelopesOf(s) = {Head(s)} \cup EnvelopesOf(Tail(s))
<1>1. Len(s) \in Nat \ {0} /\ DOMAIN s = 1 .. Len(s) /\ Head(s) = s[1]
      OBVIOUS
<1>2. DOMAIN Tail(s) = 1 .. (Len(s) - 1) /\ \A i \in 1 .. (Len(s) - 1) : Tail(s)[i] = s[i + 1]
      OBVIOUS
<1>3. \A i \in 1 .. Len(s) : i = 1 \/ (i - 1 \in 1 .. (Len(s) - 1) /\ s[i] = Tail(s)[i - 1])
      BY <1>1, <1>2
<1>4. \A i \in 1 .. (Len(s) - 1) : i + 1 \in 1 .. Len(s)
      BY <1>1
<1>5. EnvelopesOf(s) \subseteq {Head(s)} \cup EnvelopesOf(Tail(s))
  <2> SUFFICES ASSUME NEW i \in 1 .. Len(s) PROVE s[i] \in {Head(s)} \cup EnvelopesOf(Tail(s))
      BY <1>1 DEF EnvelopesOf
  <2>1. CASE i = 1
        BY <1>1, <2>1
  <2>2. CASE i # 1
        BY <1>2, <1>3, <2>2 DEF EnvelopesOf
  <2> QED BY <2>1, <2>2
<1>6. Head(s) \in EnvelopesOf(s)
      BY <1>1 DEF EnvelopesOf
<1>7. EnvelopesOf(Tail(s)) \subseteq EnvelopesOf(s)
      BY <1>1, <1>2, <1>4 DEF EnvelopesOf
<1> QED BY <1>5, <1>6, <1>7

\* What the processors other than p have gathered.
InOthers(p) == UNION {EnvelopesOf(Gathered(q)) : q \in Processors \ {p}}

\* The batches are p's and the others'.
LEMMA SplitBatches ==
    ASSUME NEW p \in Processors
    PROVE  /\ InBatches = InOthers(p) \cup EnvelopesOf(Gathered(p))
           /\ InBatches' = InOthers(p)' \cup EnvelopesOf(Gathered(p)')
BY DEF InBatches, InOthers

\* A step of p leaves the others' batches alone.
LEMMA OthersKeep ==
    ASSUME NEW p \in Processors,
           \A q \in Processors \ {p} : pc'[q] = pc[q] /\ batch'[q] = batch[q]
    PROVE  InOthers(p)' = InOthers(p)
BY DEF InOthers, Gathered

\* A step that leaves every batch alone.
LEMMA BatchesKeep ==
    ASSUME batch' = batch,
           \A q \in Processors : pc'[q] \in {"metrics", "exited"} <=> pc[q] \in {"metrics", "exited"}
    PROVE  InBatches' = InBatches
BY DEF InBatches, Gathered

\* Every step keeps every accepted envelope somewhere.
LEMMA MissingStep == TypeOK /\ NoneMissing /\ [Next]_vars => NoneMissing'
<1> SUFFICES ASSUME TypeOK, NoneMissing, [Next]_vars PROVE NoneMissing'
    OBVIOUS
<1> USE DEF producerVars, history
<1>0. chan \in Seq(AllInput) /\ \A q \in Processors : batch[q] \in Seq(AllInput)
      BY DEF TypeOK
<1>a. EnvelopesOf(<<>>) = {}
      BY DEF EnvelopesOf
<1>b. Accepted = EnvelopesOf(chan) \cup InBatches \cup store \cup rejected \cup overwritten \cup lost
      BY DEF NoneMissing
<1> DEFINE Kept ==
        Accepted' = EnvelopesOf(chan') \cup InBatches' \cup store' \cup rejected' \cup overwritten' \cup lost'
<1> SUFFICES Kept
    BY DEF NoneMissing
<1>c. sent' = sent => Accepted' = Accepted
      BY DEF Accepted
<1>1. ASSUME NEW r \in Producers, Send(r) PROVE Kept
  <2> DEFINE e == Input[r][sent[r] + 1]
  <2>1. sent[r] \in Nat /\ sent[r] + 1 \in DOMAIN Input[r]
        BY <1>1, BatchProcessorAssumption DEF Send, TypeOK
  <2>2. e \in AllInput
        BY <2>1 DEF AllInput, EnvelopesOf
  <2>3. EnvelopesOf(chan') = EnvelopesOf(chan) \cup {e}
        BY <1>0, <1>1, <2>2, EnvelopesAppend DEF Send
  <2>4. Accepted' = Accepted \cup {e}
    <3>1. sent'[r] = sent[r] + 1 /\ \A q \in Producers \ {r} : sent'[q] = sent[q]
          BY <1>1 DEF Send, TypeOK
    <3>2. 1 .. (sent[r] + 1) = (1 .. sent[r]) \cup {sent[r] + 1}
          BY <2>1
    <3>3. {Input[r][i] : i \in 1 .. sent'[r]} = {Input[r][i] : i \in 1 .. sent[r]} \cup {e}
          BY <3>1, <3>2
    <3> QED BY <3>1, <3>3 DEF Accepted
  <2>5. InBatches' = InBatches
        BY <1>1, BatchesKeep DEF Send
  <2> QED BY <1>1, <1>b, <2>3, <2>4, <2>5 DEF Send
<1>2. ASSUME NEW p \in Processors, Receive(p) PROVE Kept
  <2>1. chan # <<>> /\ chan' = Tail(chan) /\ pc[p] = "select"
        BY <1>2 DEF Receive, LeaveSelect
  <2>2. batch'[p] = Append(batch[p], Head(chan)) /\ pc'[p] \in {"flush", "loop"}
        BY <1>2 DEF Receive, TypeOK
  <2>3. \A q \in Processors \ {p} : pc'[q] = pc[q] /\ batch'[q] = batch[q]
        BY <1>2 DEF Receive, TypeOK
  <2>4. EnvelopesOf(chan) = {Head(chan)} \cup EnvelopesOf(chan') /\ Head(chan) \in AllInput
        BY <1>0, <2>1, EnvelopesTail
  <2>5. Gathered(p) = batch[p] /\ Gathered(p)' = batch'[p]
        BY <2>1, <2>2 DEF Gathered
  <2>6. EnvelopesOf(Gathered(p)') = EnvelopesOf(Gathered(p)) \cup {Head(chan)}
        BY <1>0, <2>2, <2>4, <2>5, EnvelopesAppend
  <2>7. InBatches' = InOthers(p) \cup EnvelopesOf(Gathered(p)')
        BY <2>3, SplitBatches, OthersKeep
  <2>8. UNCHANGED <<sent, store, rejected, overwritten, lost>>
        BY <1>2 DEF Receive
  <2> QED BY <1>b, <1>c, <2>4, <2>6, <2>7, <2>8, SplitBatches
<1>3. ASSUME NEW p \in Processors, Gathered(p) = <<>>, Gathered(p)' = <<>>,
             \A q \in Processors \ {p} : pc'[q] = pc[q] /\ batch'[q] = batch[q]
      PROVE  InBatches' = InBatches
      BY <1>3, SplitBatches, OthersKeep
<1>4. ASSUME NEW p \in Processors, ChannelClosed(p) \/ ShutdownBranch(p) PROVE Kept
  <2>1. FlushAndExit(p) /\ pc[p] = "select" /\ UNCHANGED <<sent, batch, store, rejected, overwritten>>
        BY <1>4 DEF ChannelClosed, ShutdownBranch, LeaveSelect
  <2>2. CASE batch[p] = <<>>
    <3>1. Exit(p)
          BY <2>1, <2>2 DEF FlushAndExit
    <3>2. pc'[p] = "exited" /\ \A q \in Processors \ {p} : pc'[q] = pc[q]
          BY <3>1 DEF Exit, TypeOK
    <3>3. InBatches' = InBatches
          BY <1>3, <2>1, <2>2, <3>2 DEF Gathered
    <3>4. EnvelopesOf(chan') \cup lost' = EnvelopesOf(chan) \cup lost
          BY <1>a, <3>1 DEF Exit
    <3> QED BY <1>b, <1>c, <2>1, <3>3, <3>4
  <2>3. CASE batch[p] # <<>>
    <3>1. UNCHANGED <<lost, chan>> /\ pc' = [pc EXCEPT ![p] = "flush"]
          BY <2>1, <2>3 DEF FlushAndExit
    <3>2. InBatches' = InBatches
          BY <2>1, <3>1, BatchesKeep DEF TypeOK
    <3> QED BY <1>b, <1>c, <2>1, <3>1, <3>2
  <2> QED BY <2>2, <2>3
<1>5. ASSUME NEW p \in Processors, FlushMetrics(p) PROVE Kept
  <2>1. Gathered(p) = <<>> /\ Gathered(p)' = <<>>
        BY <1>5 DEF FlushMetrics, Gathered, TypeOK
  <2>2. \A q \in Processors \ {p} : pc'[q] = pc[q] /\ batch'[q] = batch[q]
        BY <1>5 DEF FlushMetrics, Exit, TypeOK
  <2>3. EnvelopesOf(chan') \cup lost' = EnvelopesOf(chan) \cup lost
        BY <1>5, <1>a DEF FlushMetrics, Exit
  <2>4. UNCHANGED <<sent, store, rejected, overwritten>>
        BY <1>5 DEF FlushMetrics
  <2> QED BY <1>3, <1>b, <1>c, <2>1, <2>2, <2>3, <2>4
<1>6. ASSUME NEW p \in Processors, AppendOk(p) \/ AppendExists(p) \/ AppendFails(p) PROVE Kept
  <2>1. pc[p] = "flush" /\ pc' = [pc EXCEPT ![p] = "metrics"] /\ UNCHANGED <<chan, sent, batch, lost>>
        BY <1>6 DEF AppendOk, AppendExists, AppendFails, AppendErr
  <2>2. Gathered(p) = batch[p] /\ Gathered(p)' = <<>>
        BY <2>1 DEF Gathered, TypeOK
  <2>3. \A q \in Processors \ {p} : pc'[q] = pc[q] /\ batch'[q] = batch[q]
        BY <2>1 DEF TypeOK
  <2>4. InBatches' = InOthers(p)
        BY <1>a, <2>2, <2>3, SplitBatches, OthersKeep
  <2>5. store' \cup rejected' \cup overwritten'
          = store \cup rejected \cup overwritten \cup EnvelopesOf(batch[p])
        BY <1>6, BatchEnvelopes DEF AppendOk, AppendExists, AppendFails, AppendErr
  <2> QED BY <1>b, <1>c, <2>1, <2>2, <2>4, <2>5, SplitBatches
<1>7. ASSUME NEW p \in Processors, Enter(p) \/ AcquireReceiver(p) \/ TickFlush(p) \/ TickIdle(p)
      PROVE  Kept
  <2>1. UNCHANGED <<chan, sent, batch, store, rejected, overwritten, lost>>
        BY <1>7 DEF Enter, AcquireReceiver, TickFlush, TickIdle
  <2>2. \A q \in Processors : pc'[q] = pc[q]
                               \/ {pc[q], pc'[q]} \subseteq {"loop", "select", "flush"}
        BY <1>7 DEF Enter, AcquireReceiver, TickFlush, TickIdle, LeaveSelect, TypeOK
  <2>3. InBatches' = InBatches
        BY <2>1, <2>2, BatchesKeep
  <2> QED BY <1>b, <1>c, <2>1, <2>3
<1>8. ASSUME (\E r \in Producers : CloseSender(r)) \/ Shutdown \/ UNCHANGED vars PROVE Kept
  <2>1. UNCHANGED <<chan, sent, pc, batch, store, rejected, overwritten, lost>>
        BY <1>8 DEF CloseSender, Shutdown, vars
  <2>2. InBatches' = InBatches
        BY <2>1, BatchesKeep
  <2> QED BY <1>b, <1>c, <2>1, <2>2
<1> QED BY <1>1, <1>2, <1>4, <1>5, <1>6, <1>7, <1>8 DEF Next

\* Every envelope that the channel accepted is in the channel, in a batch, in
\* the store or among those given up with a reason: however processors,
\* producers and shutdowns interleave, none disappears and none appears from
\* nowhere.
THEOREM NoneEverMissing == Spec => []NoneMissing
<1>1. ASSUME Init PROVE NoneMissing
  <2>1. Accepted = {}
        BY <1>1 DEF Init, Accepted
  <2>2. EnvelopesOf(chan) = {} /\ InBatches = {}
        BY <1>1 DEF Init, EnvelopesOf, InBatches, Gathered
  <2> QED BY <1>1, <2>1, <2>2 DEF Init, NoneMissing
<1> QED BY <1>1, MissingStep, TypeCorrect, PTL DEF Spec

----------------------------------------------------------------------------
(* No envelope is in two places.                                           *)

\* A sequence without repetitions, one longer.
LEMMA InjectiveAppend ==
    ASSUME NEW S, NEW s \in Seq(S), NEW e \in S, IsInjective(s), e \notin EnvelopesOf(s)
    PROVE  IsInjective(Append(s, e))
<1> DEFINE t == Append(s, e)
<1>1. DOMAIN t = 1 .. (Len(s) + 1) /\ DOMAIN s = 1 .. Len(s) /\ Len(s) \in Nat
      OBVIOUS
<1>2. t[Len(s) + 1] = e /\ \A i \in 1 .. Len(s) : t[i] = s[i]
      OBVIOUS
<1> HIDE DEF t
<1>3. \A i \in 1 .. Len(s) : s[i] # e
      BY <1>1 DEF EnvelopesOf
<1>4. \A i \in 1 .. (Len(s) + 1) : i = Len(s) + 1 \/ i \in 1 .. Len(s)
      BY <1>1
<1>5. IsInjective(t)
      BY <1>1, <1>2, <1>3, <1>4 DEF IsInjective
<1> QED BY <1>5 DEF t

\* And one shorter.
LEMMA InjectiveTail ==
    ASSUME NEW S, NEW s \in Seq(S), s # <<>>, IsInjective(s)
    PROVE  IsInjective(Tail(s)) /\ Head(s) \notin EnvelopesOf(Tail(s))
<1>1. Len(s) \in Nat \ {0} /\ DOMAIN s = 1 .. Len(s) /\ Head(s) = s[1]
      OBVIOUS
<1>2. DOMAIN Tail(s) = 1 .. (Len(s) - 1) /\ \A i \in 1 .. (Len(s) - 1) : Tail(s)[i] = s[i + 1]
      OBVIOUS
<1>3. \A i \in 1 .. (Len(s) - 1) : i + 1 \in 1 .. Len(s) /\ i + 1 # 1
      BY <1>1
<1>4. \A i, j \in 1 .. (Len(s) - 1) : i + 1 = j + 1 => i = j
      BY <1>1
<1>5. IsInjective(Tail(s))
      BY <1>1, <1>2, <1>3, <1>4 DEF IsInjective
<1>6. Head(s) \notin EnvelopesOf(Tail(s))
      BY <1>1, <1>2, <1>3 DEF IsInjective, EnvelopesOf
<1> QED BY <1>5, <1>6

\* What an append did with the batch of a processor that is about to update the
\* metrics.
Outcome(p) == IF result[p] = "ok" THEN store \cup overwritten ELSE rejected

\* The inductive invariant.  NoneTwice speaks of the batches not yet handed to
\* the store; a batch keeps its envelopes until the metrics are updated, and that
\* it is apart from the others' must be known until then.
OnePlace ==
    /\ \A r \in Producers : sent[r] <= Len(Input[r])
    /\ \A p \in Processors :
           /\ pc[p] = "exited" => batch[p] = <<>>
           /\ result[p] # "none" => pc[p] = "metrics"
           /\ pc[p] = "metrics" => EnvelopesOf(batch[p]) \subseteq Outcome(p)
           /\ pc[p] # "metrics" => EnvelopesOf(batch[p]) \cap Settled = {}
           /\ IsInjective(batch[p])
           /\ EnvelopesOf(chan) \cap EnvelopesOf(batch[p]) = {}
    /\ \A p, q \in Processors : p # q => EnvelopesOf(batch[p]) \cap EnvelopesOf(batch[q]) = {}
    /\ IsInjective(chan) /\ EnvelopesOf(chan) \cap Settled = {}
    /\ store \cap (rejected \cup overwritten \cup lost) = {}
    /\ rejected \cap (overwritten \cup lost) = {} /\ overwritten \cap lost = {}

\* It says what NoneTwice says.
LEMMA OnePlaceIsNoneTwice == OnePlace => NoneTwice
<1> SUFFICES ASSUME OnePlace PROVE NoneTwice
    OBVIOUS
<1>0. EnvelopesOf(<<>>) = {} /\ IsInjective(<<>>)
      BY DEF EnvelopesOf, IsInjective
<1>1. ASSUME NEW p \in Processors
      PROVE  /\ Gathered(p) = <<>> \/ (Gathered(p) = batch[p] /\ pc[p] # "metrics")
             /\ IsInjective(Gathered(p)) /\ EnvelopesOf(Gathered(p)) \subseteq EnvelopesOf(batch[p])
             /\ EnvelopesOf(Gathered(p)) \cap (EnvelopesOf(chan) \cup Settled) = {}
  <2>1. Gathered(p) = <<>> \/ (Gathered(p) = batch[p] /\ pc[p] # "metrics")
        BY DEF Gathered
  <2>2. CASE Gathered(p) = <<>>
        BY <1>0, <2>2
  <2>3. CASE Gathered(p) = batch[p] /\ pc[p] # "metrics"
        BY <2>3 DEF OnePlace
  <2> QED BY <2>1, <2>2, <2>3
<1>2. InBatches \cap (EnvelopesOf(chan) \cup Settled) = {}
      BY <1>1 DEF InBatches
<1>3. \A p, q \in Processors : p # q => EnvelopesOf(Gathered(p)) \cap EnvelopesOf(Gathered(q)) = {}
      BY <1>1 DEF OnePlace
<1>4. EnvelopesOf(chan) \cap (InBatches \cup Settled) = {} /\ InBatches \cap Settled = {}
      BY <1>2 DEF OnePlace
<1> QED BY <1>1, <1>3, <1>4 DEF OnePlace, NoneTwice

\* An envelope that is still to be sent is nowhere yet.
LEMMA UnsentIsNew ==
    ASSUME TypeOK, OnePlace, NoneMissing, NEW r \in Producers, Send(r)
    PROVE  LET e == Input[r][sent[r] + 1]
           IN  /\ e \in AllInput /\ e \notin EnvelopesOf(chan) /\ e \notin Settled
               /\ \A p \in Processors : e \notin EnvelopesOf(batch[p])
<1> DEFINE e == Input[r][sent[r] + 1]
<1>1. sent[r] \in Nat /\ sent[r] + 1 \in DOMAIN Input[r]
      BY BatchProcessorAssumption DEF Send, TypeOK
<1>2. e \in AllInput
      BY <1>1 DEF AllInput, EnvelopesOf
<1>3. e \notin Accepted
  <2>1. SUFFICES ASSUME NEW q \in Producers, NEW i \in 1 .. sent[q], e = Input[q][i] PROVE FALSE
        BY DEF Accepted
  <2>2. sent[q] \in Nat /\ sent[q] <= Len(Input[q]) /\ Len(Input[q]) \in Nat
        BY BatchProcessorAssumption DEF TypeOK, OnePlace
  <2>3. i \in DOMAIN Input[q]
        BY <2>2, BatchProcessorAssumption
  <2>4. q = r /\ i = sent[r] + 1
        BY <1>1, <2>1, <2>3, BatchProcessorAssumption
  <2> QED BY <1>1, <2>4
<1>4. e \notin EnvelopesOf(chan) /\ e \notin InBatches /\ e \notin Settled
      BY <1>3 DEF NoneMissing, Settled
<1>5. ASSUME NEW p \in Processors PROVE e \notin EnvelopesOf(batch[p])
  <2>1. CASE pc[p] = "metrics"
        BY <1>4, <2>1 DEF OnePlace, Outcome, Settled
  <2>2. CASE pc[p] = "exited"
        BY <2>2 DEF OnePlace, EnvelopesOf
  <2>3. CASE pc[p] \notin {"metrics", "exited"}
        BY <1>4, <2>3 DEF InBatches, Gathered
  <2> QED BY <2>1, <2>2, <2>3
<1> QED BY <1>2, <1>4, <1>5

\* Every step keeps every envelope in one place.
LEMMA OnePlaceStep == TypeOK /\ NoneMissing /\ OnePlace /\ [Next]_vars => OnePlace'
<1> SUFFICES ASSUME TypeOK, NoneMissing, OnePlace, [Next]_vars PROVE OnePlace'
    OBVIOUS
<1> USE DEF producerVars, history
<1>0. chan \in Seq(AllInput) /\ \A q \in Processors : batch[q] \in Seq(AllInput)
      BY DEF TypeOK
<1>a. EnvelopesOf(<<>>) = {} /\ IsInjective(<<>>)
      BY DEF EnvelopesOf, IsInjective
<1>1. ASSUME NEW r \in Producers, Send(r) PROVE OnePlace'
  <2> DEFINE e == Input[r][sent[r] + 1]
  <2>1. /\ e \in AllInput /\ e \notin EnvelopesOf(chan) /\ e \notin Settled
        /\ \A p \in Processors : e \notin EnvelopesOf(batch[p])
        BY <1>1, UnsentIsNew
  <2>2. chan' = Append(chan, e) /\ UNCHANGED <<pc, batch, result, store, rejected, overwritten, lost>>
        BY <1>1 DEF Send
  <2>3. EnvelopesOf(chan') = EnvelopesOf(chan) \cup {e}
        BY <1>0, <2>1, <2>2, EnvelopesAppend
  <2>4. IsInjective(chan')
        BY <1>0, <2>1, <2>2, InjectiveAppend DEF OnePlace
  <2>5. \A q \in Producers : sent'[q] <= Len(Input[q])
    <3>1. \A q \in Producers : sent[q] \in Nat /\ Len(Input[q]) \in Nat
          BY BatchProcessorAssumption DEF TypeOK
    <3>2. sent'[r] = sent[r] + 1 /\ \A q \in Producers \ {r} : sent'[q] = sent[q]
          BY <1>1 DEF Send, TypeOK
    <3> QED BY <1>1, <3>1, <3>2 DEF Send, OnePlace
  <2>6. Settled' = Settled /\ \A p \in Processors : Outcome(p)' = Outcome(p)
        BY <2>2 DEF Settled, Outcome
  <2> HIDE DEF e
  <2>7. /\ EnvelopesOf(chan') \cap Settled' = {}
        /\ \A p \in Processors : EnvelopesOf(chan') \cap EnvelopesOf(batch[p]) = {}
        BY <2>1, <2>3, <2>6 DEF OnePlace
  <2> QED BY <2>2, <2>4, <2>5, <2>6, <2>7 DEF OnePlace
<1>2. ASSUME NEW p \in Processors, Receive(p) PROVE OnePlace'
  <2>1. chan # <<>> /\ chan' = Tail(chan) /\ pc[p] = "select"
        BY <1>2 DEF Receive, LeaveSelect
  <2>2. batch'[p] = Append(batch[p], Head(chan)) /\ pc'[p] \in {"flush", "loop"}
        BY <1>2 DEF Receive, TypeOK
  <2>3. \A q \in Processors \ {p} : pc'[q] = pc[q] /\ batch'[q] = batch[q]
        BY <1>2 DEF Receive, TypeOK
  <2>4. EnvelopesOf(chan) = {Head(chan)} \cup EnvelopesOf(chan') /\ Head(chan) \in AllInput
        BY <1>0, <2>1, EnvelopesTail
  <2>5. IsInjective(chan') /\ Head(chan) \notin EnvelopesOf(chan')
        BY <1>0, <2>1, InjectiveTail DEF OnePlace
  <2>6. Head(chan) \notin Settled /\ \A q \in Processors : Head(chan) \notin EnvelopesOf(batch[q])
        BY <2>4 DEF OnePlace
  <2>7. IsInjective(batch'[p]) /\ EnvelopesOf(batch'[p]) = EnvelopesOf(batch[p]) \cup {Head(chan)}
        BY <1>0, <2>2, <2>4, <2>6, InjectiveAppend, EnvelopesAppend DEF OnePlace
  <2>8. UNCHANGED <<sent, result, store, rejected, overwritten, lost>>
        BY <1>2 DEF Receive
  <2>9. Settled' = Settled /\ \A q \in Processors : Outcome(q)' = Outcome(q)
        BY <2>8 DEF Settled, Outcome
  <2>10. ASSUME NEW q \in Processors
         PROVE  /\ pc'[q] = "exited" => batch'[q] = <<>>
                /\ result'[q] # "none" => pc'[q] = "metrics"
                /\ pc'[q] = "metrics" => EnvelopesOf(batch'[q]) \subseteq Outcome(q)'
                /\ pc'[q] # "metrics" => EnvelopesOf(batch'[q]) \cap Settled' = {}
                /\ IsInjective(batch'[q])
                /\ EnvelopesOf(chan') \cap EnvelopesOf(batch'[q]) = {}
    <3>1. CASE q = p
          BY <2>1, <2>2, <2>4, <2>5, <2>6, <2>7, <2>8, <2>9, <3>1 DEF OnePlace
    <3>2. CASE q # p
          BY <2>3, <2>4, <2>8, <2>9, <3>2 DEF OnePlace
    <3> QED BY <3>1, <3>2
  <2>11. \A q, s \in Processors : q # s => EnvelopesOf(batch'[q]) \cap EnvelopesOf(batch'[s]) = {}
    <3>1. \A q \in Processors \ {p} : EnvelopesOf(batch'[q]) \cap EnvelopesOf(batch'[p]) = {}
          BY <2>3, <2>6, <2>7 DEF OnePlace
    <3> QED BY <2>3, <3>1 DEF OnePlace
  <2>12. EnvelopesOf(chan') \cap Settled' = {}
         BY <2>4, <2>9 DEF OnePlace
  <2> QED BY <2>5, <2>8, <2>10, <2>11, <2>12 DEF OnePlace
<1>3. ASSUME NEW p \in Processors, pc'[p] \in {"loop", "exited"}, batch'[p] = <<>>, result'[p] = "none",
             \A q \in Processors \ {p} : pc'[q] = pc[q] /\ batch'[q] = batch[q] /\ result'[q] = result[q],
             \/ lost' = lost /\ chan' = chan
             \/ lost' = lost \cup EnvelopesOf(chan) /\ chan' = <<>>,
             UNCHANGED <<sent, store, rejected, overwritten>>
      PROVE  OnePlace'
  <2>1. /\ IsInjective(chan') /\ EnvelopesOf(chan') \subseteq EnvelopesOf(chan)
        /\ lost' \subseteq lost \cup EnvelopesOf(chan) /\ EnvelopesOf(chan') \cap lost' = {}
        BY <1>3, <1>a DEF OnePlace, Settled
  <2>2. Settled' \subseteq Settled \cup EnvelopesOf(chan) /\ EnvelopesOf(chan') \cap Settled' = {}
        BY <1>3, <2>1 DEF OnePlace, Settled
  <2>3. ASSUME NEW q \in Processors
         PROVE  /\ pc'[q] = "exited" => batch'[q] = <<>>
                /\ result'[q] # "none" => pc'[q] = "metrics"
                /\ pc'[q] = "metrics" => EnvelopesOf(batch'[q]) \subseteq Outcome(q)'
                /\ pc'[q] # "metrics" => EnvelopesOf(batch'[q]) \cap Settled' = {}
                /\ IsInjective(batch'[q])
                /\ EnvelopesOf(chan') \cap EnvelopesOf(batch'[q]) = {}
    <3>1. CASE q = p
          BY <1>3, <1>a, <3>1
    <3>2. CASE q # p
      <4>1. Outcome(q)' = Outcome(q)
            BY <1>3, <3>2 DEF Outcome
      <4> QED BY <1>3, <2>1, <2>2, <3>2, <4>1 DEF OnePlace
    <3> QED BY <3>1, <3>2
  <2>4. \A q \in Processors : EnvelopesOf(batch'[q]) \subseteq EnvelopesOf(batch[q])
        BY <1>3, <1>a
  <2>5. \A q, s \in Processors : q # s => EnvelopesOf(batch'[q]) \cap EnvelopesOf(batch'[s]) = {}
        BY <2>4 DEF OnePlace
  <2>6. /\ store' \cap (rejected' \cup overwritten' \cup lost') = {}
        /\ rejected' \cap (overwritten' \cup lost') = {} /\ overwritten' \cap lost' = {}
        BY <1>3, <2>1 DEF OnePlace, Settled
  <2> QED BY <1>3, <2>1, <2>2, <2>3, <2>5, <2>6 DEF OnePlace
<1>4. ASSUME UNCHANGED <<chan, sent, batch, result, store, rejected, overwritten, lost>>,
             \A q \in Processors : pc'[q] = pc[q] \/ {pc[q], pc'[q]} \subseteq {"loop", "select", "flush"}
      PROVE  OnePlace'
  <2>1. Settled' = Settled /\ \A q \in Processors : Outcome(q)' = Outcome(q)
        BY <1>4 DEF Settled, Outcome
  <2> QED BY <1>4, <2>1 DEF OnePlace
<1>5. ASSUME NEW p \in Processors, ChannelClosed(p) \/ ShutdownBranch(p) PROVE OnePlace'
  <2>1. /\ FlushAndExit(p) /\ pc[p] = "select"
        /\ UNCHANGED <<sent, batch, result, store, rejected, overwritten>>
        BY <1>5 DEF ChannelClosed, ShutdownBranch, LeaveSelect
  <2>2. CASE batch[p] = <<>>
    <3>1. Exit(p) /\ result[p] = "none"
          BY <2>1, <2>2 DEF FlushAndExit, OnePlace
    <3>2. pc'[p] = "exited" /\ \A q \in Processors \ {p} : pc'[q] = pc[q]
          BY <3>1 DEF Exit, TypeOK
    <3>3. \/ lost' = lost /\ chan' = chan
          \/ lost' = lost \cup EnvelopesOf(chan) /\ chan' = <<>>
          BY <3>1, Zenon DEF Exit
    <3> QED BY <1>3, <2>1, <2>2, <3>1, <3>2, <3>3
  <2>3. CASE batch[p] # <<>>
    <3>1. UNCHANGED <<lost, chan>> /\ pc' = [pc EXCEPT ![p] = "flush"]
          BY <2>1, <2>3 DEF FlushAndExit
    <3>2. \A q \in Processors : pc'[q] = pc[q] \/ {pc[q], pc'[q]} \subseteq {"loop", "select", "flush"}
          BY <2>1, <3>1 DEF TypeOK
    <3> QED BY <1>4, <2>1, <3>1, <3>2
  <2> QED BY <2>2, <2>3
<1>6. ASSUME NEW p \in Processors, FlushMetrics(p) PROVE OnePlace'
  <2>1. pc'[p] \in {"loop", "exited"} /\ batch'[p] = <<>> /\ result'[p] = "none"
        BY <1>6 DEF FlushMetrics, Exit, TypeOK
  <2>2. \A q \in Processors \ {p} : pc'[q] = pc[q] /\ batch'[q] = batch[q] /\ result'[q] = result[q]
        BY <1>6 DEF FlushMetrics, Exit, TypeOK
  <2>3. \/ lost' = lost /\ chan' = chan
        \/ lost' = lost \cup EnvelopesOf(chan) /\ chan' = <<>>
        BY <1>6, Zenon DEF FlushMetrics, Exit
  <2>4. UNCHANGED <<sent, store, rejected, overwritten>>
        BY <1>6 DEF FlushMetrics
  <2> QED BY <1>3, <2>1, <2>2, <2>3, <2>4
<1>7. ASSUME NEW p \in Processors, AppendOk(p) \/ AppendExists(p) \/ AppendFails(p) PROVE OnePlace'
  <2>1. pc[p] = "flush" /\ pc' = [pc EXCEPT ![p] = "metrics"] /\ UNCHANGED <<chan, sent, batch, lost>>
        BY <1>7 DEF AppendOk, AppendExists, AppendFails, AppendErr
  <2>2. pc'[p] = "metrics" /\ \A q \in Processors \ {p} : pc'[q] = pc[q]
        BY <2>1 DEF TypeOK
  <2>3. \A q \in Processors \ {p} : result'[q] = result[q]
        BY <1>7 DEF AppendOk, AppendExists, AppendFails, AppendErr, TypeOK
  <2>4. EnvelopesOf(batch[p]) \cap Settled = {} /\ EnvelopesOf(batch[p]) \cap EnvelopesOf(chan) = {}
        BY <2>1 DEF OnePlace
  <2>5. /\ store \subseteq store' /\ rejected \subseteq rejected' /\ overwritten \subseteq overwritten'
        /\ EnvelopesOf(batch[p]) \subseteq Outcome(p)'
        /\ Settled' \subseteq Settled \cup EnvelopesOf(batch[p])
        /\ store' \cap (rejected' \cup overwritten' \cup lost') = {}
        /\ rejected' \cap (overwritten' \cup lost') = {} /\ overwritten' \cap lost' = {}
    <3>1. CASE AppendOk(p)
      <4>1. result'[p] = "ok" /\ rejected' = rejected /\ lost' = lost
            BY <3>1 DEF AppendOk, TypeOK
      <4>2. /\ store' = store \cup LastPuts(batch[p])
            /\ overwritten' = overwritten \cup (EnvelopesOf(batch[p]) \ LastPuts(batch[p]))
            BY <3>1 DEF AppendOk
      <4>3. EnvelopesOf(batch[p]) \subseteq Outcome(p)'
            BY <4>1, <4>2 DEF Outcome
      <4> QED BY <2>4, <4>1, <4>2, <4>3, BatchEnvelopes DEF Settled, OnePlace
    <3>2. CASE AppendExists(p) \/ AppendFails(p)
      <4>1. result'[p] \in {"exists", "error"} /\ UNCHANGED <<store, overwritten, lost>>
            BY <3>2 DEF AppendExists, AppendFails, AppendErr, TypeOK
      <4>2. rejected' = rejected \cup EnvelopesOf(batch[p])
            BY <3>2 DEF AppendExists, AppendFails, AppendErr
      <4>3. EnvelopesOf(batch[p]) \subseteq Outcome(p)'
            BY <4>1, <4>2 DEF Outcome
      <4> QED BY <2>4, <4>1, <4>2, <4>3 DEF Settled, OnePlace
    <3> QED BY <1>7, <3>1, <3>2
  <2>6. ASSUME NEW q \in Processors
         PROVE  /\ pc'[q] = "exited" => batch'[q] = <<>>
                /\ result'[q] # "none" => pc'[q] = "metrics"
                /\ pc'[q] = "metrics" => EnvelopesOf(batch'[q]) \subseteq Outcome(q)'
                /\ pc'[q] # "metrics" => EnvelopesOf(batch'[q]) \cap Settled' = {}
                /\ IsInjective(batch'[q])
                /\ EnvelopesOf(chan') \cap EnvelopesOf(batch'[q]) = {}
    <3>1. CASE q = p
          BY <2>1, <2>2, <2>5, <3>1 DEF OnePlace
    <3>2. CASE q # p
      <4>1. Outcome(q) \subseteq Outcome(q)'
            BY <2>3, <2>5, <3>2 DEF Outcome
      <4>2. EnvelopesOf(batch[q]) \cap EnvelopesOf(batch[p]) = {}
            BY <3>2 DEF OnePlace
      <4> QED BY <2>1, <2>2, <2>3, <2>5, <3>2, <4>1, <4>2 DEF OnePlace
    <3> QED BY <3>1, <3>2
  <2>7. EnvelopesOf(chan') \cap Settled' = {}
        BY <2>1, <2>4, <2>5 DEF OnePlace
  <2> QED BY <2>1, <2>5, <2>6, <2>7 DEF OnePlace
<1>8. ASSUME NEW p \in Processors, Enter(p) \/ AcquireReceiver(p) \/ TickFlush(p) \/ TickIdle(p)
      PROVE  OnePlace'
  <2>1. UNCHANGED <<chan, sent, batch, result, store, rejected, overwritten, lost>>
        BY <1>8 DEF Enter, AcquireReceiver, TickFlush, TickIdle
  <2>2. \A q \in Processors : pc'[q] = pc[q]
                               \/ {pc[q], pc'[q]} \subseteq {"loop", "select", "flush"}
        BY <1>8 DEF Enter, AcquireReceiver, TickFlush, TickIdle, LeaveSelect, TypeOK
  <2> QED BY <1>4, <2>1, <2>2
<1>9. ASSUME (\E r \in Producers : CloseSender(r)) \/ Shutdown \/ UNCHANGED vars PROVE OnePlace'
  <2>1. UNCHANGED <<chan, sent, pc, batch, result, store, rejected, overwritten, lost>>
        BY <1>9 DEF CloseSender, Shutdown, vars
  <2> QED BY <1>4, <2>1
<1> QED BY <1>1, <1>2, <1>5, <1>6, <1>7, <1>8, <1>9 DEF Next

\* The invariant holds throughout.
LEMMA AlwaysOnePlace == Spec => []OnePlace
<1>1. ASSUME Init PROVE OnePlace
  <2>1. EnvelopesOf(<<>>) = {} /\ IsInjective(<<>>)
        BY DEF EnvelopesOf, IsInjective
  <2>2. \A r \in Producers : sent[r] = 0 /\ Len(Input[r]) \in Nat
        BY <1>1, BatchProcessorAssumption DEF Init
  <2>3. Settled = {} /\ chan = <<>> /\ \A p \in Processors : batch[p] = <<>> /\ pc[p] = "loop" /\ result[p] = "none"
        BY <1>1 DEF Init, Settled
  <2> QED BY <1>1, <2>1, <2>2, <2>3 DEF Init, OnePlace
<1> QED BY <1>1, OnePlaceStep, TypeCorrect, NoneEverMissing, PTL DEF Spec

\* Every envelope that the channel accepted is in one place only: it is received
\* by one processor, flushed once and either stored or given up, however the
\* processors interleave.
THEOREM NoneEverTwice == Spec => []NoneTwice
BY AlwaysOnePlace, OnePlaceIsNoneTwice, PTL

----------------------------------------------------------------------------
(* The metrics count what the store took.                                  *)

\* A sequence without repetitions has as many envelopes as positions.
LEMMA EnvelopesCounted ==
    ASSUME NEW S, NEW s \in Seq(S), IsInjective(s)
    PROVE  IsFiniteSet(EnvelopesOf(s)) /\ Cardinality(EnvelopesOf(s)) = Len(s)
<1>1. Len(s) \in Nat /\ DOMAIN s = 1 .. Len(s)
      OBVIOUS
<1>2. IsFiniteSet(1 .. Len(s)) /\ Cardinality(1 .. Len(s)) = Len(s)
  <2>1. IsFiniteSet(1 .. Len(s)) /\ Cardinality(1 .. Len(s)) = IF 1 > Len(s) THEN 0 ELSE Len(s) - 1 + 1
        BY <1>1, FS_Interval
  <2> QED BY <1>1, <2>1
<1>3. s \in Bijection(1 .. Len(s), EnvelopesOf(s))
  <2>1. s \in [1 .. Len(s) -> EnvelopesOf(s)]
        BY <1>1 DEF EnvelopesOf
  <2>2. \A e \in EnvelopesOf(s) : \E i \in 1 .. Len(s) : s[i] = e
        BY <1>1 DEF EnvelopesOf
  <2> QED BY <2>1, <2>2 DEF Bijection, Injection, Surjection
<1>4. ExistsBijection(1 .. Len(s), EnvelopesOf(s))
      BY <1>3 DEF ExistsBijection
<1> QED BY <1>2, <1>4, FS_Bijection

\* The envelopes whose append the metrics have counted.
Counted == (store \cup overwritten) \ Uncounted

\* MetricsAgree, with what makes the cardinality one.
CountedAgree == IsFiniteSet(Counted) /\ metrics.events = Cardinality(Counted)

\* Every step keeps the count.
LEMMA CountedStep == TypeOK /\ OnePlace /\ CountedAgree /\ [Next]_vars => CountedAgree'
<1> SUFFICES ASSUME TypeOK, OnePlace, CountedAgree, [Next]_vars PROVE CountedAgree'
    OBVIOUS
<1> USE DEF producerVars, history
<1>1. ASSUME Counted' = Counted, metrics'.events = metrics.events PROVE CountedAgree'
      BY <1>1 DEF CountedAgree
<1>2. ASSUME UNCHANGED <<store, overwritten, metrics>>,
             \A q \in Processors : batch'[q] = batch[q] \/ result[q] # "ok",
             \A q \in Processors : result'[q] = "ok" <=> result[q] = "ok"
      PROVE  CountedAgree'
  <2>1. Uncounted' = Uncounted
        BY <1>2 DEF Uncounted
  <2> QED BY <1>1, <1>2, <2>1 DEF Counted
<1>3. ASSUME NEW p \in Processors, AppendOk(p) PROVE CountedAgree'
  <2>1. pc[p] = "flush" /\ batch' = batch /\ metrics' = metrics
        BY <1>3 DEF AppendOk
  <2>2. result'[p] = "ok" /\ \A q \in Processors \ {p} : result'[q] = result[q]
        BY <1>3 DEF AppendOk, TypeOK
  <2>3. Uncounted' = Uncounted \cup EnvelopesOf(batch[p])
        BY <2>1, <2>2 DEF Uncounted
  <2>4. (store \cup overwritten)' = (store \cup overwritten) \cup EnvelopesOf(batch[p])
        BY <1>3, BatchEnvelopes DEF AppendOk
  <2>5. EnvelopesOf(batch[p]) \cap (store \cup overwritten) = {}
        BY <2>1 DEF OnePlace, Settled
  <2>6. Counted' = Counted
        BY <2>3, <2>4, <2>5 DEF Counted
  <2> QED BY <1>1, <2>1, <2>6
<1>4. ASSUME NEW p \in Processors, FlushMetrics(p) PROVE CountedAgree'
  <2>1. pc[p] = "metrics" /\ UNCHANGED <<store, overwritten>> /\ metrics' = Updated(result[p], Len(batch[p]))
        BY <1>4 DEF FlushMetrics
  <2>2. result'[p] = "none" /\ \A q \in Processors \ {p} : result'[q] = result[q] /\ batch'[q] = batch[q]
        BY <1>4 DEF FlushMetrics, TypeOK
  <2>3. CASE result[p] # "ok"
    <3>1. Uncounted' = Uncounted
          BY <2>2, <2>3 DEF Uncounted
    <3>2. metrics'.events = metrics.events
          BY <2>1, <2>3 DEF Updated, TypeOK
    <3> QED BY <1>1, <2>1, <3>1, <3>2 DEF Counted
  <2>4. CASE result[p] = "ok"
    <3> DEFINE b == EnvelopesOf(batch[p])
    <3>1. IsFiniteSet(b) /\ Cardinality(b) = Len(batch[p]) /\ Len(batch[p]) \in Nat
          BY EnvelopesCounted DEF TypeOK, OnePlace
    <3>2. b \subseteq store \cup overwritten
          BY <2>1, <2>4 DEF OnePlace, Outcome
    <3>3. Uncounted = Uncounted' \cup b
          BY <2>2, <2>4 DEF Uncounted
    <3>4. Uncounted' \cap b = {}
          BY <2>2 DEF Uncounted, OnePlace
    <3>5. Counted' = Counted \cup b /\ Counted \cap b = {}
          BY <2>1, <3>2, <3>3, <3>4 DEF Counted
    <3>6. IsFiniteSet(Counted') /\ Cardinality(Counted') = Cardinality(Counted) + Len(batch[p])
      <4>1. Cardinality({}) = 0 /\ Cardinality(Counted) \in Nat
            BY FS_EmptySet, FS_CardinalityType DEF CountedAgree
      <4>2. /\ IsFiniteSet(Counted \cup b)
            /\ Cardinality(Counted \cup b) = Cardinality(Counted) + Cardinality(b) - Cardinality(Counted \cap b)
            BY <3>1, FS_Union DEF CountedAgree
      <4>3. Cardinality(Counted \cap b) = 0
            BY <3>5, <4>1
      <4>4. Cardinality(Counted \cup b) = Cardinality(Counted) + Cardinality(b)
            BY <3>1, <4>1, <4>2, <4>3
      <4> HIDE DEF b
      <4> QED BY <3>1, <3>5, <4>2, <4>4
    <3>7. metrics'.events = metrics.events + Len(batch[p])
          BY <2>1, <2>4 DEF Updated, TypeOK
    <3> QED BY <3>6, <3>7 DEF CountedAgree
  <2> QED BY <2>3, <2>4
<1>5. ASSUME NEW p \in Processors, AppendExists(p) \/ AppendFails(p) PROVE CountedAgree'
  <2>1. pc[p] = "flush" /\ result[p] = "none" /\ UNCHANGED <<batch, store, overwritten, metrics>>
        BY <1>5 DEF AppendExists, AppendFails, AppendErr, OnePlace
  <2>2. result'[p] \in {"exists", "error"} /\ \A q \in Processors \ {p} : result'[q] = result[q]
        BY <1>5 DEF AppendExists, AppendFails, AppendErr, TypeOK
  <2> QED BY <1>2, <2>1, <2>2
<1>6. ASSUME NEW p \in Processors, Receive(p) PROVE CountedAgree'
  <2>1. pc[p] = "select" /\ result[p] = "none" /\ UNCHANGED <<result, store, overwritten, metrics>>
        BY <1>6 DEF Receive, LeaveSelect, OnePlace
  <2>2. \A q \in Processors \ {p} : batch'[q] = batch[q]
        BY <1>6 DEF Receive, TypeOK
  <2> QED BY <1>2, <2>1, <2>2
<1>7. ASSUME UNCHANGED <<batch, result, store, overwritten, metrics>> PROVE CountedAgree'
      BY <1>2, <1>7
<1>8. ASSUME NEW p \in Processors,
             \/ Enter(p) \/ AcquireReceiver(p) \/ TickFlush(p) \/ TickIdle(p)
             \/ ChannelClosed(p) \/ ShutdownBranch(p)
      PROVE  CountedAgree'
      BY <1>7, <1>8 DEF Enter, AcquireReceiver, TickFlush, TickIdle, ChannelClosed, ShutdownBranch
<1>9. ASSUME (\E r \in Producers : Send(r) \/ CloseSender(r)) \/ Shutdown \/ UNCHANGED vars PROVE CountedAgree'
      BY <1>7, <1>9 DEF Send, CloseSender, Shutdown, vars
<1> QED BY <1>3, <1>4, <1>5, <1>6, <1>8, <1>9 DEF Next

\* total_events_processed is the number of envelopes the store took, those left
\* out whose processor has yet to update the metrics: however appends and metrics
\* updates of several processors interleave, none is counted twice or left out.
THEOREM MetricsAlwaysAgree == Spec => []MetricsAgree
<1>1. ASSUME Init PROVE CountedAgree
  <2>1. Counted = {} /\ metrics.events = 0
        BY <1>1 DEF Init, Counted
  <2> QED BY <2>1, FS_EmptySet DEF CountedAgree
<1>2. CountedAgree => MetricsAgree
      BY DEF CountedAgree, MetricsAgree, Counted
<1> QED BY <1>1, <1>2, CountedStep, TypeCorrect, AlwaysOnePlace, PTL DEF Spec

----------------------------------------------------------------------------
(* No batch is refused without a cause.                                    *)

\* Two accepted envelopes with one key.
KeyClash == \E e, f \in Accepted : e # f /\ generate_event_key(e) = generate_event_key(f)

\* RejectedWithCause, with the order of the two counters.
CauseKnown == metrics.errors >= metrics.violations /\ RejectedWithCause

\* Every step keeps a cause known.
LEMMA CauseStep == TypeOK /\ NoneMissing /\ OnePlace /\ CauseKnown /\ [Next]_vars => CauseKnown'
<1> SUFFICES ASSUME TypeOK, NoneMissing, OnePlace, CauseKnown, [Next]_vars PROVE CauseKnown'
    OBVIOUS
<1> USE DEF producerVars, history
<1>0. metrics.errors \in Nat /\ metrics.violations \in Nat /\ metrics.errors >= metrics.violations
      BY DEF TypeOK, CauseKnown
<1>1. KeyClash => KeyClash'
  <2>1. \A r \in Producers : sent[r] \in Nat /\ (sent'[r] = sent[r] \/ sent'[r] = sent[r] + 1)
    <3>1. sent' = sent \/ \E r \in Producers : sent' = [sent EXCEPT ![r] = @ + 1]
          BY DEF Next, vars, Send, CloseSender, Enter, AcquireReceiver, Receive, ChannelClosed, TickFlush,
                 TickIdle, ShutdownBranch, AppendOk, AppendExists, AppendFails, AppendErr, FlushMetrics, Shutdown
    <3> QED BY <3>1 DEF TypeOK
  <2>2. \A r \in Producers : 1 .. sent[r] \subseteq 1 .. sent'[r]
        BY <2>1
  <2>3. Accepted \subseteq Accepted'
        BY <2>2 DEF Accepted
  <2> QED BY <2>3 DEF KeyClash
<1>2. ASSUME UNCHANGED <<metrics, rejected>>, \A q \in Processors : result[q] = "error" => result'[q] = "error"
      PROVE  CauseKnown'
      BY <1>1, <1>2 DEF CauseKnown, RejectedWithCause, KeyClash
<1>3. ASSUME NEW p \in Processors, AppendExists(p) PROVE CauseKnown'
  <2>1. AlreadyExists(batch[p]) /\ pc[p] = "flush" /\ UNCHANGED <<sent, metrics>>
        BY <1>3 DEF AppendExists, AppendErr
  <2>2. PICK k \in KeysOf(batch[p]) : k \in StoredKeys
        BY <2>1 DEF AlreadyExists
  <2>3. PICK e \in EnvelopesOf(batch[p]) : generate_event_key(e) = k
        BY DEF KeysOf, EnvelopesOf
  <2>4. PICK f \in store : generate_event_key(f) = k
        BY <2>2 DEF StoredKeys
  <2>5. e # f
        BY <2>1 DEF OnePlace, Settled
  <2>6. e \in Accepted /\ f \in Accepted
    <3>1. e \in InBatches
          BY <2>1 DEF InBatches, Gathered
    <3> QED BY <3>1 DEF NoneMissing
  <2>7. KeyClash
        BY <2>3, <2>4, <2>5, <2>6 DEF KeyClash
  <2> QED BY <1>0, <1>1, <2>1, <2>7 DEF CauseKnown, RejectedWithCause, KeyClash
<1>4. ASSUME NEW p \in Processors, AppendFails(p) PROVE CauseKnown'
  <2>1. result'[p] = "error" /\ metrics' = metrics
        BY <1>4 DEF AppendFails, AppendErr, TypeOK
  <2> QED BY <1>0, <2>1 DEF CauseKnown, RejectedWithCause
<1>5. ASSUME NEW p \in Processors, FlushMetrics(p) PROVE CauseKnown'
  <2>1. metrics' = Updated(result[p], Len(batch[p])) /\ rejected' = rejected
        BY <1>5 DEF FlushMetrics
  <2>2. \A q \in Processors \ {p} : result'[q] = result[q]
        BY <1>5 DEF FlushMetrics, TypeOK
  <2>3. metrics \in [events : Nat, batches : Nat, errors : Nat, violations : Nat]
        BY DEF TypeOK
  <2>4. CASE result[p] \notin {"ok", "exists"}
    <3>1. metrics'.errors = metrics.errors + 1 /\ metrics'.violations = metrics.violations + 0
          BY <2>1, <2>3, <2>4 DEF Updated
    <3>2. metrics'.errors > metrics'.violations /\ metrics'.errors >= metrics'.violations
          BY <1>0, <3>1
    <3> QED BY <3>2 DEF CauseKnown, RejectedWithCause
  <2>5. CASE result[p] \in {"ok", "exists"}
    <3>1. \/ metrics'.errors = metrics.errors /\ metrics'.violations = metrics.violations
          \/ metrics'.errors = metrics.errors + 1 /\ metrics'.violations = metrics.violations + 1
      <4>1. CASE result[p] = "ok"
            BY <2>1, <2>3, <4>1 DEF Updated
      <4>2. CASE result[p] = "exists"
            BY <2>1, <2>3, <4>2 DEF Updated
      <4> QED BY <2>5, <4>1, <4>2
    <3>2. /\ metrics'.errors >= metrics'.violations
          /\ metrics.errors > metrics.violations => metrics'.errors > metrics'.violations
          BY <1>0, <3>1
    <3>3. \A q \in Processors : result[q] = "error" => result'[q] = "error"
          BY <2>2, <2>5
    <3> QED BY <1>1, <2>1, <3>2, <3>3 DEF CauseKnown, RejectedWithCause, KeyClash
  <2> QED BY <2>4, <2>5
<1>6. ASSUME NEW p \in Processors, AppendOk(p) PROVE CauseKnown'
  <2>1. pc[p] = "flush" /\ result[p] = "none" /\ UNCHANGED <<metrics, rejected>>
        BY <1>6 DEF AppendOk, OnePlace
  <2>2. \A q \in Processors \ {p} : result'[q] = result[q]
        BY <1>6 DEF AppendOk, TypeOK
  <2> QED BY <1>2, <2>1, <2>2
<1>7. ASSUME UNCHANGED <<metrics, rejected, result>> PROVE CauseKnown'
      BY <1>2, <1>7
<1>8. ASSUME NEW p \in Processors,
             \/ Enter(p) \/ AcquireReceiver(p) \/ Receive(p) \/ TickFlush(p) \/ TickIdle(p)
             \/ ChannelClosed(p) \/ ShutdownBranch(p)
      PROVE  CauseKnown'
      BY <1>7, <1>8 DEF Enter, AcquireReceiver, Receive, TickFlush, TickIdle, ChannelClosed, ShutdownBranch
<1>9. ASSUME (\E r \in Producers : Send(r) \/ CloseSender(r)) \/ Shutdown \/ UNCHANGED vars PROVE CauseKnown'
      BY <1>7, <1>9 DEF Send, CloseSender, Shutdown, vars
<1> QED BY <1>3, <1>4, <1>5, <1>6, <1>8, <1>9 DEF Next

\* An envelope is refused only after a database error or because two envelopes
\* were sent under one key: that several processors flush at once is never the
\* reason.
THEOREM AlwaysRejectedWithCause == Spec => []RejectedWithCause
<1>1. ASSUME Init PROVE CauseKnown
      BY <1>1 DEF Init, CauseKnown, RejectedWithCause
<1>2. CauseKnown => RejectedWithCause
      BY DEF CauseKnown
<1> QED BY <1>1, <1>2, CauseStep, TypeCorrect, NoneEverMissing, AlwaysOnePlace, PTL DEF Spec
============================================================================
