-------------------------- MODULE FlushTimerProofs --------------------------
(* Proofs about FlushTimer, for every delay, batch size and latency.        *)
EXTENDS FlushTimer, TLAPS

\* A full batch does not stay in select!.
RoomLeft == pc = "select" => Len(events) = 0 \/ Len(events) < MaxBatchSize

\* The next tick is never more than one delay away, and comes before the
\* bound of every envelope that waits: a tick that finds the batch too young
\* to flush fell less than a delay after the batch's creation.
TickInTime ==
    /\ next_tick <= now + MaxBatchDelay
    /\ pc = "select" =>
         \A i \in DOMAIN events :
            events[i] >= created_at /\ next_tick < events[i] + 2 * MaxBatchDelay
    /\ pc = "done" => events = <<>>

USE FlushTimerAssumption

\* Rounding takes less than the divisor.
LEMMA Division ==
    ASSUME NEW x \in Nat, NEW m \in Nat \ {0}
    PROVE  /\ x \div m \in Nat
           /\ (x \div m) * m <= x
           /\ x - (x \div m) * m <= m - 1
  OBVIOUS

\* Every step keeps the types and the room in the batch.
LEMMA RoomStep == TypeOK /\ RoomLeft /\ [Next]_vars => TypeOK' /\ RoomLeft'
<1> SUFFICES ASSUME TypeOK, RoomLeft, [Next]_vars PROVE TypeOK' /\ RoomLeft'
  OBVIOUS
<1>1. CASE TimePasses
  <2>1. 0 .. now \subseteq 0 .. (now + 1)
    BY DEF TypeOK
  <2>2. events \in Seq(0 .. (now + 1))
    BY <2>1 DEF TypeOK
  <2> QED BY <1>1, <2>2 DEF TypeOK, RoomLeft, TimePasses, metrics
<1>2. CASE Receive
  <2>1. events' \in Seq(0 .. now) /\ Len(events') = Len(events) + 1
    BY <1>2 DEF TypeOK, Receive
  <2>2. Len(events') <= MaxBatchSize \/ Len(events') <= 1
    BY <1>2, <2>1 DEF TypeOK, RoomLeft, Receive
  <2>3. RoomLeft'
    BY <1>2, <2>1 DEF TypeOK, RoomLeft, Receive, is_full, BeginFlush
  <2> QED BY <1>2, <2>1, <2>2, <2>3 DEF TypeOK, Receive, BeginFlush, metrics
<1>3. CASE Tick
  BY <1>3 DEF TypeOK, RoomLeft, Tick, BeginFlush, metrics
<1>4. CASE Stop
  BY <1>4 DEF TypeOK, RoomLeft, Stop, BeginFlush, metrics
<1>5. CASE EndFlush
  <2> DEFINE d == now - start_time
             x == average * (batches + 1) + d
             m == (batches + 1) + 1
  <2>a. d \in Nat /\ m \in Nat \ {0} /\ x \in Nat
    BY DEF TypeOK
  <2>b. x \div m \in Nat
    <3> HIDE DEF x, m
    <3> QED BY <2>a, Division
  <2>c. \/ batches' = batches + 1 /\ average' = x \div m /\ latency' = latency + d
        \/ UNCHANGED metrics
    BY <1>5 DEF EndFlush, average_write_latency
  <2>1. average' \in Nat /\ batches' \in Nat /\ latency' \in Nat
    <3> HIDE DEF x, m, d
    <3> QED BY <2>a, <2>b, <2>c DEF TypeOK, metrics
  <2>2. events' = <<>> /\ events' \in Seq(0 .. now) /\ Len(events') = 0
    BY <1>5 DEF TypeOK, EndFlush
  <2> QED BY <1>5, <2>1, <2>2 DEF TypeOK, RoomLeft, EndFlush
<1>6. CASE UNCHANGED vars
  BY <1>6 DEF TypeOK, RoomLeft, vars
<1> QED BY <1>1, <1>2, <1>3, <1>4, <1>5, <1>6 DEF Next

\* Every state of the processor is well typed: noted times lie in the past and
\* the batch never outgrows max_batch_size.
THEOREM TypeCorrect == Spec => []TypeOK
<1>1. Init => TypeOK /\ RoomLeft
  BY DEF Init, TypeOK, RoomLeft
<1> QED BY <1>1, RoomStep, PTL DEF Spec

----------------------------------------------------------------------------
\* Every step keeps the next tick, and so every wait, within its bound.
LEMMA WaitStep ==
    TypeOK /\ TickInTime /\ WaitBounded /\ [Next]_vars => TickInTime' /\ WaitBounded'
<1> SUFFICES ASSUME TypeOK, TickInTime, WaitBounded, [Next]_vars
             PROVE  TickInTime' /\ WaitBounded'
  OBVIOUS
<1>0. \A i \in DOMAIN events : events[i] \in 0 .. now
  BY DEF TypeOK
<1>1. CASE TimePasses
  BY <1>1, <1>0 DEF TypeOK, TickInTime, WaitBounded, WaitedUntil, TimePasses, metrics
<1>2. CASE Receive
  <2>1. \A i \in DOMAIN events' : events'[i] = now \/ (i \in DOMAIN events /\ events'[i] = events[i])
    BY <1>2 DEF TypeOK, Receive
  <2>2. now < now + 2 * MaxBatchDelay /\ next_tick < now + 2 * MaxBatchDelay
    BY DEF TypeOK, TickInTime
  <2>3. \A i \in DOMAIN events' :
          /\ events'[i] \in 0 .. now
          /\ events'[i] >= created_at /\ next_tick < events'[i] + 2 * MaxBatchDelay
          /\ now - events'[i] < 2 * MaxBatchDelay
    BY <1>0, <1>2, <2>1, <2>2 DEF TypeOK, TickInTime, WaitBounded, WaitedUntil, Receive
  <2>4. now' = now /\ next_tick' = next_tick /\ created_at' = created_at /\ pc' # "done"
    BY <1>2 DEF Receive, BeginFlush
  <2>5. pc' \in {"flush", "last_flush"} => start_time' = now
    BY <1>2 DEF Receive, BeginFlush
  <2> QED BY <2>3, <2>4, <2>5 DEF TickInTime, WaitBounded, WaitedUntil
<1>3. CASE Tick
  <2>1. next_tick' = next_tick + MaxBatchDelay /\ next_tick' <= now + MaxBatchDelay
    BY <1>3 DEF TypeOK, Tick
  <2>2. ASSUME pc' = "select", NEW i \in DOMAIN events
        PROVE  next_tick' < events[i] + 2 * MaxBatchDelay
    <3>1. now - created_at < MaxBatchDelay
      BY <1>3, <2>2 DEF TypeOK, Tick, BeginFlush, Partial, is_expired
    <3>2. events[i] >= created_at
      BY <1>3 DEF Tick, TickInTime
    <3> QED BY <1>0, <1>3, <2>1, <3>1, <3>2 DEF TypeOK, Tick
  <2> QED BY <1>0, <1>3, <2>1, <2>2
          DEF TypeOK, TickInTime, WaitBounded, WaitedUntil, Tick, BeginFlush
<1>4. CASE Stop
  BY <1>4, <1>0 DEF TypeOK, TickInTime, WaitBounded, WaitedUntil, Stop, BeginFlush, Partial
<1>5. CASE EndFlush
  BY <1>5 DEF TypeOK, TickInTime, WaitBounded, EndFlush
<1>6. CASE UNCHANGED vars
  BY <1>6 DEF TypeOK, TickInTime, WaitBounded, WaitedUntil, vars
<1> QED BY <1>1, <1>2, <1>3, <1>4, <1>5, <1>6 DEF Next

\* The timer branch of run_batch_processor hands every envelope to the store
\* in less than 2 * max_batch_delay, whatever the delay, the size of a batch
\* and the duration of the flushes.
THEOREM WaitAlwaysBounded == Spec => []WaitBounded
<1>1. Init => TickInTime /\ WaitBounded
  BY DEF Init, TickInTime, WaitBounded
<1> QED BY <1>1, TypeCorrect, WaitStep, PTL DEF Spec

----------------------------------------------------------------------------
\* AverageOfOneMore of any numbers.
MeanOfOneMore(avg, n, sum) ==
    avg * (n + 1) <= sum /\ 2 * (sum - avg * (n + 1)) <= n * (n + 1)

\* The rounding of one more division.
LEMMA AverageOfNext ==
    ASSUME NEW avg \in Nat, NEW n \in Nat, NEW sum \in Nat, NEW d \in Nat,
           MeanOfOneMore(avg, n, sum)
    PROVE  MeanOfOneMore((avg * (n + 1) + d) \div ((n + 1) + 1), n + 1, sum + d)
<1> DEFINE m == n + 1
           q == (avg * m + d) \div (m + 1)
           total == sum + d
<1>0. m = n + 1 /\ total = sum + d /\ q = (avg * m + d) \div (m + 1)
  OBVIOUS
<1> SUFFICES q * (m + 1) <= total /\ 2 * (total - q * (m + 1)) <= m * (m + 1)
  BY DEF MeanOfOneMore
<1> HIDE DEF m, q, total
<1> DEFINE p == avg * (n + 1)
           r == q * (m + 1)
           s == n * (n + 1)
           k == m + 1
<1>1. p \in Nat /\ s \in Nat /\ k \in Nat \ {0} /\ k = n + 2
  BY <1>0
<1>2. m * (m + 1) = s + 2 * m /\ avg * m = p
  BY <1>0
<1>3. q \in Nat /\ r <= p + d /\ p + d - r <= m
  <2> HIDE DEF p, k
  <2>1. p + d \in Nat /\ q = (p + d) \div k
    BY <1>0, <1>1, <1>2 DEF k
  <2>2. q \in Nat /\ q * k <= p + d /\ (p + d) - q * k <= k - 1
    BY <1>1, <2>1, Division
  <2>3. k - 1 = m /\ r = q * k
    BY <1>0 DEF k
  <2>4. q * k \in Nat /\ m \in Nat
    BY <1>0, <1>1, <2>2
  <2> DEFINE t == q * k
  <2> HIDE DEF r, t
  <2>5. r = t /\ t \in Nat /\ t <= p + d /\ (p + d) - t <= k - 1
    BY <2>2, <2>3, <2>4 DEF t
  <2> QED BY <1>1, <2>1, <2>2, <2>3, <2>5
<1>4. r \in Nat /\ m \in Nat
  BY <1>0, <1>3
<1>5. p <= sum /\ 2 * (sum - p) <= s
  BY DEF MeanOfOneMore
<1> HIDE DEF p, r, s, k
<1> SUFFICES r <= total /\ 2 * (total - r) <= s + 2 * m
  BY <1>2 DEF r
<1> QED BY <1>0, <1>1, <1>3, <1>4, <1>5

\* What flush_batch keeps in average_write_latency is the mean over one batch
\* more than there were.
THEOREM AverageAlwaysOfOneMore == Spec => []AverageOfOneMore
<1>1. Init => AverageOfOneMore
  BY DEF Init, AverageOfOneMore
<1>2. TypeOK /\ AverageOfOneMore /\ [Next]_vars => AverageOfOneMore'
  <2> SUFFICES ASSUME TypeOK, AverageOfOneMore, [Next]_vars PROVE AverageOfOneMore'
    OBVIOUS
  <2>1. CASE UNCHANGED metrics
    BY <2>1 DEF metrics, AverageOfOneMore
  <2>2. CASE EndFlush /\ ~UNCHANGED metrics
    <3> DEFINE d == now - start_time
    <3>1. d \in Nat
      BY DEF TypeOK
    <3>2. /\ batches' = batches + 1 /\ latency' = latency + d
          /\ average' = (average * (batches + 1) + d) \div ((batches + 1) + 1)
      BY <2>2 DEF EndFlush, average_write_latency
    <3> HIDE DEF d
    <3>3. MeanOfOneMore(average, batches, latency)
      BY DEF AverageOfOneMore, MeanOfOneMore
    <3>4. MeanOfOneMore((average * (batches + 1) + d) \div ((batches + 1) + 1),
                        batches + 1, latency + d)
      BY <3>1, <3>3, AverageOfNext DEF TypeOK
    <3>5. MeanOfOneMore(average', batches', latency')
      BY <3>2, <3>4, Zenon
    <3> QED BY <3>5 DEF AverageOfOneMore, MeanOfOneMore
  <2>3. TimePasses \/ Receive \/ Tick \/ Stop \/ UNCHANGED vars => UNCHANGED metrics
    BY DEF TimePasses, Receive, Tick, Stop, vars, metrics
  <2> QED BY <2>1, <2>2, <2>3 DEF Next
<1> QED BY <1>1, <1>2, TypeCorrect, PTL DEF Spec
============================================================================
