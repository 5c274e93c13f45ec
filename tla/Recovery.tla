------------------------------ MODULE Recovery ------------------------------
(***************************************************************************)
(* The recovery manager (event-store/src/recovery.rs): recover() makes its *)
(* checks one after the other, each on a query of its own, while writers   *)
(* append and time passes.                                                 *)
(*                                                                         *)
(* An envelope is a record [timestamp, event_id, event_type, aggregate_id, *)
(* event_data]; event_data is a record with its kind and the fields that   *)
(* the balance replay reads.  Amounts are i64 like timestamps.             *)
(***************************************************************************)
EXTENDS EventScan

CONSTANTS
    Envelopes,
    Options,    \* records [auto_repair, deep_check, max_events_to_check]
    MaxAge,     \* ten years
    MaxTime     \* bound on the clock

ASSUME RecoveryAssumption ==
    /\ MaxAge \in Nat /\ MaxTime \in Nat
    /\ Options \subseteq [auto_repair : BOOLEAN, deep_check : BOOLEAN, max_events_to_check : Nat]
    /\ None \notin Nat
    /\ \A e \in Envelopes : LET d == e.event_data IN
          /\ e.timestamp \in Int /\ e.event_id \in Nat
          /\ d.kind = "AccountCreated" => d.initial_balance \in I64
          /\ d.kind = "BalanceUpdated" => d.new_balance \in I64
          /\ d.kind = "TransactionProcessed" => d.amount \in I64

VARIABLES
    db,         \* envelopes in the database
    now,        \* Utc::now()
    pc,         \* which check recover() is at
    options,    \* RecoveryOptions
    todo,       \* envelopes of check_event_consistency's answer not yet validated
    stats,      \* RecoveryStats
    startDb,    \* history: the database when recover() was called
    startNow    \* history: the time when recover() was called

vars == <<db, now, pc, options, todo, stats, startDb, startNow>>

storeVars   == <<db, now>>
historyVars == <<options, startDb, startNow>>

NoStats == [total_events_checked |-> 0, corrupted_events_found |-> 0,
            corrupted_events_repaired |-> 0, consistency_errors |-> 0]

DefaultOptions == [auto_repair |-> FALSE, deep_check |-> TRUE, max_events_to_check |-> 0]

----------------------------------------------------------------------------
(* The checks.                                                             *)

AllEvents(S) == query_events(AllOf, S).events

\* Mutant: 0 is passed on as a limit.
LimitZero(max) == max

\* Option::None for 0
LimitOf(max) == IF max > 0 THEN max ELSE None

\* The type that the event data has, a non-empty aggregate, not in the future
\* and not older than ten years.
validate_event_envelope(e, t) ==
    /\ e.event_type = e.event_data.kind
    /\ e.aggregate_id # ""
    /\ e.timestamp <= t
    /\ e.timestamp >= t - MaxAge

\* "Event repair not implemented"
repair_event(e) == FALSE

\* current_balance.subtract(amount), current_balance.add(amount) by delta: an
\* account not seen yet is skipped, a result outside the i64 range is an error
\* and leaves the balance.
Adjust(s, account, delta) ==
    IF account \notin DOMAIN s.balances THEN s
    ELSE IF s.balances[account] + delta \notin I64
      THEN [balances |-> s.balances, errors |-> s.errors + 1]
      ELSE [balances |-> [s.balances EXCEPT ![account] = @ + delta], errors |-> s.errors]

\* HashMap::insert
SetBalance(s, account, balance) ==
    [balances |-> [a \in DOMAIN s.balances \cup {account} |->
                       IF a = account THEN balance ELSE s.balances[a]],
     errors   |-> s.errors]

\* Mutant: the credit is worked out on the balances before the debit.
ReplayStale(s, e) ==
    LET d == e.event_data
    IN  CASE d.kind = "AccountCreated" -> SetBalance(s, d.account_id, d.initial_balance)
          [] d.kind = "BalanceUpdated" -> SetBalance(s, d.account_id, d.new_balance)
          [] d.kind = "TransactionProcessed" ->
               LET debited == Adjust(s, d.from_account, -d.amount)
                   credited == Adjust(s, d.to_account, d.amount)
               IN  IF d.to_account \in DOMAIN s.balances
                     THEN [debited EXCEPT !.balances[d.to_account] = credited.balances[d.to_account]]
                     ELSE debited
          [] OTHER -> s

\* One envelope of the balance replay: the debit, then the credit, each whether
\* or not the other succeeds.
Replay(s, e) ==
    LET d == e.event_data
    IN  CASE d.kind = "AccountCreated" -> SetBalance(s, d.account_id, d.initial_balance)
          [] d.kind = "BalanceUpdated" -> SetBalance(s, d.account_id, d.new_balance)
          [] d.kind = "TransactionProcessed" ->
               Adjust(Adjust(s, d.from_account, -d.amount), d.to_account, d.amount)
          [] OTHER -> s

NoBalances == [balances |-> <<>>, errors |-> 0]

\* The replay, after each of the envelopes.
ReplayTurns(events) ==
    LET after[i \in 0 .. Len(events)] ==
            IF i = 0 THEN NoBalances ELSE Replay(after[i - 1], events[i])
    IN  after

ReplayAll(events) == ReplayTurns(events)[Len(events)]

\* Mutant: envelopes of the same time count as out of order.
TemporalErrorsStrict(events) ==
    Cardinality({i \in 2 .. Len(events) : events[i].timestamp <= events[i - 1].timestamp})

\* Envelopes that are older than the one before them.
TemporalErrors(events) ==
    Cardinality({i \in 2 .. Len(events) : events[i].timestamp < events[i - 1].timestamp})

----------------------------------------------------------------------------
Init ==
    /\ db = {} /\ now = 0
    /\ pc = "idle" /\ options = DefaultOptions /\ todo = <<>> /\ stats = NoStats
    /\ startDb = {} /\ startNow = 0

\* Mutant: the time alone is the key, and a put replaces.
AppendOverwrites(e) ==
    /\ db' = {f \in db : f.timestamp # e.timestamp} \cup {e}
    /\ UNCHANGED <<now, pc, options, todo, stats, startDb, startNow>>

\* append_event of an envelope whose key is new
AppendEvent(e) ==
    /\ \A f \in db : generate_event_key(f) # generate_event_key(e)
    /\ db' = db \cup {e}
    /\ UNCHANGED <<now, pc, options, todo, stats, startDb, startNow>>

Tick ==
    /\ now < MaxTime
    /\ now' = now + 1
    /\ UNCHANGED <<db, pc, options, todo, stats, startDb, startNow>>

Recover(o) ==
    /\ pc = "idle"
    /\ pc' = "integrity"
    /\ options' = o
    /\ startDb' = db /\ startNow' = now
    /\ UNCHANGED <<storeVars, todo, stats>>

check_database_integrity ==
    /\ pc = "integrity"
    /\ stats' = [stats EXCEPT !.total_events_checked = Len(AllEvents(db))]
    /\ pc' = IF options.deep_check THEN "consistency" ELSE "balances"
    /\ UNCHANGED <<storeVars, historyVars, todo>>

\* The query of check_event_consistency ...
check_event_consistency ==
    /\ pc = "consistency"
    /\ todo' = query_events([AllOf EXCEPT !.limit = LimitOf(options.max_events_to_check)], db).events
    /\ pc' = "validate"
    /\ UNCHANGED <<storeVars, historyVars, stats>>

\* ... and one turn of its loop.
ValidateNext ==
    /\ pc = "validate"
    /\ todo # <<>>
    /\ LET e == Head(todo)
           corrupted == ~validate_event_envelope(e, now)
           repaired  == corrupted /\ options.auto_repair /\ repair_event(e)
       IN  stats' = [stats EXCEPT !.total_events_checked = @ + 1,
                                  !.corrupted_events_found = @ + IF corrupted THEN 1 ELSE 0,
                                  !.corrupted_events_repaired = @ + IF repaired THEN 1 ELSE 0]
    /\ todo' = Tail(todo)
    /\ UNCHANGED <<storeVars, historyVars, pc>>

ValidateEnd ==
    /\ pc = "validate"
    /\ todo = <<>>
    /\ pc' = "balances"
    /\ UNCHANGED <<storeVars, historyVars, todo, stats>>

check_account_balance_consistency ==
    /\ pc = "balances"
    /\ stats' = [stats EXCEPT !.consistency_errors = @ + ReplayAll(AllEvents(db)).errors]
    /\ pc' = "temporal"
    /\ UNCHANGED <<storeVars, historyVars, todo>>

check_temporal_consistency ==
    /\ pc = "temporal"
    /\ stats' = [stats EXCEPT !.consistency_errors = @ + TemporalErrors(AllEvents(db))]
    /\ pc' = "done"
    /\ UNCHANGED <<storeVars, historyVars, todo>>

\* A query returns an error: so does recover(), without statistics.
QueryFails ==
    /\ pc \in {"integrity", "consistency", "balances", "temporal"}
    /\ pc' = "failed"
    /\ stats' = NoStats
    /\ UNCHANGED <<storeVars, historyVars, todo>>

Next ==
    \/ \E e \in Envelopes : AppendEvent(e)
    \/ Tick
    \/ \E o \in Options : Recover(o)
    \/ check_database_integrity
    \/ check_event_consistency
    \/ ValidateNext
    \/ ValidateEnd
    \/ check_account_balance_consistency
    \/ check_temporal_consistency
    \/ QueryFails

Spec == Init /\ [][Next]_vars

----------------------------------------------------------------------------
TypeOK ==
    /\ db \in SUBSET Envelopes
    /\ now \in 0 .. MaxTime
    /\ pc \in {"idle", "integrity", "consistency", "validate", "balances", "temporal", "done", "failed"}
    /\ options \in Options \cup {DefaultOptions}
    /\ todo \in Seq(Envelopes)
    /\ stats \in [total_events_checked : Nat, corrupted_events_found : Nat,
                  corrupted_events_repaired : Nat, consistency_errors : Nat]
    /\ startDb \in SUBSET db
    /\ startNow \in 0 .. now

\* The stores that existed, or may have, between two.
Between(S, T) == {S \cup X : X \in SUBSET (T \ S)}

\* The first n envelopes of a store.
First(n, S) == Page(Scan(S), 0, n)

\* Indices up to k of the envelopes that set the balance of an account.
Settings(s, account, k) ==
    {i \in 1 .. k : /\ s[i].event_data.kind \in {"AccountCreated", "BalanceUpdated"}
                    /\ s[i].event_data.account_id = account}

Known(s, k) ==
    {s[i].event_data.account_id :
        i \in {j \in 1 .. k : s[j].event_data.kind \in {"AccountCreated", "BalanceUpdated"}}}

Transfers(s) == {i \in DOMAIN s : s[i].event_data.kind = "TransactionProcessed"}

\* What an envelope brings an account, less what it takes.
Net(d, account) ==
    IF d.kind # "TransactionProcessed" THEN 0
    ELSE (IF d.to_account = account THEN d.amount ELSE 0)
         - (IF d.from_account = account THEN d.amount ELSE 0)

\* What the first envelopes come to for an account.
Flow(s, account) ==
    LET flow[i \in 0 .. Len(s)] ==
            IF i = 0 THEN 0 ELSE flow[i - 1] + Net(s[i].event_data, account)
    IN  flow

\* The balance that an envelope sets.
SetTo(d) == IF d.kind = "AccountCreated" THEN d.initial_balance ELSE d.new_balance

\* The balance of an account after k envelopes: the last that was set, and what
\* came in and went out since.
Balance(s, account, k) ==
    LET set  == Max(Settings(s, account, k))
        flow == Flow(s, account)
    IN  SetTo(s[set].event_data) + flow[k] - flow[set]

\* No debit and no credit takes a balance out of the i64 range.
Fits(s) ==
    \A i \in Transfers(s) :
        LET d == s[i].event_data
        IN  /\ d.from_account \in Known(s, i - 1) => Balance(s, d.from_account, i - 1) - d.amount \in I64
            /\ d.to_account \in Known(s, i - 1) /\ d.to_account # d.from_account =>
                   Balance(s, d.to_account, i - 1) + d.amount \in I64

\* Events on both sides of the epoch: the earlier ones have the greater keys.
Mixed(s) == \E i, j \in DOMAIN s : s[i].timestamp < 0 /\ s[j].timestamp >= 0

\* The replay of a store is without errors exactly if all balances fit, and then
\* it ends with the balance that each account has by its history, whatever
\* order the envelopes were appended in.
BalancesExact ==
    LET s == Scan(db)
        end == ReplayAll(s)
    IN  /\ end.errors = 0 <=> Fits(s)
        /\ end.errors = 0 => end.balances = [a \in Known(s, Len(s)) |-> Balance(s, a, Len(s))]

\* What recover() reports of balances and order is true of stores that existed
\* while it ran, as far as its queries reach: no error without a balance that
\* does not fit or events on both sides of the epoch, no such thing without an
\* error.
VerdictTrue ==
    pc = "done" =>
        \E S \in Between(startDb, db) : \E T \in Between(S, db) :
            stats.consistency_errors = 0 <=>
                Fits(First(DefaultLimit, S)) /\ ~Mixed(First(DefaultLimit, T))

\* What recover() counts is true whatever is appended and however time passes
\* meanwhile: as corrupted no more events than were invalid at some moment, nor
\* than max_events_to_check, and, where its checks reach the whole store, at least
\* those invalid all the time; as checked no fewer than the store had when it
\* began, and without deep_check no more than it has at the end.
CountsTrue ==
    LET max       == options.max_events_to_check
        found     == stats.corrupted_events_found
        total     == stats.total_events_checked
        Reaches(n) == Cardinality(db) <= n
    IN  pc = "done" =>
            /\ found <= Cardinality({e \in db :
                             \E t \in startNow .. now : ~validate_event_envelope(e, t)})
            /\ max > 0 => found <= max
            /\ options.deep_check /\ Reaches(IF max = 0 THEN DefaultLimit ELSE max) =>
                   found >= Cardinality({e \in startDb :
                                \A t \in startNow .. now : ~validate_event_envelope(e, t)})
            /\ Reaches(DefaultLimit) => total >= Cardinality(startDb)
            /\ ~options.deep_check => found = 0 /\ total <= Cardinality(db)

----------------------------------------------------------------------------
(* What comments in the code say, and the code does not do.                *)

\* test_recovery_with_events: by default recover() counts every event of a store once,
\* if nothing is appended while it runs.
CountedOnce ==
    pc = "done" /\ options = DefaultOptions /\ db = startDb =>
        stats.total_events_checked = Cardinality(db)
============================================================================
