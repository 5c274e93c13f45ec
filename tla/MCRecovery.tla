----------------------------- MODULE MCRecovery -----------------------------
(* Instances of Recovery for TLC. *)
EXTENDS Recovery

Envelope(t, id, type, aggregate, data) ==
    [timestamp |-> t, event_id |-> id, event_type |-> type, aggregate_id |-> aggregate,
     event_data |-> data]

Created(account, balance) ==
    [kind |-> "AccountCreated", account_id |-> account, initial_balance |-> balance]
Updated(account, balance) ==
    [kind |-> "BalanceUpdated", account_id |-> account, new_balance |-> balance]
Transaction(from, to, amount) ==
    [kind |-> "TransactionProcessed", from_account |-> from, to_account |-> to, amount |-> amount]

\* With I64Bound = 8 the transfer at 1 is too much for B; the envelope before
\* the epoch, last in key order, moves an amount from A to A whose debit is too
\* much unless the transfer came before it.  One envelope has the wrong type,
\* one no aggregate, three share a time, and the clock goes from
\* before them to where the first is too old.
MCEnvelopes == {
    Envelope(0, 1, "AccountCreated", "A", Created("A", 6)),
    Envelope(1, 2, "BalanceUpdated", "B", Updated("B", 5)),
    Envelope(1, 3, "TransactionProcessed", "A", Transaction("A", "B", 3)),
    Envelope(1, 4, "AccountCreated", "D", [kind |-> "DigestPublished"]),
    Envelope(-1, 5, "TransactionProcessed", "", Transaction("A", "A", -2))}

MCOptions == {
    DefaultOptions,
    [DefaultOptions EXCEPT !.auto_repair = TRUE, !.max_events_to_check = 2],
    [DefaultOptions EXCEPT !.deep_check = FALSE]}
============================================================================
