--------------------------- MODULE RecoveryProofs ---------------------------
(***************************************************************************)
(* Theorems about Recovery, for stores of any size: the balance replay     *)
(* agrees with the history of each account, and what recover() reports is  *)
(* true of stores that existed while it ran.                               *)
(***************************************************************************)
EXTENDS Recovery, EventScanProofs

----------------------------------------------------------------------------
(* The history of an account.                                              *)

\* An envelope that sets the balance of an account.
Sets(d) == d.kind \in {"AccountCreated", "BalanceUpdated"}

\* A set of numbers up to k that is not empty has a greatest member.
LEMMA GreatestOf ==
    ASSUME NEW k \in Nat, NEW T, T \subseteq 1 .. k, T # {}
    PROVE  Max(T) \in T /\ \A y \in T : y <= Max(T)
<1> DEFINE U == {y \in 0 .. k : k - y \in T}
<1>1. U \subseteq Nat
      OBVIOUS
<1>2. U # {}
  <2>1. PICK y \in T : TRUE
        OBVIOUS
  <2>2. k - y \in 0 .. k /\ k - (k - y) = y
        BY <2>1
  <2> QED BY <2>1, <2>2
<1>3. PICK x \in U : \A y \in U : x <= y
  <2> HIDE DEF U
  <2> QED BY <1>1, <1>2, LeastNatural
<1>4. ASSUME NEW y \in T PROVE y <= k - x
  <2>1. y \in 1 .. k /\ k - y \in 0 .. k /\ k - (k - y) = y
        OBVIOUS
  <2>2. k - y \in U
        BY <2>1
  <2>3. x <= k - y
        BY <1>3, <2>2
  <2> QED BY <1>3, <2>1, <2>3
<1>5. k - x \in T /\ T \subseteq Int
      BY <1>3
<1>6. \E z \in T : \A y \in T : z >= y
      BY <1>4, <1>5
<1>7. Max(T) \in T /\ \A y \in T : Max(T) >= y
      BY <1>6 DEF Max
<1> QED BY <1>5, <1>7

\* A greatest member is the only one.
LEMMA GreatestIs ==
    ASSUME NEW k \in Nat, NEW T, T \subseteq 1 .. k, NEW m \in T, \A y \in T : y <= m
    PROVE  Max(T) = m
<1>1. Max(T) \in T /\ m <= Max(T)
      BY GreatestOf
<1>2. Max(T) \in Int /\ m \in Int /\ Max(T) <= m
  <2>1. Max(T) \in 1 .. k /\ m \in 1 .. k
        BY <1>1
  <2> QED BY <1>1, <2>1
<1> QED BY <1>1, <1>2

\* What an envelope brings is an integer.
LEMMA NetType == ASSUME NEW e \in Envelopes, NEW a PROVE Net(e.event_data, a) \in Int
<1>1. I64 \subseteq Int
      BY I64BoundAssumption DEF I64
<1>2. e.event_data.kind = "TransactionProcessed" => e.event_data.amount \in Int
      BY <1>1, RecoveryAssumption
<1> QED BY <1>2 DEF Net

\* Flow is what its recursion says.
LEMMA FlowLoop ==
    ASSUME NEW s \in Seq(Envelopes), NEW a
    PROVE  LET f == Flow(s, a)
           IN  /\ f \in [0 .. Len(s) -> Int]
               /\ f[0] = 0
               /\ \A i \in 1 .. Len(s) : f[i] = f[i - 1] + Net(s[i].event_data, a)
<1> DEFINE n == Len(s)
           turn == [i \in 1 .. n |-> [x \in Int |-> x + Net(s[i].event_data, a)]]
<1>1. n \in Nat
      OBVIOUS
<1>2. \A i \in 1 .. n : Net(s[i].event_data, a) \in Int
      BY NetType
<1>3. turn \in [1 .. n -> [Int -> Int]]
      BY <1>2
<1>4. PICK g \in [0 .. n -> Int] : IsRun(g, n, 0, turn)
  <2> DEFINE Z == Int
             z == 0
  <2>1. z \in Z /\ turn \in [1 .. n -> [Z -> Z]]
        BY <1>3
  <2> HIDE DEF turn, n, Z, z
  <2>2. \E g \in [0 .. n -> Z] : IsRun(g, n, z, turn)
        BY <1>1, <2>1, LoopExists
  <2> QED BY <2>2 DEF Z, z
<1>5. g[0] = 0 /\ \A i \in 1 .. n : g[i] = g[i - 1] + Net(s[i].event_data, a)
  <2>1. \A i \in 1 .. n : i - 1 \in 0 .. n
        BY <1>1
  <2> QED BY <1>4, <2>1 DEF IsRun
<1>6. g = [i \in 0 .. n |-> IF i = 0 THEN 0 ELSE g[i - 1] + Net(s[i].event_data, a)]
  <2>1. \A i \in 0 .. n : i = 0 \/ i \in 1 .. n
        BY <1>1
  <2> QED BY <1>4, <1>5, <2>1
<1> DEFINE f == Flow(s, a)
<1>7. f = [i \in 0 .. n |-> IF i = 0 THEN 0 ELSE f[i - 1] + Net(s[i].event_data, a)]
      BY <1>6 DEF Flow
<1> HIDE DEF f, turn, n
<1>8. f[0] = 0 /\ \A i \in 1 .. n : f[i] = f[i - 1] + Net(s[i].event_data, a)
  <2>1. 0 \in 0 .. n /\ \A i \in 1 .. n : i \in 0 .. n /\ i # 0
        BY <1>1
  <2> QED BY <1>7, <2>1
<1>9. f \in [0 .. n -> Int]
  <2> DEFINE S == {i \in 0 .. n : f[i] \in Int}
  <2>1. 0 \in S
        BY <1>1, <1>8
  <2>2. ASSUME NEW i \in 0 .. (n - 1), i \in S PROVE i + 1 \in S
    <3>1. i + 1 \in 1 .. n /\ i + 1 \in 0 .. n /\ (i + 1) - 1 = i
          BY <1>1
    <3>2. f[i + 1] = f[i] + Net(s[i + 1].event_data, a) /\ Net(s[i + 1].event_data, a) \in Int
          BY <1>2, <1>8, <3>1 DEF n
    <3> QED BY <2>2, <3>1, <3>2
  <2>3. 0 .. n \subseteq S
    <3> HIDE DEF S
    <3> QED BY <1>1, <2>1, <2>2, Induction
  <2> QED BY <1>7, <2>3
<1> QED BY <1>8, <1>9 DEF f, n

\* The settings of an account after one more envelope.
LEMMA SettingsStep ==
    ASSUME NEW s \in Seq(Envelopes), NEW a, NEW k \in Nat, k < Len(s)
    PROVE  LET d == s[k + 1].event_data
           IN  /\ Settings(s, a, k) \subseteq 1 .. k
               /\ a \in Known(s, k) <=> Settings(s, a, k) # {}
               /\ Settings(s, a, k + 1)
                     = Settings(s, a, k) \cup (IF Sets(d) /\ d.account_id = a THEN {k + 1} ELSE {})
<1>1. \A i : i \in 1 .. (k + 1) <=> i \in 1 .. k \/ i = k + 1
      OBVIOUS
<1>2. /\ Settings(s, a, k) \subseteq 1 .. k
      /\ a \in Known(s, k) <=> Settings(s, a, k) # {}
      BY DEF Settings, Known
<1> QED BY <1>1, <1>2 DEF Settings, Sets

\* The accounts known after one more envelope.
LEMMA KnownStep ==
    ASSUME NEW s \in Seq(Envelopes), NEW k \in Nat, k < Len(s)
    PROVE  LET d == s[k + 1].event_data
           IN  Known(s, k + 1) = Known(s, k) \cup (IF Sets(d) THEN {d.account_id} ELSE {})
<1>1. \A i : i \in 1 .. (k + 1) <=> i \in 1 .. k \/ i = k + 1
      OBVIOUS
<1>2. \A a : a \in Known(s, k + 1) <=>
          a \in Known(s, k) \/ (Sets(s[k + 1].event_data) /\ a = s[k + 1].event_data.account_id)
      BY <1>1 DEF Known, Sets
<1> QED BY <1>2

\* A balance that an envelope sets.
LEMMA SetToType == ASSUME NEW e \in Envelopes, Sets(e.event_data) PROVE SetTo(e.event_data) \in I64
BY RecoveryAssumption DEF Sets, SetTo

\* The balance of an account after one more envelope.
LEMMA BalanceStep ==
    ASSUME NEW s \in Seq(Envelopes), NEW a, NEW k \in Nat, k < Len(s)
    PROVE  LET d == s[k + 1].event_data
           IN  /\ a \in Known(s, k) => Balance(s, a, k) \in Int
               /\ Sets(d) /\ d.account_id = a => Balance(s, a, k + 1) = SetTo(d)
               /\ a \in Known(s, k) /\ ~(Sets(d) /\ d.account_id = a) =>
                      Balance(s, a, k + 1) = Balance(s, a, k) + Net(d, a)
<1> DEFINE d == s[k + 1].event_data
           T == Settings(s, a, k)
           U == Settings(s, a, k + 1)
           f == Flow(s, a)
<1>1. k \in 0 .. Len(s) /\ k + 1 \in 1 .. Len(s) /\ k + 1 \in 0 .. Len(s) /\ (k + 1) - 1 = k
      OBVIOUS
<1>2. /\ T \subseteq 1 .. k /\ (a \in Known(s, k) <=> T # {})
      /\ U = T \cup (IF Sets(d) /\ d.account_id = a THEN {k + 1} ELSE {})
      BY SettingsStep
<1>3. f \in [0 .. Len(s) -> Int] /\ f[k + 1] = f[k] + Net(d, a) /\ f[k] \in Int /\ f[k + 1] \in Int
      BY <1>1, FlowLoop
<1>4. Net(d, a) \in Int
      BY <1>1, NetType
<1>5. /\ Balance(s, a, k) = SetTo(s[Max(T)].event_data) + f[k] - f[Max(T)]
      /\ Balance(s, a, k + 1) = SetTo(s[Max(U)].event_data) + f[k + 1] - f[Max(U)]
      BY DEF Balance
<1>6. \A i \in T : s[i] \in Envelopes /\ Sets(s[i].event_data)
      BY DEF Settings, Sets
<1> HIDE DEF T, U, f, d
<1>7. I64 \subseteq Int
      BY I64BoundAssumption DEF I64
<1>8. ASSUME T # {}
      PROVE  Max(T) \in T /\ SetTo(s[Max(T)].event_data) \in Int /\ f[Max(T)] \in Int
  <2>1. Max(T) \in T
        BY <1>2, <1>8, GreatestOf
  <2>2. Max(T) \in 0 .. Len(s)
    <3>1. Max(T) \in 1 .. k
      <4> DEFINE m == Max(T)
      <4> HIDE DEF m
      <4>1. m \in T
            BY <2>1 DEF m
      <4>2. m \in 1 .. k
            BY <1>2, <4>1
      <4> QED BY <4>2 DEF m
    <3>2. Len(s) \in Nat
          OBVIOUS
    <3> QED BY <3>1, <3>2
  <2>3. SetTo(s[Max(T)].event_data) \in I64
        BY <1>6, <2>1, SetToType
  <2> QED BY <1>3, <1>7, <2>1, <2>2, <2>3
<1>9. a \in Known(s, k) => Balance(s, a, k) \in Int
      BY <1>2, <1>3, <1>5, <1>8
<1>10. ASSUME Sets(d), d.account_id = a PROVE Balance(s, a, k + 1) = SetTo(d)
  <2>1. U = T \cup {k + 1}
        BY <1>2, <1>10
  <2>2. U \subseteq 1 .. (k + 1) /\ k + 1 \in U /\ \A y \in U : y <= k + 1
        BY <1>2, <2>1
  <2>3. k + 1 \in Nat
        OBVIOUS
  <2>4. Max(U) = k + 1
    <3> DEFINE m == k + 1
    <3>1. m \in Nat /\ U \subseteq 1 .. m /\ m \in U /\ \A y \in U : y <= m
          BY <2>2, <2>3
    <3> HIDE DEF m
    <3>2. Max(U) = m
          BY <3>1, GreatestIs
    <3> QED BY <3>2 DEF m
  <2>5. SetTo(d) \in Int
    <3>1. s[k + 1] \in Envelopes
          BY <1>1
    <3> QED BY <1>7, <1>10, <3>1, SetToType DEF d
  <2>6. Balance(s, a, k + 1) = SetTo(d) + f[k + 1] - f[k + 1]
        BY <1>5, <2>4 DEF d
  <2> QED BY <1>3, <2>5, <2>6
<1>11. ASSUME a \in Known(s, k), ~(Sets(d) /\ d.account_id = a)
       PROVE  Balance(s, a, k + 1) = Balance(s, a, k) + Net(d, a)
  <2>1. U = T /\ T # {}
        BY <1>2, <1>11
  <2> QED BY <1>3, <1>4, <1>5, <1>8, <2>1
<1> QED BY <1>9, <1>10, <1>11 DEF d

----------------------------------------------------------------------------
(* The replay.                                                             *)

Accounts == {e.event_data.account_id : e \in Envelopes}

ReplayStates == [balances : UNION {[A -> I64] : A \in SUBSET Accounts}, errors : Nat]

\* A state of the replay with the accounts K.
IsReplay(r, K) == r \in [balances : [K -> I64], errors : Nat]

\* The cases of Replay.
LEMMA ReplayCases ==
    ASSUME NEW r, NEW e
    PROVE  LET d == e.event_data
           IN  /\ Sets(d) => Replay(r, e) = SetBalance(r, d.account_id, SetTo(d))
               /\ d.kind = "TransactionProcessed" =>
                      Replay(r, e) = Adjust(Adjust(r, d.from_account, -d.amount), d.to_account, d.amount)
               /\ ~Sets(d) /\ d.kind # "TransactionProcessed" => Replay(r, e) = r
<1> DEFINE d == e.event_data
<1>1. d.kind = "AccountCreated" => Replay(r, e) = SetBalance(r, d.account_id, d.initial_balance)
      BY Zenon DEF Replay
<1>2. d.kind = "BalanceUpdated" => Replay(r, e) = SetBalance(r, d.account_id, d.new_balance)
  <2>1. "BalanceUpdated" # "AccountCreated" /\ "BalanceUpdated" # "TransactionProcessed"
        OBVIOUS
  <2> QED BY <2>1, Zenon DEF Replay
<1>3. d.kind = "TransactionProcessed" =>
          Replay(r, e) = Adjust(Adjust(r, d.from_account, -d.amount), d.to_account, d.amount)
      BY Zenon DEF Replay
<1>4. d.kind \notin {"AccountCreated", "BalanceUpdated", "TransactionProcessed"} => Replay(r, e) = r
      BY Zenon DEF Replay
<1>5. SetTo(d) = IF d.kind = "AccountCreated" THEN d.initial_balance ELSE d.new_balance
      BY DEF SetTo
<1> HIDE DEF d
<1>6. Sets(d) <=> d.kind = "AccountCreated" \/ d.kind = "BalanceUpdated"
      BY DEF Sets
<1>7. "BalanceUpdated" # "AccountCreated"
      OBVIOUS
<1> QED BY <1>1, <1>2, <1>3, <1>4, <1>5, <1>6, <1>7, Zenon DEF d

\* Setting a balance.
BalanceSet(t, r, K, a, b) ==
    /\ IsReplay(t, K \cup {a}) /\ t.errors = r.errors
    /\ t.balances = [x \in K \cup {a} |-> IF x = a THEN b ELSE r.balances[x]]

LEMMA SetBalanceOf ==
    ASSUME NEW r, NEW K, IsReplay(r, K), NEW a, NEW b \in I64
    PROVE  BalanceSet(SetBalance(r, a, b), r, K, a, b)
<1>1. DOMAIN r.balances = K
      BY DEF IsReplay
<1>2. SetBalance(r, a, b) = [balances |-> [x \in K \cup {a} |-> IF x = a THEN b ELSE r.balances[x]],
                             errors   |-> r.errors]
      BY <1>1 DEF SetBalance
<1>3. [x \in K \cup {a} |-> IF x = a THEN b ELSE r.balances[x]] \in [K \cup {a} -> I64]
      BY DEF IsReplay
<1> QED BY <1>2, <1>3 DEF IsReplay, BalanceSet

\* Adjusting one.
Adjusted(t, r, K, a, b) ==
    /\ IsReplay(t, K) /\ r.errors <= t.errors
    /\ t.errors = r.errors <=> (a \in K => r.balances[a] + b \in I64)
    /\ t.errors = r.errors => t.balances = [x \in K |-> r.balances[x] + IF x = a THEN b ELSE 0]

LEMMA AdjustOf ==
    ASSUME NEW r, NEW K, IsReplay(r, K), NEW a, NEW b \in Int
    PROVE  Adjusted(Adjust(r, a, b), r, K, a, b)
<1> DEFINE B == r.balances
           t == Adjust(r, a, b)
<1>1. B \in [K -> I64] /\ DOMAIN B = K /\ r.errors \in Nat
      BY DEF IsReplay
<1>2. I64 \subseteq Int
      BY I64BoundAssumption DEF I64
<1>3. \A x \in K : B[x] \in Int
      BY <1>1, <1>2
<1>4. CASE a \notin K
  <2>1. t = r
        BY <1>1, <1>4 DEF Adjust
  <2>2. B = [x \in K |-> B[x] + IF x = a THEN b ELSE 0]
        BY <1>1, <1>3, <1>4
  <2> HIDE DEF t
  <2>3. Adjusted(t, r, K, a, b)
        BY <1>1, <1>4, <2>1, <2>2 DEF Adjusted
  <2> QED BY <2>3 DEF t
<1>5. CASE a \in K /\ B[a] + b \notin I64
  <2>1. t = [balances |-> B, errors |-> r.errors + 1]
        BY <1>1, <1>5 DEF Adjust
  <2>2. t.balances = B /\ t.errors = r.errors + 1
        BY <2>1
  <2>3. t.errors # r.errors /\ r.errors <= t.errors /\ t.errors \in Nat
        BY <1>1, <2>2
  <2>4. IsReplay(t, K)
        BY <1>1, <2>1, <2>3 DEF IsReplay
  <2> HIDE DEF t
  <2>5. Adjusted(t, r, K, a, b)
        BY <1>1, <1>5, <2>3, <2>4 DEF Adjusted
  <2> QED BY <2>5 DEF t
<1>6. CASE a \in K /\ B[a] + b \in I64
  <2>1. t = [balances |-> [B EXCEPT ![a] = B[a] + b], errors |-> r.errors]
        BY <1>1, <1>6 DEF Adjust
  <2>2. t.balances = [B EXCEPT ![a] = B[a] + b] /\ t.errors = r.errors
        BY <2>1
  <2>3. [B EXCEPT ![a] = B[a] + b] = [x \in K |-> B[x] + IF x = a THEN b ELSE 0]
        BY <1>1, <1>3, <1>6
  <2>4. [B EXCEPT ![a] = B[a] + b] \in [K -> I64]
        BY <1>1, <1>6
  <2>5. IsReplay(t, K)
        BY <1>1, <2>1, <2>4 DEF IsReplay
  <2> HIDE DEF t
  <2>6. Adjusted(t, r, K, a, b)
        BY <1>1, <1>6, <2>2, <2>3, <2>5 DEF Adjusted
  <2> QED BY <2>6 DEF t
<1> QED BY <1>4, <1>5, <1>6

\* A debit and then a credit: without an error exactly if both fit.
Transferred(v, r, K, f, g, m) ==
    /\ IsReplay(v, K) /\ r.errors <= v.errors
    /\ v.errors = r.errors <=>
           /\ f \in K => r.balances[f] - m \in I64
           /\ g \in K /\ g # f => r.balances[g] + m \in I64
    /\ v.errors = r.errors =>
           v.balances = [x \in K |-> r.balances[x] +
                            ((IF g = x THEN m ELSE 0) - (IF f = x THEN m ELSE 0))]

LEMMA AdjustTwice ==
    ASSUME NEW r, NEW K, IsReplay(r, K), NEW f, NEW g, NEW m \in Int
    PROVE  Transferred(Adjust(Adjust(r, f, -m), g, m), r, K, f, g, m)
<1> DEFINE u == Adjust(r, f, -m)
           v == Adjust(u, g, m)
           B == r.balances
<1>1. I64 \subseteq Int /\ -m \in Int
      BY I64BoundAssumption DEF I64
<1>2. B \in [K -> I64] /\ r.errors \in Nat /\ \A x \in K : B[x] \in Int /\ B[x] \in I64
      BY <1>1 DEF IsReplay
<1>3. /\ IsReplay(u, K) /\ r.errors <= u.errors
      /\ u.errors = r.errors <=> (f \in K => B[f] + (-m) \in I64)
      /\ u.errors = r.errors => u.balances = [x \in K |-> B[x] + IF x = f THEN -m ELSE 0]
  <2>1. Adjusted(u, r, K, f, -m)
        BY <1>1, AdjustOf
  <2> QED BY <2>1 DEF Adjusted
<1> HIDE DEF u
<1>4. /\ IsReplay(v, K) /\ u.errors <= v.errors
      /\ v.errors = u.errors <=> (g \in K => u.balances[g] + m \in I64)
      /\ v.errors = u.errors => v.balances = [x \in K |-> u.balances[x] + IF x = g THEN m ELSE 0]
  <2>1. Adjusted(v, u, K, g, m)
        BY <1>3, AdjustOf
  <2> QED BY <2>1 DEF Adjusted
<1> HIDE DEF v, B
<1>5. u.errors \in Nat /\ v.errors \in Nat /\ r.errors <= v.errors
      BY <1>2, <1>3, <1>4 DEF IsReplay
<1>6. f \in K => B[f] + (-m) = B[f] - m
      BY <1>2
<1>7. v.errors = r.errors <=> u.errors = r.errors /\ v.errors = u.errors
      BY <1>2, <1>3, <1>4, <1>5
<1>8. ASSUME u.errors = r.errors, g \in K
      PROVE  u.balances[g] + m = IF g = f THEN B[g] ELSE B[g] + m
  <2>1. u.balances[g] = B[g] + IF g = f THEN -m ELSE 0
        BY <1>3, <1>8
  <2> QED BY <1>2, <1>8, <2>1
<1>9. v.errors = r.errors <=>
          /\ f \in K => B[f] - m \in I64
          /\ g \in K /\ g # f => B[g] + m \in I64
      BY <1>2, <1>3, <1>4, <1>6, <1>7, <1>8
<1>10. ASSUME v.errors = r.errors
       PROVE  v.balances = [x \in K |-> B[x] + ((IF g = x THEN m ELSE 0) - (IF f = x THEN m ELSE 0))]
  <2>1. /\ u.balances = [x \in K |-> B[x] + IF x = f THEN -m ELSE 0]
        /\ v.balances = [x \in K |-> u.balances[x] + IF x = g THEN m ELSE 0]
        BY <1>3, <1>4, <1>7, <1>10
  <2>2. ASSUME NEW x \in K
        PROVE  u.balances[x] + (IF x = g THEN m ELSE 0)
                 = B[x] + ((IF g = x THEN m ELSE 0) - (IF f = x THEN m ELSE 0))
    <3>1. u.balances[x] = B[x] + IF x = f THEN -m ELSE 0
          BY <2>1
    <3> QED BY <1>2, <3>1
  <2> QED BY <2>1, <2>2
<1> QED BY <1>4, <1>5, <1>9, <1>10 DEF Transferred, v, u, B

\* The states of the replay are those with some of the accounts.
LEMMA ReplayState ==
    ASSUME NEW r PROVE r \in ReplayStates <=> \E K \in SUBSET Accounts : IsReplay(r, K)
BY DEF ReplayStates, IsReplay

\* An envelope takes the replay from one state to another, with no fewer errors.
LEMMA ReplayTyped ==
    ASSUME NEW r \in ReplayStates, NEW e \in Envelopes
    PROVE  Replay(r, e) \in ReplayStates /\ r.errors \in Nat /\ Replay(r, e).errors \in Nat
           /\ r.errors <= Replay(r, e).errors
<1> DEFINE d == e.event_data
           t == Replay(r, e)
<1>1. PICK K \in SUBSET Accounts : IsReplay(r, K)
      BY ReplayState
<1>2. r.errors \in Nat
      BY <1>1 DEF IsReplay
<1>3. I64 \subseteq Int
      BY I64BoundAssumption DEF I64
<1> SUFFICES \E L \in SUBSET Accounts : IsReplay(t, L) /\ r.errors <= t.errors
  <2>1. ASSUME NEW L \in SUBSET Accounts, IsReplay(t, L) PROVE t \in ReplayStates /\ t.errors \in Nat
        BY <2>1, ReplayState DEF IsReplay
  <2> QED BY <1>2, <2>1
<1>4. CASE Sets(d)
  <2>1. t = SetBalance(r, d.account_id, SetTo(d)) /\ SetTo(d) \in I64 /\ K \cup {d.account_id} \in SUBSET Accounts
        BY <1>4, ReplayCases, SetToType DEF Accounts
  <2>2. IsReplay(t, K \cup {d.account_id}) /\ t.errors = r.errors
    <3>1. BalanceSet(t, r, K, d.account_id, SetTo(d))
          BY <1>1, <2>1, SetBalanceOf
    <3> QED BY <3>1 DEF BalanceSet
  <2> QED BY <1>2, <2>1, <2>2
<1>5. CASE d.kind = "TransactionProcessed"
  <2>1. t = Adjust(Adjust(r, d.from_account, -d.amount), d.to_account, d.amount) /\ d.amount \in Int
        BY <1>3, <1>5, ReplayCases, RecoveryAssumption
  <2>2. IsReplay(t, K) /\ r.errors <= t.errors
    <3>1. Transferred(t, r, K, d.from_account, d.to_account, d.amount)
          BY <1>1, <2>1, AdjustTwice
    <3> QED BY <3>1 DEF Transferred
  <2> QED BY <2>2
<1>6. CASE ~Sets(d) /\ d.kind # "TransactionProcessed"
  <2>1. t = r
        BY <1>6, ReplayCases
  <2> QED BY <1>1, <1>2, <2>1
<1> QED BY <1>4, <1>5, <1>6

\* ReplayTurns is what its recursion says.
LEMMA ReplayLoop ==
    ASSUME NEW s \in Seq(Envelopes)
    PROVE  LET f == ReplayTurns(s)
           IN  /\ f \in [0 .. Len(s) -> ReplayStates]
               /\ f[0] = NoBalances
               /\ \A i \in 1 .. Len(s) : f[i] = Replay(f[i - 1], s[i])
<1> DEFINE n == Len(s)
           turn == [i \in 1 .. n |-> [r \in ReplayStates |-> Replay(r, s[i])]]
<1>1. n \in Nat /\ NoBalances \in ReplayStates
  <2>1. <<>> \in [{} -> I64] /\ {} \in SUBSET Accounts
        OBVIOUS
  <2> QED BY <2>1 DEF NoBalances, ReplayStates
<1>2. \A i \in 1 .. n : \A r \in ReplayStates : Replay(r, s[i]) \in ReplayStates
      BY ReplayTyped
<1>3. turn \in [1 .. n -> [ReplayStates -> ReplayStates]]
      BY <1>2
<1>4. PICK g \in [0 .. n -> ReplayStates] : IsRun(g, n, NoBalances, turn)
  <2> HIDE DEF turn, n
  <2> QED BY <1>1, <1>3, LoopExists
<1>5. g[0] = NoBalances /\ \A i \in 1 .. n : g[i] = Replay(g[i - 1], s[i])
  <2>1. \A i \in 1 .. n : i - 1 \in 0 .. n
        BY <1>1
  <2> QED BY <1>4, <2>1 DEF IsRun
<1>6. g = [i \in 0 .. n |-> IF i = 0 THEN NoBalances ELSE Replay(g[i - 1], s[i])]
  <2>1. \A i \in 0 .. n : i = 0 \/ i \in 1 .. n
        BY <1>1
  <2> QED BY <1>4, <1>5, <2>1
<1> DEFINE f == ReplayTurns(s)
<1>7. f = [i \in 0 .. n |-> IF i = 0 THEN NoBalances ELSE Replay(f[i - 1], s[i])]
      BY <1>6 DEF ReplayTurns
<1> HIDE DEF f, turn, n
<1>8. f[0] = NoBalances /\ \A i \in 1 .. n : f[i] = Replay(f[i - 1], s[i])
  <2>1. 0 \in 0 .. n /\ \A i \in 1 .. n : i \in 0 .. n /\ i # 0
        BY <1>1
  <2> QED BY <1>7, <2>1
<1>9. f \in [0 .. n -> ReplayStates]
  <2> DEFINE S == {i \in 0 .. n : f[i] \in ReplayStates}
  <2>1. 0 \in S
        BY <1>1, <1>8
  <2>2. ASSUME NEW i \in 0 .. (n - 1), i \in S PROVE i + 1 \in S
    <3>1. i + 1 \in 1 .. n /\ i + 1 \in 0 .. n /\ (i + 1) - 1 = i
          BY <1>1
    <3> QED BY <1>2, <1>8, <2>2, <3>1
  <2>3. 0 .. n \subseteq S
    <3> HIDE DEF S
    <3> QED BY <1>1, <2>1, <2>2, Induction
  <2> QED BY <1>7, <2>3
<1> QED BY <1>8, <1>9 DEF f, n

\* The debit and the credit of the i-th envelope fit.
FitAt(s, i) ==
    LET d == s[i].event_data
    IN  /\ d.from_account \in Known(s, i - 1) => Balance(s, d.from_account, i - 1) - d.amount \in I64
        /\ d.to_account \in Known(s, i - 1) /\ d.to_account # d.from_account =>
               Balance(s, d.to_account, i - 1) + d.amount \in I64

FitsTo(s, k) == \A i \in Transfers(s) : i <= k => FitAt(s, i)

\* After k envelopes the replay has the balances of the history, unless it has
\* counted an error.
Agrees(s, k, r) ==
    /\ r.errors = 0 <=> FitsTo(s, k)
    /\ r.errors = 0 => r.balances = [a \in Known(s, k) |-> Balance(s, a, k)]

LEMMA FitsStep ==
    ASSUME NEW s \in Seq(Envelopes), NEW k \in Nat, k < Len(s)
    PROVE  FitsTo(s, k + 1) <=>
               FitsTo(s, k) /\ (s[k + 1].event_data.kind = "TransactionProcessed" => FitAt(s, k + 1))
<1>1. \A i \in DOMAIN s : i \in Nat /\ (i <= k + 1 <=> i <= k \/ i = k + 1)
      OBVIOUS
<1>2. k + 1 \in DOMAIN s /\ k + 1 <= k + 1
      OBVIOUS
<1>3. \A i : i \in Transfers(s) <=> i \in DOMAIN s /\ s[i].event_data.kind = "TransactionProcessed"
      BY DEF Transfers
<1> DEFINE m == k + 1
<1> HIDE DEF m
<1>4. FitsTo(s, m) <=> FitsTo(s, k) /\ (s[m].event_data.kind = "TransactionProcessed" => FitAt(s, m))
      BY <1>1, <1>2, <1>3 DEF FitsTo, m
<1> QED BY <1>4 DEF m

\* One more envelope keeps the replay in agreement with the history.
LEMMA AgreesStep ==
    ASSUME NEW s \in Seq(Envelopes), NEW k \in Nat, k < Len(s), NEW r \in ReplayStates, Agrees(s, k, r)
    PROVE  Agrees(s, k + 1, Replay(r, s[k + 1]))
<1> DEFINE e == s[k + 1]
           d == e.event_data
           t == Replay(r, e)
           K == Known(s, k)
           L == Known(s, k + 1)
           b(a) == Balance(s, a, k)
           c(a) == Balance(s, a, k + 1)
           B == r.balances
<1>1. e \in Envelopes
      OBVIOUS
<1>2. t \in ReplayStates /\ r.errors \in Nat /\ t.errors \in Nat /\ r.errors <= t.errors
      BY <1>1, ReplayTyped
<1>3. FitsTo(s, k + 1) <=> FitsTo(s, k) /\ (d.kind = "TransactionProcessed" => FitAt(s, k + 1))
      BY FitsStep
<1>4. L = K \cup (IF Sets(d) THEN {d.account_id} ELSE {})
      BY KnownStep
<1>5. ASSUME NEW a
      PROVE  /\ a \in K => b(a) \in Int
             /\ Sets(d) /\ d.account_id = a => c(a) = SetTo(d)
             /\ a \in K /\ ~(Sets(d) /\ d.account_id = a) => c(a) = b(a) + Net(d, a)
      BY BalanceStep
<1>6. (r.errors = 0 <=> FitsTo(s, k)) /\ (r.errors = 0 => B = [a \in K |-> b(a)])
      BY DEF Agrees
<1>7. FitAt(s, k + 1) <=>
          /\ d.from_account \in K => b(d.from_account) - d.amount \in I64
          /\ d.to_account \in K /\ d.to_account # d.from_account => b(d.to_account) + d.amount \in I64
  <2>1. (k + 1) - 1 = k
        OBVIOUS
  <2> QED BY <2>1 DEF FitAt
<1>8. /\ Sets(d) => t = SetBalance(r, d.account_id, SetTo(d))
      /\ d.kind = "TransactionProcessed" =>
             t = Adjust(Adjust(r, d.from_account, -d.amount), d.to_account, d.amount)
      /\ ~Sets(d) /\ d.kind # "TransactionProcessed" => t = r
      BY ReplayCases
<1>9. (Sets(d) => d.kind # "TransactionProcessed") /\ \A a : d.kind # "TransactionProcessed" => Net(d, a) = 0
      BY DEF Sets, Net
<1> SUFFICES /\ t.errors = 0 <=> FitsTo(s, k + 1)
             /\ t.errors = 0 => t.balances = [a \in L |-> c(a)]
    BY DEF Agrees
<1>10. CASE r.errors # 0
       BY <1>2, <1>3, <1>6, <1>10
<1>11. ASSUME r.errors = 0
       PROVE  /\ t.errors = 0 <=> FitsTo(s, k + 1)
              /\ t.errors = 0 => t.balances = [a \in L |-> c(a)]
  <2>1. FitsTo(s, k) /\ B = [a \in K |-> b(a)]
        BY <1>6, <1>11
  <2>2. IsReplay(r, K)
    <3>1. PICK M \in SUBSET Accounts : IsReplay(r, M)
          BY ReplayState
    <3>2. B \in [M -> I64] /\ DOMAIN B = K
          BY <2>1, <3>1 DEF IsReplay
    <3> QED BY <3>1, <3>2
  <2>3. CASE Sets(d)
    <3> DEFINE x == d.account_id
    <3>1. SetTo(d) \in I64
          BY <1>1, <2>3, SetToType
    <3>2. BalanceSet(t, r, K, x, SetTo(d))
          BY <1>8, <2>2, <2>3, <3>1, SetBalanceOf
    <3> HIDE DEF e, d, t, K, L, b, c, B
    <3>3. t.errors = r.errors /\ t.balances = [a \in K \cup {x} |-> IF a = x THEN SetTo(d) ELSE B[a]]
          BY <3>2 DEF BalanceSet, B
    <3>4. L = K \cup {x}
          BY <1>4, <2>3
    <3>5. ASSUME NEW a \in L PROVE c(a) = IF a = x THEN SetTo(d) ELSE B[a]
      <4>1. CASE a = x
            BY <1>5, <2>3, <4>1
      <4>2. CASE a # x
        <5>1. a \in K /\ B[a] = b(a)
              BY <2>1, <3>4, <4>2
        <5>2. c(a) = b(a) + Net(d, a) /\ b(a) \in Int /\ Net(d, a) = 0
              BY <1>5, <1>9, <2>3, <4>2, <5>1
        <5> QED BY <4>2, <5>1, <5>2
      <4> QED BY <4>1, <4>2
    <3>6. t.balances = [a \in L |-> c(a)]
          BY <3>3, <3>4, <3>5
    <3> QED BY <1>3, <1>9, <1>11, <2>1, <2>3, <3>3, <3>6
  <2>4. CASE d.kind = "TransactionProcessed"
    <3> DEFINE f == d.from_account
               g == d.to_account
               m == d.amount
    <3>1. m \in Int
      <4>1. I64 \subseteq Int
            BY I64BoundAssumption DEF I64
      <4> QED BY <1>1, <2>4, <4>1, RecoveryAssumption
    <3>2. Transferred(t, r, K, f, g, m)
          BY <1>8, <2>2, <2>4, <3>1, AdjustTwice
    <3>3. \A a : Net(d, a) = (IF g = a THEN m ELSE 0) - (IF f = a THEN m ELSE 0)
          BY <2>4 DEF Net
    <3> HIDE DEF e, d, t, K, L, b, c, B
    <3>4. /\ t.errors = r.errors <=>
                 /\ f \in K => B[f] - m \in I64
                 /\ g \in K /\ g # f => B[g] + m \in I64
          /\ t.errors = r.errors =>
                 t.balances = [a \in K |-> B[a] + ((IF g = a THEN m ELSE 0) - (IF f = a THEN m ELSE 0))]
          BY <3>2 DEF Transferred, B
    <3>5. ~Sets(d) /\ L = K
          BY <1>4, <1>9, <2>4
    <3>6. t.errors = 0 <=> FitsTo(s, k + 1)
      <4>1. FitsTo(s, k + 1) <=> FitAt(s, k + 1)
            BY <1>3, <2>1, <2>4
      <4>2. (f \in K => B[f] = b(f)) /\ (g \in K => B[g] = b(g))
            BY <2>1
      <4> HIDE DEF f, g, m
      <4>3. FitAt(s, k + 1) <=>
                /\ f \in K => b(f) - m \in I64
                /\ g \in K /\ g # f => b(g) + m \in I64
            BY <1>7 DEF f, g, m
      <4> QED BY <1>11, <3>4, <4>1, <4>2, <4>3
    <3>7. ASSUME t.errors = 0 PROVE t.balances = [a \in L |-> c(a)]
      <4>1. t.balances = [a \in K |-> B[a] + ((IF g = a THEN m ELSE 0) - (IF f = a THEN m ELSE 0))]
            BY <1>11, <3>4, <3>7
      <4>2. ASSUME NEW a \in K
            PROVE  c(a) = B[a] + ((IF g = a THEN m ELSE 0) - (IF f = a THEN m ELSE 0))
        <5>1. c(a) = b(a) + Net(d, a) /\ B[a] = b(a)
              BY <1>5, <2>1, <3>5
        <5> QED BY <3>3, <5>1
      <4> QED BY <3>5, <4>1, <4>2
    <3> QED BY <3>6, <3>7
  <2>5. CASE ~Sets(d) /\ d.kind # "TransactionProcessed"
    <3> HIDE DEF e, d, t, K, L, b, c, B
    <3>1. t = r /\ L = K
          BY <1>4, <1>8, <2>5
    <3>2. ASSUME NEW a \in K PROVE c(a) = b(a)
      <4>1. c(a) = b(a) + Net(d, a) /\ b(a) \in Int /\ Net(d, a) = 0
            BY <1>5, <1>9, <2>5
      <4> QED BY <4>1
    <3>3. t.balances = [a \in L |-> c(a)]
          BY <2>1, <3>1, <3>2 DEF B
    <3> QED BY <1>3, <1>11, <2>1, <2>5, <3>1, <3>3
  <2> QED BY <2>3, <2>4, <2>5
<1> QED BY <1>10, <1>11

\* The replay of any sequence of envelopes: no errors exactly if all balances
\* fit, and then the balances of the history.
LEMMA ReplayExact ==
    ASSUME NEW s \in Seq(Envelopes)
    PROVE  /\ ReplayAll(s).errors \in Nat
           /\ ReplayAll(s).errors = 0 <=> Fits(s)
           /\ ReplayAll(s).errors = 0 =>
                  ReplayAll(s).balances = [a \in Known(s, Len(s)) |-> Balance(s, a, Len(s))]
<1> DEFINE n == Len(s)
           f == ReplayTurns(s)
<1>1. n \in Nat /\ n \in 0 .. n
      OBVIOUS
<1>2. /\ f \in [0 .. n -> ReplayStates]
      /\ f[0] = NoBalances
      /\ \A i \in 1 .. n : f[i] = Replay(f[i - 1], s[i])
      BY ReplayLoop
<1> HIDE DEF f
<1> DEFINE J == {i \in 0 .. n : Agrees(s, i, f[i])}
<1>3. 0 \in J
  <2>1. NoBalances.errors = 0 /\ NoBalances.balances = <<>>
        BY DEF NoBalances
  <2>2. Known(s, 0) = {}
        BY DEF Known
  <2>3. FitsTo(s, 0)
    <3>1. \A i \in Transfers(s) : ~(i <= 0)
          BY DEF Transfers
    <3> QED BY <3>1 DEF FitsTo
  <2>4. [a \in Known(s, 0) |-> Balance(s, a, 0)] = <<>>
        BY <2>2
  <2>5. Agrees(s, 0, f[0])
        BY <1>2, <2>1, <2>3, <2>4 DEF Agrees
  <2> QED BY <1>1, <2>5
<1>4. ASSUME NEW i \in 0 .. (n - 1), i \in J PROVE i + 1 \in J
  <2>1. /\ i \in Nat /\ i < Len(s) /\ i \in 0 .. n
        /\ i + 1 \in 1 .. n /\ i + 1 \in 0 .. n /\ (i + 1) - 1 = i
        BY <1>1
  <2>2. f[i + 1] = Replay(f[i], s[i + 1]) /\ f[i] \in ReplayStates
        BY <1>2, <2>1
  <2>3. Agrees(s, i + 1, f[i + 1])
        BY <1>4, <2>1, <2>2, AgreesStep
  <2> QED BY <2>1, <2>3
<1>5. Agrees(s, n, f[n])
  <2>1. 0 .. n \subseteq J
    <3> HIDE DEF J, n
    <3> QED BY <1>1, <1>3, <1>4, Induction
  <2> QED BY <1>1, <2>1
<1>6. f[n].errors \in Nat
  <2>1. f[n] \in ReplayStates
        BY <1>1, <1>2
  <2> QED BY <2>1 DEF ReplayStates
<1>7. FitsTo(s, n) <=> Fits(s)
  <2>1. \A i \in Transfers(s) : i <= n
        BY <1>1 DEF Transfers
  <2> QED BY <2>1 DEF FitsTo, Fits, FitAt
<1>8. ReplayAll(s) = f[n]
      BY DEF ReplayAll, f
<1> QED BY <1>5, <1>6, <1>7, <1>8 DEF Agrees

----------------------------------------------------------------------------
(* What the queries of recover() give.                                     *)

\* A store has one envelope for each key.
IsStore(S) == S \in SUBSET Envelopes /\ IsFiniteSet(S) /\ OneKey(S)

LEMMA StoreTimed == ASSUME NEW S \in SUBSET Envelopes PROVE Timed(S)
BY RecoveryAssumption DEF Timed

\* s is how the scan of a store begins.
Begins(s, S, n) ==
    LET scan == Scan(S)
        m    == Cardinality(S)
    IN  /\ s \in Seq(Envelopes) /\ Len(s) \in Nat /\ m \in Nat
        /\ scan \in Seq(Envelopes) /\ Len(scan) = m
        /\ Len(s) = IF n < m THEN n ELSE m
        /\ \A i \in 1 .. Len(s) : s[i] = scan[i]

LEMMA FirstOf == ASSUME NEW S, IsStore(S), NEW n \in Nat PROVE Begins(First(n, S), S, n)
<1> DEFINE scan == Scan(S)
           m    == Cardinality(S)
           top  == IF n < m THEN n ELSE m
           s    == SubSeq(scan, 1, top)
<1>1. scan \in Seq(S) /\ Len(scan) = m
  <2>1. S \in SUBSET S /\ IsFiniteSet(S) /\ Timed(S) /\ OneKey(S)
        BY StoreTimed DEF IsStore
  <2> QED BY <2>1, ScanTyped
<1>2. scan \in Seq(Envelopes) /\ m \in Nat
  <2>1. S \subseteq Envelopes
        BY DEF IsStore
  <2> QED BY <1>1, <2>1
<1>3. First(n, S) = s
  <2>1. 0 + 1 = 1 /\ 0 + n = n
        OBVIOUS
  <2>2. First(n, S) = SubSeq(scan, 0 + 1, IF 0 + n < Len(scan) THEN 0 + n ELSE Len(scan))
        BY DEF First, Page
  <2> HIDE DEF scan
  <2> QED BY <1>1, <2>1, <2>2
<1>4. top \in Nat /\ top <= m
      BY <1>2
<1> HIDE DEF scan, top
<1>5. \A i \in 1 .. top : scan[i] \in Envelopes
  <2>1. \A i \in 1 .. top : i \in 1 .. m
        BY <1>2, <1>4
  <2> QED BY <1>1, <1>2, <2>1
<1>6. /\ s \in Seq(Envelopes) /\ Len(s) = IF 1 <= top THEN top - 1 + 1 ELSE 0
      /\ \A i \in 1 .. top - 1 + 1 : s[i] = scan[1 + i - 1]
      BY <1>4, <1>5, SubSeqProperties
<1>7. /\ top - 1 + 1 = top /\ (1 <= top \/ top = 0) /\ \A i \in 1 .. top : 1 + i - 1 = i
      BY <1>4
<1>8. Len(s) = top
      BY <1>4, <1>6, <1>7
<1> HIDE DEF s
<1>9. \A i \in 1 .. top : s[i] = scan[i]
      BY <1>6, <1>7
<1>10. Begins(s, S, n)
       BY <1>1, <1>2, <1>4, <1>6, <1>8, <1>9 DEF Begins, scan, top
<1> QED BY <1>3, <1>10

\* The queries of the checks: the first envelopes of the store.
LEMMA QueriesFirst ==
    ASSUME NEW S, IsStore(S), NEW max \in Nat
    PROVE  /\ AllEvents(S) = First(DefaultLimit, S)
           /\ query_events([AllOf EXCEPT !.limit = LimitOf(max)], S).events
                = First(IF max = 0 THEN DefaultLimit ELSE max, S)
<1>1. IsFiniteSet(S) /\ Timed(S) /\ OneKey(S)
      BY StoreTimed DEF IsStore
<1>2. ASSUME NEW q, QueryTyped(q), q.account_id = None, q.start_time = None, q.end_time = None,
             q.event_types = None, q.offset = None
      PROVE  query_events(q, S).events = First(Limit(q), S)
  <2>1. QueryEnd(q, S) = Page(Scan(S), Offset(q), Limit(q))
        BY <1>1, <1>2, UnfilteredAnswers
  <2>2. Offset(q) = 0
        BY <1>2 DEF Offset, OrElse
  <2>3. query_events(q, S).events = QueryEnd(q, S)
        BY DEF query_events
  <2> QED BY <2>1, <2>2, <2>3 DEF First
<1>3. AllEvents(S) = First(DefaultLimit, S)
  <2>1. /\ AllOf.account_id = None /\ AllOf.start_time = None /\ AllOf.end_time = None
        /\ AllOf.event_types = None /\ AllOf.offset = None /\ AllOf.limit = None
        BY DEF AllOf
  <2>2. QueryTyped(AllOf) /\ Limit(AllOf) = DefaultLimit
        BY <2>1 DEF QueryTyped, Limit, OrElse
  <2> QED BY <1>2, <2>1, <2>2 DEF AllEvents
<1> DEFINE q == [AllOf EXCEPT !.limit = LimitOf(max)]
<1>4. /\ q.account_id = None /\ q.start_time = None /\ q.end_time = None
      /\ q.event_types = None /\ q.offset = None /\ q.limit = LimitOf(max)
      BY Zenon DEF AllOf
<1> HIDE DEF q
<1>5. LimitOf(max) = IF max = 0 THEN None ELSE max
      BY DEF LimitOf
<1>6. max # None
      BY RecoveryAssumption
<1>7. QueryTyped(q) /\ Limit(q) = IF max = 0 THEN DefaultLimit ELSE max
      BY <1>4, <1>5, <1>6 DEF QueryTyped, Limit, OrElse
<1>8. query_events(q, S).events = First(Limit(q), S)
      BY <1>2, <1>4, <1>7
<1> QED BY <1>3, <1>7, <1>8 DEF q

\* The number of envelopes that are older than the one before.
LEMMA TemporalType ==
    ASSUME NEW s, Len(s) \in Nat
    PROVE  LET E == {i \in 2 .. Len(s) : s[i].timestamp < s[i - 1].timestamp}
           IN  TemporalErrors(s) \in Nat /\ (TemporalErrors(s) = 0 <=> E = {})
<1> DEFINE E == {i \in 2 .. Len(s) : s[i].timestamp < s[i - 1].timestamp}
<1>1. IsFiniteSet(2 .. Len(s)) /\ E \in SUBSET (2 .. Len(s))
      BY FS_Interval
<1>2. IsFiniteSet(E) /\ TemporalErrors(s) = Cardinality(E)
      BY <1>1, FS_Subset DEF TemporalErrors
<1> HIDE DEF E
<1>3. TemporalErrors(s) \in Nat /\ (TemporalErrors(s) = 0 <=> E = {})
      BY <1>2, FS_CardinalityType, FS_EmptySet
<1> QED BY <1>3 DEF E

\* From 1677 to 2262.
InRange(S) == \A e \in S : e.timestamp \in I64

\* In the order of keys, the envelopes from the epoch on come first, then those
\* before it, both in the order of time.
LEMMA TemporalExact ==
    ASSUME NEW S, IsStore(S), InRange(S), NEW n \in Nat
    PROVE  TemporalErrors(First(n, S)) = 0 <=> ~Mixed(First(n, S))
<1> DEFINE s == First(n, S)
           scan == Scan(S)
           m == Cardinality(S)
           R == KeyOrder(S)
           t(i) == s[i].timestamp
           p(i) == generate_time_key_prefix(t(i))
<1>1. Begins(s, S, n)
      BY FirstOf
<1> HIDE DEF s
<1>2. /\ s \in Seq(Envelopes) /\ Len(s) \in Nat /\ m \in Nat /\ Len(s) <= m
      /\ \A i \in 1 .. Len(s) : s[i] = scan[i]
      BY <1>1 DEF Begins
<1>3. StrictOrder(S, R) /\ scan = SortedBy(S, R) /\ IsFiniteSet(S)
  <2>1. S \in SUBSET S /\ IsFiniteSet(S) /\ Timed(S) /\ OneKey(S)
        BY StoreTimed DEF IsStore
  <2> QED BY <2>1, KeysOrdered, ScanIsSorted
<1>4. scan \in [1 .. m -> S] /\ \A i, j \in 1 .. m : <<scan[i], scan[j]>> \in R <=> i < j
  <2> DEFINE z == SortedBy(S, R)
  <2>1. z \in [1 .. m -> S] /\ \A i, j \in 1 .. m : <<z[i], z[j]>> \in R <=> i < j
        BY <1>3, SortedFacts
  <2> HIDE DEF z
  <2> QED BY <1>3, <2>1 DEF z
<1> HIDE DEF scan, R, m
<1>5. \A i \in 1 .. Len(s) : i \in 1 .. m /\ s[i] \in S
  <2>1. \A i \in 1 .. Len(s) : i \in 1 .. m
        BY <1>2
  <2> QED BY <1>2, <1>4, <2>1
<1>6. I64Bound \in Nat /\ I64Bound > 0
      BY I64BoundAssumption
<1>7. ASSUME NEW i \in 1 .. Len(s)
      PROVE  /\ t(i) \in Int /\ -I64Bound <= t(i) /\ t(i) < I64Bound
             /\ p(i) = IF t(i) < 0 THEN t(i) + 2 * I64Bound ELSE t(i)
  <2>1. t(i) \in I64
        BY <1>5 DEF InRange
  <2> QED BY <1>6, <2>1 DEF generate_time_key_prefix, AsU64, NanosOrZero, I64
<1>8. ASSUME NEW i \in 1 .. Len(s), NEW j \in 1 .. Len(s), i < j PROVE p(i) <= p(j)
  <2>1. <<s[i], s[j]>> \in R /\ s[i] \in S /\ s[j] \in S
        BY <1>2, <1>4, <1>5, <1>8
  <2>2. KeyLess(generate_event_key(s[i]), generate_event_key(s[j]))
        BY <2>1, OrderOf DEF R
  <2>3. /\ generate_event_key(s[i]) = <<p(i), s[i].event_id>>
        /\ generate_event_key(s[j]) = <<p(j), s[j].event_id>>
        BY DEF generate_event_key
  <2>4. p(i) \in Int /\ p(j) \in Int
        BY <1>6, <1>7
  <2> HIDE DEF p
  <2>5. p(i) < p(j) \/ p(i) = p(j)
        BY <2>2, <2>3 DEF KeyLess
  <2> QED BY <2>4, <2>5
<1> DEFINE E == {i \in 2 .. Len(s) : s[i].timestamp < s[i - 1].timestamp}
<1>9. TemporalErrors(s) = 0 <=> E = {}
      BY <1>2, TemporalType
<1> HIDE DEF p
<1>10. DOMAIN s = 1 .. Len(s)
       BY <1>2
<1>11. ASSUME NEW i \in E PROVE Mixed(s)
  <2>1. i \in 1 .. Len(s) /\ i - 1 \in 1 .. Len(s) /\ i - 1 < i /\ t(i) < t(i - 1)
        BY <1>2
  <2>2. p(i - 1) <= p(i)
        BY <1>8, <2>1
  <2>3. /\ t(i) \in Int /\ -I64Bound <= t(i) /\ t(i) < I64Bound
        /\ p(i) = IF t(i) < 0 THEN t(i) + 2 * I64Bound ELSE t(i)
        BY <1>7, <2>1
  <2>4. /\ t(i - 1) \in Int /\ -I64Bound <= t(i - 1) /\ t(i - 1) < I64Bound
        /\ p(i - 1) = IF t(i - 1) < 0 THEN t(i - 1) + 2 * I64Bound ELSE t(i - 1)
        BY <1>7, <2>1
  <2>5. t(i) < 0 /\ t(i - 1) >= 0
    <3> DEFINE x == t(i)
               y == t(i - 1)
               u == p(i)
               v == p(i - 1)
    <3>1. /\ x \in Int /\ y \in Int /\ x < y /\ v <= u
          /\ u = (IF x < 0 THEN x + 2 * I64Bound ELSE x) /\ v = (IF y < 0 THEN y + 2 * I64Bound ELSE y)
          BY <2>1, <2>2, <2>3, <2>4
    <3> HIDE DEF x, y, u, v
    <3>2. x < 0 /\ y >= 0
          BY <1>6, <3>1
    <3> QED BY <3>2 DEF x, y
  <2> QED BY <1>10, <2>1, <2>5 DEF Mixed
<1>12. ASSUME Mixed(s) PROVE E # {}
  <2>1. PICK i \in 1 .. Len(s), j \in 1 .. Len(s) : t(i) < 0 /\ t(j) >= 0
        BY <1>10, <1>12 DEF Mixed
  <2> DEFINE N == {k \in 1 .. Len(s) : t(k) < 0}
  <2>2. PICK k \in N : \A l \in N : k <= l
    <3>1. N \subseteq Nat /\ N # {}
          BY <1>2, <2>1
    <3> HIDE DEF N
    <3> QED BY <3>1, LeastNatural
  <2>3. k \in 1 .. Len(s) /\ t(k) < 0
        BY <2>2
  <2>4. ~(k < j)
    <3> SUFFICES ASSUME k < j PROVE FALSE
        OBVIOUS
    <3>1. p(k) <= p(j)
          BY <1>8, <2>3
    <3>2. /\ t(k) \in Int /\ -I64Bound <= t(k) /\ p(k) = IF t(k) < 0 THEN t(k) + 2 * I64Bound ELSE t(k)
          /\ t(j) \in Int /\ t(j) < I64Bound /\ p(j) = IF t(j) < 0 THEN t(j) + 2 * I64Bound ELSE t(j)
          BY <1>7, <2>3
    <3> DEFINE x == t(k)
               y == t(j)
               u == p(k)
               v == p(j)
    <3>3. /\ x \in Int /\ y \in Int /\ x < 0 /\ y >= 0 /\ u <= v /\ -I64Bound <= x /\ y < I64Bound
          /\ u = x + 2 * I64Bound /\ v = y
          BY <2>1, <2>3, <3>1, <3>2
    <3> HIDE DEF x, y, u, v
    <3> QED BY <1>6, <3>3
  <2>5. k # j
        BY <1>7, <2>1, <2>3
  <2>6. k \in 2 .. Len(s) /\ k - 1 \in 1 .. Len(s) /\ ~(k <= k - 1)
        BY <1>2, <2>3, <2>4, <2>5
  <2>7. ~(t(k - 1) < 0)
        BY <2>2, <2>6
  <2>8. t(k) < t(k - 1)
        BY <1>7, <2>3, <2>6, <2>7
  <2> QED BY <2>6, <2>8
<1> HIDE DEF E
<1> QED BY <1>9, <1>11, <1>12 DEF s

----------------------------------------------------------------------------
(* The types.                                                              *)

Statistics == [total_events_checked : Nat, corrupted_events_found : Nat,
               corrupted_events_repaired : Nat, consistency_errors : Nat]

\* The statistics with one field changed.
LEMMA TotalSet ==
    ASSUME NEW s \in Statistics, NEW n \in Nat
    PROVE  LET t == [s EXCEPT !.total_events_checked = n]
           IN  /\ t \in Statistics /\ t.total_events_checked = n
               /\ t.corrupted_events_found = s.corrupted_events_found
               /\ t.consistency_errors = s.consistency_errors
BY DEF Statistics

LEMMA ErrorsAdded ==
    ASSUME NEW s \in Statistics, NEW n \in Nat
    PROVE  LET t == [s EXCEPT !.consistency_errors = @ + n]
           IN  /\ t \in Statistics /\ t.consistency_errors = s.consistency_errors + n
               /\ t.corrupted_events_found = s.corrupted_events_found
               /\ t.total_events_checked = s.total_events_checked
<1>1. s.consistency_errors \in Nat /\ s.consistency_errors + n \in Nat
      BY DEF Statistics
<1> QED BY <1>1, Zenon DEF Statistics

LEMMA ValidationCounted ==
    ASSUME NEW s \in Statistics, NEW m \in Nat, NEW n \in Nat
    PROVE  LET t == [s EXCEPT !.total_events_checked = @ + 1,
                              !.corrupted_events_found = @ + m,
                              !.corrupted_events_repaired = @ + n]
           IN  /\ t \in Statistics
               /\ t.total_events_checked = s.total_events_checked + 1
               /\ t.corrupted_events_found = s.corrupted_events_found + m
               /\ t.consistency_errors = s.consistency_errors
<1> DEFINE u == [s EXCEPT !.total_events_checked = @ + 1]
           v == [u EXCEPT !.corrupted_events_found = @ + m]
           w == [v EXCEPT !.corrupted_events_repaired = @ + n]
           t == [s EXCEPT !.total_events_checked = @ + 1,
                          !.corrupted_events_found = @ + m,
                          !.corrupted_events_repaired = @ + n]
<1>1. /\ s.total_events_checked + 1 \in Nat /\ s.corrupted_events_found + m \in Nat
      /\ s.corrupted_events_repaired + n \in Nat
      BY DEF Statistics
<1>2. /\ u \in Statistics /\ u.total_events_checked = s.total_events_checked + 1
      /\ u.corrupted_events_found = s.corrupted_events_found
      /\ u.corrupted_events_repaired = s.corrupted_events_repaired
      /\ u.consistency_errors = s.consistency_errors
      BY <1>1, Zenon DEF Statistics
<1>3. t = w
      BY Zenon
<1> HIDE DEF u
<1>4. /\ v \in Statistics /\ v.total_events_checked = u.total_events_checked
      /\ v.corrupted_events_found = s.corrupted_events_found + m
      /\ v.corrupted_events_repaired = s.corrupted_events_repaired
      /\ v.consistency_errors = u.consistency_errors
      BY <1>1, <1>2, Zenon DEF Statistics
<1> HIDE DEF v
<1>5. /\ w \in Statistics /\ w.total_events_checked = v.total_events_checked
      /\ w.corrupted_events_found = v.corrupted_events_found
      /\ w.consistency_errors = v.consistency_errors
      BY <1>1, <1>4, Zenon DEF Statistics
<1> HIDE DEF w, t
<1> QED BY <1>2, <1>3, <1>4, <1>5 DEF t

StoreInv == IsStore(db)

RecoveryInv == TypeOK /\ StoreInv

LEMMA StoreStep == StoreInv /\ [Next]_vars => StoreInv' /\ db \subseteq db'
<1> SUFFICES ASSUME StoreInv, [Next]_vars PROVE StoreInv' /\ db \subseteq db'
    OBVIOUS
<1>1. ASSUME NEW e \in Envelopes, AppendEvent(e) PROVE StoreInv' /\ db \subseteq db'
  <2>1. db' = db \cup {e} /\ \A f \in db : generate_event_key(f) # generate_event_key(e)
        BY <1>1 DEF AppendEvent
  <2>2. IsFiniteSet(db')
        BY <2>1, FS_AddElement DEF StoreInv, IsStore
  <2> QED BY <2>1, <2>2 DEF StoreInv, IsStore, OneKey
<1>2. CASE db' = db
      BY <1>2 DEF StoreInv
<1>3. (\E e \in Envelopes : AppendEvent(e)) \/ db' = db
      BY DEF Next, vars, storeVars, Tick, Recover, check_database_integrity, check_event_consistency,
             ValidateNext, ValidateEnd, check_account_balance_consistency, check_temporal_consistency,
             QueryFails
<1> QED BY <1>1, <1>2, <1>3

\* What the checks find in a store.
LEMMA ChecksTyped ==
    ASSUME NEW S, IsStore(S)
    PROVE  /\ AllEvents(S) \in Seq(Envelopes) /\ Len(AllEvents(S)) \in Nat
           /\ ReplayAll(AllEvents(S)).errors \in Nat
           /\ TemporalErrors(AllEvents(S)) \in Nat
           /\ \A max \in Nat :
                 query_events([AllOf EXCEPT !.limit = LimitOf(max)], S).events \in Seq(Envelopes)
<1>1. \A n \in Nat : First(n, S) \in Seq(Envelopes)
      BY FirstOf DEF Begins
<1>2. DefaultLimit \in Nat /\ 0 \in Nat
      BY EventScanAssumption
<1>3. AllEvents(S) \in Seq(Envelopes)
      BY <1>1, <1>2, QueriesFirst
<1>4. Len(AllEvents(S)) \in Nat
      BY <1>3
<1>5. ReplayAll(AllEvents(S)).errors \in Nat
      BY <1>3, ReplayExact
<1>6. TemporalErrors(AllEvents(S)) \in Nat
      BY <1>4, TemporalType
<1>7. ASSUME NEW max \in Nat
      PROVE  query_events([AllOf EXCEPT !.limit = LimitOf(max)], S).events \in Seq(Envelopes)
      BY <1>1, <1>2, QueriesFirst
<1> QED BY <1>3, <1>4, <1>5, <1>6, <1>7

LEMMA OptionsTyped == ASSUME RecoveryInv PROVE options.max_events_to_check \in Nat
BY RecoveryAssumption DEF RecoveryInv, TypeOK, DefaultOptions

\* What one turn of the validation counts.
LEMMA Validated ==
    ASSUME ValidateNext, stats \in Statistics
    PROVE  /\ stats' \in Statistics
           /\ stats'.total_events_checked = stats.total_events_checked + 1
           /\ stats'.corrupted_events_found = stats.corrupted_events_found
                  + IF ~validate_event_envelope(Head(todo), now) THEN 1 ELSE 0
           /\ stats'.consistency_errors = stats.consistency_errors
<1> DEFINE corrupted == ~validate_event_envelope(Head(todo), now)
           repaired  == corrupted /\ options.auto_repair /\ repair_event(Head(todo))
           m == IF corrupted THEN 1 ELSE 0
           n == IF repaired THEN 1 ELSE 0
           t == [stats EXCEPT !.total_events_checked = @ + 1,
                              !.corrupted_events_found = @ + m,
                              !.corrupted_events_repaired = @ + n]
<1>1. m \in Nat /\ n \in Nat
      OBVIOUS
<1>2. stats' = t
      BY Zenon DEF ValidateNext
<1> HIDE DEF m, n
<1>3. /\ t \in Statistics
      /\ t.total_events_checked = stats.total_events_checked + 1
      /\ t.corrupted_events_found = stats.corrupted_events_found + m
      /\ t.consistency_errors = stats.consistency_errors
      BY ONLY <1>1, stats \in Statistics, ValidationCounted
<1> HIDE DEF t
<1> QED BY <1>2, <1>3 DEF m

\* Every step keeps the types.
LEMMA RecoveryStep == RecoveryInv /\ [Next]_vars => RecoveryInv'
<1> SUFFICES ASSUME RecoveryInv, [Next]_vars PROVE RecoveryInv'
    OBVIOUS
<1>0. /\ TypeOK /\ StoreInv /\ StoreInv' /\ db \subseteq db' /\ IsStore(db)
      BY StoreStep DEF RecoveryInv, StoreInv
<1>1. stats \in Statistics /\ NoStats \in Statistics
      BY <1>0 DEF TypeOK, Statistics, NoStats
<1>2. MaxTime \in Nat
      BY RecoveryAssumption
<1> SUFFICES TypeOK'
    BY <1>0 DEF RecoveryInv
<1>3. ASSUME NEW e \in Envelopes, AppendEvent(e) PROVE TypeOK'
  <2>1. db' \in SUBSET Envelopes
        BY <1>0 DEF StoreInv, IsStore
  <2> QED BY <1>0, <1>3, <2>1 DEF AppendEvent, TypeOK
<1>4. CASE Tick
  <2>1. now' = now + 1 /\ now < MaxTime /\ now \in 0 .. MaxTime /\ startNow \in 0 .. now /\ startNow' = startNow
        BY <1>0, <1>4 DEF Tick, TypeOK
  <2>2. now' \in 0 .. MaxTime /\ startNow' \in 0 .. now'
        BY <1>2, <2>1
  <2> QED BY <1>0, <1>4, <2>2 DEF Tick, TypeOK
<1>5. ASSUME NEW o \in Options, Recover(o) PROVE TypeOK'
  <2>1. now \in 0 .. now
        BY <1>0, <1>2 DEF TypeOK
  <2> QED BY <1>0, <1>5, <2>1 DEF Recover, TypeOK, storeVars
<1>6. CASE check_database_integrity
  <2>1. stats' \in Statistics
    <3>1. Len(AllEvents(db)) \in Nat
          BY <1>0, ChecksTyped
    <3>2. stats' = [stats EXCEPT !.total_events_checked = Len(AllEvents(db))]
          BY <1>6 DEF check_database_integrity
    <3> QED BY <1>1, <3>1, <3>2, TotalSet
  <2>2. pc' \in {"consistency", "balances"}
        BY <1>6 DEF check_database_integrity
  <2>3. UNCHANGED <<db, now, options, startDb, startNow, todo>>
        BY <1>6 DEF check_database_integrity, storeVars, historyVars
  <2> QED BY <1>0, <2>1, <2>2, <2>3 DEF TypeOK, Statistics
<1>7. CASE check_event_consistency
  <2>1. todo' \in Seq(Envelopes)
    <3>1. todo' = query_events([AllOf EXCEPT !.limit = LimitOf(options.max_events_to_check)], db).events
          BY <1>7 DEF check_event_consistency
    <3> QED BY <1>0, <3>1, ChecksTyped, OptionsTyped
  <2>2. pc' = "validate" /\ UNCHANGED <<db, now, options, startDb, startNow, stats>>
        BY <1>7 DEF check_event_consistency, storeVars, historyVars
  <2> QED BY <1>0, <2>1, <2>2 DEF TypeOK
<1>8. CASE ValidateNext
  <2>2. stats' \in Statistics
        BY <1>1, <1>8, Validated
  <2>3. todo' \in Seq(Envelopes)
        BY <1>0, <1>8 DEF ValidateNext, TypeOK
  <2>4. UNCHANGED <<db, now, options, startDb, startNow, pc>>
        BY <1>8 DEF ValidateNext, storeVars, historyVars
  <2> QED BY <1>0, <2>2, <2>3, <2>4 DEF TypeOK, Statistics
<1>9. CASE ValidateEnd
  <2>1. pc' = "balances" /\ UNCHANGED <<db, now, options, startDb, startNow, todo, stats>>
        BY <1>9 DEF ValidateEnd, storeVars, historyVars
  <2> QED BY <1>0, <2>1 DEF TypeOK
<1>10. CASE check_account_balance_consistency
  <2>1. stats' \in Statistics
    <3>1. stats' = [stats EXCEPT !.consistency_errors = @ + ReplayAll(AllEvents(db)).errors]
          BY <1>10 DEF check_account_balance_consistency
    <3>2. ReplayAll(AllEvents(db)).errors \in Nat
          BY <1>0, ChecksTyped
    <3> QED BY <1>1, <3>1, <3>2, ErrorsAdded
  <2>2. pc' = "temporal" /\ UNCHANGED <<db, now, options, startDb, startNow, todo>>
        BY <1>10 DEF check_account_balance_consistency, storeVars, historyVars
  <2> QED BY <1>0, <2>1, <2>2 DEF TypeOK, Statistics
<1>11. CASE check_temporal_consistency
  <2>1. stats' \in Statistics
    <3>1. stats' = [stats EXCEPT !.consistency_errors = @ + TemporalErrors(AllEvents(db))]
          BY <1>11 DEF check_temporal_consistency
    <3>2. TemporalErrors(AllEvents(db)) \in Nat
          BY <1>0, ChecksTyped
    <3> QED BY <1>1, <3>1, <3>2, ErrorsAdded
  <2>2. pc' = "done" /\ UNCHANGED <<db, now, options, startDb, startNow, todo>>
        BY <1>11 DEF check_temporal_consistency, storeVars, historyVars
  <2> QED BY <1>0, <2>1, <2>2 DEF TypeOK, Statistics
<1>12. CASE QueryFails
  <2>1. pc' = "failed" /\ stats' = NoStats /\ UNCHANGED <<db, now, options, startDb, startNow, todo>>
        BY <1>12 DEF QueryFails, storeVars, historyVars
  <2> QED BY <1>0, <1>1, <2>1 DEF TypeOK, Statistics
<1>13. CASE UNCHANGED vars
       BY <1>0, <1>13 DEF TypeOK, vars
<1> QED BY <1>3, <1>4, <1>5, <1>6, <1>7, <1>8, <1>9, <1>10, <1>11, <1>12, <1>13 DEF Next

LEMMA RecoveryStart == Init => RecoveryInv
<1> SUFFICES ASSUME Init PROVE RecoveryInv
    OBVIOUS
<1>1. <<>> \in Seq(Envelopes) /\ IsFiniteSet({}) /\ MaxTime \in Nat
      BY FS_EmptySet, RecoveryAssumption
<1>2. NoStats \in Statistics
      BY DEF NoStats, Statistics
<1> QED BY <1>1, <1>2 DEF Init, RecoveryInv, TypeOK, StoreInv, IsStore, OneKey, Statistics

LEMMA RecoveryAlways == Spec => []RecoveryInv
BY RecoveryStart, RecoveryStep, PTL DEF Spec

\* The store, the clock, the position of recover() and its statistics keep their
\* types, and the store it began with is never lost.
THEOREM TypesHold == Spec => []TypeOK
<1>1. RecoveryInv => TypeOK
      BY DEF RecoveryInv
<1> QED BY <1>1, RecoveryAlways, PTL

\* The replay of any store is without errors exactly if all balances fit, and
\* then gives each account the balance that its history says, whatever its
\* transfers, their order and the times of its envelopes.
THEOREM BalancesAlwaysExact == Spec => []BalancesExact
<1>1. ASSUME RecoveryInv PROVE BalancesExact
  <2>1. Scan(db) \in Seq(Envelopes)
    <3>1. IsStore(db) /\ 0 \in Nat
          BY <1>1 DEF RecoveryInv, StoreInv
    <3> QED BY <3>1, FirstOf DEF Begins
  <2> QED BY <2>1, ReplayExact DEF BalancesExact
<1> QED BY <1>1, RecoveryAlways, PTL

----------------------------------------------------------------------------
(* What recover() reports.                                                 *)

LEMMA BetweenIs ==
    ASSUME NEW A, NEW B, NEW S
    PROVE  S \in Between(A, B) <=> A \subseteq S /\ S \subseteq A \cup B
<1>1. ASSUME S \in Between(A, B) PROVE A \subseteq S /\ S \subseteq A \cup B
      BY <1>1 DEF Between
<1>2. ASSUME A \subseteq S, S \subseteq A \cup B PROVE S \in Between(A, B)
  <2>1. S \ A \in SUBSET (B \ A) /\ S = A \cup (S \ A)
        BY <1>2
  <2> QED BY <2>1 DEF Between
<1> QED BY <1>1, <1>2

\* The stores that existed up to now existed up to any later moment.
LEMMA BetweenGrows ==
    ASSUME NEW A, NEW B, NEW C, B \subseteq C, NEW S \in Between(A, B)
    PROVE  S \in Between(A, C)
BY BetweenIs

\* The balances are judged by a store that existed since recover() was called.
Balanced == \E S \in Between(startDb, db) :
                stats.consistency_errors = 0 <=> Fits(First(DefaultLimit, S))

VerdictInv ==
    /\ pc \in {"idle", "integrity", "consistency", "validate", "balances"} => stats.consistency_errors = 0
    /\ pc = "temporal" => Balanced
    /\ VerdictTrue

\* Writers and the clock leave what is known of past stores.
LEMMA VerdictStays ==
    ASSUME VerdictInv, db \subseteq db', UNCHANGED <<pc, stats, startDb>>
    PROVE  VerdictInv'
<1>1. ASSUME Balanced PROVE Balanced'
  <2>1. PICK S \in Between(startDb, db) : stats.consistency_errors = 0 <=> Fits(First(DefaultLimit, S))
        BY <1>1 DEF Balanced
  <2>2. S \in Between(startDb', db')
        BY BetweenGrows
  <2> QED BY <2>1, <2>2 DEF Balanced
<1>2. ASSUME pc = "done" PROVE VerdictTrue'
  <2>1. PICK S \in Between(startDb, db) : \E T \in Between(S, db) :
            stats.consistency_errors = 0 <=>
                Fits(First(DefaultLimit, S)) /\ ~Mixed(First(DefaultLimit, T))
        BY <1>2 DEF VerdictInv, VerdictTrue
  <2>2. PICK T \in Between(S, db) :
            stats.consistency_errors = 0 <=>
                Fits(First(DefaultLimit, S)) /\ ~Mixed(First(DefaultLimit, T))
        BY <2>1
  <2>3. S \in Between(startDb', db') /\ T \in Between(S, db')
        BY BetweenGrows
  <2> QED BY <2>2, <2>3 DEF VerdictTrue
<1>3. pc' # "done" => VerdictTrue'
      BY DEF VerdictTrue
<1> QED BY <1>1, <1>2, <1>3 DEF VerdictInv

LEMMA VerdictStep ==
    ASSUME InRange(Envelopes), RecoveryInv, VerdictInv, [Next]_vars
    PROVE  VerdictInv'
<1>0. /\ TypeOK /\ IsStore(db) /\ db \subseteq db' /\ startDb \subseteq db
      BY StoreStep DEF RecoveryInv, StoreInv, TypeOK
<1>1. stats \in Statistics /\ stats.consistency_errors \in Nat
      BY <1>0 DEF TypeOK, Statistics
<1>2. DefaultLimit \in Nat /\ 0 \in Nat
      BY EventScanAssumption
<1> DEFINE Early == {"idle", "integrity", "consistency", "validate", "balances"}
<1>3. ASSUME pc' \in Early, stats'.consistency_errors = 0 PROVE VerdictInv'
      BY <1>3 DEF VerdictInv, VerdictTrue
<1>4. CASE UNCHANGED <<pc, stats, startDb>>
      BY <1>0, <1>4, VerdictStays
<1>5. ASSUME pc \in Early, pc' \in Early, stats' = stats PROVE VerdictInv'
      BY <1>3, <1>5 DEF VerdictInv
<1>6. CASE check_database_integrity
  <2>1. Len(AllEvents(db)) \in Nat
        BY <1>0, ChecksTyped
  <2>2. /\ stats' = [stats EXCEPT !.total_events_checked = Len(AllEvents(db))]
        /\ pc = "integrity" /\ pc' \in {"consistency", "balances"}
        BY <1>6 DEF check_database_integrity
  <2>3. stats'.consistency_errors = stats.consistency_errors
        BY <1>1, <2>1, <2>2, TotalSet
  <2> QED BY <1>3, <2>2, <2>3 DEF VerdictInv
<1>7. CASE ValidateNext
  <2>2. stats'.consistency_errors = stats.consistency_errors
        BY <1>1, <1>7, Validated
  <2>3. pc = "validate" /\ pc' = pc
        BY <1>7 DEF ValidateNext
  <2> QED BY <1>3, <2>2, <2>3 DEF VerdictInv
<1>8. CASE check_account_balance_consistency
  <2> DEFINE n == ReplayAll(AllEvents(db)).errors
  <2>1. n \in Nat /\ (n = 0 <=> Fits(First(DefaultLimit, db)))
    <3>1. AllEvents(db) \in Seq(Envelopes) /\ AllEvents(db) = First(DefaultLimit, db)
          BY <1>0, <1>2, ChecksTyped, QueriesFirst
    <3> QED BY <3>1, ReplayExact
  <2> HIDE DEF n
  <2>2. pc = "balances" /\ pc' = "temporal" /\ UNCHANGED <<db, startDb>>
        BY <1>8 DEF check_account_balance_consistency, storeVars, historyVars
  <2>3. stats' = [stats EXCEPT !.consistency_errors = @ + n]
        BY <1>8 DEF check_account_balance_consistency, n
  <2>4. stats'.consistency_errors = 0 + n
        BY <1>1, <2>1, <2>2, <2>3, ErrorsAdded DEF VerdictInv
  <2>5. db \in Between(startDb', db')
        BY <1>0, <2>2, BetweenIs
  <2>6. Balanced'
        BY <2>1, <2>4, <2>5 DEF Balanced
  <2> QED BY <2>2, <2>6 DEF VerdictInv, VerdictTrue
<1>9. CASE check_temporal_consistency
  <2> DEFINE n == TemporalErrors(AllEvents(db))
  <2>1. n \in Nat /\ (n = 0 <=> ~Mixed(First(DefaultLimit, db)))
    <3>1. n \in Nat /\ AllEvents(db) = First(DefaultLimit, db)
          BY <1>0, <1>2, ChecksTyped, QueriesFirst
    <3>2. InRange(db)
          BY <1>0 DEF InRange, TypeOK
    <3> QED BY <1>0, <1>2, <3>1, <3>2, TemporalExact
  <2> HIDE DEF n
  <2>2. pc = "temporal" /\ pc' = "done" /\ UNCHANGED <<db, startDb>>
        BY <1>9 DEF check_temporal_consistency, storeVars, historyVars
  <2>3. stats' = [stats EXCEPT !.consistency_errors = @ + n]
        BY <1>9 DEF check_temporal_consistency, n
  <2>4. stats'.consistency_errors = stats.consistency_errors + n
        BY <1>1, <2>1, <2>3, ErrorsAdded
  <2>5. PICK S \in Between(startDb, db) : stats.consistency_errors = 0 <=> Fits(First(DefaultLimit, S))
        BY <2>2 DEF VerdictInv, Balanced
  <2>6. S \in Between(startDb', db') /\ db \in Between(S, db')
        BY <1>0, <2>2, <2>5, BetweenIs
  <2>7. stats'.consistency_errors = 0 <=> stats.consistency_errors = 0 /\ n = 0
        BY <1>1, <2>1, <2>4
  <2>8. VerdictTrue'
        BY <2>1, <2>5, <2>6, <2>7 DEF VerdictTrue
  <2> QED BY <2>2, <2>8 DEF VerdictInv
<1>10. CASE QueryFails
       BY <1>10 DEF QueryFails, VerdictInv, VerdictTrue
<1>11. CASE (\E e \in Envelopes : AppendEvent(e)) \/ Tick \/ UNCHANGED vars
       BY <1>4, <1>11 DEF AppendEvent, Tick, vars
<1>12. CASE (\E o \in Options : Recover(o)) \/ check_event_consistency \/ ValidateEnd
       BY <1>5, <1>12 DEF Recover, check_event_consistency, ValidateEnd
<1> QED BY <1>6, <1>7, <1>8, <1>9, <1>10, <1>11, <1>12 DEF Next

\* With times between 1677 and 2262, what recover() reports of balances and
\* order is true of stores that existed while it ran, whatever was appended
\* between its queries: an error exactly if a balance does not fit or events
\* lie on both sides of the epoch, as far as the queries reach.
THEOREM VerdictAlwaysTrue ==
    ASSUME InRange(Envelopes)
    PROVE  Spec => []VerdictTrue
<1>1. Init => VerdictInv
      BY DEF Init, VerdictInv, VerdictTrue, NoStats
<1>2. RecoveryInv /\ VerdictInv /\ [Next]_vars => VerdictInv'
      BY VerdictStep
<1>3. VerdictInv => VerdictTrue
      BY DEF VerdictInv
<1> QED BY <1>1, <1>2, <1>3, RecoveryAlways, PTL DEF Spec

----------------------------------------------------------------------------
(* What recover() counts.                                                  *)

\* Of the first k envelopes, those that were invalid at some moment and those
\* that were so all the time.
Sometimes(s, k, a, b) == {i \in 1 .. k : \E t \in a .. b : ~validate_event_envelope(s[i], t)}
Throughout(s, k, a, b) == {i \in 1 .. k : \A t \in a .. b : ~validate_event_envelope(s[i], t)}

LEMMA InvalidFinite ==
    ASSUME NEW s, NEW k \in Nat, NEW a, NEW b
    PROVE  /\ IsFiniteSet(Sometimes(s, k, a, b)) /\ Cardinality(Sometimes(s, k, a, b)) \in Nat
           /\ IsFiniteSet(Throughout(s, k, a, b)) /\ Cardinality(Throughout(s, k, a, b)) \in Nat
<1>1. IsFiniteSet(1 .. k)
      BY FS_Interval
<1>2. Sometimes(s, k, a, b) \in SUBSET (1 .. k) /\ Throughout(s, k, a, b) \in SUBSET (1 .. k)
      BY DEF Sometimes, Throughout
<1>3. IsFiniteSet(Sometimes(s, k, a, b)) /\ IsFiniteSet(Throughout(s, k, a, b))
      BY <1>1, <1>2, FS_Subset
<1> QED BY <1>3, FS_CardinalityType

\* The number of corrupted envelopes, of the first k.
Found(n, s, k, a, b) ==
    n \in Cardinality(Throughout(s, k, a, b)) .. Cardinality(Sometimes(s, k, a, b))

\* Time only widens what may have been found.
LEMMA FoundLater ==
    ASSUME NEW s, NEW k \in Nat, NEW a \in Int, NEW b \in Int, NEW c \in Int, b <= c,
           NEW n, Found(n, s, k, a, b)
    PROVE  Found(n, s, k, a, c)
<1>1. a .. b \subseteq a .. c
      OBVIOUS
<1>2. /\ Sometimes(s, k, a, b) \in SUBSET Sometimes(s, k, a, c)
      /\ Throughout(s, k, a, c) \in SUBSET Throughout(s, k, a, b)
      BY <1>1, Zenon DEF Sometimes, Throughout
<1>3. /\ Cardinality(Sometimes(s, k, a, b)) <= Cardinality(Sometimes(s, k, a, c))
      /\ Cardinality(Throughout(s, k, a, c)) <= Cardinality(Throughout(s, k, a, b))
      BY <1>2, InvalidFinite, FS_Subset
<1>4. /\ Cardinality(Sometimes(s, k, a, b)) \in Nat /\ Cardinality(Sometimes(s, k, a, c)) \in Nat
      /\ Cardinality(Throughout(s, k, a, b)) \in Nat /\ Cardinality(Throughout(s, k, a, c)) \in Nat
      BY InvalidFinite
<1> QED BY <1>3, <1>4 DEF Found

\* One more envelope validated.
LEMMA FoundNext ==
    ASSUME NEW s, NEW k \in Nat, NEW a, NEW b, NEW t \in a .. b, NEW n, Found(n, s, k, a, b)
    PROVE  Found(n + IF ~validate_event_envelope(s[k + 1], t) THEN 1 ELSE 0, s, k + 1, a, b)
<1> DEFINE A  == Throughout(s, k, a, b)
           A1 == Throughout(s, k + 1, a, b)
           E  == Sometimes(s, k, a, b)
           E1 == Sometimes(s, k + 1, a, b)
           bad == ~validate_event_envelope(s[k + 1], t)
<1>1. /\ k + 1 \in Nat /\ k + 1 \notin 1 .. k /\ k + 1 \in 1 .. (k + 1)
      /\ \A i : i \in 1 .. (k + 1) <=> i \in 1 .. k \/ i = k + 1
      OBVIOUS
<1>2. k + 1 \notin A /\ k + 1 \notin E
      BY <1>1 DEF Throughout, Sometimes
<1>3. A1 \subseteq A \cup {k + 1} /\ E \subseteq E1
      BY <1>1 DEF Throughout, Sometimes
<1>4. bad => k + 1 \in E1
      BY <1>1 DEF Sometimes
<1>5. ~bad => k + 1 \notin A1
      BY <1>1 DEF Throughout
<1>6. /\ IsFiniteSet(A) /\ Cardinality(A) \in Nat /\ IsFiniteSet(E) /\ Cardinality(E) \in Nat
      /\ IsFiniteSet(A1) /\ Cardinality(A1) \in Nat /\ IsFiniteSet(E1) /\ Cardinality(E1) \in Nat
      BY <1>1, InvalidFinite
<1>7. n \in Cardinality(A) .. Cardinality(E)
      BY DEF Found
<1> HIDE DEF A, A1, E, E1, bad
<1>8. CASE bad
  <2>1. IsFiniteSet(A \cup {k + 1}) /\ Cardinality(A \cup {k + 1}) = Cardinality(A) + 1
        BY <1>2, <1>6, FS_AddElement
  <2>2. IsFiniteSet(E \cup {k + 1}) /\ Cardinality(E \cup {k + 1}) = Cardinality(E) + 1
        BY <1>2, <1>6, FS_AddElement
  <2>3. A1 \in SUBSET (A \cup {k + 1}) /\ E \cup {k + 1} \in SUBSET E1
        BY <1>3, <1>4, <1>8
  <2>4. Cardinality(A1) <= Cardinality(A \cup {k + 1}) /\ Cardinality(E \cup {k + 1}) <= Cardinality(E1)
        BY <1>6, <2>1, <2>3, FS_Subset
  <2>5. n + 1 \in Cardinality(A1) .. Cardinality(E1)
        BY <1>6, <1>7, <2>1, <2>2, <2>4
  <2> QED BY <1>8, <2>5 DEF Found, A1, E1, bad
<1>9. CASE ~bad
  <2>1. A1 \in SUBSET A /\ E \in SUBSET E1
        BY <1>3, <1>5, <1>9
  <2>2. Cardinality(A1) <= Cardinality(A) /\ Cardinality(E) <= Cardinality(E1)
        BY <1>6, <2>1, FS_Subset
  <2>3. n + 0 \in Cardinality(A1) .. Cardinality(E1)
        BY <1>6, <1>7, <2>2
  <2> QED BY <1>9, <2>3 DEF Found, A1, E1, bad
<1> QED BY <1>8, <1>9

\* The envelopes that check_event_consistency takes from a store.
Deep(o, T) ==
    IF o.deep_check
      THEN First(IF o.max_events_to_check = 0 THEN DefaultLimit ELSE o.max_events_to_check, T)
      ELSE <<>>

\* recover() has counted the store S and validated k envelopes of the store T.
Validating(S, T, k) ==
    LET deep  == Deep(options, T)
        total == Len(First(DefaultLimit, S))
    IN  /\ deep \in Seq(Envelopes) /\ total \in Nat /\ k <= Len(deep)
        /\ stats.total_events_checked = total + k
        /\ Found(stats.corrupted_events_found, deep, k, startNow, now)
        /\ IF pc = "validate"
             THEN Len(todo) = Len(deep) - k /\ \A i \in 1 .. Len(todo) : todo[i] = deep[k + i]
             ELSE k = Len(deep)

Reached == \E S \in Between(startDb, db) : \E T \in Between(S, db) : \E k \in Nat : Validating(S, T, k)

Totalled == \E S \in Between(startDb, db) :
                /\ Len(First(DefaultLimit, S)) \in Nat
                /\ stats.total_events_checked = Len(First(DefaultLimit, S))

CountsInv ==
    /\ pc \in {"idle", "integrity", "consistency"} => stats.corrupted_events_found = 0
    /\ pc = "consistency" => options.deep_check /\ Totalled
    /\ pc \in {"validate", "balances", "temporal", "done"} => Reached

\* Writers and the clock leave it, so do the checks that count nothing.
LEMMA ValidatedStays ==
    ASSUME RecoveryInv, Reached, db \subseteq db', now <= now', now' \in Int,
           UNCHANGED <<options, startDb, startNow>>,
           stats'.total_events_checked = stats.total_events_checked,
           stats'.corrupted_events_found = stats.corrupted_events_found,
           \/ UNCHANGED <<pc, todo>>
           \/ pc = "validate" /\ todo = <<>> /\ pc' # "validate"
           \/ pc # "validate" /\ pc' # "validate"
    PROVE  Reached'
<1>1. PICK S \in Between(startDb, db) : \E T \in Between(S, db) : \E k \in Nat : Validating(S, T, k)
      BY DEF Reached
<1>2. PICK T \in Between(S, db) : \E k \in Nat : Validating(S, T, k)
      BY <1>1
<1>3. PICK k \in Nat : Validating(S, T, k)
      BY <1>2
<1>4. S \in Between(startDb', db') /\ T \in Between(S, db')
      BY BetweenGrows
<1> DEFINE deep  == Deep(options, T)
           total == Len(First(DefaultLimit, S))
           left  == Len(todo) = Len(deep) - k /\ \A i \in 1 .. Len(todo) : todo[i] = deep[k + i]
<1>5. /\ deep \in Seq(Envelopes) /\ total \in Nat /\ k <= Len(deep)
      /\ stats.total_events_checked = total + k
      /\ Found(stats.corrupted_events_found, deep, k, startNow, now)
      /\ IF pc = "validate" THEN left ELSE k = Len(deep)
      BY <1>3 DEF Validating
<1>6. deep = Deep(options', T)
      OBVIOUS
<1>7. now \in Int /\ startNow \in Int
      BY DEF RecoveryInv, TypeOK
<1> HIDE DEF deep, total
<1>8. Found(stats'.corrupted_events_found, deep, k, startNow', now')
      BY <1>5, <1>7, FoundLater
<1>9. todo = <<>> /\ left => k = Len(deep)
  <2>1. Len(<<>>) = 0 /\ Len(deep) \in Nat
        BY <1>5
  <2> QED BY <2>1
<1>10. IF pc' = "validate"
         THEN Len(todo') = Len(deep) - k /\ \A i \in 1 .. Len(todo') : todo'[i] = deep[k + i]
         ELSE k = Len(deep)
       BY <1>5, <1>9
<1>11. Validating(S, T, k)'
       BY <1>5, <1>6, <1>8, <1>10 DEF Validating, deep, total
<1> QED BY <1>4, <1>11 DEF Reached

\* Nothing validated, nothing found.
LEMMA FoundNone == ASSUME NEW s, NEW a, NEW b PROVE Found(0, s, 0, a, b)
<1>1. Sometimes(s, 0, a, b) = {} /\ Throughout(s, 0, a, b) = {}
      BY DEF Sometimes, Throughout
<1>2. Cardinality({}) = 0
      BY FS_EmptySet
<1> QED BY <1>1, <1>2 DEF Found

\* One turn of the validation loop moves on by one envelope.
LEMMA ValidatedNext == ASSUME RecoveryInv, CountsInv, ValidateNext PROVE CountsInv'
<1>1. /\ pc = "validate" /\ pc' = pc /\ todo # <<>> /\ todo' = Tail(todo)
      /\ UNCHANGED <<db, now, options, startDb, startNow>>
      BY DEF ValidateNext, storeVars, historyVars
<1>2. /\ stats \in Statistics /\ now \in Int /\ startNow \in Int /\ startNow <= now
      /\ todo \in Seq(Envelopes) /\ stats.corrupted_events_found \in Nat
      BY DEF RecoveryInv, TypeOK, Statistics
<1>3. PICK S \in Between(startDb, db) : \E T \in Between(S, db) : \E k \in Nat : Validating(S, T, k)
      BY <1>1 DEF CountsInv, Reached
<1>4. PICK T \in Between(S, db) : \E k \in Nat : Validating(S, T, k)
      BY <1>3
<1>5. PICK k \in Nat : Validating(S, T, k)
      BY <1>4
<1> DEFINE deep  == Deep(options, T)
           total == Len(First(DefaultLimit, S))
           m     == IF ~validate_event_envelope(Head(todo), now) THEN 1 ELSE 0
<1>6. /\ deep \in Seq(Envelopes) /\ total \in Nat /\ k <= Len(deep)
      /\ stats.total_events_checked = total + k
      /\ Found(stats.corrupted_events_found, deep, k, startNow, now)
      /\ Len(todo) = Len(deep) - k /\ \A i \in 1 .. Len(todo) : todo[i] = deep[k + i]
      BY <1>1, <1>5 DEF Validating
<1>7. deep = Deep(options', T)
      BY <1>1
<1> HIDE DEF deep, total
<1>8. /\ Len(todo) \in Nat /\ Len(todo) > 0 /\ Len(deep) \in Nat /\ Head(todo) = todo[1]
      /\ Len(todo') = Len(todo) - 1 /\ \A i \in 1 .. Len(todo') : todo'[i] = todo[i + 1]
      BY <1>1, <1>2, <1>6
<1>9. Head(todo) = deep[k + 1]
      BY <1>6, <1>8
<1>10. now \in startNow .. now
       BY <1>2
<1>11. Found(stats.corrupted_events_found + m, deep, k + 1, startNow, now)
       BY <1>6, <1>9, <1>10, FoundNext
<1>12. /\ stats'.total_events_checked = stats.total_events_checked + 1
       /\ stats'.corrupted_events_found = stats.corrupted_events_found + m
       BY <1>2, Validated
<1> HIDE DEF m
<1>13. k + 1 <= Len(deep) /\ stats'.total_events_checked = total + (k + 1) /\ k + 1 \in Nat
       BY <1>6, <1>8, <1>12
<1>14. Len(todo') = Len(deep) - (k + 1) /\ \A i \in 1 .. Len(todo') : todo'[i] = deep[(k + 1) + i]
  <2>1. Len(todo') = Len(deep) - (k + 1) /\ Len(todo') \in Nat
        BY <1>6, <1>8
  <2>2. ASSUME NEW i \in 1 .. Len(todo') PROVE todo'[i] = deep[(k + 1) + i]
    <3>1. i + 1 \in 1 .. Len(todo) /\ k + (i + 1) = (k + 1) + i
          BY <1>8, <2>1
    <3>2. todo'[i] = todo[i + 1] /\ todo[i + 1] = deep[k + (i + 1)]
          BY <1>6, <1>8, <3>1
    <3> QED BY <3>1, <3>2
  <2> QED BY <2>1, <2>2
<1>15. Found(stats'.corrupted_events_found, deep, k + 1, startNow', now')
       BY <1>1, <1>11, <1>12
<1>16. Validating(S, T, k + 1)'
       BY <1>1, <1>6, <1>7, <1>13, <1>14, <1>15 DEF Validating, deep, total
<1>17. Reached'
       BY <1>1, <1>13, <1>16 DEF Reached
<1> QED BY <1>1, <1>17 DEF CountsInv

LEMMA CountsStep == ASSUME RecoveryInv, CountsInv, [Next]_vars PROVE CountsInv'
<1>0. /\ TypeOK /\ IsStore(db) /\ db \subseteq db' /\ startDb \subseteq db
      BY StoreStep DEF RecoveryInv, StoreInv, TypeOK
<1>1. /\ stats \in Statistics /\ stats.consistency_errors \in Nat
      /\ now \in Int /\ startNow \in Int /\ startNow <= now
      BY <1>0, RecoveryAssumption DEF TypeOK, Statistics
<1>2. DefaultLimit \in Nat /\ 0 \in Nat
      BY EventScanAssumption
<1> DEFINE Late == {"validate", "balances", "temporal", "done"}
           total == Len(First(DefaultLimit, db))
<1>3. total \in Nat /\ AllEvents(db) = First(DefaultLimit, db)
      BY <1>0, <1>2, QueriesFirst, ChecksTyped
<1>4. ASSUME pc \in Late, pc' \in Late, now' = now, Reached' PROVE CountsInv'
      BY <1>4 DEF CountsInv
<1>5. CASE /\ UNCHANGED <<pc, options, todo, stats, startDb, startNow>>
           /\ now <= now' /\ now' \in Int
  <2>1. Reached => Reached'
        BY <1>0, <1>5, ValidatedStays
  <2>2. ASSUME Totalled PROVE Totalled'
    <3>1. PICK S \in Between(startDb, db) :
              /\ Len(First(DefaultLimit, S)) \in Nat
              /\ stats.total_events_checked = Len(First(DefaultLimit, S))
          BY <2>2 DEF Totalled
    <3>2. S \in Between(startDb', db')
          BY <1>0, <1>5, BetweenGrows
    <3> QED BY <1>5, <3>1, <3>2 DEF Totalled
  <2> QED BY <1>5, <2>1, <2>2 DEF CountsInv
<1>6. CASE Tick \/ (\E e \in Envelopes : AppendEvent(e)) \/ UNCHANGED vars
  <2>1. UNCHANGED <<pc, options, todo, stats, startDb, startNow>>
        BY <1>6 DEF Tick, AppendEvent, vars
  <2>2. now' = now \/ now' = now + 1
        BY <1>6 DEF Tick, AppendEvent, vars
  <2> QED BY <1>1, <1>5, <2>1, <2>2
<1>7. ASSUME NEW o \in Options, Recover(o) PROVE CountsInv'
      BY <1>7 DEF Recover, CountsInv
<1>8. CASE check_database_integrity
  <2>1. /\ stats' = [stats EXCEPT !.total_events_checked = Len(AllEvents(db))]
        /\ pc = "integrity" /\ pc' = IF options.deep_check THEN "consistency" ELSE "balances"
        /\ UNCHANGED <<db, now, options, startDb, startNow, todo>>
        BY <1>8 DEF check_database_integrity, storeVars, historyVars
  <2>2. Len(AllEvents(db)) = total
        BY <1>3
  <2>3. stats'.total_events_checked = total /\ stats'.corrupted_events_found = 0
    <3>1. stats.corrupted_events_found = 0
          BY <2>1 DEF CountsInv
    <3> HIDE DEF total
    <3> QED BY <1>1, <1>3, <2>1, <2>2, <3>1, TotalSet
  <2>4. db \in Between(startDb', db') /\ db \in Between(db, db')
        BY <1>0, <2>1, BetweenIs
  <2>5. CASE options.deep_check
    <3>1. Totalled'
          BY <1>3, <2>3, <2>4 DEF Totalled
    <3> QED BY <2>1, <2>3, <2>5, <3>1 DEF CountsInv
  <2>6. CASE ~options.deep_check
    <3>1. Deep(options', db) = <<>> /\ pc' = "balances"
          BY <2>1, <2>6 DEF Deep
    <3>2. <<>> \in Seq(Envelopes) /\ Len(<<>>) = 0 /\ total + 0 = total /\ 0 <= 0
          BY <1>3
    <3>3. Found(stats'.corrupted_events_found, <<>>, 0, startNow', now')
          BY <2>3, FoundNone
    <3>4. Validating(db, db, 0)'
          BY <1>3, <2>1, <2>3, <3>1, <3>2, <3>3 DEF Validating
    <3>5. Reached'
          BY <1>2, <2>1, <2>4, <3>4 DEF Reached
    <3> QED BY <3>1, <3>5 DEF CountsInv
  <2> QED BY <2>5, <2>6
<1>9. CASE check_event_consistency
  <2> DEFINE max  == options.max_events_to_check
             deep == Deep(options, db)
  <2>1. /\ todo' = query_events([AllOf EXCEPT !.limit = LimitOf(max)], db).events
        /\ pc = "consistency" /\ pc' = "validate"
        /\ UNCHANGED <<db, now, options, startDb, startNow, stats>>
        BY <1>9 DEF check_event_consistency, storeVars, historyVars
  <2>2. options.deep_check /\ stats.corrupted_events_found = 0
        BY <2>1 DEF CountsInv
  <2>3. max \in Nat
        BY OptionsTyped
  <2>4. todo' = deep /\ todo' \in Seq(Envelopes)
    <3> DEFINE z == query_events([AllOf EXCEPT !.limit = LimitOf(max)], db).events
    <3>1. z = First(IF max = 0 THEN DefaultLimit ELSE max, db)
      <4> HIDE DEF max
      <4> QED BY <1>0, <2>3, QueriesFirst
    <3>2. z \in Seq(Envelopes)
      <4> HIDE DEF max
      <4> QED BY <1>0, <2>3, ChecksTyped
    <3> HIDE DEF z
    <3>3. todo' = z
          BY <2>1 DEF z
    <3> QED BY <2>2, <3>1, <3>2, <3>3 DEF Deep
  <2>5. PICK S \in Between(startDb, db) :
            /\ Len(First(DefaultLimit, S)) \in Nat
            /\ stats.total_events_checked = Len(First(DefaultLimit, S))
        BY <2>1 DEF CountsInv, Totalled
  <2>6. S \in Between(startDb', db') /\ db \in Between(S, db')
        BY <1>0, <2>1, <2>5, BetweenIs
  <2>7. Deep(options', db) = deep
        BY <2>1
  <2> HIDE DEF deep
  <2>8. Found(stats'.corrupted_events_found, deep, 0, startNow', now')
        BY <2>1, <2>2, FoundNone
  <2>9. /\ 0 <= Len(deep) /\ Len(todo') = Len(deep) - 0
        /\ \A i \in 1 .. Len(todo') : todo'[i] = deep[0 + i]
        /\ stats'.total_events_checked = Len(First(DefaultLimit, S)) + 0
    <3>1. Len(deep) \in Nat
          BY <2>4
    <3>2. \A i \in 1 .. Len(deep) : 0 + i = i
          BY <3>1
    <3>3. \A i \in 1 .. Len(todo') : todo'[i] = deep[0 + i]
          BY <2>4, <3>2
    <3> QED BY <2>1, <2>4, <2>5, <3>1, <3>3
  <2>10. Validating(S, db, 0)'
         BY <2>1, <2>4, <2>5, <2>7, <2>8, <2>9 DEF Validating
  <2>11. Reached'
         BY <1>2, <2>1, <2>6, <2>10 DEF Reached
  <2> QED BY <2>1, <2>11 DEF CountsInv
<1>10. CASE ValidateNext
       BY <1>10, ValidatedNext
<1>11. CASE ValidateEnd
  <2>1. Reached'
        BY <1>0, <1>1, <1>11, ValidatedStays DEF ValidateEnd, storeVars, historyVars, CountsInv
  <2> QED BY <1>11, <2>1 DEF ValidateEnd, CountsInv
<1>12. CASE check_account_balance_consistency
  <2> DEFINE n == ReplayAll(AllEvents(db)).errors
  <2>1. n \in Nat
        BY <1>0, ChecksTyped
  <2>2. stats' = [stats EXCEPT !.consistency_errors = @ + n]
        BY <1>12 DEF check_account_balance_consistency
  <2> HIDE DEF n
  <2>3. /\ stats'.corrupted_events_found = stats.corrupted_events_found
        /\ stats'.total_events_checked = stats.total_events_checked
        BY <1>1, <2>1, <2>2, ErrorsAdded
  <2>4. pc = "balances" /\ pc' = "temporal" /\ UNCHANGED <<db, now, options, startDb, startNow>>
        BY <1>12 DEF check_account_balance_consistency, storeVars, historyVars
  <2>5. Reached'
        BY <1>0, <1>1, <2>3, <2>4, ValidatedStays DEF CountsInv
  <2> QED BY <2>4, <2>5 DEF CountsInv
<1>13. CASE check_temporal_consistency
  <2> DEFINE n == TemporalErrors(AllEvents(db))
  <2>1. n \in Nat
        BY <1>0, ChecksTyped
  <2>2. stats' = [stats EXCEPT !.consistency_errors = @ + n]
        BY <1>13 DEF check_temporal_consistency
  <2> HIDE DEF n
  <2>3. /\ stats'.corrupted_events_found = stats.corrupted_events_found
        /\ stats'.total_events_checked = stats.total_events_checked
        BY <1>1, <2>1, <2>2, ErrorsAdded
  <2>4. pc = "temporal" /\ pc' = "done" /\ UNCHANGED <<db, now, options, startDb, startNow>>
        BY <1>13 DEF check_temporal_consistency, storeVars, historyVars
  <2>5. Reached'
        BY <1>0, <1>1, <2>3, <2>4, ValidatedStays DEF CountsInv
  <2> QED BY <2>4, <2>5 DEF CountsInv
<1>14. CASE QueryFails
       BY <1>14 DEF QueryFails, CountsInv
<1> QED BY <1>6, <1>7, <1>8, <1>9, <1>10, <1>11, <1>12, <1>13, <1>14 DEF Next

\* Part of a store is a store.
LEMMA SubStore ==
    ASSUME NEW S, IsStore(S), NEW T \in SUBSET S
    PROVE  IsStore(T) /\ Cardinality(T) <= Cardinality(S)
BY FS_Subset DEF IsStore, OneKey

\* Different positions of different envelopes are no more than the envelopes.
LEMMA PositionsFew ==
    ASSUME NEW I, NEW E, IsFiniteSet(E), NEW s,
           \A i \in I : s[i] \in E, \A i, j \in I : s[i] = s[j] => i = j
    PROVE  Cardinality(I) <= Cardinality(E)
<1> DEFINE f == [i \in I |-> s[i]]
<1>1. f \in Injection(I, E)
      BY DEF Injection, IsInjective
<1> HIDE DEF f
<1> QED BY <1>1, FS_Injection

\* And no fewer if every envelope has one.
LEMMA PositionsMany ==
    ASSUME NEW I, IsFiniteSet(I), NEW E, NEW s, \A e \in E : \E i \in I : s[i] = e
    PROVE  IsFiniteSet(E) /\ Cardinality(E) <= Cardinality(I)
<1> DEFINE J == {i \in I : s[i] \in E}
           f == [i \in J |-> s[i]]
<1>1. f \in Surjection(J, E)
      BY DEF Surjection
<1>2. J \in SUBSET I
      OBVIOUS
<1>3. IsFiniteSet(J) /\ Cardinality(J) <= Cardinality(I) /\ Cardinality(I) \in Nat
      BY <1>2, FS_Subset, FS_CardinalityType
<1> HIDE DEF f, J
<1>4. IsFiniteSet(E) /\ Cardinality(E) <= Cardinality(J)
      BY <1>1, <1>3, FS_Surjection
<1>5. Cardinality(E) \in Nat /\ Cardinality(J) \in Nat
      BY <1>3, <1>4, FS_CardinalityType
<1> QED BY <1>3, <1>4, <1>5

\* s has members of the store, each at one position, and all if the store has at
\* most n.
Reads(s, T, n) ==
    /\ \A i \in 1 .. Len(s) : s[i] \in T
    /\ \A i, j \in 1 .. Len(s) : s[i] = s[j] => i = j
    /\ Len(s) \in Nat /\ Len(s) <= n
    /\ Cardinality(T) \in Nat /\ Len(s) <= Cardinality(T)
    /\ Cardinality(T) <= n =>
          /\ Len(s) = Cardinality(T)
          /\ \A e \in T : \E i \in 1 .. Len(s) : s[i] = e

LEMMA FirstReads == ASSUME NEW T, IsStore(T), NEW n \in Nat PROVE Reads(First(n, T), T, n)
<1> DEFINE s == First(n, T)
           R == KeyOrder(T)
           scan == SortedBy(T, R)
           m == Cardinality(T)
<1>1. Begins(s, T, n)
      BY FirstOf
<1>2. IsFiniteSet(T) /\ StrictOrder(T, R) /\ Scan(T) = scan
  <2>1. IsFiniteSet(T) /\ Timed(T) /\ OneKey(T) /\ T \in SUBSET T
        BY StoreTimed DEF IsStore
  <2> QED BY <2>1, KeysOrdered, ScanIsSorted
<1>3. /\ m \in Nat /\ scan \in [1 .. m -> T]
      /\ \A i \in 1 .. m : Rank(T, R, scan[i]) = i - 1
      /\ \A e \in T : Rank(T, R, e) + 1 \in 1 .. m /\ scan[Rank(T, R, e) + 1] = e
      BY <1>2, SortedFacts
<1>4. /\ Len(s) \in Nat /\ Len(s) = (IF n < m THEN n ELSE m)
      /\ \A i \in 1 .. Len(s) : s[i] = scan[i]
      BY <1>1, <1>2 DEF Begins
<1> HIDE DEF s, scan, R, m
<1>5. \A i \in 1 .. Len(s) : i \in 1 .. m
      BY <1>3, <1>4
<1>6. \A i \in 1 .. Len(s) : s[i] \in T
      BY <1>3, <1>4, <1>5
<1>7. ASSUME NEW i \in 1 .. Len(s), NEW j \in 1 .. Len(s), s[i] = s[j] PROVE i = j
  <2>1. Rank(T, R, scan[i]) = i - 1 /\ Rank(T, R, scan[j]) = j - 1 /\ scan[i] = scan[j]
        BY <1>3, <1>4, <1>5, <1>7
  <2>2. i - 1 = j - 1
        BY <2>1
  <2> QED BY <2>2
<1>8. ASSUME m <= n PROVE Len(s) = m /\ \A e \in T : \E i \in 1 .. Len(s) : s[i] = e
  <2>1. Len(s) = m
        BY <1>3, <1>4, <1>8
  <2>2. ASSUME NEW e \in T PROVE \E i \in 1 .. Len(s) : s[i] = e
    <3> DEFINE i == Rank(T, R, e) + 1
    <3>1. i \in 1 .. m /\ scan[i] = e
          BY <1>3
    <3> HIDE DEF i
    <3>2. i \in 1 .. Len(s) /\ s[i] = e
          BY <1>4, <2>1, <3>1
    <3> QED BY <3>2
  <2> QED BY <2>1, <2>2
<1>9. Len(s) <= n /\ Len(s) <= m
      BY <1>3, <1>4
<1> QED BY <1>3, <1>4, <1>6, <1>7, <1>8, <1>9 DEF Reads, m, s

\* Of the envelopes of a store that are read, those invalid at some moment are
\* such envelopes of the store, and where all are read none invalid throughout is
\* left out.
LEMMA FoundAmong ==
    ASSUME NEW T, IsStore(T), NEW n \in Nat, NEW a, NEW b, NEW D, IsStore(D), T \subseteq D,
           NEW C, C \subseteq T
    PROVE  LET s == First(n, T)
               k == Len(s)
           IN  /\ Cardinality(Sometimes(s, k, a, b))
                      <= Cardinality({e \in D : \E t \in a .. b : ~validate_event_envelope(e, t)})
               /\ Cardinality(Sometimes(s, k, a, b)) <= n
               /\ Cardinality(T) <= n =>
                      Cardinality({e \in C : \A t \in a .. b : ~validate_event_envelope(e, t)})
                          <= Cardinality(Throughout(s, k, a, b))
<1> DEFINE s == First(n, T)
           k == Len(s)
           some == Sometimes(s, k, a, b)
           thru == Throughout(s, k, a, b)
           E == {e \in D : \E t \in a .. b : ~validate_event_envelope(e, t)}
           F == {e \in C : \A t \in a .. b : ~validate_event_envelope(e, t)}
<1>1. Reads(s, T, n)
      BY FirstReads
<1> HIDE DEF s
<1>2. k \in Nat /\ k <= n
      BY <1>1 DEF Reads
<1>3. Cardinality(some) <= Cardinality(E)
  <2>1. IsFiniteSet(E)
    <3>1. E \in SUBSET D /\ IsFiniteSet(D)
          BY DEF IsStore
    <3> QED BY <3>1, FS_Subset
  <2>2. \A i \in some : s[i] \in E
        BY <1>1 DEF Reads, Sometimes
  <2>3. \A i, j \in some : s[i] = s[j] => i = j
        BY <1>1 DEF Reads, Sometimes
  <2> HIDE DEF some, E
  <2> QED BY <2>1, <2>2, <2>3, PositionsFew
<1>4. Cardinality(some) <= n
  <2>1. some \in SUBSET (1 .. k)
        BY DEF Sometimes
  <2>2. IsFiniteSet(1 .. k) /\ Cardinality(1 .. k) = k
    <3> HIDE DEF k
    <3> QED BY <1>2, FS_Interval
  <2>3. Cardinality(some) <= k /\ Cardinality(some) \in Nat
        BY <1>2, <2>1, <2>2, FS_Subset, InvalidFinite
  <2> QED BY <1>2, <2>3
<1>5. ASSUME Cardinality(T) <= n PROVE Cardinality(F) <= Cardinality(thru)
  <2>1. IsFiniteSet(thru)
        BY <1>2, InvalidFinite
  <2>2. \A e \in T : \E i \in 1 .. k : s[i] = e
        BY <1>1, <1>5 DEF Reads
  <2>3. \A e \in F : \E i \in thru : s[i] = e
        BY <2>2 DEF Throughout
  <2> HIDE DEF thru, F
  <2> QED BY <2>1, <2>3, PositionsMany
<1> QED BY <1>3, <1>4, <1>5 DEF s

\* However many envelopes are appended and however the clock moves while
\* recover() runs, it calls corrupted at most the envelopes invalid at some moment
\* and, where it reaches all, at least those invalid throughout; and it has
\* checked as many as there were when it began.
THEOREM CountsAlwaysTrue == Spec => []CountsTrue
<1>1. Init => CountsInv
      BY DEF Init, CountsInv, NoStats
<1>2. RecoveryInv /\ CountsInv /\ [Next]_vars => CountsInv'
      BY CountsStep
<1>3. ASSUME RecoveryInv, CountsInv, pc = "done" PROVE CountsTrue
  <2> DEFINE max   == options.max_events_to_check
             found == stats.corrupted_events_found
             total == stats.total_events_checked
             reach == IF max = 0 THEN DefaultLimit ELSE max
             E == {e \in db : \E t \in startNow .. now : ~validate_event_envelope(e, t)}
             F == {e \in startDb : \A t \in startNow .. now : ~validate_event_envelope(e, t)}
  <2>1. PICK S \in Between(startDb, db) : \E T \in Between(S, db) : \E k \in Nat : Validating(S, T, k)
        BY <1>3 DEF CountsInv, Reached
  <2>2. PICK T \in Between(S, db) : \E k \in Nat : Validating(S, T, k)
        BY <2>1
  <2>3. PICK k \in Nat : Validating(S, T, k)
        BY <2>2
  <2> DEFINE deep  == Deep(options, T)
             first == First(DefaultLimit, S)
  <2>4. /\ deep \in Seq(Envelopes) /\ k = Len(deep)
        /\ total = Len(first) + k
        /\ Found(found, deep, k, startNow, now)
        BY <1>3, <2>3 DEF Validating
  <2>5. IsStore(db) /\ startDb \subseteq db
        BY <1>3 DEF RecoveryInv, StoreInv, TypeOK
  <2>6. startDb \subseteq S /\ S \subseteq T /\ T \subseteq db
        BY <2>5, BetweenIs
  <2>7. /\ IsStore(S) /\ IsStore(T)
        /\ Cardinality(S) <= Cardinality(db) /\ Cardinality(T) <= Cardinality(db)
        /\ Cardinality(startDb) <= Cardinality(S)
    <3>1. S \in SUBSET db /\ T \in SUBSET db /\ startDb \in SUBSET S
          BY <2>6
    <3>2. IsStore(S) /\ IsStore(T)
          BY <2>5, <3>1, SubStore
    <3> QED BY <2>5, <3>1, <3>2, SubStore
  <2>8. /\ Cardinality(db) \in Nat /\ Cardinality(S) \in Nat /\ Cardinality(T) \in Nat
        /\ Cardinality(startDb) \in Nat
    <3>1. startDb \in SUBSET db /\ IsFiniteSet(db) /\ IsFiniteSet(S) /\ IsFiniteSet(T)
          BY <2>5, <2>7 DEF IsStore
    <3> QED BY <3>1, FS_Subset, FS_CardinalityType
  <2>9. DefaultLimit \in Nat /\ max \in Nat /\ reach \in Nat
        BY <1>3, EventScanAssumption, OptionsTyped
  <2> HIDE DEF max, found, total, reach, E, F, deep, first
  <2>10. Reads(first, S, DefaultLimit)
         BY <2>7, <2>9, FirstReads DEF first
  <2>11. /\ found \in Cardinality(Throughout(deep, k, startNow, now))
                         .. Cardinality(Sometimes(deep, k, startNow, now))
         /\ Cardinality(Throughout(deep, k, startNow, now)) \in Nat
         /\ Cardinality(Sometimes(deep, k, startNow, now)) \in Nat
         BY <2>3, <2>4, InvalidFinite DEF Found
  <2>12. Cardinality(E) \in Nat /\ Cardinality(F) \in Nat
    <3>1. E \in SUBSET db /\ F \in SUBSET db /\ IsFiniteSet(db)
          BY <2>5 DEF E, F, IsStore
    <3> QED BY <3>1, FS_Subset, FS_CardinalityType
  <2>13. CASE options.deep_check
    <3>1. deep = First(reach, T)
          BY <2>13 DEF deep, Deep, reach, max
    <3>2. /\ Cardinality(Sometimes(deep, k, startNow, now)) <= Cardinality(E)
          /\ Cardinality(Sometimes(deep, k, startNow, now)) <= reach
          /\ Cardinality(T) <= reach =>
                 Cardinality(F) <= Cardinality(Throughout(deep, k, startNow, now))
          BY <2>4, <2>5, <2>6, <2>7, <2>9, <3>1, FoundAmong DEF E, F
    <3>3. found <= Cardinality(E) /\ found <= reach
          BY <2>9, <2>11, <2>12, <3>2
    <3>4. Cardinality(db) <= reach => found >= Cardinality(F)
          BY <2>7, <2>8, <2>9, <2>11, <2>12, <3>2
    <3>5. Cardinality(db) <= DefaultLimit => total >= Cardinality(startDb)
          BY <2>4, <2>7, <2>8, <2>9, <2>10 DEF Reads
    <3>6. max > 0 => found <= max
          BY <2>9, <3>3 DEF reach
    <3> QED BY <2>13, <3>3, <3>4, <3>5, <3>6, Zenon DEF CountsTrue, E, F, found, total, max, reach
  <2>14. CASE ~options.deep_check
    <3>1. deep = <<>> /\ k = 0
          BY <2>4, <2>14 DEF deep, Deep
    <3>2. Cardinality(Sometimes(deep, k, startNow, now)) = 0
      <4>1. Sometimes(deep, k, startNow, now) = {}
            BY <3>1 DEF Sometimes
      <4> QED BY <4>1, FS_EmptySet
    <3>3. found = 0
          BY <2>11, <3>2
    <3>4. total <= Cardinality(db)
          BY <2>4, <2>7, <2>8, <2>10, <3>1 DEF Reads
    <3>5. Cardinality(db) <= DefaultLimit => total >= Cardinality(startDb)
          BY <2>4, <2>7, <2>8, <2>9, <2>10, <3>1 DEF Reads
    <3>6. found <= Cardinality(E) /\ (max > 0 => found <= max)
          BY <2>9, <2>12, <3>3
    <3> QED BY <2>14, <3>3, <3>4, <3>5, <3>6, Zenon DEF CountsTrue, E, F, found, total, max
  <2> QED BY <2>13, <2>14
<1>4. RecoveryInv /\ CountsInv => CountsTrue
      BY <1>3 DEF CountsTrue
<1> QED BY <1>1, <1>2, <1>4, RecoveryAlways, PTL DEF Spec
============================================================================
