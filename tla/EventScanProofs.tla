-------------------------- MODULE EventScanProofs --------------------------
(***************************************************************************)
(* Lemmas about EventScan: what sorting by rank gives, and what the loop   *)
(* of query_events computes, for stores of any size.  The loops are        *)
(* recursive functions, and the inductions are over sets of naturals.      *)
(***************************************************************************)
EXTENDS EventScan, FiniteSetTheorems, SequenceTheorems, WellFoundedInduction, TLAPS

----------------------------------------------------------------------------
(* Induction.                                                              *)

\* A set of naturals that is not empty has a least member.
LEMMA LeastNatural ==
    ASSUME NEW T, T \subseteq Nat, T # {}
    PROVE  \E x \in T : \A y \in T : x <= y
<1> DEFINE R == {p \in Nat \X Nat : p[1] < p[2]}
<1>1. R = OpToRel(<, Nat)
      BY DEF OpToRel
<1>2. IsWellFoundedOn(R, Nat)
      BY <1>1, NatLessThanWellFounded
<1>3. PICK x \in T : \A y \in T : ~ (<<y, x>> \in R)
  <2> HIDE DEF R
  <2> QED BY <1>2, WFMin
<1>4. ASSUME NEW y \in T PROVE x <= y
  <2>1. x \in Nat /\ y \in Nat
        OBVIOUS
  <2>2. <<y, x>> \in Nat \X Nat
        BY <2>1
  <2>3. ~ (y < x)
        BY <1>3, <2>1, <2>2
  <2> QED BY <2>1, <2>3
<1> QED BY <1>4

\* Induction up to n, by a set.
LEMMA Induction ==
    ASSUME NEW n \in Nat, NEW S, 0 \in S, \A i \in 0 .. (n - 1) : i \in S => i + 1 \in S
    PROVE  0 .. n \subseteq S
<1> DEFINE T == (0 .. n) \ S
<1> SUFFICES ASSUME T # {} PROVE FALSE
    OBVIOUS
<1>1. PICK x \in T : \A y \in T : x <= y
  <2>1. T \subseteq Nat
        OBVIOUS
  <2> HIDE DEF T
  <2> QED BY <2>1, LeastNatural
<1>2. x - 1 \in 0 .. (n - 1) /\ x - 1 \in S /\ (x - 1) + 1 = x
  <2>1. x \in 1 .. n
        BY <1>1
  <2>2. x - 1 \in 0 .. (n - 1) /\ x - 1 \in 0 .. n /\ ~(x <= x - 1) /\ (x - 1) + 1 = x
        BY <2>1
  <2> QED BY <1>1, <2>2
<1> QED BY <1>1, <1>2

IsRun(f, n, start, turn) == f[0] = start /\ \A i \in 1 .. n : f[i] = turn[i][f[i - 1]]

\* A loop of n turns on states of D has a state after each turn.
LEMMA LoopExists ==
    ASSUME NEW n \in Nat, NEW D, NEW start \in D, NEW turn \in [1 .. n -> [D -> D]]
    PROVE  \E f \in [0 .. n -> D] : IsRun(f, n, start, turn)
<1> DEFINE Runs(m) == {f \in [0 .. m -> D] : f[0] = start /\ \A i \in 1 .. m : f[i] = turn[i][f[i - 1]]}
           S == {m \in 0 .. n : Runs(m) # {}}
<1>1. 0 \in S
  <2>1. [i \in 0 .. 0 |-> start] \in Runs(0)
        OBVIOUS
  <2> QED BY <2>1
<1>2. ASSUME NEW m \in 0 .. (n - 1), m \in S PROVE m + 1 \in S
  <2>1. PICK f \in [0 .. m -> D] : f[0] = start /\ \A i \in 1 .. m : f[i] = turn[i][f[i - 1]]
        BY <1>2
  <2> DEFINE g == [i \in 0 .. (m + 1) |-> IF i <= m THEN f[i] ELSE turn[m + 1][f[m]]]
  <2>2. m \in Nat /\ m + 1 \in 1 .. n /\ m \in 0 .. m
        OBVIOUS
  <2>3. turn[m + 1][f[m]] \in D
    <3>1. f[m] \in D /\ turn[m + 1] \in [D -> D]
          BY <2>1, <2>2
    <3> QED BY <3>1
  <2>4. /\ g \in [0 .. (m + 1) -> D] /\ \A i \in 0 .. m : g[i] = f[i]
        /\ g[m + 1] = turn[m + 1][f[m]]
        BY <2>1, <2>2, <2>3
  <2> HIDE DEF g
  <2>5. ASSUME NEW i \in 1 .. (m + 1) PROVE g[i] = turn[i][g[i - 1]]
    <3>1. CASE i \in 1 .. m
      <4>1. i \in 0 .. m /\ i - 1 \in 0 .. m
            BY <2>2, <3>1
      <4> QED BY <2>1, <2>4, <3>1, <4>1
    <3>2. CASE i = m + 1
      <4>1. i - 1 = m
            BY <2>2, <3>2
      <4> QED BY <2>2, <2>4, <3>2, <4>1
    <3>3. i \in 1 .. m \/ i = m + 1
          BY <2>2
    <3> QED BY <3>1, <3>2, <3>3
  <2>6. g \in Runs(m + 1)
        BY <2>1, <2>2, <2>4, <2>5
  <2>7. m + 1 \in 0 .. n
        BY <2>2
  <2> QED BY <2>6, <2>7
<1>3. n \in S
  <2>1. n \in 0 .. n
        OBVIOUS
  <2> HIDE DEF S
  <2> QED BY <1>1, <1>2, <2>1, Induction
<1> QED BY <1>3 DEF IsRun

----------------------------------------------------------------------------
(* Sorting by rank.                                                        *)

StrictOrder(S, R) ==
    /\ \A e \in S : <<e, e>> \notin R
    /\ \A e, f, g \in S : <<e, f>> \in R /\ <<f, g>> \in R => <<e, g>> \in R
    /\ \A e, f \in S : e # f => <<e, f>> \in R \/ <<f, e>> \in R

Below(S, R, e) == {f \in S : <<f, e>> \in R}

Rank(S, R, e) == Cardinality(Below(S, R, e))

SortedBy(S, R) == [i \in 1 .. Cardinality(S) |-> CHOOSE e \in S : Rank(S, R, e) = i - 1]

\* Ranks go from 0 up to the size of the set, and grow with the order.
LEMMA RankGrows ==
    ASSUME NEW S, IsFiniteSet(S), NEW R, StrictOrder(S, R)
    PROVE  /\ \A e \in S : IsFiniteSet(Below(S, R, e)) /\ Rank(S, R, e) \in 0 .. (Cardinality(S) - 1)
           /\ \A e, f \in S : <<e, f>> \in R => Rank(S, R, e) < Rank(S, R, f)
<1>1. Cardinality(S) \in Nat
      BY FS_CardinalityType
<1>2. ASSUME NEW e \in S
      PROVE  IsFiniteSet(Below(S, R, e)) /\ Rank(S, R, e) \in 0 .. (Cardinality(S) - 1)
  <2>1. Below(S, R, e) \in SUBSET S /\ Below(S, R, e) # S
        BY DEF Below, StrictOrder
  <2>2. IsFiniteSet(Below(S, R, e)) /\ Rank(S, R, e) <= Cardinality(S) /\ Rank(S, R, e) # Cardinality(S)
        BY <2>1, FS_Subset DEF Rank
  <2>3. Rank(S, R, e) \in Nat
        BY <2>2, FS_CardinalityType DEF Rank
  <2> QED BY <1>1, <2>2, <2>3
<1>3. ASSUME NEW e \in S, NEW f \in S, <<e, f>> \in R PROVE Rank(S, R, e) < Rank(S, R, f)
  <2>1. /\ Below(S, R, e) \in SUBSET Below(S, R, f)
        /\ e \in Below(S, R, f) /\ e \notin Below(S, R, e)
        BY <1>3 DEF Below, StrictOrder
  <2>2. Rank(S, R, e) <= Rank(S, R, f) /\ Rank(S, R, e) # Rank(S, R, f)
        BY <1>2, <2>1, FS_Subset DEF Rank
  <2>3. Rank(S, R, e) \in Int /\ Rank(S, R, f) \in Int
        BY <1>2
  <2> QED BY <2>2, <2>3
<1> QED BY <1>2, <1>3

\* Every rank is taken.
LEMMA RankTaken ==
    ASSUME NEW S, IsFiniteSet(S), NEW R, StrictOrder(S, R), NEW k \in 0 .. (Cardinality(S) - 1)
    PROVE  \E e \in S : Rank(S, R, e) = k
<1> DEFINE n == Cardinality(S)
           T == 0 .. (n - 1)
           r == [e \in S |-> Rank(S, R, e)]
<1>1. n \in Nat
      BY FS_CardinalityType
<1>2. IsFiniteSet(T) /\ Cardinality(T) = n
  <2>1. 0 \in Int /\ n - 1 \in Int /\ (IF 0 > n - 1 THEN 0 ELSE (n - 1) - 0 + 1) = n
        BY <1>1
  <2> HIDE DEF n
  <2> QED BY <2>1, FS_Interval
<1>3. r \in [S -> T]
      BY RankGrows
<1>4. \A e, f \in S : r[e] = r[f] => e = f
  <2> SUFFICES ASSUME NEW e \in S, NEW f \in S, e # f PROVE r[e] # r[f]
      OBVIOUS
  <2>1. Rank(S, R, e) \in Int /\ Rank(S, R, f) \in Int
        BY RankGrows
  <2>2. Rank(S, R, e) < Rank(S, R, f) \/ Rank(S, R, f) < Rank(S, R, e)
        BY RankGrows DEF StrictOrder
  <2> QED BY <2>1, <2>2
<1> HIDE DEF r, T
<1>5. r \in Injection(S, T)
      BY <1>3, <1>4 DEF Injection, IsInjective
<1>6. r \in Surjection(S, T)
      BY <1>2, <1>5, FS_Injection
<1>7. k \in T
      BY DEF T
<1>8. \E e \in S : r[e] = k
      BY <1>6, <1>7 DEF Surjection
<1> QED BY <1>8 DEF r

\* Sorting by rank gives each member once, in the order.
LEMMA SortedFacts ==
    ASSUME NEW S, IsFiniteSet(S), NEW R, StrictOrder(S, R)
    PROVE  LET s == SortedBy(S, R)
               n == Cardinality(S)
           IN  /\ n \in Nat /\ s \in [1 .. n -> S] /\ s \in Seq(S) /\ Len(s) = n
               /\ \A i \in 1 .. n : Rank(S, R, s[i]) = i - 1
               /\ \A e \in S : Rank(S, R, e) + 1 \in 1 .. n /\ s[Rank(S, R, e) + 1] = e
               /\ \A i, j \in 1 .. n : <<s[i], s[j]>> \in R <=> i < j
<1> DEFINE s == SortedBy(S, R)
           n == Cardinality(S)
<1>1. n \in Nat
      BY FS_CardinalityType
<1>2. ASSUME NEW i \in 1 .. n PROVE s[i] \in S /\ Rank(S, R, s[i]) = i - 1
  <2>1. i - 1 \in 0 .. (Cardinality(S) - 1)
        BY <1>1
  <2>2. \E e \in S : Rank(S, R, e) = i - 1
        BY <2>1, RankTaken
  <2>3. s[i] = CHOOSE e \in S : Rank(S, R, e) = i - 1
        BY DEF SortedBy
  <2> QED BY <2>2, <2>3
<1>3. s \in [1 .. n -> S]
      BY <1>2 DEF SortedBy
<1> HIDE DEF s, n
<1>4. s \in Seq(S) /\ Len(s) = n
      BY <1>1, <1>3
<1>5. \A e, f \in S : Rank(S, R, e) = Rank(S, R, f) => e = f
  <2> SUFFICES ASSUME NEW e \in S, NEW f \in S, e # f PROVE Rank(S, R, e) # Rank(S, R, f)
      OBVIOUS
  <2>1. Rank(S, R, e) \in Int /\ Rank(S, R, f) \in Int
        BY RankGrows
  <2>2. Rank(S, R, e) < Rank(S, R, f) \/ Rank(S, R, f) < Rank(S, R, e)
        BY RankGrows DEF StrictOrder
  <2> QED BY <2>1, <2>2
<1>6. ASSUME NEW e \in S PROVE Rank(S, R, e) + 1 \in 1 .. n /\ s[Rank(S, R, e) + 1] = e
  <2> DEFINE k == Rank(S, R, e)
  <2>1. k \in 0 .. (n - 1)
        BY RankGrows DEF n
  <2>2. k + 1 \in 1 .. n /\ (k + 1) - 1 = k
        BY <1>1, <2>1
  <2> HIDE DEF k
  <2>3. s[k + 1] \in S /\ Rank(S, R, s[k + 1]) = k
        BY <1>2, <2>2
  <2> QED BY <1>5, <2>2, <2>3 DEF k
<1>7. ASSUME NEW i \in 1 .. n, NEW j \in 1 .. n PROVE <<s[i], s[j]>> \in R <=> i < j
  <2>1. s[i] \in S /\ s[j] \in S /\ Rank(S, R, s[i]) = i - 1 /\ Rank(S, R, s[j]) = j - 1
        BY <1>2
  <2>2. <<s[i], s[j]>> \in R => i < j
    <3>1. <<s[i], s[j]>> \in R => i - 1 < j - 1
          BY <2>1, RankGrows
    <3> QED BY <1>1, <3>1
  <2>3. i < j => <<s[i], s[j]>> \in R
    <3> SUFFICES ASSUME i < j PROVE <<s[i], s[j]>> \in R
        OBVIOUS
    <3>1. s[i] # s[j]
          BY <1>1, <2>1
    <3>2. <<s[j], s[i]>> \in R => j - 1 < i - 1
          BY <2>1, RankGrows
    <3>3. ~(j - 1 < i - 1)
          BY <1>1
    <3> QED BY <2>1, <3>1, <3>2, <3>3 DEF StrictOrder
  <2> QED BY <2>2, <2>3
<1> QED BY <1>1, <1>2, <1>3, <1>4, <1>6, <1>7 DEF s, n

----------------------------------------------------------------------------
(* The order of the keys.                                                  *)

Timed(S) == \A e \in S : e.timestamp \in Int /\ e.event_id \in Nat

OneKey(S) == \A e, f \in S : generate_event_key(e) = generate_event_key(f) => e = f

\* From 1970 to 2262, so that time order and key order agree.
AfterEpoch(S) == \A e \in S : e.timestamp \in 0 .. (I64Bound - 1)

KeyOrder(S) == {p \in S \X S : KeyLess(generate_event_key(p[1]), generate_event_key(p[2]))}

\* A key is a number of 64 bits and the UUID.
LEMMA KeyType ==
    ASSUME NEW e, e.timestamp \in Int, e.event_id \in Nat
    PROVE  /\ generate_event_key(e) = <<generate_time_key_prefix(e.timestamp), e.event_id>>
           /\ generate_time_key_prefix(e.timestamp) \in Nat
           /\ e.timestamp \in 0 .. (I64Bound - 1) => generate_time_key_prefix(e.timestamp) = e.timestamp
<1>1. I64Bound \in Nat /\ I64Bound > 0
      BY I64BoundAssumption
<1> QED BY <1>1 DEF generate_event_key, generate_time_key_prefix, AsU64, NanosOrZero, I64

\* The order of two envelopes.
LEMMA OrderOf ==
    ASSUME NEW S, NEW e \in S, NEW f \in S
    PROVE  <<e, f>> \in KeyOrder(S) <=> KeyLess(generate_event_key(e), generate_event_key(f))
<1>1. <<e, f>> \in S \X S /\ <<e, f>>[1] = e /\ <<e, f>>[2] = f
      OBVIOUS
<1> QED BY <1>1, Zenon DEF KeyOrder

\* Different keys are in one order or the other.
LEMMA KeysOrdered ==
    ASSUME NEW S, Timed(S), OneKey(S), NEW T \in SUBSET S
    PROVE  StrictOrder(T, KeyOrder(S))
<1> DEFINE t(e) == generate_time_key_prefix(e.timestamp)
<1>1. ASSUME NEW e \in S, NEW f \in S
      PROVE  <<e, f>> \in KeyOrder(S) <=> t(e) < t(f) \/ (t(e) = t(f) /\ e.event_id < f.event_id)
  <2>1. generate_event_key(e) = <<t(e), e.event_id>> /\ generate_event_key(f) = <<t(f), f.event_id>>
        BY DEF generate_event_key
  <2> QED BY <2>1, OrderOf DEF KeyLess
<1>2. \A e \in S : t(e) \in Int /\ e.event_id \in Int
      BY KeyType DEF Timed
<1>3. \A e, f \in S : t(e) = t(f) /\ e.event_id = f.event_id => e = f
      BY DEF OneKey, generate_event_key
<1> HIDE DEF t
<1>4. \A e \in S : <<e, e>> \notin KeyOrder(S)
      BY <1>1, <1>2
<1>5. ASSUME NEW e \in S, NEW f \in S, NEW g \in S, <<e, f>> \in KeyOrder(S), <<f, g>> \in KeyOrder(S)
      PROVE  <<e, g>> \in KeyOrder(S)
  <2>1. /\ t(e) < t(f) \/ (t(e) = t(f) /\ e.event_id < f.event_id)
        /\ t(f) < t(g) \/ (t(f) = t(g) /\ f.event_id < g.event_id)
        BY <1>1, <1>5
  <2>2. /\ t(e) \in Int /\ t(f) \in Int /\ t(g) \in Int
        /\ e.event_id \in Int /\ f.event_id \in Int /\ g.event_id \in Int
        BY <1>2
  <2>3. t(e) < t(g) \/ (t(e) = t(g) /\ e.event_id < g.event_id)
        BY <2>1, <2>2
  <2> QED BY <1>1, <2>3
<1>6. ASSUME NEW e \in S, NEW f \in S, e # f PROVE <<e, f>> \in KeyOrder(S) \/ <<f, e>> \in KeyOrder(S)
  <2>1. t(e) # t(f) \/ e.event_id # f.event_id
        BY <1>3, <1>6
  <2>2. /\ t(e) \in Int /\ t(f) \in Int /\ e.event_id \in Int /\ f.event_id \in Int
        BY <1>2
  <2> QED BY <1>1, <2>1, <2>2
<1> QED BY <1>4, <1>5, <1>6 DEF StrictOrder

\* A scan of a part of the store is that part in the order of the keys.
LEMMA ScanIsSorted ==
    ASSUME NEW S, NEW T \in SUBSET S
    PROVE  Scan(T) = SortedBy(T, KeyOrder(S))
<1>1. ASSUME NEW e \in T
      PROVE  Rank(T, KeyOrder(S), e)
                 = Cardinality({f \in T : KeyLess(generate_event_key(f), generate_event_key(e))})
  <2>1. Below(T, KeyOrder(S), e) = {f \in T : KeyLess(generate_event_key(f), generate_event_key(e))}
        BY OrderOf DEF Below
  <2> QED BY <2>1 DEF Rank
<1> DEFINE a(i) == CHOOSE e \in T : Rank(T, KeyOrder(S), e) = i - 1
           b(i) == CHOOSE e \in T :
                       Cardinality({f \in T : KeyLess(generate_event_key(f), generate_event_key(e))}) = i - 1
<1>2. \A i : a(i) = b(i)
      BY <1>1
<1>3. SortedBy(T, KeyOrder(S)) = [i \in 1 .. Cardinality(T) |-> a(i)]
      BY DEF SortedBy
<1>4. Scan(T) = [i \in 1 .. Cardinality(T) |-> b(i)]
      BY DEF Scan, Sorted
<1> HIDE DEF a, b
<1> QED BY <1>2, <1>3, <1>4

\* After the epoch the order of time is that of the keys.
LEMMA ByTimeIsScan ==
    ASSUME NEW S, Timed(S), AfterEpoch(S)
    PROVE  ByTime(S) = Scan(S)
<1>1. \A e \in S : generate_event_key(e) = <<e.timestamp, e.event_id>>
      BY KeyType DEF Timed, AfterEpoch
<1>2. ASSUME NEW e \in S
      PROVE  Cardinality({f \in S : KeyLess(<<f.timestamp, f.event_id>>, <<e.timestamp, e.event_id>>)})
                 = Cardinality({f \in S : KeyLess(generate_event_key(f), generate_event_key(e))})
  <2>1. {f \in S : KeyLess(<<f.timestamp, f.event_id>>, <<e.timestamp, e.event_id>>)}
            = {f \in S : KeyLess(generate_event_key(f), generate_event_key(e))}
        BY <1>1
  <2> QED BY <2>1
<1> DEFINE a(i) == CHOOSE e \in S :
                       Cardinality({f \in S : KeyLess(<<f.timestamp, f.event_id>>, <<e.timestamp, e.event_id>>)}) = i - 1
           b(i) == CHOOSE e \in S :
                       Cardinality({f \in S : KeyLess(generate_event_key(f), generate_event_key(e))}) = i - 1
<1>3. \A i : a(i) = b(i)
      BY <1>2
<1>4. ByTime(S) = [i \in 1 .. Cardinality(S) |-> a(i)]
      BY DEF ByTime, Sorted
<1>5. Scan(S) = [i \in 1 .. Cardinality(S) |-> b(i)]
      BY DEF Scan, Sorted
<1> HIDE DEF a, b
<1> QED BY <1>3, <1>4, <1>5

----------------------------------------------------------------------------
(* The loop of query_events.                                               *)

LoopStates(E) == [events : Seq(E), count : Nat, stop : BOOLEAN]

LoopStart == [events |-> <<>>, count |-> 0, stop |-> FALSE]

\* QueryTurns is what its recursion says.
LEMMA QueryLoop ==
    ASSUME NEW q, NEW E, NEW scan \in Seq(E)
    PROVE  LET f == QueryTurns(q, scan)
           IN  /\ f \in [0 .. Len(scan) -> LoopStates(E)]
               /\ f[0] = LoopStart
               /\ \A i \in 1 .. Len(scan) : f[i] = Visit(q, f[i - 1], scan[i])
<1> DEFINE n == Len(scan)
           turn == [i \in 1 .. n |-> [s \in LoopStates(E) |-> Visit(q, s, scan[i])]]
<1>1. n \in Nat /\ LoopStart \in LoopStates(E)
      BY DEF LoopStart, LoopStates
<1>2. ASSUME NEW i \in 1 .. n, NEW s \in LoopStates(E) PROVE Visit(q, s, scan[i]) \in LoopStates(E)
  <2>1. scan[i] \in E /\ s.events \in Seq(E) /\ s.count \in Nat /\ s.count + 1 \in Nat
        BY DEF LoopStates
  <2>2. Append(s.events, scan[i]) \in Seq(E)
        BY <2>1
  <2>3. /\ [s EXCEPT !.stop = TRUE] \in LoopStates(E)
        /\ [s EXCEPT !.count = @ + 1] \in LoopStates(E)
        /\ [events |-> Append(s.events, scan[i]), count |-> s.count + 1, stop |-> FALSE] \in LoopStates(E)
        BY <2>1, <2>2 DEF LoopStates
  <2> QED BY <2>3, Zenon DEF Visit
<1>3. turn \in [1 .. n -> [LoopStates(E) -> LoopStates(E)]]
      BY <1>2
<1>4. PICK g \in [0 .. n -> LoopStates(E)] : IsRun(g, n, LoopStart, turn)
  <2> HIDE DEF turn, n
  <2> QED BY <1>1, <1>3, LoopExists
<1>5. g[0] = LoopStart /\ \A i \in 1 .. n : g[i] = Visit(q, g[i - 1], scan[i])
  <2>1. \A i \in 1 .. n : i - 1 \in 0 .. n
        BY <1>1
  <2> QED BY <1>4, <2>1 DEF IsRun
<1>6. g = [i \in 0 .. n |-> IF i = 0 THEN LoopStart ELSE Visit(q, g[i - 1], scan[i])]
  <2>1. \A i \in 0 .. n : i = 0 \/ i \in 1 .. n
        BY <1>1
  <2> QED BY <1>4, <1>5, <2>1
<1> DEFINE f == QueryTurns(q, scan)
<1>7. f = [i \in 0 .. n |-> IF i = 0 THEN LoopStart ELSE Visit(q, f[i - 1], scan[i])]
      BY <1>6 DEF QueryTurns, LoopStart
<1> HIDE DEF f, turn, n
<1>8. f[0] = LoopStart /\ \A i \in 1 .. n : f[i] = Visit(q, f[i - 1], scan[i])
  <2>1. 0 \in 0 .. n /\ \A i \in 1 .. n : i \in 0 .. n /\ i # 0
        BY <1>1
  <2> QED BY <1>7, <2>1
<1>9. f \in [0 .. n -> LoopStates(E)]
  <2> DEFINE S == {i \in 0 .. n : f[i] \in LoopStates(E)}
  <2>1. 0 \in S
        BY <1>1, <1>8
  <2>2. ASSUME NEW i \in 0 .. (n - 1), i \in S PROVE i + 1 \in S
    <3>1. i + 1 \in 1 .. n /\ i + 1 \in 0 .. n /\ (i + 1) - 1 = i
          BY <1>1
    <3> QED BY <1>2, <1>8, <2>2, <3>1
  <2>3. 0 .. n \subseteq S
    <3> HIDE DEF S
    <3> QED BY <1>1, <2>1, <2>2, Induction
  <2> QED BY <1>7, <2>3
<1> QED BY <1>8, <1>9 DEF f, n

----------------------------------------------------------------------------
(* A part of what is scanned.                                              *)

\* Those of M among the first i of a scan.
Seen(M, scan, i) == {e \in M : \E j \in 1 .. i : scan[j] = e}

\* Scanning T, the members of M come in the order in which M alone is sorted.
MetInOrder(T, R, M) ==
    LET scan == SortedBy(T, R)
        all  == SortedBy(M, R)
        n    == Cardinality(T)
        c(i) == Cardinality(Seen(M, scan, i))
    IN  /\ c(0) = 0 /\ c(n) = Cardinality(M) /\ \A i \in 0 .. n : c(i) \in Nat
        /\ \A i \in 0 .. (n - 1) :
              IF scan[i + 1] \in M
                THEN /\ c(i + 1) = c(i) + 1
                     /\ c(i) + 1 \in 1 .. Cardinality(M)
                     /\ all[c(i) + 1] = scan[i + 1]
                ELSE c(i + 1) = c(i)

LEMMA SeenInOrder ==
    ASSUME NEW T, IsFiniteSet(T), NEW R, StrictOrder(T, R), NEW M \in SUBSET T
    PROVE  MetInOrder(T, R, M)
<1> DEFINE scan == SortedBy(T, R)
           all  == SortedBy(M, R)
           n    == Cardinality(T)
           m    == Cardinality(M)
           c(i) == Cardinality(Seen(M, scan, i))
<1>1. IsFiniteSet(M) /\ StrictOrder(M, R)
      BY FS_Subset DEF StrictOrder
<1>2. /\ n \in Nat /\ scan \in [1 .. n -> T]
      /\ \A e \in T : Rank(T, R, e) + 1 \in 1 .. n /\ scan[Rank(T, R, e) + 1] = e
      /\ \A i, j \in 1 .. n : <<scan[i], scan[j]>> \in R <=> i < j
      BY SortedFacts
<1>3. \A e \in M : Rank(M, R, e) + 1 \in 1 .. m /\ all[Rank(M, R, e) + 1] = e
      BY <1>1, SortedFacts
<1> HIDE DEF scan, all, n, m
<1>4. ASSUME NEW i PROVE IsFiniteSet(Seen(M, scan, i)) /\ c(i) \in Nat
  <2>1. Seen(M, scan, i) \in SUBSET M
        BY DEF Seen
  <2> QED BY <1>1, <2>1, FS_Subset, FS_CardinalityType
<1>5. c(0) = 0
  <2>1. Seen(M, scan, 0) = {}
        BY DEF Seen
  <2> QED BY <2>1, FS_EmptySet
<1>6. c(n) = m
  <2>1. Seen(M, scan, n) = M
        BY <1>2 DEF Seen
  <2> QED BY <2>1 DEF m
<1>7. ASSUME NEW i \in 0 .. (n - 1), scan[i + 1] \in M
      PROVE  c(i + 1) = c(i) + 1 /\ c(i) + 1 \in 1 .. m /\ all[c(i) + 1] = scan[i + 1]
  <2> DEFINE e == scan[i + 1]
  <2>1. i + 1 \in 1 .. n /\ \A j \in 1 .. (i + 1) : j \in 1 .. i \/ j = i + 1
        BY <1>2
  <2>2. \A j \in 1 .. i : j \in 1 .. n /\ j \in 1 .. (i + 1) /\ j < i + 1
        BY <1>2
  <2>3. i + 1 \in 1 .. (i + 1)
        BY <1>2
  <2>4. Seen(M, scan, i + 1) = Seen(M, scan, i) \cup {e}
        BY <1>7, <2>1, <2>2, <2>3 DEF Seen
  <2>5. e \notin Seen(M, scan, i)
    <3> SUFFICES ASSUME NEW j \in 1 .. i, scan[j] = e PROVE FALSE
        BY DEF Seen
    <3>1. <<scan[j], scan[i + 1]>> \in R /\ <<scan[i + 1], scan[i + 1]>> \notin R
      <4>1. ~(i + 1 < i + 1)
            BY <2>1
      <4> QED BY <1>2, <2>1, <2>2, <4>1
    <3> QED BY <3>1
  <2>6. c(i + 1) = c(i) + 1
        BY <1>4, <2>4, <2>5, FS_AddElement
  <2>7. Below(M, R, e) = Seen(M, scan, i)
    <3>1. ASSUME NEW f \in M, <<f, e>> \in R PROVE \E j \in 1 .. i : scan[j] = f
      <4>1. PICK j \in 1 .. n : scan[j] = f
            BY <1>2
      <4>2. j < i + 1
            BY <1>2, <2>1, <3>1, <4>1
      <4>3. j \in 1 .. i
            BY <1>2, <4>2
      <4> QED BY <4>1, <4>3
    <3>2. ASSUME NEW f \in M, NEW j \in 1 .. i, scan[j] = f PROVE <<f, e>> \in R
          BY <1>2, <2>1, <2>2, <3>2
    <3> QED BY <3>1, <3>2 DEF Below, Seen
  <2>8. Rank(M, R, e) = c(i)
        BY <2>7 DEF Rank
  <2> QED BY <1>3, <1>7, <2>6, <2>8
<1>8. ASSUME NEW i \in 0 .. (n - 1), scan[i + 1] \notin M PROVE c(i + 1) = c(i)
  <2>1. \A j \in 1 .. (i + 1) : j \in 1 .. i \/ j = i + 1
        BY <1>2
  <2>2. \A j \in 1 .. i : j \in 1 .. (i + 1)
        BY <1>2
  <2>3. Seen(M, scan, i + 1) = Seen(M, scan, i)
        BY <1>8, <2>1, <2>2 DEF Seen
  <2> QED BY <2>3
<1> QED BY <1>4, <1>5, <1>6, <1>7, <1>8 DEF scan, all, n, m, MetInOrder

----------------------------------------------------------------------------
(* What query_events answers.                                              *)

Offset(q) == OrElse(q.offset, 0)
Limit(q)  == OrElse(q.limit, DefaultLimit)

QueryTyped(q) ==
    /\ q.limit = None \/ q.limit \in Nat
    /\ q.offset = None \/ q.offset \in Nat
    /\ q.start_time = None \/ q.start_time \in Int
    /\ q.end_time = None \/ q.end_time \in Int

\* A start time whose key is where the scan should begin.
FromEpoch(q) == q.start_time = None \/ q.start_time \in 0 .. (I64Bound - 1)

Skipped(q, e) == WrongAccount(q, e) \/ PastEnd(q, e) \/ WrongType(q, e)

\* The state of the loop when it has met c envelopes of all, those that match:
\* it counted them up to the end of the page, and holds those of the page.
LoopInv(q, s, c, all) ==
    /\ s.count = IF c <= Offset(q) + Limit(q) THEN c ELSE Offset(q) + Limit(q)
    /\ Len(s.events) = IF s.count <= Offset(q) THEN 0 ELSE s.count - Offset(q)
    /\ \A k \in 1 .. Len(s.events) : s.events[k] = all[Offset(q) + k]

LEMMA OffsetLimit == ASSUME NEW q, QueryTyped(q) PROVE Offset(q) \in Nat /\ Limit(q) \in Nat
BY EventScanAssumption DEF QueryTyped, Offset, Limit, OrElse

\* A turn of the loop on an envelope that does not match.
LEMMA VisitSkipped ==
    ASSUME NEW q, NEW E, NEW s \in LoopStates(E), NEW e, NEW c, NEW all,
           LoopInv(q, s, c, all), Skipped(q, e)
    PROVE  /\ LoopInv(q, Visit(q, s, e), c, all)
           /\ Visit(q, s, e).stop => s.stop \/ PastEnd(q, e)
           /\ s.stop => Visit(q, s, e) = s
<1> DEFINE t == [s EXCEPT !.stop = TRUE]
<1>1. Visit(q, s, e) = s \/ (Visit(q, s, e) = t /\ PastEnd(q, e) /\ ~s.stop)
      BY DEF Visit, Skipped
<1>2. t.count = s.count /\ t.events = s.events
      BY DEF LoopStates
<1>3. LoopInv(q, t, c, all)
      BY <1>2 DEF LoopInv
<1>4. s.stop => Visit(q, s, e) = s
      BY DEF Visit
<1> HIDE DEF t
<1> QED BY <1>1, <1>3, <1>4

\* A turn of the loop on one that matches, the next of all.
LEMMA VisitMatching ==
    ASSUME NEW q, QueryTyped(q), NEW E, NEW s \in LoopStates(E), NEW e \in E, NEW c \in Nat, NEW all,
           LoopInv(q, s, c, all), ~Skipped(q, e), ~s.stop, all[c + 1] = e
    PROVE  /\ LoopInv(q, Visit(q, s, e), c + 1, all)
           /\ Visit(q, s, e).stop => Visit(q, s, e).count = Offset(q) + Limit(q)
<1> DEFINE o == Offset(q)
           l == Limit(q)
<1>1. o \in Nat /\ l \in Nat
      BY OffsetLimit
<1>2. s.events \in Seq(E) /\ s.count \in Nat /\ Len(s.events) \in Nat
      BY DEF LoopStates
<1>3. /\ s.count = IF c <= o + l THEN c ELSE o + l
      /\ Len(s.events) = IF s.count <= o THEN 0 ELSE s.count - o
      /\ \A k \in 1 .. Len(s.events) : s.events[k] = all[o + k]
      BY DEF LoopInv
<1> DEFINE v == Visit(q, s, e)
<1>4. v = IF s.count < o THEN [s EXCEPT !.count = @ + 1]
          ELSE IF Len(s.events) >= l THEN [s EXCEPT !.stop = TRUE]
          ELSE [events |-> Append(s.events, e), count |-> s.count + 1, stop |-> FALSE]
      BY DEF Visit, Skipped, Offset, Limit
<1> HIDE DEF v, o, l
<1>5. CASE s.count < o
  <2>1. v.count = s.count + 1 /\ v.events = s.events /\ v.stop = FALSE
        BY <1>4, <1>5 DEF LoopStates
  <2>2. /\ v.count = IF c + 1 <= o + l THEN c + 1 ELSE o + l
        /\ Len(v.events) = IF v.count <= o THEN 0 ELSE v.count - o
        BY <1>1, <1>2, <1>3, <1>5, <2>1
  <2> QED BY <1>3, <2>1, <2>2 DEF LoopInv, v, o, l
<1>6. CASE ~(s.count < o) /\ Len(s.events) >= l
  <2>1. v.count = s.count /\ v.events = s.events
        BY <1>4, <1>6 DEF LoopStates
  <2>2. /\ s.count = o + l
        /\ v.count = IF c + 1 <= o + l THEN c + 1 ELSE o + l
        /\ Len(v.events) = IF v.count <= o THEN 0 ELSE v.count - o
        BY <1>1, <1>2, <1>3, <1>6, <2>1
  <2> QED BY <1>3, <2>1, <2>2 DEF LoopInv, v, o, l
<1>7. CASE ~(s.count < o) /\ ~(Len(s.events) >= l)
  <2>1. v.count = s.count + 1 /\ v.events = Append(s.events, e) /\ v.stop = FALSE
        BY <1>4, <1>7
  <2>2. /\ Len(v.events) = Len(s.events) + 1 /\ v.events[Len(s.events) + 1] = e
        /\ \A k \in 1 .. Len(s.events) : v.events[k] = s.events[k]
        BY <1>2, <2>1
  <2>3. /\ s.count = c /\ Len(s.events) = c - o
        /\ v.count = IF c + 1 <= o + l THEN c + 1 ELSE o + l
        /\ Len(v.events) = IF v.count <= o THEN 0 ELSE v.count - o
        BY <1>1, <1>2, <1>3, <1>7, <2>1, <2>2
  <2>4. ASSUME NEW k \in 1 .. Len(v.events) PROVE v.events[k] = all[o + k]
    <3>1. k \in 1 .. Len(s.events) \/ k = Len(s.events) + 1
          BY <1>2, <2>2
    <3>2. CASE k = Len(s.events) + 1
      <4>1. o + k = c + 1
            BY <1>1, <2>3, <3>2
      <4> QED BY <2>2, <3>2, <4>1
    <3> QED BY <1>3, <2>2, <3>1, <3>2
  <2> QED BY <2>1, <2>3, <2>4 DEF LoopInv, v, o, l
<1> QED BY <1>5, <1>6, <1>7 DEF v

\* Once the page is full, further envelopes make no difference.
LEMMA FullPage ==
    ASSUME NEW q, QueryTyped(q), NEW s, NEW c \in Nat, NEW all,
           LoopInv(q, s, c, all), s.count = Offset(q) + Limit(q)
    PROVE  LoopInv(q, s, c + 1, all)
<1>1. Offset(q) \in Nat /\ Limit(q) \in Nat
      BY OffsetLimit
<1> QED BY <1>1 DEF LoopInv

\* What a query scans.
InTime(q, S) == {e \in S : q.start_time = None \/ e.timestamp >= q.start_time}

\* What matches is what is scanned and not skipped, both in the order of keys.
LEMMA QueryParts ==
    ASSUME NEW S, IsFiniteSet(S), Timed(S), OneKey(S), AfterEpoch(S),
           NEW q, QueryTyped(q), FromEpoch(q)
    PROVE  LET T == InTime(q, S)
               M == Matching(q, S)
               R == KeyOrder(S)
           IN  /\ T \in SUBSET S /\ IsFiniteSet(T) /\ StrictOrder(T, R)
               /\ M = {e \in T : ~Skipped(q, e)}
               /\ ScanFrom(S, q.start_time) = SortedBy(T, R)
               /\ ByTime(M) = SortedBy(M, R)
               /\ \A e, f \in T : <<e, f>> \in R /\ PastEnd(q, e) => PastEnd(q, f)
<1> DEFINE T == InTime(q, S)
           M == Matching(q, S)
           R == KeyOrder(S)
<1>1. T \in SUBSET S /\ IsFiniteSet(T) /\ StrictOrder(T, R)
  <2>1. T \in SUBSET S
        BY DEF InTime
  <2> QED BY <2>1, FS_Subset, KeysOrdered
<1>2. M = {e \in T : ~Skipped(q, e)}
      BY DEF Matching, InTime, Skipped, WrongAccount, WrongType, PastEnd, event_matches_account,
             QueryTyped, Timed
<1>3. ScanFrom(S, q.start_time) = SortedBy(T, R)
  <2>1. CASE q.start_time = None
    <3>1. T = S /\ ScanFrom(S, q.start_time) = Scan(S)
          BY <2>1 DEF InTime, ScanFrom
    <3> QED BY <1>1, <3>1, ScanIsSorted
  <2>2. CASE q.start_time # None
    <3> DEFINE A == {e \in S : generate_event_key(e)[1] >= generate_time_key_prefix(q.start_time)}
    <3>1. ScanFrom(S, q.start_time) = Scan(A)
          BY <2>2 DEF ScanFrom
    <3>2. q.start_time \in 0 .. (I64Bound - 1) /\ generate_time_key_prefix(q.start_time) = q.start_time
      <4>1. q.start_time \in 0 .. (I64Bound - 1)
            BY <2>2 DEF FromEpoch
      <4> QED BY <4>1, I64BoundAssumption DEF generate_time_key_prefix, AsU64, NanosOrZero, I64
    <3>3. \A e \in S : generate_event_key(e)[1] = e.timestamp
          BY KeyType DEF Timed, AfterEpoch
    <3>4. A = T
          BY <2>2, <3>2, <3>3 DEF InTime
    <3> QED BY <1>1, <3>1, <3>4, ScanIsSorted
  <2> QED BY <2>1, <2>2
<1>4. ByTime(M) = SortedBy(M, R)
  <2>1. M \in SUBSET S /\ Timed(M) /\ AfterEpoch(M)
        BY <1>1, <1>2 DEF Timed, AfterEpoch
  <2> QED BY <2>1, ByTimeIsScan, ScanIsSorted
<1>5. ASSUME NEW e \in T, NEW f \in T, <<e, f>> \in R, PastEnd(q, e) PROVE PastEnd(q, f)
  <2>1. e \in S /\ f \in S /\ e.timestamp \in Int /\ f.timestamp \in Int
        BY <1>1 DEF Timed
  <2>2. KeyLess(generate_event_key(e), generate_event_key(f))
        BY <1>5, <2>1, OrderOf
  <2>3. generate_event_key(e) = <<e.timestamp, e.event_id>> /\ generate_event_key(f) = <<f.timestamp, f.event_id>>
        BY <2>1, KeyType DEF Timed, AfterEpoch
  <2>4. e.timestamp <= f.timestamp
        BY <2>1, <2>2, <2>3 DEF KeyLess
  <2>5. q.end_time # None /\ q.end_time \in Int /\ e.timestamp > q.end_time
        BY <1>5 DEF PastEnd, QueryTyped
  <2> QED BY <2>1, <2>4, <2>5 DEF PastEnd
<1> QED BY <1>1, <1>2, <1>3, <1>4, <1>5

\* The iterator goes through T in the order R, the loop skips all but M, and what
\* follows an envelope past the end is past the end too.
ScanParts(q, S, T, R, M) ==
    /\ T \in SUBSET S /\ IsFiniteSet(T) /\ StrictOrder(T, R)
    /\ M = {e \in T : ~Skipped(q, e)}
    /\ ScanFrom(S, q.start_time) = SortedBy(T, R)
    /\ \A e, f \in T : <<e, f>> \in R /\ PastEnd(q, e) => PastEnd(q, f)

\* The answer is a page of all.
AnswersPage(q, S, all) ==
    /\ all \in Seq(S)
    /\ QueryEnd(q, S) = Page(all, Offset(q), Limit(q))
    /\ QueryEnd(q, S) \in Seq(S)
    /\ Len(QueryEnd(q, S)) # Limit(q) => Len(all) <= Offset(q) + Len(QueryEnd(q, S))

\* Scanning T in the order R, the loop of query_events gives the page of those
\* not skipped that offset and limit select.
LEMMA LoopAnswers ==
    ASSUME NEW S, NEW T, NEW R, NEW M, NEW q, QueryTyped(q), ScanParts(q, S, T, R, M)
    PROVE  AnswersPage(q, S, SortedBy(M, R)) /\ Len(SortedBy(M, R)) = Cardinality(M)
<1> DEFINE scan == SortedBy(T, R)
           all  == SortedBy(M, R)
           n == Cardinality(T)
           f == QueryTurns(q, scan)
           c(i) == Cardinality(Seen(M, scan, i))
           o == Offset(q)
           l == Limit(q)
           m == Cardinality(M)
<1>1. /\ T \in SUBSET S /\ IsFiniteSet(T) /\ StrictOrder(T, R)
      /\ M = {e \in T : ~Skipped(q, e)}
      /\ ScanFrom(S, q.start_time) = scan
      /\ \A e, g \in T : <<e, g>> \in R /\ PastEnd(q, e) => PastEnd(q, g)
      BY DEF ScanParts
<1>2. M \in SUBSET T /\ IsFiniteSet(M) /\ StrictOrder(M, R)
  <2>1. M \in SUBSET T
        BY <1>1
  <2> QED BY <1>1, <2>1, FS_Subset DEF StrictOrder
<1>3. /\ n \in Nat /\ scan \in [1 .. n -> T] /\ scan \in Seq(T) /\ Len(scan) = n
      /\ \A i, j \in 1 .. n : <<scan[i], scan[j]>> \in R <=> i < j
      BY <1>1, SortedFacts
<1>4. m \in Nat /\ all \in [1 .. m -> M] /\ all \in Seq(M) /\ Len(all) = m
      BY <1>2, SortedFacts
<1>5. /\ c(0) = 0 /\ c(n) = m /\ \A i \in 0 .. n : c(i) \in Nat
      /\ \A i \in 0 .. (n - 1) :
            IF scan[i + 1] \in M
              THEN c(i + 1) = c(i) + 1 /\ c(i) + 1 \in 1 .. m /\ all[c(i) + 1] = scan[i + 1]
              ELSE c(i + 1) = c(i)
  <2>1. MetInOrder(T, R, M)
        BY <1>1, <1>2, SeenInOrder
  <2> QED BY <2>1 DEF MetInOrder
<1> HIDE DEF scan, all, n, c, m
<1>6. /\ f \in [0 .. n -> LoopStates(T)]
      /\ f[0] = LoopStart
      /\ \A i \in 1 .. n : f[i] = Visit(q, f[i - 1], scan[i])
      BY <1>3, QueryLoop
<1>7. o \in Nat /\ l \in Nat
      BY OffsetLimit
<1> HIDE DEF f
<1> DEFINE Over(i) == f[i].count = Offset(q) + Limit(q) \/ \A j \in (i + 1) .. n : scan[j] \notin M
           J == {i \in 0 .. n : LoopInv(q, f[i], c(i), all) /\ (f[i].stop => Over(i))}
<1>8. 0 \in J
  <2>1. LoopStart.count = 0 /\ LoopStart.events = <<>> /\ LoopStart.stop = FALSE
        BY DEF LoopStart
  <2>2. LoopInv(q, LoopStart, 0, all)
        BY <1>7, <2>1 DEF LoopInv
  <2> QED BY <1>3, <1>5, <1>6, <2>1, <2>2
<1>9. ASSUME NEW i \in 0 .. (n - 1), i \in J PROVE i + 1 \in J
  <2> DEFINE e == scan[i + 1]
             s == f[i]
             v == f[i + 1]
  <2>1. i \in 0 .. n /\ i + 1 \in 0 .. n /\ i + 1 \in 1 .. n /\ (i + 1) - 1 = i /\ i + 1 \in (i + 1) .. n
        BY <1>3
  <2>2. e \in T /\ s \in LoopStates(T) /\ v = Visit(q, s, e)
        BY <1>3, <1>6, <2>1
  <2>3. LoopInv(q, s, c(i), all) /\ (s.stop => Over(i)) /\ c(i) \in Nat
        BY <1>5, <1>9, <2>1
  <2>4. \A j \in ((i + 1) + 1) .. n : j \in (i + 1) .. n
        BY <2>1
  <2>5. Over(i) /\ v = s => Over(i + 1)
        BY <2>4
  <2> HIDE DEF e, s, v
  <2>6. CASE s.stop
    <3>1. v = s
          BY <2>2, <2>6 DEF Visit
    <3>2. CASE e \in M
      <4>1. s.count = Offset(q) + Limit(q) /\ c(i + 1) = c(i) + 1
            BY <1>5, <2>1, <2>3, <2>6, <3>2 DEF e, s
      <4>2. LoopInv(q, s, c(i) + 1, all)
            BY <2>3, <4>1, FullPage
      <4> QED BY <2>1, <2>3, <2>5, <2>6, <3>1, <4>1, <4>2 DEF v, s
    <3>3. CASE e \notin M
      <4>1. c(i + 1) = c(i)
            BY <1>5, <3>3 DEF e
      <4> QED BY <2>1, <2>3, <2>5, <2>6, <3>1, <4>1 DEF v, s
    <3> QED BY <3>2, <3>3
  <2>7. CASE ~s.stop /\ e \in M
    <3>1. ~Skipped(q, e) /\ c(i + 1) = c(i) + 1 /\ all[c(i) + 1] = e
          BY <1>1, <1>5, <2>7 DEF e
    <3>2. LoopInv(q, v, c(i) + 1, all) /\ (v.stop => v.count = Offset(q) + Limit(q))
          BY <2>2, <2>3, <2>7, <3>1, VisitMatching
    <3> QED BY <2>1, <3>1, <3>2 DEF v
  <2>8. CASE ~s.stop /\ e \notin M
    <3>1. Skipped(q, e) /\ c(i + 1) = c(i)
          BY <1>1, <1>5, <2>2, <2>8 DEF e
    <3>2. LoopInv(q, v, c(i), all) /\ (v.stop => PastEnd(q, e))
          BY <2>2, <2>3, <2>8, <3>1, VisitSkipped
    <3>3. ASSUME PastEnd(q, e), NEW j \in ((i + 1) + 1) .. n PROVE scan[j] \notin M
      <4>1. j \in 1 .. n /\ i + 1 < j /\ scan[j] \in T
            BY <1>3, <2>1
      <4>2. PastEnd(q, scan[j])
            BY <1>1, <1>3, <2>1, <2>2, <3>3, <4>1 DEF e
      <4> QED BY <1>1, <4>2 DEF Skipped
    <3> QED BY <2>1, <3>1, <3>2, <3>3 DEF v
  <2> QED BY <2>6, <2>7, <2>8
<1>10. n \in J
  <2>1. n \in 0 .. n
        BY <1>3
  <2> HIDE DEF J
  <2> QED BY <1>3, <1>8, <1>9, <2>1, Induction
<1> DEFINE v == f[n]
           ev == v.events
<1>11. LoopInv(q, v, m, all) /\ v \in LoopStates(T)
  <2>1. n \in 0 .. n
        BY <1>3
  <2> QED BY <1>5, <1>6, <1>10, <2>1
<1> HIDE DEF J, v
<1>12. /\ v.count = IF m <= o + l THEN m ELSE o + l
       /\ Len(ev) = IF v.count <= o THEN 0 ELSE v.count - o
       /\ \A k \in 1 .. Len(ev) : ev[k] = all[o + k]
       /\ ev \in Seq(T)
       BY <1>11 DEF LoopInv, LoopStates
<1>13. QueryEnd(q, S) = ev
       BY <1>1, <1>3 DEF QueryEnd, v, f
<1> HIDE DEF ev, o, l
<1>14. Len(ev) # l => m <= o + Len(ev)
       BY <1>4, <1>7, <1>12
<1> DEFINE top == IF o + l < Len(all) THEN o + l ELSE Len(all)
           page == SubSeq(all, o + 1, top)
<1>15. ev = page
  <2>1. top = v.count /\ top \in Nat /\ top <= Len(all) /\ Len(all) \in Nat
        BY <1>4, <1>7, <1>12
  <2> HIDE DEF top
  <2>2. \A i \in (o + 1) .. top : all[i] \in M
    <3>1. \A i \in (o + 1) .. top : i \in 1 .. m
          BY <1>4, <1>7, <2>1
    <3> QED BY <1>4, <3>1
  <2>3. /\ page \in Seq(M)
        /\ Len(page) = IF o + 1 <= top THEN top - (o + 1) + 1 ELSE 0
        /\ \A i \in 1 .. top - (o + 1) + 1 : page[i] = all[(o + 1) + i - 1]
        BY <1>7, <2>1, <2>2, SubSeqProperties
  <2> HIDE DEF page
  <2>4. Len(ev) = Len(page) /\ Len(ev) \in Nat
        BY <1>7, <1>12, <2>1, <2>3
  <2>5. ASSUME NEW i \in 1 .. Len(ev) PROVE ev[i] = page[i]
    <3>1. i \in 1 .. top - (o + 1) + 1 /\ (o + 1) + i - 1 = o + i
          BY <1>7, <1>12, <2>1, <2>4
    <3> QED BY <1>12, <2>3, <3>1
  <2>6. page \in Seq(T)
        BY <1>2, <2>3
  <2> QED BY <1>12, <2>4, <2>5, <2>6, SeqEqual
<1>16. Page(all, o, l) = page
       BY DEF Page
<1>17. all \in Seq(S) /\ ev \in Seq(S)
  <2>1. T \subseteq S /\ M \subseteq S
        BY <1>1, <1>2
  <2> QED BY <1>4, <1>12, <2>1
<1> QED BY <1>4, <1>13, <1>14, <1>15, <1>16, <1>17 DEF AnswersPage, o, l, m, all

\* query_events gives the page of what matches that offset and limit select.
LEMMA QueryAnswers ==
    ASSUME NEW S, IsFiniteSet(S), Timed(S), OneKey(S), AfterEpoch(S),
           NEW q, QueryTyped(q), FromEpoch(q)
    PROVE  LET all == ByTime(Matching(q, S))
           IN  /\ all \in Seq(S) /\ Len(all) = Cardinality(Matching(q, S))
               /\ QueryEnd(q, S) = Page(all, Offset(q), Limit(q))
               /\ QueryEnd(q, S) \in Seq(S)
               /\ Len(QueryEnd(q, S)) # Limit(q) => Len(all) <= Offset(q) + Len(QueryEnd(q, S))
<1> DEFINE T == InTime(q, S)
           M == Matching(q, S)
           R == KeyOrder(S)
<1>1. /\ T \in SUBSET S /\ IsFiniteSet(T) /\ StrictOrder(T, R)
      /\ M = {e \in T : ~Skipped(q, e)}
      /\ ScanFrom(S, q.start_time) = SortedBy(T, R)
      /\ ByTime(M) = SortedBy(M, R)
      /\ \A e, f \in T : <<e, f>> \in R /\ PastEnd(q, e) => PastEnd(q, f)
      BY QueryParts
<1> HIDE DEF T, M, R
<1>2. ScanParts(q, S, T, R, M)
      BY <1>1 DEF ScanParts
<1>3. AnswersPage(q, S, ByTime(M)) /\ Len(ByTime(M)) = Cardinality(M)
      BY <1>1, <1>2, LoopAnswers
<1> QED BY <1>3 DEF AnswersPage, M

\* Without filters that is a page of the scan, whatever the times of the store.
LEMMA UnfilteredAnswers ==
    ASSUME NEW S, IsFiniteSet(S), Timed(S), OneKey(S), NEW q, QueryTyped(q),
           q.account_id = None, q.start_time = None, q.end_time = None, q.event_types = None
    PROVE  QueryEnd(q, S) = Page(Scan(S), Offset(q), Limit(q))
<1> DEFINE R == KeyOrder(S)
<1>1. S \in SUBSET S /\ StrictOrder(S, R) /\ Scan(S) = SortedBy(S, R)
      BY KeysOrdered, ScanIsSorted
<1>2. ScanFrom(S, q.start_time) = SortedBy(S, R)
      BY <1>1 DEF ScanFrom
<1>3. /\ S = {e \in S : ~Skipped(q, e)}
      /\ \A e, f \in S : <<e, f>> \in R /\ PastEnd(q, e) => PastEnd(q, f)
      BY DEF Skipped, WrongAccount, WrongType, PastEnd
<1> HIDE DEF R
<1>4. ScanParts(q, S, S, R, S)
      BY <1>1, <1>2, <1>3 DEF ScanParts
<1>5. AnswersPage(q, S, Scan(S))
      BY <1>1, <1>4, LoopAnswers
<1> QED BY <1>5 DEF AnswersPage

\* A scan goes through envelopes of the store, whatever their times.
LEMMA ScanTyped ==
    ASSUME NEW S, IsFiniteSet(S), Timed(S), OneKey(S), NEW T \in SUBSET S
    PROVE  Scan(T) \in Seq(S) /\ Len(Scan(T)) = Cardinality(T)
<1>1. IsFiniteSet(T) /\ StrictOrder(T, KeyOrder(S)) /\ Scan(T) = SortedBy(T, KeyOrder(S))
      BY FS_Subset, KeysOrdered, ScanIsSorted
<1>2. Scan(T) \in Seq(T) /\ Len(Scan(T)) = Cardinality(T)
      BY <1>1, SortedFacts
<1> QED BY <1>2

\* And so does the answer of a query.
LEMMA QueryEndTyped ==
    ASSUME NEW S, IsFiniteSet(S), Timed(S), OneKey(S), NEW q
    PROVE  QueryEnd(q, S) \in Seq(S)
<1> DEFINE scan == ScanFrom(S, q.start_time)
           n == Len(scan)
<1>1. scan \in Seq(S)
  <2>1. PICK T \in SUBSET S : scan = Scan(T)
        BY DEF ScanFrom
  <2> QED BY <2>1, ScanTyped
<1>2. n \in Nat /\ n \in 0 .. n
      BY <1>1
<1>3. QueryEnd(q, S) = QueryTurns(q, scan)[n].events
      BY DEF QueryEnd
<1> HIDE DEF scan
<1>4. QueryTurns(q, scan) \in [0 .. n -> LoopStates(S)]
      BY <1>1, QueryLoop
<1>5. QueryTurns(q, scan)[n] \in LoopStates(S)
      BY <1>2, <1>4
<1> QED BY <1>3, <1>5 DEF LoopStates

\* After the epoch a part of the store in time order is sorted by rank.
LEMMA ByTimeSorted ==
    ASSUME NEW S, IsFiniteSet(S), Timed(S), OneKey(S), AfterEpoch(S), NEW T \in SUBSET S
    PROVE  IsFiniteSet(T) /\ StrictOrder(T, KeyOrder(S)) /\ ByTime(T) = SortedBy(T, KeyOrder(S))
<1>1. Timed(T) /\ AfterEpoch(T)
      BY DEF Timed, AfterEpoch
<1> QED BY <1>1, FS_Subset, KeysOrdered, ScanIsSorted, ByTimeIsScan

\* A new member leaves everything in its place that is not after it.
LEMMA StartStays ==
    ASSUME NEW M, NEW e, IsFiniteSet(M), NEW N, N = M \cup {e}, NEW R, StrictOrder(N, R),
           NEW i \in 1 .. Cardinality(M), <<e, SortedBy(M, R)[i]>> \notin R
    PROVE  i \in 1 .. Cardinality(N) /\ SortedBy(N, R)[i] = SortedBy(M, R)[i]
<1> DEFINE g == SortedBy(M, R)[i]
<1>1. IsFiniteSet(N) /\ StrictOrder(M, R) /\ Cardinality(M) \in Nat
      BY FS_AddElement, FS_CardinalityType DEF StrictOrder
<1>2. g \in M /\ Rank(M, R, g) = i - 1
      BY <1>1, SortedFacts
<1>3. Rank(N, R, g) = i - 1
  <2>1. Below(N, R, g) = Below(M, R, g)
        BY DEF Below
  <2> QED BY <1>2, <2>1 DEF Rank
<1> HIDE DEF g
<1>4. g \in N
      BY <1>2
<1>5. Rank(N, R, g) + 1 \in 1 .. Cardinality(N) /\ SortedBy(N, R)[Rank(N, R, g) + 1] = g
      BY <1>1, <1>4, SortedFacts
<1>6. (i - 1) + 1 = i
      BY <1>1
<1> QED BY <1>3, <1>5, <1>6 DEF g

----------------------------------------------------------------------------
(* The other reads.                                                        *)

\* The store in time order: what a scan goes through, earlier times first.
InOrder(s, S) ==
    /\ s \in Seq(S) /\ Len(s) = Cardinality(S) /\ Len(s) \in Nat
    /\ \A e \in S : \E i \in 1 .. Len(s) : s[i] = e
    /\ \A i, j \in 1 .. Len(s) : i <= j => s[i].timestamp <= s[j].timestamp

LEMMA ScanInOrder ==
    ASSUME NEW S, IsFiniteSet(S), Timed(S), OneKey(S), AfterEpoch(S)
    PROVE  ByTime(S) = Scan(S) /\ InOrder(Scan(S), S)
<1> DEFINE s == Scan(S)
           R == KeyOrder(S)
           n == Cardinality(S)
<1>1. ByTime(S) = s /\ StrictOrder(S, R) /\ s = SortedBy(S, R)
      BY ByTimeIsScan, ByTimeSorted
<1> HIDE DEF s, R
<1>2. /\ n \in Nat /\ s \in [1 .. n -> S] /\ s \in Seq(S) /\ Len(s) = n
      /\ \A e \in S : Rank(S, R, e) + 1 \in 1 .. n /\ s[Rank(S, R, e) + 1] = e
      /\ \A i, j \in 1 .. n : <<s[i], s[j]>> \in R <=> i < j
  <2> DEFINE z == SortedBy(S, R)
  <2>1. /\ n \in Nat /\ z \in [1 .. n -> S] /\ z \in Seq(S) /\ Len(z) = n
        /\ \A e \in S : Rank(S, R, e) + 1 \in 1 .. n /\ z[Rank(S, R, e) + 1] = e
        /\ \A i, j \in 1 .. n : <<z[i], z[j]>> \in R <=> i < j
        BY <1>1, SortedFacts
  <2> HIDE DEF n, z
  <2> QED BY <1>1, <2>1 DEF z
<1> HIDE DEF n
<1>3. ASSUME NEW i \in 1 .. n, NEW j \in 1 .. n, i <= j PROVE s[i].timestamp <= s[j].timestamp
  <2>1. s[i] \in S /\ s[j] \in S
        BY <1>2
  <2>2. s[i].timestamp \in Int /\ s[j].timestamp \in Int
        BY <2>1 DEF Timed
  <2>3. CASE i = j
        BY <2>2, <2>3
  <2>4. CASE i # j
    <3>1. i < j
          BY <1>2, <1>3, <2>4
    <3>2. KeyLess(generate_event_key(s[i]), generate_event_key(s[j]))
          BY <1>2, <2>1, <3>1, OrderOf DEF R
    <3>3. /\ generate_event_key(s[i]) = <<s[i].timestamp, s[i].event_id>>
          /\ generate_event_key(s[j]) = <<s[j].timestamp, s[j].event_id>>
          BY <2>1, KeyType DEF Timed, AfterEpoch
    <3>4. s[i].timestamp < s[j].timestamp \/ s[i].timestamp = s[j].timestamp
          BY <3>2, <3>3 DEF KeyLess
    <3> QED BY <2>2, <3>4
  <2> QED BY <2>3, <2>4
<1>4. \A e \in S : \E i \in 1 .. n : s[i] = e
      BY <1>2
<1> QED BY <1>1, <1>2, <1>3, <1>4 DEF InOrder, s, n

\* Cutting the reversed scan and reversing it again gives its end.
LEMMA LatestOf ==
    ASSUME NEW E, NEW S, Scan(S) \in Seq(E), NEW n \in Nat
    PROVE  LET m == Len(Scan(S))
           IN  get_latest_events(n, S) = Page(Scan(S), IF n < m THEN m - n ELSE 0, n)
<1> DEFINE s == Scan(S)
           m == Len(s)
           b == Reverse(s)
           k == IF n < m THEN n ELSE m
           c == SubSeq(b, 1, k)
<1>1. s \in Seq(E) /\ m \in Nat /\ k \in Nat /\ k <= m /\ \A i \in 1 .. m : s[i] \in E
      OBVIOUS
<1>2. b = [i \in 1 .. m |-> s[(m - i) + 1]]
      BY DEF Reverse
<1>3. \A i \in 1 .. m : b[i] = s[(m - i) + 1] /\ b[i] \in E
  <2>1. \A i \in 1 .. m : (m - i) + 1 \in 1 .. m
        BY <1>1
  <2> QED BY <1>1, <1>2, <2>1
<1>4. b \in Seq(E) /\ Len(b) = m
      BY <1>1, <1>2, <1>3
<1>5. get_latest_events(n, S) = Reverse(c)
      BY <1>4 DEF get_latest_events
<1>6. Page(s, IF n < m THEN m - n ELSE 0, n) = SubSeq(s, (m - k) + 1, m)
  <2> DEFINE o == IF n < m THEN m - n ELSE 0
             u == IF o + n < m THEN o + n ELSE m
  <2>1. o + 1 = (m - k) + 1 /\ u = m
        BY <1>1
  <2>2. Page(s, o, n) = SubSeq(s, o + 1, u)
        BY DEF Page
  <2> HIDE DEF o, u, s, k, m
  <2> QED BY <2>1, <2>2 DEF o
<1> HIDE DEF s, m, b, k
<1>7. Len(c) = k /\ \A i \in 1 .. k : c[i] = s[(m - i) + 1]
  <2>1. \A i \in 1 .. k : i \in 1 .. m /\ 1 + i - 1 = i
        BY <1>1
  <2>2. /\ Len(c) = IF 1 <= k THEN k - 1 + 1 ELSE 0
        /\ \A i \in 1 .. k - 1 + 1 : c[i] = b[1 + i - 1]
        BY <1>1, <1>3, <2>1, SubSeqProperties
  <2>3. k - 1 + 1 = k /\ Len(c) = k
        BY <1>1, <2>2
  <2> QED BY <1>3, <2>1, <2>2, <2>3
<1> HIDE DEF c
<1>8. Reverse(c) = [i \in 1 .. k |-> s[(m - k) + i]]
  <2>1. Reverse(c) = [i \in 1 .. k |-> c[(k - i) + 1]]
        BY <1>7 DEF Reverse
  <2>2. ASSUME NEW i \in 1 .. k PROVE c[(k - i) + 1] = s[(m - k) + i]
    <3>1. (k - i) + 1 \in 1 .. k /\ (m - ((k - i) + 1)) + 1 = (m - k) + i
          BY <1>1
    <3> QED BY <1>7, <3>1
  <2> QED BY <2>1, <2>2
<1>9. SubSeq(s, (m - k) + 1, m) = [i \in 1 .. k |-> s[(m - k) + i]]
  <2> DEFINE d == SubSeq(s, (m - k) + 1, m)
             a == (m - k) + 1
  <2>1. a \in Int /\ m \in Int /\ \A i \in a .. m : s[i] \in E
    <3>1. \A i \in a .. m : i \in 1 .. m
          BY <1>1
    <3> QED BY <1>1, <3>1
  <2>2. /\ m - a + 1 = k /\ (a <= m <=> k > 0)
        /\ \A i \in 1 .. k : a + i - 1 = (m - k) + i
        BY <1>1
  <2> HIDE DEF a
  <2>3. /\ SubSeq(s, a, m) \in Seq(E) /\ Len(SubSeq(s, a, m)) = IF a <= m THEN m - a + 1 ELSE 0
        /\ \A i \in 1 .. m - a + 1 : SubSeq(s, a, m)[i] = s[a + i - 1]
        BY <2>1, SubSeqProperties
  <2>4. Len(d) = k
        BY <1>1, <2>2, <2>3 DEF a
  <2>5. d \in Seq(E) /\ \A i \in 1 .. k : d[i] = s[(m - k) + i]
        BY <2>2, <2>3 DEF a
  <2> HIDE DEF d
  <2>6. d = [i \in 1 .. k |-> d[i]]
        BY <2>4, <2>5
  <2> QED BY <2>5, <2>6 DEF d
<1> QED BY <1>5, <1>6, <1>8, <1>9 DEF s, m

\* A search finds an envelope exactly for the ids of the store.
LEMMA FoundExactly ==
    ASSUME NEW S, InOrder(Scan(S), S), None \notin S, NEW id
    PROVE  get_event(id, S) # None <=> \E f \in S : f.event_id = id
<1> DEFINE s == Scan(S)
           found == {i \in DOMAIN s : s[i].event_id = id}
<1>1. s \in Seq(S) /\ Len(s) \in Nat /\ \A e \in S : \E i \in 1 .. Len(s) : s[i] = e
      BY DEF InOrder
<1>2. DOMAIN s = 1 .. Len(s) /\ \A i \in 1 .. Len(s) : s[i] \in S
      BY <1>1
<1>3. get_event(id, S) = IF found = {} THEN None ELSE s[Min(found)]
      BY DEF get_event
<1> HIDE DEF s
<1>4. found # {} <=> \E f \in S : f.event_id = id
      BY <1>1, <1>2
<1>5. found # {} => Min(found) \in found
  <2>1. found \subseteq Nat
        BY <1>1, <1>2
  <2> HIDE DEF found
  <2> QED BY <2>1, LeastNatural DEF Min
<1>6. found # {} => s[Min(found)] \in S
      BY <1>2, <1>5
<1> HIDE DEF found
<1> QED BY <1>3, <1>4, <1>6

\* What get_statistics holds after i of the envelopes of s.
Counted(s, i) ==
    [total_events |-> i,
     oldest_event |-> IF i = 0 THEN None ELSE s[1].timestamp,
     newest_event |-> IF i = 0 THEN None ELSE s[i].timestamp]

\* One more turn: in time order the first envelope stays the oldest and the
\* last one is the newest.
LEMMA CountTurn ==
    ASSUME NEW S, Timed(S), None \notin Int, NEW s, InOrder(s, S), NEW i \in 1 .. Len(s)
    PROVE  Count(Counted(s, i - 1), s[i]) = Counted(s, i)
<1>1. s \in Seq(S) /\ Len(s) \in Nat
      BY DEF InOrder
<1>2. i # 0 /\ (i - 1) + 1 = i /\ 1 \in 1 .. Len(s)
      BY <1>1
<1>3. s[i].timestamp \in Int /\ s[1].timestamp \in Int
  <2>1. s[i] \in S /\ s[1] \in S
        BY <1>1, <1>2
  <2> QED BY <2>1 DEF Timed
<1>4. CASE i = 1
  <2>1. Counted(s, i - 1) = [total_events |-> 0, oldest_event |-> None, newest_event |-> None]
        BY <1>4 DEF Counted
  <2>2. Count(Counted(s, i - 1), s[i])
            = [total_events |-> 0 + 1, oldest_event |-> s[i].timestamp, newest_event |-> s[i].timestamp]
        BY <2>1 DEF Count
  <2> QED BY <1>4, <2>2 DEF Counted
<1>5. CASE i # 1
  <2>1. i - 1 # 0 /\ i - 1 \in 1 .. Len(s) /\ i - 1 <= i /\ 1 <= i
        BY <1>1, <1>5
  <2>2. s[i - 1].timestamp \in Int
    <3>1. s[i - 1] \in S
          BY <1>1, <2>1
    <3> QED BY <3>1 DEF Timed
  <2>3. s[i - 1].timestamp <= s[i].timestamp /\ s[1].timestamp <= s[i].timestamp
        BY <1>2, <2>1 DEF InOrder
  <2> DEFINE old == s[1].timestamp
             prv == s[i - 1].timestamp
             new == s[i].timestamp
  <2>4. Counted(s, i - 1) = [total_events |-> i - 1, oldest_event |-> old, newest_event |-> prv]
        BY <2>1 DEF Counted
  <2>5. old # None /\ prv # None
        BY <1>3, <2>2
  <2> HIDE DEF old, prv
  <2>6. Count(Counted(s, i - 1), s[i])
            = [total_events |-> (i - 1) + 1,
               oldest_event |-> IF new < old THEN new ELSE old,
               newest_event |-> IF new > prv THEN new ELSE prv]
        BY <2>4, <2>5 DEF Count, OrElse
  <2>7. (IF new < old THEN new ELSE old) = old /\ (IF new > prv THEN new ELSE prv) = new
        BY <1>3, <2>2, <2>3 DEF old, prv
  <2>8. Counted(s, i) = [total_events |-> i, oldest_event |-> old, newest_event |-> new]
        BY <1>2 DEF Counted, old
  <2> QED BY <1>2, <2>6, <2>7, <2>8
<1> QED BY <1>4, <1>5

\* CountTurns is what its recursion says, and so counts what it went through.
LEMMA CountLoop ==
    ASSUME NEW S, Timed(S), None \notin Int, NEW s, InOrder(s, S)
    PROVE  CountTurns(s)[Len(s)] = Counted(s, Len(s))
<1> DEFINE n == Len(s)
           f == CountTurns(s)
           start == [total_events |-> 0, oldest_event |-> None, newest_event |-> None]
           g == [i \in 0 .. n |-> Counted(s, i)]
<1>1. n \in Nat
      BY DEF InOrder
<1>2. Counted(s, 0) = start
      BY DEF Counted
<1>3. g = [i \in 0 .. n |-> IF i = 0 THEN start ELSE Count(g[i - 1], s[i])]
  <2>1. ASSUME NEW i \in 0 .. n PROVE Counted(s, i) = IF i = 0 THEN start ELSE Count(g[i - 1], s[i])
    <3>1. CASE i = 0
          BY <1>2, <3>1
    <3>2. CASE i # 0
      <4>1. i \in 1 .. Len(s) /\ i - 1 \in 0 .. n
            BY <1>1, <3>2
      <4>2. g[i - 1] = Counted(s, i - 1)
            BY <4>1
      <4> HIDE DEF g
      <4> QED BY <3>2, <4>1, <4>2, CountTurn
    <3> QED BY <3>1, <3>2
  <2> QED BY <2>1
<1>4. f = [i \in 0 .. n |-> IF i = 0 THEN start ELSE Count(f[i - 1], s[i])]
  <2> HIDE DEF g
  <2> QED BY <1>3 DEF CountTurns
<1> HIDE DEF f, start
<1> DEFINE T == {i \in 0 .. n : f[i] = Counted(s, i)}
<1>5. 0 \in T
  <2>1. 0 \in 0 .. n
        BY <1>1
  <2> QED BY <1>2, <1>4, <2>1
<1>6. ASSUME NEW i \in 0 .. (n - 1), i \in T PROVE i + 1 \in T
  <2>1. i + 1 \in 1 .. Len(s) /\ i + 1 \in 0 .. n /\ (i + 1) - 1 = i /\ i + 1 # 0
        BY <1>1
  <2>2. f[i + 1] = Count(f[i], s[i + 1])
        BY <1>4, <2>1
  <2>3. Count(Counted(s, i), s[i + 1]) = Counted(s, i + 1)
        BY <2>1, CountTurn
  <2> QED BY <1>6, <2>1, <2>2, <2>3
<1>7. 0 .. n \subseteq T
  <2> HIDE DEF T, n
  <2> QED BY <1>1, <1>5, <1>6, Induction
<1>8. n \in 0 .. n
      BY <1>1
<1> QED BY <1>7, <1>8 DEF f

\* An account's events are the oldest that name it, up to the default limit.
LEMMA AccountOf ==
    ASSUME NEW S, IsFiniteSet(S), Timed(S), OneKey(S), AfterEpoch(S), NEW a, a # None
    PROVE  get_account_events(a, S) = Page(ByTime({e \in S : a \in e.accounts}), 0, DefaultLimit)
<1> DEFINE q == [AllOf EXCEPT !.account_id = a]
<1>1. /\ q.account_id = a /\ q.start_time = None /\ q.end_time = None
      /\ q.limit = None /\ q.offset = None /\ q.event_types = None
      BY DEF AllOf
<1>2. get_account_events(a, S) = QueryEnd(q, S)
      BY DEF get_account_events, query_events
<1> HIDE DEF q
<1>3. QueryTyped(q) /\ FromEpoch(q) /\ Offset(q) = 0 /\ Limit(q) = DefaultLimit
      BY <1>1 DEF QueryTyped, FromEpoch, Offset, Limit, OrElse
<1>4. Matching(q, S) = {e \in S : a \in e.accounts}
      BY <1>1 DEF Matching
<1>5. QueryEnd(q, S) = Page(ByTime(Matching(q, S)), Offset(q), Limit(q))
      BY <1>3, QueryAnswers
<1> QED BY <1>2, <1>3, <1>4, <1>5
============================================================================
