-------------------------- MODULE FuseMountProofs --------------------------
(***************************************************************************)
(* Theorems about FuseMount, for any accounts, ids, spellings and names:   *)
(* what an Ok may leave mounted, and that the filesystem it serves keeps   *)
(* its tables, its answers and what is read in pieces consistent.  The     *)
(* lemmas on the tables, the requests and the generated paths come first.  *)
(***************************************************************************)
EXTENDS FuseMount, FiniteSetTheorems, SequenceTheorems, TLAPS

----------------------------------------------------------------------------
(* The inodes of several new paths.                                        *)

\* The new ones among the first paths are finitely many, and one more if the
\* next is new.
LEMMA NewBeforeStep ==
    ASSUME NEW S, NEW ps \in Seq(S), IsInjective(ps), NEW i \in DOMAIN ps
    PROVE  /\ IsFiniteSet(NewBefore(ps, i)) /\ IsFiniteSet(NewBefore(ps, i + 1))
           /\ NewBefore(ps, i + 1) = NewBefore(ps, i) \cup ({ps[i]} \ DOMAIN path_map)
           /\ ps[i] \notin NewBefore(ps, i)
           /\ ps[i] \notin DOMAIN path_map =>
                  Cardinality(NewBefore(ps, i + 1)) = Cardinality(NewBefore(ps, i)) + 1
<1>1. i \in 1 .. Len(ps) /\ DOMAIN ps = 1 .. Len(ps) /\ Len(ps) \in Nat
      OBVIOUS
<1>2. ASSUME NEW n \in 0 .. Len(ps) PROVE IsFiniteSet({ps[j] : j \in 1 .. n})
  <2> DEFINE f == [j \in 1 .. n |-> ps[j]]
             T == {ps[j] : j \in 1 .. n}
  <2>1. f \in Surjection(1 .. n, T)
        BY DEF Surjection
  <2>2. IsFiniteSet(1 .. n)
        BY <1>1, FS_Interval
  <2>3. IsFiniteSet(T)
    <3> HIDE DEF f, T
    <3> QED BY <2>1, <2>2, FS_Surjection
  <2> QED BY <2>3
<1>3. ASSUME NEW n \in 0 .. Len(ps) PROVE IsFiniteSet({ps[j] : j \in 1 .. n} \ DOMAIN path_map)
      BY <1>2, <1>3, FS_Subset
<1>4. i - 1 \in 0 .. Len(ps) /\ i \in 0 .. Len(ps) /\ (i + 1) - 1 = i
      BY <1>1
<1>5. 1 .. i = (1 .. (i - 1)) \cup {i}
      BY <1>1
<1>6. NewBefore(ps, i + 1) = NewBefore(ps, i) \cup ({ps[i]} \ DOMAIN path_map)
      BY <1>4, <1>5 DEF NewBefore
<1>7. IsFiniteSet(NewBefore(ps, i)) /\ IsFiniteSet(NewBefore(ps, i + 1))
      BY <1>3, <1>4 DEF NewBefore
<1>8. ps[i] \notin NewBefore(ps, i)
  <2>1. \A j \in 1 .. (i - 1) : j \in DOMAIN ps /\ j # i
        BY <1>1
  <2> QED BY <2>1 DEF IsInjective, NewBefore
<1>9. ps[i] \notin DOMAIN path_map =>
          Cardinality(NewBefore(ps, i + 1)) = Cardinality(NewBefore(ps, i)) + 1
      BY <1>6, <1>7, <1>8, FS_AddElement
<1> QED BY <1>6, <1>7, <1>8, <1>9

\* The more paths, the more new ones.
LEMMA NewBeforeMonotone ==
    ASSUME NEW S, NEW ps \in Seq(S), IsInjective(ps),
           NEW i \in 1 .. (Len(ps) + 1), NEW j \in 1 .. (Len(ps) + 1), i <= j
    PROVE  /\ IsFiniteSet(NewBefore(ps, j))
           /\ Cardinality(NewBefore(ps, i)) \in Nat /\ Cardinality(NewBefore(ps, j)) \in Nat
           /\ Cardinality(NewBefore(ps, i)) <= Cardinality(NewBefore(ps, j))
<1>1. Len(ps) \in Nat /\ DOMAIN ps = 1 .. Len(ps)
      OBVIOUS
<1>2. NewBefore(ps, i) \subseteq NewBefore(ps, j)
  <2>1. 1 .. (i - 1) \subseteq 1 .. (j - 1)
        BY <1>1
  <2> QED BY <2>1 DEF NewBefore
<1>3. IsFiniteSet(NewBefore(ps, j))
  <2>1. CASE j = 1
    <3>1. 1 .. (j - 1) = {}
          BY <2>1
    <3>2. NewBefore(ps, j) = {}
          BY <3>1 DEF NewBefore
    <3> QED BY <3>2, FS_EmptySet
  <2>2. CASE j # 1
    <3>1. j - 1 \in DOMAIN ps /\ (j - 1) + 1 = j
          BY <1>1, <2>2
    <3> QED BY <3>1, NewBeforeStep
  <2> QED BY <2>1, <2>2
<1> QED BY <1>2, <1>3, FS_Subset, FS_CardinalityType

\* Where a path stands.
LEMMA PositionOf ==
    ASSUME NEW S, NEW ps \in Seq(S), IsInjective(ps)
    PROVE  /\ \A i \in DOMAIN ps : position(ps, ps[i]) = i
           /\ \A p \in NewPaths(ps) :
                  /\ position(ps, p) \in DOMAIN ps /\ ps[position(ps, p)] = p
                  /\ p \notin DOMAIN path_map
           /\ \A i \in DOMAIN ps : ps[i] \notin DOMAIN path_map => ps[i] \in NewPaths(ps)
<1>1. DOMAIN ps = 1 .. Len(ps) /\ Len(ps) \in Nat /\ (Len(ps) + 1) - 1 = Len(ps)
      OBVIOUS
<1>2. \A i \in DOMAIN ps : position(ps, ps[i]) = i
      BY DEF position, IsInjective
<1>3. NewPaths(ps) = {ps[i] : i \in DOMAIN ps} \ DOMAIN path_map
      BY <1>1 DEF NewPaths, NewBefore
<1> QED BY <1>2, <1>3

\* The new paths get the numbers from next_inode on, each one its own.
LEMMA InodesDistinct ==
    ASSUME NEW S, NEW ps \in Seq(S), IsInjective(ps), next_inode \in Nat
    PROVE  LET last == next_inode + Cardinality(NewPaths(ps)) - 1
               ino(p) == inode_of(ps, position(ps, p))
           IN  /\ IsFiniteSet(NewPaths(ps)) /\ Cardinality(NewPaths(ps)) \in Nat
               /\ \A p \in NewPaths(ps) : ino(p) \in next_inode .. last
               /\ \A p, q \in NewPaths(ps) : ino(p) = ino(q) => p = q
               /\ \A n \in next_inode .. last : \E p \in NewPaths(ps) : ino(p) = n
<1> DEFINE N == NewPaths(ps)
           c == Cardinality(NewPaths(ps))
           ino(p) == inode_of(ps, position(ps, p))
<1>1. DOMAIN ps = 1 .. Len(ps) /\ Len(ps) \in Nat
      OBVIOUS
<1>2. IsFiniteSet(N) /\ c \in Nat
  <2>1. Len(ps) + 1 \in 1 .. (Len(ps) + 1) /\ Len(ps) + 1 <= Len(ps) + 1
        BY <1>1
  <2> QED BY <2>1, NewBeforeMonotone DEF NewPaths
<1>3. ASSUME NEW i \in DOMAIN ps, NEW j \in DOMAIN ps, i < j, ps[i] \notin DOMAIN path_map
      PROVE  Cardinality(NewBefore(ps, i)) < Cardinality(NewBefore(ps, j))
  <2>1. i + 1 \in 1 .. (Len(ps) + 1) /\ j \in 1 .. (Len(ps) + 1) /\ i + 1 <= j /\ i \in 1 .. (Len(ps) + 1)
        BY <1>1, <1>3
  <2>2. /\ Cardinality(NewBefore(ps, i + 1)) <= Cardinality(NewBefore(ps, j))
        /\ Cardinality(NewBefore(ps, i + 1)) \in Nat /\ Cardinality(NewBefore(ps, j)) \in Nat
        BY <2>1, NewBeforeMonotone
  <2>3. Cardinality(NewBefore(ps, i + 1)) = Cardinality(NewBefore(ps, i)) + 1
        BY <1>3, NewBeforeStep
  <2>4. Cardinality(NewBefore(ps, i)) \in Nat
        BY NewBeforeStep, FS_CardinalityType
  <2> QED BY <2>2, <2>3, <2>4
<1>4. ASSUME NEW p \in N
      PROVE  /\ ino(p) = next_inode + Cardinality(NewBefore(ps, position(ps, p)))
             /\ ino(p) \in next_inode .. (next_inode + c - 1)
  <2> DEFINE i == position(ps, p)
  <2>1. i \in DOMAIN ps /\ ps[i] = p /\ p \notin DOMAIN path_map
        BY PositionOf
  <2> HIDE DEF i
  <2>2. inode_of(ps, i) = next_inode + Cardinality(NewBefore(ps, i))
        BY <2>1 DEF inode_of
  <2>3. i + 1 \in 1 .. (Len(ps) + 1) /\ Len(ps) + 1 \in 1 .. (Len(ps) + 1) /\ i + 1 <= Len(ps) + 1
        BY <1>1, <2>1
  <2>4. Cardinality(NewBefore(ps, i + 1)) <= c
        BY <2>3, NewBeforeMonotone DEF NewPaths
  <2>5. Cardinality(NewBefore(ps, i + 1)) = Cardinality(NewBefore(ps, i)) + 1
        BY <2>1, NewBeforeStep
  <2>6. Cardinality(NewBefore(ps, i)) \in Nat
        BY <2>1, NewBeforeStep, FS_CardinalityType
  <2>7. inode_of(ps, i) \in next_inode .. (next_inode + c - 1)
        BY <1>2, <2>2, <2>4, <2>5, <2>6
  <2> QED BY <2>2, <2>7 DEF i
<1>5. ASSUME NEW p \in N, NEW q \in N, ino(p) = ino(q) PROVE p = q
  <2> DEFINE i == position(ps, p)
             j == position(ps, q)
  <2>1. i \in DOMAIN ps /\ ps[i] = p /\ p \notin DOMAIN path_map
        BY PositionOf
  <2>2. j \in DOMAIN ps /\ ps[j] = q /\ q \notin DOMAIN path_map
        BY PositionOf
  <2>3. next_inode + Cardinality(NewBefore(ps, i)) = next_inode + Cardinality(NewBefore(ps, j))
        BY <1>4, <1>5
  <2> HIDE DEF i, j
  <2>4. Cardinality(NewBefore(ps, i)) \in Nat /\ Cardinality(NewBefore(ps, j)) \in Nat
        BY <2>1, <2>2, NewBeforeStep, FS_CardinalityType
  <2>5. ~(i < j) /\ ~(j < i)
        BY <1>3, <2>1, <2>2, <2>3, <2>4
  <2>6. i = j
        BY <1>1, <2>1, <2>2, <2>5
  <2> QED BY <2>1, <2>2, <2>6
<1> DEFINE f == [p \in N |-> ino(p)]
           I == next_inode .. (next_inode + c - 1)
<1> HIDE DEF N, c, ino
<1>6. f \in Injection(N, I)
      BY <1>4, <1>5 DEF Injection, IsInjective
<1>7. IsFiniteSet(I) /\ Cardinality(I) = c
  <2>1. next_inode \in Int /\ next_inode + c - 1 \in Int
        BY <1>2
  <2>2. IsFiniteSet(I) /\ Cardinality(I) = IF next_inode > next_inode + c - 1 THEN 0
                                           ELSE (next_inode + c - 1) - next_inode + 1
        BY <2>1, FS_Interval
  <2> QED BY <1>2, <2>2
<1>8. f \in Surjection(N, I)
  <2>1. Cardinality(N) = c
        BY DEF N, c
  <2> QED BY <1>2, <1>6, <1>7, <2>1, FS_Injection
<1>9. \A n \in I : \E p \in N : ino(p) = n
      BY <1>8 DEF Surjection
<1> QED BY <1>2, <1>4, <1>5, <1>9 DEF N, c, ino

\* The two tables are inverse to each other and use every number below
\* next_inode.
TablesInverse ==
    /\ next_inode \in Nat \ {0}
    /\ Inodes = 1 .. (next_inode - 1)
    /\ \A i \in Inodes : inode_map[i] \in DOMAIN path_map /\ path_map[inode_map[i]] = i
    /\ \A p \in DOMAIN path_map : path_map[p] \in Inodes /\ inode_map[path_map[p]] = p

\* After the calls of get_or_create_inode for several distinct paths, each has the
\* inode that its entry was given, nothing that was known has changed, and the
\* tables are inverse again.
LEMMA PathsInserted ==
    ASSUME TablesInverse, NEW S, NEW ps \in Seq(S), IsInjective(ps), get_or_create_inodes(ps)
    PROVE  /\ TablesInverse'
           /\ next_inode' = next_inode + Cardinality(NewPaths(ps)) /\ Cardinality(NewPaths(ps)) \in Nat
           /\ Inodes \subseteq Inodes'
           /\ DOMAIN path_map' = DOMAIN path_map \cup {ps[i] : i \in DOMAIN ps}
           /\ \A i \in Inodes : inode_map'[i] = inode_map[i]
           /\ \A p \in DOMAIN path_map : path_map'[p] = path_map[p]
           /\ \A i \in DOMAIN ps : path_map'[ps[i]] = inode_of(ps, i)
           /\ \A i \in Inodes' \ Inodes : \E j \in DOMAIN ps : inode_map'[i] = ps[j] /\ ps[j] \notin DOMAIN path_map
<1> DEFINE N == NewPaths(ps)
           c == Cardinality(NewPaths(ps))
           I == next_inode .. (next_inode + Cardinality(NewPaths(ps)) - 1)
           ino(p) == inode_of(ps, position(ps, p))
<1>0. next_inode \in Nat \ {0} /\ Inodes = 1 .. (next_inode - 1)
      BY DEF TablesInverse
<1>1. /\ c \in Nat
      /\ \A p \in N : ino(p) \in I
      /\ \A p, q \in N : ino(p) = ino(q) => p = q
      /\ \A n \in I : \E p \in N : ino(p) = n
      BY <1>0, InodesDistinct
<1>2. next_inode' = next_inode + c
      BY DEF get_or_create_inodes
<1>3. /\ inode_map' = [i \in Inodes \cup I |-> IF i < next_inode THEN inode_map[i] ELSE new_path(ps, i)]
      /\ path_map' = [p \in DOMAIN path_map \cup N |-> IF p \in DOMAIN path_map THEN path_map[p] ELSE ino(p)]
      BY DEF get_or_create_inodes, insert
<1>4. \A p \in N : p \notin DOMAIN path_map
      BY DEF NewPaths, NewBefore
<1>5. \A i \in I : new_path(ps, i) \in N /\ ino(new_path(ps, i)) = i
      BY <1>1 DEF new_path
<1>6. N \subseteq {ps[i] : i \in DOMAIN ps} /\ {ps[i] : i \in DOMAIN ps} \subseteq DOMAIN path_map \cup N
      BY PositionOf
<1>7. \A i \in DOMAIN ps : path_map'[ps[i]] = inode_of(ps, i)
  <2> SUFFICES ASSUME NEW i \in DOMAIN ps PROVE path_map'[ps[i]] = inode_of(ps, i)
      OBVIOUS
  <2>1. CASE ps[i] \in DOMAIN path_map
        BY <1>3, <2>1 DEF inode_of
  <2>2. CASE ps[i] \notin DOMAIN path_map
    <3>1. ps[i] \in N /\ position(ps, ps[i]) = i
          BY <2>2, PositionOf
    <3> QED BY <1>3, <2>2, <3>1
  <2> QED BY <2>1, <2>2
<1> HIDE DEF N, c, ino
<1>8. (\A i \in Inodes : i < next_inode) /\ (\A i \in I : ~(i < next_inode))
      BY <1>0
<1>9. Inodes' = Inodes \cup I
      BY <1>3 DEF Inodes
<1>10. Inodes' = 1 .. (next_inode' - 1)
  <2>1. I = next_inode .. (next_inode + c - 1)
        BY DEF c
  <2>2. ASSUME NEW n \in Nat \ {0}, NEW m \in Nat
        PROVE  (1 .. (n - 1)) \cup (n .. (n + m - 1)) = 1 .. (n + m - 1)
        OBVIOUS
  <2>3. (1 .. (next_inode - 1)) \cup (next_inode .. (next_inode + c - 1)) = 1 .. (next_inode + c - 1)
        BY <1>0, <1>1, <2>2
  <2>4. Inodes' = 1 .. (next_inode + c - 1)
        BY <1>0, <1>9, <2>1, <2>3
  <2>5. next_inode' - 1 = next_inode + c - 1
        BY <1>0, <1>1, <1>2
  <2> QED BY <2>4, <2>5
<1>11. /\ \A i \in Inodes : inode_map'[i] = inode_map[i]
       /\ \A i \in I : inode_map'[i] = new_path(ps, i)
       BY <1>3, <1>8
<1>12. /\ DOMAIN path_map' = DOMAIN path_map \cup N
       /\ \A p \in DOMAIN path_map : path_map'[p] = path_map[p]
       /\ \A p \in N : path_map'[p] = ino(p)
       BY <1>3, <1>4
<1>13. TablesInverse'
  <2>1. next_inode' \in Nat \ {0}
        BY <1>0, <1>1, <1>2
  <2>2. \A i \in Inodes' : inode_map'[i] \in DOMAIN path_map' /\ path_map'[inode_map'[i]] = i
    <3>1. \A i \in Inodes : inode_map[i] \in DOMAIN path_map /\ path_map[inode_map[i]] = i
          BY DEF TablesInverse
    <3> QED BY <1>5, <1>9, <1>11, <1>12, <3>1
  <2>3. \A p \in DOMAIN path_map' : path_map'[p] \in Inodes' /\ inode_map'[path_map'[p]] = p
    <3>1. \A p \in DOMAIN path_map : path_map[p] \in Inodes /\ inode_map[path_map[p]] = p
          BY DEF TablesInverse
    <3>2. \A p \in N : ino(p) \in I /\ new_path(ps, ino(p)) = p
          BY <1>1, <1>5
    <3> QED BY <1>9, <1>11, <1>12, <3>1, <3>2
  <2> QED BY <1>10, <2>1, <2>2, <2>3 DEF TablesInverse
<1>14. DOMAIN path_map' = DOMAIN path_map \cup {ps[i] : i \in DOMAIN ps}
       BY <1>6, <1>12
<1>15. \A i \in Inodes' \ Inodes : \E j \in DOMAIN ps : inode_map'[i] = ps[j] /\ ps[j] \notin DOMAIN path_map
       BY <1>4, <1>5, <1>6, <1>9, <1>11
<1> QED BY <1>1, <1>2, <1>7, <1>9, <1>11, <1>12, <1>13, <1>14, <1>15 DEF c

----------------------------------------------------------------------------
(* Paths.                                                                  *)

\* The names of a path of two.
LEMMA TwoNames ==
    ASSUME NEW x, NEW y
    PROVE  /\ Append(<<x>>, y) \in Seq({x, y})
           /\ Len(Append(<<x>>, y)) = 2
           /\ Append(<<x>>, y)[1] = x /\ Append(<<x>>, y)[2] = y
<1>1. <<x>> \in Seq({x, y}) /\ Len(<<x>>) = 1 /\ y \in {x, y}
      OBVIOUS
<1> QED BY <1>1

\* The names of a path of three.
LEMMA ThreeNames ==
    ASSUME NEW x, NEW y, NEW z
    PROVE  LET p == Append(Append(<<x>>, y), z)
           IN  Len(p) = 3 /\ p[1] = x /\ p[2] = y /\ p[3] = z
<1> DEFINE s == Append(<<x>>, y)
<1>1. s \in Seq({x, y, z}) /\ z \in {x, y, z}
  <2>1. <<x>> \in Seq({x, y, z}) /\ y \in {x, y, z}
        OBVIOUS
  <2> QED BY <2>1
<1>2. Len(s) = 2 /\ s[1] = x /\ s[2] = y
      BY TwoNames
<1> HIDE DEF s
<1>3. /\ Len(Append(s, z)) = Len(s) + 1
      /\ \A i \in 1 .. Len(s) : Append(s, z)[i] = s[i]
      /\ Append(s, z)[Len(s) + 1] = z
      BY <1>1
<1>4. Len(Append(s, z)) = 3 /\ Append(s, z)[1] = x /\ Append(s, z)[2] = y /\ Append(s, z)[3] = z
      BY <1>2, <1>3
<1> QED BY <1>4 DEF s

\* A path of several names is none of the fixed ones.
LEMMA DifferentPaths ==
    ASSUME NEW p, Len(p) > 1
    PROVE  p \notin {Root, Accounts, Transactions, Docs}
<1>1. Len(Root) = 0 /\ Len(Accounts) = 1 /\ Len(Transactions) = 1 /\ Len(Docs) = 1
      BY DEF Root, Accounts, Transactions, Docs
<1>2. ~(0 > 1) /\ ~(1 > 1)
      OBVIOUS
<1> QED BY <1>1, <1>2, Zenon

\* What account_path and the other generators write for an id, the parsers and
\* the classification of path_resolver.rs read back, whatever the spelling.
LEMMA PathsReadBack == ASSUME NEW id \in Ids PROVE ReadBack(id)
<1> DEFINE a == account_path(id)
           b == balance_path(id)
           l == transaction_log_path(id)
           t == transaction_path(id)
           dir == Dir(Spelling[id])
           json == Name(Spelling[id], ".json")
<1>1. Spelling[id] \in Stems /\ Uuid[Spelling[id]] = id /\ id # NoId
      BY PathResolverAssumption
<1>2. dir.stem = Spelling[id] /\ dir.ext = "" /\ json.stem = Spelling[id] /\ json.ext = ".json"
      BY DEF Dir, Name
<1>3. parse_str(dir) = id /\ Dir(json.stem) = dir
      BY <1>1, <1>2 DEF parse_str
<1>4. Len(a) = 2 /\ a[1] = Dir("accounts") /\ a[2] = dir
      BY TwoNames DEF account_path, Accounts
<1>5. Len(b) = 3 /\ b[1] = Dir("accounts") /\ b[2] = dir /\ b[3] = BalanceFile
      BY ThreeNames DEF balance_path, account_path, Accounts
<1>6. Len(l) = 3 /\ l[1] = Dir("accounts") /\ l[2] = dir /\ l[3] = TxFile
      BY ThreeNames DEF transaction_log_path, account_path, Accounts
<1>7. Len(t) = 2 /\ t[1] = Dir("transactions") /\ t[2] = json
      BY TwoNames DEF transaction_path, Transactions
<1> HIDE DEF a, b, l, t, dir, json
<1>8. Dir("accounts") # Dir("transactions") /\ Dir("accounts") # Dir("docs")
      /\ Dir("transactions") # Dir("docs")
      BY DEF Dir, Name
<1>9. \A p \in {a, b, l} : /\ starts_with(p, Accounts) /\ ~starts_with(p, Transactions)
                            /\ ~starts_with(p, Docs) /\ p[2] = dir
      BY <1>4, <1>5, <1>6, <1>8 DEF starts_with, Accounts, Transactions, Docs
<1>10. starts_with(t, Transactions) /\ ~starts_with(t, Accounts) /\ ~starts_with(t, Docs)
      BY <1>7, <1>8 DEF starts_with, Accounts, Transactions, Docs
<1>11. \A p \in {a, b, l} : parse_account_id(p) = id /\ parse_transaction_id(p) = NoId
      BY <1>3, <1>9 DEF parse_account_id, parse_transaction_id
<1>12. parse_transaction_id(t) = id /\ parse_account_id(t) = NoId
      BY <1>2, <1>3, <1>7, <1>10 DEF parse_account_id, parse_transaction_id
<1>13. \A p \in {a, b, l, t} : p # Root
      BY <1>4, <1>5, <1>6, <1>7, DifferentPaths
<1>14. is_valid_file(b) /\ is_valid_file(l) /\ is_valid_file(t)
      BY <1>2, <1>5, <1>6, <1>7, <1>10, <1>13 DEF is_valid_file, ends_with, ends_with_ext
<1>15. ~is_directory(b) /\ ~is_directory(l) /\ ~is_directory(t)
      BY <1>5, <1>6, <1>7, <1>10, DifferentPaths DEF is_directory
<1>16. is_directory(a)
      BY <1>4, <1>9 DEF is_directory
<1>17. ~is_valid_file(a)
  <2>1. dir # BalanceFile /\ dir # TxFile /\ dir # SnapshotFile
    <3>1. BalanceFile.ext = ".json" /\ TxFile.ext = ".log" /\ SnapshotFile.ext = ".json"
          BY DEF BalanceFile, TxFile, SnapshotFile, Name
    <3> QED BY <1>2, <3>1
  <2> QED BY <1>4, <1>9, <2>1 DEF is_valid_file, ends_with
<1> QED BY <1>11, <1>12, <1>14, <1>15, <1>16, <1>17 DEF ReadBack, a, b, l, t

\* The file types of get_file_type for what the generators write, and those of
\* the generators that the handlers do not use: a snapshot belongs to its
\* account and is a Json file for any timestamp, a document of any type, entity
\* and name is no directory, and a valid file if its name says Json or Pdf.
THEOREM GeneratedFileTypes ==
    ASSUME NEW id \in Ids, NEW stem \in Stems, NEW type, NEW entity, NEW name
    PROVE  /\ get_file_type(account_path(id)) = "Directory"
           /\ get_file_type(balance_path(id)) = "Json"
           /\ get_file_type(transaction_log_path(id)) = "Log"
           /\ get_file_type(transaction_path(id)) = "Json"
           /\ get_file_type(snapshot_path(id, stem)) = "Json"
           /\ parse_account_id(snapshot_path(id, stem)) = id
           /\ ~is_directory(document_path(type, entity, name))
           /\ name.ext \in {".json", ".pdf"} => is_valid_file(document_path(type, entity, name))
<1> DEFINE b == balance_path(id)
           l == transaction_log_path(id)
           t == transaction_path(id)
           s == snapshot_path(id, stem)
           d == document_path(type, entity, name)
           dir == Dir(Spelling[id])
<1>1. Len(b) = 3 /\ b[3] = BalanceFile
      BY ThreeNames DEF balance_path, account_path, Accounts
<1>2. Len(l) = 3 /\ l[3] = TxFile
      BY ThreeNames DEF transaction_log_path, account_path, Accounts
<1>3. Len(t) = 2 /\ t[2] = Name(Spelling[id], ".json")
      BY TwoNames DEF transaction_path, Transactions
<1>4. Len(s) = 3 /\ s[1] = Dir("accounts") /\ s[2] = dir /\ s[3] = Name(stem, ".json")
      BY ThreeNames DEF snapshot_path, account_path, Accounts
<1>5. Len(d) = 4 /\ d[1] = Dir("docs") /\ d[4] = name
      BY DEF document_path, Docs
<1>6. parse_str(dir) = id
  <2>1. Spelling[id] \in Stems /\ Uuid[Spelling[id]] = id
        BY PathResolverAssumption
  <2> QED BY <2>1 DEF parse_str, Dir, Name
<1>7. /\ BalanceFile.ext = ".json" /\ TxFile.ext = ".log"
      /\ Name(Spelling[id], ".json").ext = ".json" /\ Name(stem, ".json").ext = ".json"
      BY DEF BalanceFile, TxFile, Name
<1>8. is_directory(account_path(id)) /\ ~is_directory(b) /\ ~is_directory(l) /\ ~is_directory(t)
      BY PathsReadBack DEF ReadBack
<1> HIDE DEF b, l, t, s, d, dir
<1>9. b # Root /\ l # Root /\ t # Root /\ s # Root /\ d # Root
      BY <1>1, <1>2, <1>3, <1>4, <1>5, DifferentPaths
<1>10. ~is_directory(s) /\ ~is_directory(d)
      BY <1>4, <1>5, DifferentPaths DEF is_directory
<1>11. /\ \A p \in {b, t, s}, ext \in {".json", ".log", ".pdf"} : ends_with_ext(p, ext) <=> ext = ".json"
       /\ \A ext \in {".json", ".log", ".pdf"} : ends_with_ext(l, ext) <=> ext = ".log"
      BY <1>1, <1>2, <1>3, <1>4, <1>7, <1>9 DEF ends_with_ext
<1>12. get_file_type(account_path(id)) = "Directory"
      BY <1>8 DEF get_file_type
<1>13. get_file_type(b) = "Json" /\ get_file_type(t) = "Json" /\ get_file_type(s) = "Json"
      BY <1>8, <1>10, <1>11 DEF get_file_type
<1>14. get_file_type(l) = "Log"
      BY <1>8, <1>11 DEF get_file_type
<1>15. parse_account_id(s) = id
      BY <1>4, <1>6 DEF parse_account_id, starts_with, Accounts
<1>16. name.ext \in {".json", ".pdf"} => is_valid_file(d)
  <2>1. starts_with(d, Docs)
        BY <1>5 DEF starts_with, Docs
  <2>2. ends_with_ext(d, name.ext)
        BY <1>5, <1>9 DEF ends_with_ext
  <2> QED BY <2>1, <2>2 DEF is_valid_file
<1> QED BY <1>10, <1>12, <1>13, <1>14, <1>15, <1>16 DEF b, l, t, s, d

\* A path and the name below it.
LEMMA ParentOf ==
    ASSUME NEW S, NEW path \in Seq(S), NEW name \in S
    PROVE  LET p == Append(path, name)
           IN  /\ p \in Seq(S) /\ Len(p) = Len(path) + 1 /\ p # Root
               /\ SubSeq(p, 1, Len(p) - 1) = path /\ p[Len(p)] = name
               /\ \A i \in 1 .. Len(path) : p[i] = path[i]
<1> DEFINE p == Append(path, name)
<1>1. /\ p \in Seq(S) /\ Len(p) = Len(path) + 1 /\ Len(path) \in Nat
      /\ p[Len(path) + 1] = name /\ \A i \in 1 .. Len(path) : p[i] = path[i]
      OBVIOUS
<1> HIDE DEF p
<1>2. p # Root /\ Len(p) - 1 = Len(path)
      BY <1>1 DEF Root
<1>3. SubSeq(p, 1, Len(path)) = path
  <2>1. /\ SubSeq(p, 1, Len(path)) \in Seq(S) /\ Len(SubSeq(p, 1, Len(path))) = Len(path)
        /\ \A i \in 1 .. Len(path) : SubSeq(p, 1, Len(path))[i] = p[i]
        BY <1>1
  <2> QED BY <1>1, <2>1
<1> QED BY <1>1, <1>2, <1>3 DEF p

\* The paths that the filesystem is made with, and their names.
LEMMA FixedPaths ==
    /\ Root \in Seq(Names) /\ Accounts \in Seq(Names) /\ Transactions \in Seq(Names) /\ Docs \in Seq(Names)
    /\ Accounts = Append(Root, Dir("accounts")) /\ Transactions = Append(Root, Dir("transactions"))
    /\ Docs = Append(Root, Dir("docs"))
    /\ BalanceFile \in Names /\ TxFile \in Names /\ BalanceFile # TxFile
    /\ \A id \in Ids : Dir(Spelling[id]) \in Names
    /\ \A i, j \in 1 .. 4 : Fixed[i] = Fixed[j] => i = j
<1>1. \A stem \in Stems, ext \in Extensions : Name(stem, ext) \in Names
      BY DEF Name, Names
<1>2. /\ Dir("accounts") \in Names /\ Dir("transactions") \in Names /\ Dir("docs") \in Names
      /\ BalanceFile \in Names /\ TxFile \in Names /\ \A id \in Ids : Dir(Spelling[id]) \in Names
      BY <1>1, PathResolverAssumption DEF Dir, BalanceFile, TxFile, Extensions
<1>3. BalanceFile # TxFile
      BY DEF BalanceFile, TxFile, Name
<1>4. Dir("accounts") # Dir("transactions") /\ Dir("accounts") # Dir("docs") /\ Dir("transactions") # Dir("docs")
      BY DEF Dir, Name
<1> HIDE DEF Dir
<1>5. \A n : Append(<<>>, n) = <<n>>
      OBVIOUS
<1>6. Len(Root) = 0 /\ Len(Accounts) = 1 /\ Len(Transactions) = 1 /\ Len(Docs) = 1
      BY DEF Root, Accounts, Transactions, Docs
<1>7. Accounts[1] = Dir("accounts") /\ Transactions[1] = Dir("transactions") /\ Docs[1] = Dir("docs")
      BY DEF Accounts, Transactions, Docs
<1>8. Fixed[1] = Root /\ Fixed[2] = Accounts /\ Fixed[3] = Transactions /\ Fixed[4] = Docs
      BY DEF Fixed
<1>9. \A i, j \in 1 .. 4 : Fixed[i] = Fixed[j] => i = j
  <2>1. \A i \in 1 .. 4 : i \in {1, 2, 3, 4}
        OBVIOUS
  <2> QED BY <1>4, <1>6, <1>7, <1>8, <2>1
<1>10. Root \in Seq(Names) /\ Accounts \in Seq(Names) /\ Transactions \in Seq(Names) /\ Docs \in Seq(Names)
      BY <1>2 DEF Root, Accounts, Transactions, Docs
<1> QED BY <1>2, <1>3, <1>5, <1>9, <1>10 DEF Root, Accounts, Transactions, Docs

\* account_path gives every account a path of its own, below /accounts.
LEMMA AccountPaths ==
    /\ \A id \in Ids : /\ account_path(id) \in Seq(Names) /\ account_path(id) # Root
                       /\ SubSeq(account_path(id), 1, Len(account_path(id)) - 1) = Accounts
                       /\ Len(account_path(id)) = 2 /\ account_path(id)[2] = Dir(Spelling[id])
                       /\ account_path(id)[1] = Dir("accounts")
    /\ \A id, jd \in Ids : account_path(id) = account_path(jd) => id = jd
<1>1. ASSUME NEW id \in Ids
      PROVE  /\ account_path(id) \in Seq(Names) /\ account_path(id) # Root
             /\ SubSeq(account_path(id), 1, Len(account_path(id)) - 1) = Accounts
             /\ Len(account_path(id)) = 2 /\ account_path(id)[2] = Dir(Spelling[id])
             /\ account_path(id)[1] = Dir("accounts")
  <2> DEFINE n == Dir(Spelling[id])
             a == Append(Accounts, n)
  <2>1. n \in Names /\ Accounts \in Seq(Names)
        BY FixedPaths
  <2> HIDE DEF n
  <2>2. /\ a \in Seq(Names) /\ a # Root /\ SubSeq(a, 1, Len(a) - 1) = Accounts
        BY <2>1, ParentOf
  <2>3. Len(a) = 2 /\ a[1] = Dir("accounts") /\ a[2] = n
        BY TwoNames DEF Accounts
  <2> QED BY <2>2, <2>3 DEF account_path, n
<1>2. ASSUME NEW id \in Ids, NEW jd \in Ids, account_path(id) = account_path(jd) PROVE id = jd
  <2>1. Spelling[id] = Spelling[jd]
    <3>1. Dir(Spelling[id]) = Dir(Spelling[jd])
          BY <1>1, <1>2
    <3>2. \A stem : Dir(stem).stem = stem
          BY DEF Dir, Name
    <3> QED BY <3>1, <3>2
  <2>2. Uuid[Spelling[id]] = id /\ Uuid[Spelling[jd]] = jd
        BY PathResolverAssumption
  <2> QED BY <2>1, <2>2
<1> QED BY <1>1, <1>2

----------------------------------------------------------------------------
(* The invariant of the tables.                                            *)

\* What find_accounts returns, and the versions of the data.
RepoInv ==
    /\ accounts \in Seq(Ids) /\ IsInjective(accounts)
    /\ balances \in [Ids -> Nat]

\* The inverse tables, with the paths of new() in their places and the parent of
\* each path.
TablesInv ==
    /\ TablesInverse
    /\ next_inode \in 5 .. (MaxInode + 1)
    /\ \A i \in 1 .. 4 : inode_map[i] = Fixed[i]
    /\ \A i \in Inodes : inode_map[i] \in Seq(Names)
    /\ \A p \in DOMAIN path_map \ {Root} : SubSeq(p, 1, Len(p) - 1) \in DOMAIN path_map

\* The tables are those of LedgerFilesystem::new.
Fresh == inode_map = NewInodeMap /\ path_map = NewPathMap /\ next_inode = NewNextInode

\* New tables have the invariant.
LEMMA FreshTables == Fresh => TablesInv
<1> SUFFICES ASSUME Fresh PROVE TablesInv
    OBVIOUS
<1>1. next_inode = 5 /\ Inodes = 1 .. 4 /\ \A i \in 1 .. 4 : inode_map[i] = Fixed[i]
      BY DEF Fresh, NewNextInode, NewInodeMap, Inodes
<1>2. next_inode \in Nat \ {0} /\ Inodes = 1 .. (next_inode - 1) /\ next_inode \in 5 .. (MaxInode + 1)
  <2>1. MaxInode \in Nat /\ MaxInode > 3
        BY LedgerFilesystemAssumption
  <2> QED BY <1>1, <2>1
<1>3. Fixed[1] = Root /\ Fixed[2] = Accounts /\ Fixed[3] = Transactions /\ Fixed[4] = Docs
      /\ DOMAIN Fixed = 1 .. 4
      BY DEF Fixed
<1>4. \A i \in 1 .. 4 : Fixed[i] \in Seq(Names)
  <2>1. \A i \in 1 .. 4 : i \in {1, 2, 3, 4}
        OBVIOUS
  <2> QED BY <1>3, <2>1, FixedPaths
<1>5. \A i \in 1 .. 4 : InodeOfFixed(Fixed[i]) = i
      BY <1>3, FixedPaths DEF InodeOfFixed
<1>6. DOMAIN path_map = {Fixed[i] : i \in 1 .. 4} /\ \A i \in 1 .. 4 : path_map[Fixed[i]] = i
      BY <1>5 DEF Fresh, NewPathMap
<1>7. TablesInverse
      BY <1>1, <1>2, <1>6 DEF TablesInverse
<1>8. \A p \in DOMAIN path_map \ {Root} : SubSeq(p, 1, Len(p) - 1) \in DOMAIN path_map
  <2>1. /\ SubSeq(Accounts, 1, Len(Accounts) - 1) = Root
        /\ SubSeq(Transactions, 1, Len(Transactions) - 1) = Root
        /\ SubSeq(Docs, 1, Len(Docs) - 1) = Root
        BY DEF Accounts, Transactions, Docs, Root
  <2>2. \A i \in 1 .. 4 : i \in {1, 2, 3, 4}
        OBVIOUS
  <2>3. Root \in DOMAIN path_map
        BY <1>3, <1>6
  <2>4. DOMAIN path_map \ {Root} \subseteq {Accounts, Transactions, Docs}
        BY <1>3, <1>6, <2>2
  <2> QED BY <2>1, <2>3, <2>4
<1> QED BY <1>1, <1>2, <1>4, <1>7, <1>8 DEF TablesInv

\* The paths that readdir asks inodes for are distinct and lie in the directory
\* that is listed.
LEMMA ListedPaths ==
    ASSUME RepoInv, NEW path \in Seq(Names), NEW repo_ok \in BOOLEAN
    PROVE  LET ps == listed_paths(path, repo_ok)
           IN  /\ ps \in Seq(Seq(Names)) /\ IsInjective(ps)
               /\ \A i \in DOMAIN ps : SubSeq(ps[i], 1, Len(ps[i]) - 1) = path
<1> DEFINE ps == listed_paths(path, repo_ok)
<1>0. Len(accounts) \in Nat /\ DOMAIN accounts = 1 .. Len(accounts) /\ \A i \in DOMAIN accounts : accounts[i] \in Ids
      BY DEF RepoInv
<1>1. CASE path = Accounts /\ repo_ok
  <2>0. ~SecondLevel(path, Accounts)
        BY <1>1 DEF SecondLevel, Accounts
  <2>1. ps = [i \in DOMAIN accounts |-> account_path(accounts[i])]
        BY <1>1, <2>0 DEF listed_paths
  <2>2. ps \in Seq(Seq(Names))
        BY <1>0, <2>1, AccountPaths
  <2>3. \A i, j \in DOMAIN ps : ps[i] = ps[j] => i = j
        BY <1>0, <2>1, AccountPaths DEF RepoInv, IsInjective
  <2>4. ASSUME NEW i \in DOMAIN ps PROVE SubSeq(ps[i], 1, Len(ps[i]) - 1) = path
    <3>1. accounts[i] \in Ids /\ ps[i] = account_path(accounts[i])
          BY <1>0, <2>1
    <3>2. SubSeq(account_path(accounts[i]), 1, Len(account_path(accounts[i])) - 1) = Accounts
          BY <3>1, AccountPaths
    <3> QED BY <1>1, <3>1, <3>2
  <2>5. IsInjective(ps)
        BY <2>3 DEF IsInjective
  <2> HIDE DEF ps
  <2> QED BY <2>2, <2>4, <2>5 DEF ps
<1>2. CASE ~(path = Accounts /\ repo_ok) /\ SecondLevel(path, Accounts)
  <2> DEFINE b == Append(path, BalanceFile)
             t == Append(path, TxFile)
  <2>1. path # Accounts
        BY <1>2 DEF SecondLevel, Accounts
  <2>2. ps = <<b, t>>
        BY <1>2, <2>1 DEF listed_paths
  <2>3. /\ b \in Seq(Names) /\ t \in Seq(Names) /\ b[Len(b)] = BalanceFile /\ t[Len(t)] = TxFile
        /\ SubSeq(b, 1, Len(b) - 1) = path /\ SubSeq(t, 1, Len(t) - 1) = path
        BY FixedPaths, ParentOf
  <2>4. b # t
        BY <2>3, FixedPaths
  <2> HIDE DEF b, t
  <2>5. DOMAIN ps = {1, 2} /\ ps[1] = b /\ ps[2] = t /\ ps \in Seq(Seq(Names))
        BY <2>2, <2>3
  <2> HIDE DEF ps
  <2>6. \A i, j \in {1, 2} : ps[i] = ps[j] => i = j
        BY <2>4, <2>5
  <2>7. \A i \in {1, 2} : SubSeq(ps[i], 1, Len(ps[i]) - 1) = path
        BY <2>3, <2>5
  <2> QED BY <2>5, <2>6, <2>7 DEF IsInjective, ps
<1>3. CASE ~(path = Accounts /\ repo_ok) /\ ~SecondLevel(path, Accounts)
  <2>1. ps = <<>>
        BY <1>3 DEF listed_paths
  <2> QED BY <2>1 DEF IsInjective
<1> QED BY <1>1, <1>2, <1>3

\* Giving inodes to paths whose parents are known keeps the invariant, and what
\* was in the tables.
LEMMA TablesGrow ==
    ASSUME TablesInv, NEW ps \in Seq(Seq(Names)), IsInjective(ps), get_or_create_inodes(ps),
           \A i \in DOMAIN ps : SubSeq(ps[i], 1, Len(ps[i]) - 1) \in DOMAIN path_map,
           next_inode + Cardinality(NewPaths(ps)) <= MaxInode + 1
    PROVE  /\ TablesInv' /\ Inodes \subseteq Inodes' /\ DOMAIN path_map \subseteq DOMAIN path_map'
           /\ \A i \in DOMAIN ps : ps[i] \in DOMAIN path_map' /\ path_map'[ps[i]] = inode_of(ps, i)
           /\ \A i \in Inodes : inode_map'[i] = inode_map[i]
           /\ \A p \in DOMAIN path_map : path_map'[p] = path_map[p]
<1>1. /\ TablesInverse'
      /\ next_inode' = next_inode + Cardinality(NewPaths(ps)) /\ Cardinality(NewPaths(ps)) \in Nat
      /\ Inodes \subseteq Inodes'
      /\ DOMAIN path_map' = DOMAIN path_map \cup {ps[i] : i \in DOMAIN ps}
      /\ \A i \in Inodes : inode_map'[i] = inode_map[i]
      /\ \A p \in DOMAIN path_map : path_map'[p] = path_map[p]
      /\ \A i \in DOMAIN ps : path_map'[ps[i]] = inode_of(ps, i)
      /\ \A i \in Inodes' \ Inodes : \E j \in DOMAIN ps : inode_map'[i] = ps[j] /\ ps[j] \notin DOMAIN path_map
      BY PathsInserted DEF TablesInv
<1>2. MaxInode \in Nat /\ next_inode \in Nat /\ next_inode >= 5
      BY LedgerFilesystemAssumption DEF TablesInv
<1>3. next_inode' \in 5 .. (MaxInode + 1)
      BY <1>1, <1>2
<1>4. \A i \in 1 .. 4 : inode_map'[i] = Fixed[i]
  <2>1. 1 .. 4 \subseteq Inodes
        BY <1>2 DEF TablesInv, TablesInverse
  <2> QED BY <1>1, <2>1 DEF TablesInv
<1>5. \A i \in Inodes' : inode_map'[i] \in Seq(Names)
  <2>1. \A i \in DOMAIN ps : ps[i] \in Seq(Names)
        OBVIOUS
  <2> QED BY <1>1, <2>1 DEF TablesInv
<1>6. \A p \in DOMAIN path_map' \ {Root} : SubSeq(p, 1, Len(p) - 1) \in DOMAIN path_map'
      BY <1>1 DEF TablesInv
<1> QED BY <1>1, <1>3, <1>4, <1>5, <1>6 DEF TablesInv

\* What every request does to the tables: it keeps the invariant, and every inode
\* and path that is known.
LEMMA RequestTables ==
    ASSUME TablesInv, RepoInv, cursor.state = "open" => cursor.ino \in Inodes, Request
    PROVE  /\ TablesInv' /\ Inodes \subseteq Inodes' /\ DOMAIN path_map \subseteq DOMAIN path_map'
           /\ \A i \in Inodes : inode_map'[i] = inode_map[i]
           /\ \A p \in DOMAIN path_map : path_map'[p] = path_map[p]
           /\ UNCHANGED repoVars
<1> DEFINE Kept == /\ TablesInv' /\ Inodes \subseteq Inodes' /\ DOMAIN path_map \subseteq DOMAIN path_map'
                   /\ \A i \in Inodes : inode_map'[i] = inode_map[i]
                   /\ \A p \in DOMAIN path_map : path_map'[p] = path_map[p]
                   /\ UNCHANGED repoVars
<1> USE DEF repoVars, tables
<1>0. \A i \in Inodes : inode_map[i] \in Seq(Names) /\ inode_map[i] \in DOMAIN path_map
      BY DEF TablesInv, TablesInverse
<1>1. ASSUME UNCHANGED <<tables, repoVars>> PROVE Kept
      BY <1>1 DEF TablesInv, TablesInverse, Inodes
<1>2. ASSUME NEW parent \in Inodes, NEW name \in LookupNames, lookup(parent, name) PROVE Kept
  <2> DEFINE path == inode_map[parent]
             p    == Append(path, name)
             ps   == <<p>>
  <2>1. path \in Seq(Names) /\ path \in DOMAIN path_map /\ name \in Names
        BY <1>0, LedgerFilesystemAssumption
  <2>2. p \in Seq(Names) /\ SubSeq(p, 1, Len(p) - 1) = path
        BY <2>1, ParentOf
  <2>3. /\ get_or_create_inodes(ps) /\ next_inode <= MaxInode /\ UNCHANGED repoVars
        BY <1>2 DEF lookup
  <2> HIDE DEF p
  <2>4. ps \in Seq(Seq(Names)) /\ DOMAIN ps = {1} /\ ps[1] = p
        BY <2>2
  <2> HIDE DEF ps
  <2>5. IsInjective(ps) /\ \A i \in DOMAIN ps : SubSeq(ps[i], 1, Len(ps[i]) - 1) \in DOMAIN path_map
        BY <2>1, <2>2, <2>4 DEF IsInjective
  <2>6. next_inode + Cardinality(NewPaths(ps)) <= MaxInode + 1
    <3>1. NewPaths(ps) \subseteq {p}
          BY <2>4, <2>5, PositionOf
    <3>2. IsFiniteSet({p}) /\ Cardinality({p}) = 1
          BY FS_Singleton
    <3>3. Cardinality(NewPaths(ps)) <= 1 /\ Cardinality(NewPaths(ps)) \in Nat
          BY <3>1, <3>2, FS_Subset, FS_CardinalityType
    <3>4. MaxInode \in Nat /\ next_inode \in Nat
          BY LedgerFilesystemAssumption DEF TablesInv
    <3> QED BY <2>3, <3>3, <3>4
  <2> QED BY <2>3, <2>4, <2>5, <2>6, TablesGrow
<1>3. ASSUME NEW n \in 1 .. 2, NEW repo_ok \in BOOLEAN, readdir(n, repo_ok) PROVE Kept
  <2> DEFINE path == inode_map[cursor.ino]
             ps   == listed_paths(path, repo_ok)
  <2>1. cursor.ino \in Inodes /\ UNCHANGED repoVars /\ next_inode + Cardinality(NewPaths(ps)) <= MaxInode + 1
        BY <1>3 DEF readdir
  <2>2. CASE can_list(path)
    <3>1. get_or_create_inodes(ps)
          BY <1>3, <2>2 DEF readdir
    <3>2. path \in Seq(Names) /\ path \in DOMAIN path_map
          BY <1>0, <2>1
    <3> HIDE DEF path
    <3>3. /\ ps \in Seq(Seq(Names)) /\ IsInjective(ps)
          /\ \A i \in DOMAIN ps : SubSeq(ps[i], 1, Len(ps[i]) - 1) = path
          BY <3>2, ListedPaths
    <3> HIDE DEF ps
    <3>4. \A i \in DOMAIN ps : SubSeq(ps[i], 1, Len(ps[i]) - 1) \in DOMAIN path_map
          BY <3>2, <3>3
    <3> QED BY <2>1, <3>1, <3>3, <3>4, TablesGrow
  <2>3. CASE ~can_list(path)
        BY <1>1, <1>3, <2>3 DEF readdir
  <2> QED BY <2>2, <2>3
<1>4. ASSUME NEW ino \in Inodes, Open(ino) PROVE Kept
      BY <1>1, <1>4 DEF Open
<1>5. ASSUME NEW n \in 1 .. 2, NEW repo_ok \in BOOLEAN, read(n, repo_ok) PROVE Kept
      BY <1>1, <1>5 DEF read
<1> QED BY <1>2, <1>3, <1>4, <1>5 DEF Request

\* The repositories keep their types, and no account is listed twice.
LEMMA RepositoryInv == RepoInv /\ RepositoryStep => RepoInv'
<1> SUFFICES ASSUME RepoInv, RepositoryStep PROVE RepoInv'
    OBVIOUS
<1>1. ASSUME NEW id \in Ids, NEW i \in 1 .. (Len(accounts) + 1), AccountAdded(id, i) PROVE RepoInv'
  <2> DEFINE s == SubSeq(accounts, 1, i - 1)
             t == SubSeq(accounts, i, Len(accounts))
             u == s \o <<id>>
  <2>0. accounts \in Seq(Ids) /\ Len(accounts) \in Nat /\ DOMAIN accounts = 1 .. Len(accounts)
        BY DEF RepoInv
  <2>1. /\ s \in Seq(Ids) /\ Len(s) = i - 1 /\ \A k \in 1 .. (i - 1) : s[k] = accounts[k]
        BY <2>0
  <2>2. /\ t \in Seq(Ids) /\ Len(t) = Len(accounts) - i + 1
        /\ \A k \in 1 .. (Len(accounts) - i + 1) : t[k] = accounts[k + i - 1]
        BY <2>0
  <2> HIDE DEF s, t
  <2>3. /\ u \in Seq(Ids) /\ Len(u) = i /\ u[i] = id /\ \A k \in 1 .. (i - 1) : u[k] = accounts[k]
    <3>1. <<id>> \in Seq(Ids) /\ Len(<<id>>) = 1 /\ <<id>>[1] = id
          OBVIOUS
    <3> QED BY <2>1, <3>1
  <2>4. accounts' = u \o t
        BY <1>1 DEF AccountAdded, s, t
  <2> HIDE DEF u
  <2>5. /\ accounts' \in Seq(Ids) /\ Len(accounts') = Len(accounts) + 1
        /\ \A k \in 1 .. (i - 1) : accounts'[k] = accounts[k]
        /\ accounts'[i] = id
        /\ \A k \in (i + 1) .. (Len(accounts) + 1) : accounts'[k] = accounts[k - 1]
    <3>1. accounts' \in Seq(Ids) /\ Len(accounts') = Len(u) + Len(t)
      <4>1. u \in Seq(Ids) /\ t \in Seq(Ids)
            BY <2>2, <2>3
      <4> QED BY <2>4, <4>1, ConcatProperties
    <3>2. Len(accounts') = Len(accounts) + 1
          BY <2>0, <2>2, <2>3, <3>1
    <3>3. \A k \in 1 .. i : accounts'[k] = u[k]
          BY <2>2, <2>3, <2>4
    <3>4. ASSUME NEW k \in (i + 1) .. (Len(accounts) + 1) PROVE accounts'[k] = accounts[k - 1]
      <4>1. k - i \in 1 .. Len(t) /\ k = Len(u) + (k - i) /\ (k - i) + i - 1 = k - 1
        <5>1. Len(t) = Len(accounts) - i + 1 /\ Len(u) = i /\ Len(accounts) \in Nat /\ i \in Int
              BY <2>0, <2>2, <2>3
        <5> QED BY <5>1
      <4>2. accounts'[k] = t[k - i]
            BY <2>2, <2>3, <2>4, <4>1
      <4>3. k - i \in 1 .. (Len(accounts) - i + 1)
            BY <2>2, <4>1
      <4> QED BY <2>2, <4>1, <4>2, <4>3
    <3>5. /\ \A k \in 1 .. (i - 1) : accounts'[k] = accounts[k]
          /\ accounts'[i] = id
      <4>1. i \in 1 .. i /\ \A k \in 1 .. (i - 1) : k \in 1 .. i
            OBVIOUS
      <4> QED BY <2>3, <3>3, <4>1
    <3> QED BY <3>1, <3>2, <3>4, <3>5
  <2>6. \A k \in 1 .. Len(accounts) : accounts[k] # id
        BY <1>1, <2>0 DEF AccountAdded, RepositoryGrows, Range
  \* Where an account of the longer list was before.
  <2> DEFINE before(k) == IF k < i THEN k ELSE k - 1
  <2>7. IsInjective(accounts')
    <3>1. ASSUME NEW k \in 1 .. (Len(accounts) + 1), k # i
          PROVE  before(k) \in 1 .. Len(accounts) /\ accounts'[k] = accounts[before(k)]
      <4>1. CASE k < i
        <5>1. k \in 1 .. (i - 1) /\ k \in 1 .. Len(accounts)
              BY <2>0, <4>1
        <5> QED BY <2>5, <4>1, <5>1
      <4>2. CASE k > i
        <5>1. k \in (i + 1) .. (Len(accounts) + 1) /\ k - 1 \in 1 .. Len(accounts) /\ ~(k < i)
              BY <2>0, <4>2
        <5> QED BY <2>5, <5>1
      <4> QED BY <2>0, <3>1, <4>1, <4>2
    <3>2. \A k, l \in 1 .. (Len(accounts) + 1) : k # i /\ l # i /\ before(k) = before(l) => k = l
          BY <2>0
    <3> HIDE DEF before
    <3>3. ASSUME NEW k \in 1 .. (Len(accounts) + 1), NEW l \in 1 .. (Len(accounts) + 1),
                 accounts'[k] = accounts'[l]
          PROVE  k = l
      <4>1. CASE k # i /\ l # i
            BY <2>0, <3>1, <3>2, <3>3, <4>1 DEF RepoInv, IsInjective
      <4>2. CASE k = i /\ l # i
            BY <2>5, <2>6, <3>1, <3>3, <4>2
      <4>3. CASE k # i /\ l = i
            BY <2>5, <2>6, <3>1, <3>3, <4>3
      <4> QED BY <4>1, <4>2, <4>3
    <3>4. DOMAIN accounts' = 1 .. (Len(accounts) + 1)
          BY <2>5
    <3> QED BY <3>3, <3>4 DEF IsInjective
  <2> QED BY <1>1, <2>5, <2>7 DEF AccountAdded, RepoInv
<1>2. ASSUME NEW id \in Ids, BalanceChanged(id) PROVE RepoInv'
      BY <1>2 DEF BalanceChanged, RepoInv
<1> QED BY <1>1, <1>2 DEF RepositoryStep

----------------------------------------------------------------------------
(* What the handlers answer.                                               *)

\* Which paths a directory lists.
LEMMA ListedCases ==
    ASSUME RepoInv, NEW path, NEW repo_ok \in BOOLEAN
    PROVE  LET ps == listed_paths(path, repo_ok)
           IN  /\ path = Accounts /\ repo_ok =>
                      ps = [i \in DOMAIN accounts |-> account_path(accounts[i])]
               /\ SecondLevel(path, Accounts) =>
                      ps = <<Append(path, BalanceFile), Append(path, TxFile)>>
               /\ ~(path = Accounts /\ repo_ok) /\ ~SecondLevel(path, Accounts) => ps = <<>>
<1>1. ~SecondLevel(Accounts, Accounts)
      BY DEF SecondLevel, Accounts
<1>2. CASE path = Accounts /\ repo_ok
      BY <1>1, <1>2 DEF listed_paths
<1>3. CASE ~(path = Accounts /\ repo_ok) /\ SecondLevel(path, Accounts)
  <2>1. path # Accounts
        BY <1>1, <1>3
  <2> QED BY <1>3, <2>1 DEF listed_paths
<1>4. CASE ~(path = Accounts /\ repo_ok) /\ ~SecondLevel(path, Accounts)
      BY <1>4 DEF listed_paths
<1> QED BY <1>1, <1>2, <1>3, <1>4

\* The entries of a directory: the dots, and the fixed directories in the root or
\* what the directory lists.
LEMMA EntriesShape ==
    ASSUME RepoInv, NEW ino, inode_map[ino] \in Seq(Names), NEW repo_ok \in BOOLEAN
    PROVE  LET path == inode_map[ino]
               ps   == listed_paths(path, repo_ok)
               es   == readdir_entries(ino, repo_ok)
           IN  /\ \E S : es \in Seq(S)
               /\ Len(es) \in Nat /\ Len(es) >= 2
               /\ es[1] = Entry(Dir("."), ino, "Directory")
               /\ es[2] = Entry(Dir(".."), dotdot(path), "Directory")
               /\ path = Root =>
                      /\ Len(es) = 5
                      /\ \A i \in 1 .. 3 : es[i + 2] = Entry(Fixed[i + 1][1], i + 1, "Directory")
               /\ path # Root =>
                      /\ Len(es) = 2 + Len(ps) /\ Len(ps) \in Nat /\ DOMAIN ps = 1 .. Len(ps)
                      /\ \A i \in 1 .. Len(ps) :
                             es[i + 2] = Entry(ps[i][Len(ps[i])], inode_of(ps, i), Kind(path = Accounts))
<1> DEFINE path == inode_map[ino]
           ps   == listed_paths(path, repo_ok)
           es   == readdir_entries(ino, repo_ok)
           a    == Entry(Dir("."), ino, "Directory")
           b    == Entry(Dir(".."), dotdot(path), "Directory")
           R    == [i \in 1 .. 3 |-> Entry(Fixed[i + 1][1], i + 1, "Directory")]
           L    == [i \in DOMAIN ps |-> Entry(ps[i][Len(ps[i])], inode_of(ps, i), Kind(path = Accounts))]
           S    == {a, b} \cup {R[i] : i \in DOMAIN R} \cup {L[i] : i \in DOMAIN L}
<1>1. es = <<a, b>> \o (IF path = Root THEN R ELSE <<>>) \o L
      BY DEF readdir_entries
<1>2. ps \in Seq(Seq(Names)) /\ DOMAIN ps = 1 .. Len(ps) /\ Len(ps) \in Nat
      BY ListedPaths
<1>3. path = Root => ps = <<>>
  <2>1. Root # Accounts /\ ~SecondLevel(Root, Accounts)
        BY DEF Root, Accounts, SecondLevel
  <2> QED BY <2>1, ListedCases
<1>4. DOMAIN R = 1 .. 3 /\ DOMAIN L = 1 .. Len(ps)
      BY <1>2
<1>5. \A i \in 1 .. 3 : R[i] = Entry(Fixed[i + 1][1], i + 1, "Directory")
      OBVIOUS
<1>6. \A i \in 1 .. Len(ps) : L[i] = Entry(ps[i][Len(ps[i])], inode_of(ps, i), Kind(path = Accounts))
      BY <1>2
<1>7. R = [i \in 1 .. 3 |-> R[i]] /\ L = [i \in 1 .. Len(ps) |-> L[i]]
      BY <1>2
<1> HIDE DEF path, ps, es, a, b, R, L
<1>8. R \in Seq(S) /\ Len(R) = 3
      BY <1>4, <1>7
<1>9. L \in Seq(S) /\ Len(L) = Len(ps)
      BY <1>2, <1>4, <1>7
<1>10. /\ <<a, b>> \in Seq(S) /\ <<>> \in Seq(S)
       /\ Len(<<a, b>>) = 2 /\ <<a, b>>[1] = a /\ <<a, b>>[2] = b /\ Len(<<>>) = 0
       OBVIOUS
<1> HIDE DEF S
<1>11. ASSUME NEW t \in Seq(S), es = <<a, b>> \o t
       PROVE  /\ es \in Seq(S) /\ Len(es) = 2 + Len(t) /\ es[1] = a /\ es[2] = b
              /\ \A i \in 1 .. Len(t) : es[i + 2] = t[i]
  <2>1. /\ es \in Seq(S) /\ Len(es) = 2 + Len(t) /\ Len(t) \in Nat
        /\ \A i \in 1 .. 2 + Len(t) : es[i] = IF i <= 2 THEN <<a, b>>[i] ELSE t[i - 2]
        BY <1>10, <1>11, ConcatProperties
  <2>2. es[1] = a /\ es[2] = b
        BY <1>10, <2>1
  <2>3. ASSUME NEW i \in 1 .. Len(t) PROVE es[i + 2] = t[i]
    <3>1. i + 2 \in 1 .. 2 + Len(t) /\ ~(i + 2 <= 2) /\ (i + 2) - 2 = i
          BY <2>1
    <3> QED BY <2>1, <3>1
  <2> QED BY <2>1, <2>2, <2>3
<1>12. CASE path = Root
  <2>1. Len(L) = 0
        BY <1>3, <1>9, <1>10, <1>12
  <2>2. L = <<>>
        BY <1>9, <2>1, EmptySeq
  <2>3. <<a, b>> \o R \in Seq(S)
        BY <1>8, <1>10
  <2>4. es = <<a, b>> \o R
        BY <1>1, <1>12, <2>2, <2>3, ConcatEmptySeq
  <2>5. /\ es \in Seq(S) /\ Len(es) = 5 /\ es[1] = a /\ es[2] = b
        /\ \A i \in 1 .. 3 : es[i + 2] = R[i]
    <3>1. /\ es \in Seq(S) /\ Len(es) = 2 + Len(R) /\ es[1] = a /\ es[2] = b
          /\ \A i \in 1 .. Len(R) : es[i + 2] = R[i]
          BY <1>8, <1>11, <2>4, Zenon
    <3> QED BY <1>8, <3>1
  <2> QED BY <1>5, <1>12, <2>5 DEF path, ps, es, a, b
<1>13. CASE path # Root
  <2>1. es = <<a, b>> \o L
        BY <1>1, <1>10, <1>13, ConcatEmptySeq
  <2>2. /\ es \in Seq(S) /\ Len(es) = 2 + Len(ps) /\ es[1] = a /\ es[2] = b
        /\ \A i \in 1 .. Len(ps) : es[i + 2] = L[i]
        BY <1>9, <1>11, <2>1
  <2>3. Len(es) \in Nat /\ Len(es) >= 2
        BY <1>2, <2>2
  <2> QED BY <1>2, <1>6, <1>13, <2>2, <2>3 DEF path, ps, es, a, b
<1> QED BY <1>12, <1>13

\* The fixed paths that are directories below the root, and where they lie.
LEMMA FixedBelow ==
    \A i \in 1 .. 3 : /\ Fixed[i + 1] = Append(Root, Fixed[i + 1][1])
                      /\ Fixed[i + 1] \in {Accounts, Transactions, Docs}
                      /\ Fixed[i + 1][1] \notin {Dir("."), Dir("..")}
<1>1. Fixed[2] = Accounts /\ Fixed[3] = Transactions /\ Fixed[4] = Docs
      BY DEF Fixed
<1>2. /\ Accounts = Append(Root, Accounts[1]) /\ Transactions = Append(Root, Transactions[1])
      /\ Docs = Append(Root, Docs[1])
      BY DEF Accounts, Transactions, Docs, Root
<1>3. \A stem : Dir(stem).stem = stem
      BY DEF Dir, Name
<1>4. Accounts[1] = Dir("accounts") /\ Transactions[1] = Dir("transactions") /\ Docs[1] = Dir("docs")
      BY DEF Accounts, Transactions, Docs
<1>5. \A n \in {Dir("accounts"), Dir("transactions"), Dir("docs")} : n \notin {Dir("."), Dir("..")}
  <2>1. /\ "accounts" \notin {".", ".."} /\ "transactions" \notin {".", ".."} /\ "docs" \notin {".", ".."}
        BY PathResolverAssumption
  <2> QED BY <1>3, <2>1
<1>6. \A i \in 1 .. 3 : i \in {1, 2, 3} /\ (i = 1 => i + 1 = 2) /\ (i = 2 => i + 1 = 3) /\ (i = 3 => i + 1 = 4)
      OBVIOUS
<1> QED BY <1>1, <1>2, <1>4, <1>5, <1>6

\* Which paths are directories, for the resolver and in both replies.
LEMMA DirectoryKinds ==
    ASSUME NEW p
    PROVE  /\ p \in {Root, Accounts, Transactions, Docs} \/ SecondLevel(p, Accounts) =>
                  /\ getattr_kind(p) = "Directory" /\ Kind(is_directory(p)) = "Directory"
                  /\ p # Root => lookup_kind(p) = "Directory"
           /\ Len(p) > 2 => /\ getattr_kind(p) = "RegularFile" /\ Kind(is_directory(p)) = "RegularFile"
                            /\ lookup_kind(p) = "RegularFile"
           /\ (getattr_kind(p) = "Directory") = is_directory(p)
           /\ getattr_kind(p) \in {"Directory", "RegularFile"}
<1>1. p \in {Root, Accounts, Transactions, Docs} \/ SecondLevel(p, Accounts) =>
          /\ getattr_kind(p) = "Directory" /\ Kind(is_directory(p)) = "Directory"
          /\ p # Root => lookup_kind(p) = "Directory"
      BY DEF getattr_kind, lookup_kind, is_directory, Kind, SecondLevel
<1>2. ASSUME Len(p) > 2
      PROVE  /\ getattr_kind(p) = "RegularFile" /\ Kind(is_directory(p)) = "RegularFile"
             /\ lookup_kind(p) = "RegularFile"
  <2>1. p \notin {Root, Accounts, Transactions, Docs} /\ Len(p) # 2
    <3>1. Len(Root) = 0 /\ Len(Accounts) = 1 /\ Len(Transactions) = 1 /\ Len(Docs) = 1
          BY DEF Root, Accounts, Transactions, Docs
    <3>2. ~(0 > 2) /\ ~(1 > 2) /\ ~(2 > 2)
          OBVIOUS
    <3> QED BY <1>2, <3>1, <3>2, Zenon
  <2> QED BY <2>1 DEF getattr_kind, lookup_kind, is_directory, Kind, SecondLevel
<1>3. (getattr_kind(p) = "Directory") = is_directory(p)
      BY DEF getattr_kind, is_directory, Kind, SecondLevel
<1>4. getattr_kind(p) \in {"Directory", "RegularFile"}
      BY DEF getattr_kind, Kind
<1> QED BY <1>1, <1>2, <1>3, <1>4

\* What readdir lists, lookup and getattr describe in the same way.
LEMMA EntriesAgree == TablesInv /\ RepoInv => AnswersAgree
<1> SUFFICES ASSUME TablesInv, RepoInv, NEW ino \in Inodes, can_list(inode_map[ino]),
                    NEW k \in DOMAIN readdir_entries(ino, TRUE)
             PROVE  LET es == readdir_entries(ino, TRUE)
                        p  == EntryPath(inode_map[ino], es[k].name)
                    IN  /\ p \in DOMAIN path_map => es[k].ino = path_map[p]
                        /\ es[k].kind = getattr_kind(p)
                        /\ es[k].kind = Kind(is_directory(p))
                        /\ p # Root => es[k].kind = lookup_kind(p)
                        /\ es[k].kind = "RegularFile" => is_valid_file(p) /\ ~read_panics(p)
    BY DEF AnswersAgree
<1> DEFINE path == inode_map[ino]
           ps   == listed_paths(path, TRUE)
           es   == readdir_entries(ino, TRUE)
           Agrees(e, p) ==
               /\ p \in DOMAIN path_map => e.ino = path_map[p]
               /\ e.kind = getattr_kind(p)
               /\ e.kind = Kind(is_directory(p))
               /\ p # Root => e.kind = lookup_kind(p)
               /\ e.kind = "RegularFile" => is_valid_file(p) /\ ~read_panics(p)
<1>0. /\ path \in Seq(Names) /\ path \in DOMAIN path_map /\ path_map[path] = ino
      /\ can_list(path)
      BY DEF TablesInv, TablesInverse
<1>a. /\ \E S : es \in Seq(S)
      /\ Len(es) \in Nat /\ Len(es) >= 2
      /\ es[1] = Entry(Dir("."), ino, "Directory")
      /\ es[2] = Entry(Dir(".."), dotdot(path), "Directory")
      /\ path = Root =>
             /\ Len(es) = 5
             /\ \A i \in 1 .. 3 : es[i + 2] = Entry(Fixed[i + 1][1], i + 1, "Directory")
      /\ path # Root =>
             /\ Len(es) = 2 + Len(ps) /\ Len(ps) \in Nat /\ DOMAIN ps = 1 .. Len(ps)
             /\ \A i \in 1 .. Len(ps) :
                    es[i + 2] = Entry(ps[i][Len(ps[i])], inode_of(ps, i), Kind(path = Accounts))
      BY <1>0, EntriesShape
<1>b. \A n, i, d : Entry(n, i, d).name = n /\ Entry(n, i, d).ino = i /\ Entry(n, i, d).kind = d
      BY DEF Entry
<1>c. Dir(".") # Dir("..")
  <2>1. \A stem : Dir(stem).stem = stem
        BY DEF Dir, Name
  <2> QED BY <2>1
<1>d. \A n : n \notin {Dir("."), Dir("..")} => EntryPath(path, n) = Append(path, n)
      BY DEF EntryPath
<1>e. \A i \in 1 .. 4 : path_map[Fixed[i]] = i
  <2>1. 1 .. 4 \subseteq Inodes /\ \A i \in 1 .. 4 : inode_map[i] = Fixed[i]
        BY DEF TablesInv, TablesInverse
  <2> QED BY <2>1 DEF TablesInv, TablesInverse
<1>f. Fixed[1] = Root /\ Fixed[2] = Accounts
      BY DEF Fixed
<1>g. path \in {Root, Accounts, Transactions, Docs} \/ SecondLevel(path, Accounts)
      BY <1>0 DEF can_list
<1>h. "Directory" # "RegularFile"
      OBVIOUS
<1> SUFFICES Agrees(es[k], EntryPath(path, es[k].name))
    OBVIOUS
<1>i. k \in 1 .. Len(es)
  <2>1. PICK S : es \in Seq(S)
        BY <1>a
  <2> HIDE DEF es
  <2>2. DOMAIN es = 1 .. Len(es)
        BY <2>1
  <2> QED BY <2>2 DEF es
<1> HIDE DEF path, ps, es
<1>1. CASE k = 1
  <2>1. EntryPath(path, es[1].name) = path
        BY <1>a, <1>b, <1>c DEF EntryPath
  <2>2. Agrees(es[1], path)
        BY <1>0, <1>a, <1>b, <1>g, <1>h, DirectoryKinds
  <2> QED BY <1>1, <2>1, <2>2
<1>2. CASE k = 2
  <2> DEFINE p == EntryPath(path, Dir(".."))
  <2>1. p = IF path = Root THEN Root ELSE SubSeq(path, 1, Len(path) - 1)
        BY <1>c DEF EntryPath
  <2>2. /\ SecondLevel(path, Accounts) => p = Accounts
        /\ ~SecondLevel(path, Accounts) => p = Root
    <3>1. CASE SecondLevel(path, Accounts)
      <4>1. Len(path) = 2 /\ <<path[1]>> = Accounts
            BY <3>1 DEF SecondLevel, starts_with
      <4>2. path # Root
            BY <4>1 DEF Root
      <4>3. SubSeq(path, 1, 1) = <<path[1]>>
        <5>1. path \in Seq(Names) /\ 1 \in 1 .. Len(path)
              BY <1>0, <4>1
        <5>2. SubSeq(path, 1, 1) = <<path[1]>> \o SubSeq(path, 1 + 1, 1)
              BY <5>1, SubSeqRecursiveFirst
        <5>3. SubSeq(path, 1 + 1, 1) = <<>>
              BY SubSeqEmpty
        <5>4. <<path[1]>> \in Seq({path[1]})
              OBVIOUS
        <5> QED BY <5>2, <5>3, <5>4, ConcatEmptySeq
      <4>4. Len(path) - 1 = 1
            BY <4>1
      <4> QED BY <2>1, <3>1, <4>1, <4>2, <4>3, <4>4
    <3>2. CASE ~SecondLevel(path, Accounts) /\ path # Root
      <4>1. Len(path) = 1
            BY <1>g, <3>2 DEF Accounts, Transactions, Docs
      <4>2. SubSeq(path, 1, Len(path) - 1) = <<>>
            BY <1>0, <4>1
      <4> QED BY <2>1, <3>2, <4>2 DEF Root
    <3>3. CASE path = Root
      <4>1. ~SecondLevel(Root, Accounts)
            BY DEF Root, SecondLevel
      <4> QED BY <2>1, <3>3, <4>1
    <3> QED BY <3>1, <3>2, <3>3
  <2>3. p \in {Root, Accounts} /\ path_map[p] = dotdot(path)
        BY <1>e, <1>f, <2>2 DEF dotdot
  <2> HIDE DEF p
  <2>4. Agrees(es[2], p)
        BY <1>a, <1>b, <1>h, <2>3, DirectoryKinds
  <2> QED BY <1>2, <1>a, <1>b, <2>4 DEF p
<1>3. CASE path = Root /\ k > 2
  <2>1. PICK i \in 1 .. 3 : k = i + 2
    <3>1. k - 2 \in 1 .. 3 /\ k = (k - 2) + 2
      <4>1. Len(es) = 5
            BY <1>3, <1>a
      <4> QED BY <1>3, <1>i, <4>1
    <3> QED BY <3>1
  <2>2. es[k] = Entry(Fixed[i + 1][1], i + 1, "Directory")
        BY <1>3, <1>a, <2>1
  <2>3. EntryPath(path, es[k].name) = Fixed[i + 1]
        BY <1>3, <1>b, <1>d, <2>2, FixedBelow
  <2>4. path_map[Fixed[i + 1]] = i + 1 /\ Fixed[i + 1] \in {Accounts, Transactions, Docs}
    <3>1. i + 1 \in 1 .. 4
          OBVIOUS
    <3> QED BY <1>e, <3>1, FixedBelow
  <2>5. Agrees(es[k], Fixed[i + 1])
        BY <1>b, <1>h, <2>2, <2>4, DirectoryKinds
  <2> QED BY <2>3, <2>5
<1>4. CASE path # Root /\ k > 2
  <2>1. PICK i \in 1 .. Len(ps) : k = i + 2
    <3>1. k - 2 \in 1 .. Len(ps) /\ k = (k - 2) + 2
          BY <1>4, <1>a, <1>i
    <3> QED BY <3>1
  <2>2. es[k] = Entry(ps[i][Len(ps[i])], inode_of(ps, i), Kind(path = Accounts))
        BY <1>4, <1>a, <2>1
  <2> DEFINE p == ps[i]
  <2>3. p \in DOMAIN path_map => inode_of(ps, i) = path_map[p]
        BY DEF inode_of
  <2>4. CASE path = Accounts
    <3>1. PICK id \in Ids : p = account_path(id)
      <4>1. ps = [j \in DOMAIN accounts |-> account_path(accounts[j])]
            BY <2>4, ListedCases DEF ps
      <4>2. i \in DOMAIN accounts /\ accounts[i] \in Ids
            BY <1>4, <1>a, <4>1 DEF RepoInv
      <4> QED BY <4>1, <4>2
    <3>2. /\ p = Append(Accounts, Dir(Spelling[id])) /\ p[Len(p)] = Dir(Spelling[id])
          /\ SecondLevel(p, Accounts)
          BY <3>1, AccountPaths DEF account_path, SecondLevel, starts_with, Accounts
    <3>3. Dir(Spelling[id]) \notin {Dir("."), Dir("..")}
      <4>1. \A stem : Dir(stem).stem = stem
            BY DEF Dir, Name
      <4>2. Spelling[id] \notin {".", ".."}
            BY PathResolverAssumption
      <4> QED BY <4>1, <4>2
    <3> HIDE DEF p
    <3>4. EntryPath(path, es[k].name) = p
          BY <1>b, <1>d, <2>2, <2>4, <3>2, <3>3 DEF p
    <3>5. es[k].kind = "Directory" /\ es[k].ino = inode_of(ps, i)
          BY <1>b, <2>2, <2>4 DEF Kind
    <3>6. Agrees(es[k], p)
          BY <1>h, <2>3, <3>2, <3>5, DirectoryKinds
    <3> QED BY <3>4, <3>6
  <2>5. CASE path # Accounts
    <3>1. SecondLevel(path, Accounts) /\ ps = <<Append(path, BalanceFile), Append(path, TxFile)>>
      <4>1. ps # <<>>
        <5>1. Len(ps) \in Nat /\ i \in 1 .. Len(ps)
              BY <1>4, <1>a
        <5>2. Len(ps) # 0
              BY <5>1
        <5> QED BY <5>2
      <4> QED BY <2>5, <4>1, ListedCases DEF ps
    <3>2. Len(path) = 2
          BY <3>1 DEF SecondLevel
    <3>3. PICK n \in {BalanceFile, TxFile} : p = Append(path, n)
          BY <3>1
    <3>4. p # Root /\ Len(p) = 3 /\ p[Len(p)] = n
      <4>1. n \in Names /\ path \in Seq(Names)
            BY <1>0, FixedPaths
      <4>2. /\ Append(path, n) # Root /\ Len(Append(path, n)) = Len(path) + 1
            /\ Append(path, n)[Len(Append(path, n))] = n
            BY <4>1, ParentOf
      <4> QED BY <3>2, <3>3, <4>2
    <3>5. n \notin {Dir("."), Dir("..")}
      <4>1. BalanceFile.ext = ".json" /\ TxFile.ext = ".log" /\ \A stem : Dir(stem).ext = ""
            BY DEF BalanceFile, TxFile, Dir, Name
      <4> QED BY <4>1
    <3> HIDE DEF p
    <3>6. EntryPath(path, es[k].name) = p
          BY <1>b, <1>d, <2>2, <3>3, <3>4, <3>5 DEF p
    <3>7. es[k].kind = "RegularFile" /\ es[k].ino = inode_of(ps, i)
          BY <1>b, <2>2, <2>5 DEF Kind
    <3>8. is_valid_file(p) /\ ~read_panics(p)
          BY <3>4 DEF is_valid_file, ends_with, read_panics
    <3>9. Agrees(es[k], p)
      <4>1. Len(p) > 2
            BY <3>4
      <4> QED BY <2>3, <3>7, <3>8, <4>1, DirectoryKinds
    <3> QED BY <3>6, <3>9
  <2> QED BY <2>4, <2>5
<1> QED BY <1>1, <1>2, <1>3, <1>4, <1>i, <1>a

\* The content of a file is missing or has all its pieces, each with the id that
\* the path names.
LEMMA ContentShape ==
    ASSUME NEW p
    PROVE  LET id == read_id(p)
               there == /\ IsData(p) /\ id # NoId
                        /\ ends_with(p, BalanceFile) => balances[id] > 0
           IN  /\ there => /\ content(p) # <<>> /\ content(p)[1].id = id
                           /\ \E S : content(p) \in Seq(S)
                           /\ Len(content(p)) \in Nat \ {0}
               /\ ~there => content(p) = <<>>
<1> DEFINE id == read_id(p)
           there == /\ IsData(p) /\ id # NoId
                    /\ ends_with(p, BalanceFile) => balances[id] > 0
           piece(k) == [file |-> p[Len(p)], id |-> id, version |-> balances[id], part |-> k]
           c == [k \in 1 .. ContentLength |-> piece(k)]
<1>1. ContentLength \in Nat \ {0} /\ 1 \in 1 .. ContentLength
      BY LedgerFilesystemAssumption
<1>2. (there => content(p) = c) /\ (~there => content(p) = <<>>)
      BY DEF content
<1>3. c[1].id = id
      BY <1>1
<1> HIDE DEF piece
<1> DEFINE S == {piece(k) : k \in 1 .. ContentLength}
<1>4. c \in Seq(S) /\ Len(c) = ContentLength
      BY <1>1
<1>5. c # <<>>
      BY <1>1, <1>4
<1> HIDE DEF c, S, there
<1>6. \E T : c \in Seq(T)
      BY <1>4
<1>7. there => /\ content(p) # <<>> /\ content(p)[1].id = id
               /\ \E T : content(p) \in Seq(T)
               /\ Len(content(p)) \in Nat \ {0}
      BY <1>1, <1>2, <1>3, <1>4, <1>5, <1>6
<1> QED BY <1>2, <1>7 DEF there

\* What can be read is a file with the data of the account that its path names,
\* and the files of the accounts can be read.
LEMMA FilesResolve == RepoInv => ReadsResolve
<1> SUFFICES ASSUME RepoInv PROVE ReadsResolve
    OBVIOUS
<1>1. ASSUME NEW p, content(p) # <<>>
      PROVE  /\ is_valid_file(p)
             /\ starts_with(p, Accounts) => content(p)[1].id = parse_account_id(p)
  <2>1. IsData(p) /\ content(p)[1].id = read_id(p)
        BY <1>1, ContentShape
  <2> QED BY <2>1 DEF IsData, is_valid_file, starts_with, parse_account_id, read_id
<1>2. ASSUME NEW i \in DOMAIN accounts
      PROVE  /\ content(transaction_log_path(accounts[i])) # <<>>
             /\ balances[accounts[i]] > 0 => content(balance_path(accounts[i])) # <<>>
  <2> DEFINE id == accounts[i]
             b == balance_path(accounts[i])
             l == transaction_log_path(accounts[i])
             dir == Dir(Spelling[accounts[i]])
  <2>1. id \in Ids /\ id # NoId /\ parse_str(dir) = id
    <3>1. id \in Ids
          BY DEF RepoInv
    <3>2. Spelling[id] \in Stems /\ Uuid[Spelling[id]] = id /\ id # NoId
          BY <3>1, PathResolverAssumption
    <3> QED BY <3>1, <3>2 DEF parse_str, Dir, Name
  <2>2. Len(b) = 3 /\ b[2] = dir /\ b[3] = BalanceFile
        BY ThreeNames DEF balance_path, account_path, Accounts
  <2>3. Len(l) = 3 /\ l[2] = dir /\ l[3] = TxFile
        BY ThreeNames DEF transaction_log_path, account_path, Accounts
  <2> HIDE DEF id, b, l, dir
  <2>4. b # Root /\ l # Root /\ TxFile # BalanceFile
        BY <2>2, <2>3, DifferentPaths, FixedPaths
  <2>5. read_id(b) = id /\ read_id(l) = id
        BY <2>1, <2>2, <2>3 DEF read_id
  <2>6. IsData(b) /\ IsData(l) /\ ~ends_with(l, BalanceFile)
        BY <2>2, <2>3, <2>4 DEF IsData, ends_with
  <2>7. content(l) # <<>>
        BY <2>1, <2>5, <2>6, ContentShape
  <2>8. balances[id] > 0 => content(b) # <<>>
        BY <2>1, <2>5, <2>6, ContentShape
  <2> QED BY <2>7, <2>8 DEF id, b, l
<1> QED BY <1>1, <1>2 DEF ReadsResolve

----------------------------------------------------------------------------
(* Reading in pieces.                                                      *)

\* All that reading a directory or a file gives.
Whole(ino) ==
    IF is_directory(inode_map[ino]) THEN readdir_entries(ino, TRUE) ELSE content(inode_map[ino])

\* What the directory lists has got its inodes.
ListedKnown(ino) ==
    LET ps == listed_paths(inode_map[ino], TRUE)
    IN  \A i \in DOMAIN ps : ps[i] \in DOMAIN path_map

\* Up to its offset, a cursor has all of what is there to read, in order; a
\* directory that was read from has its entries in the tables, so that a later
\* call gives them the same inodes.
CursorInv ==
    /\ cursor.state \in {"none", "open", "end", "ENOENT"}
    /\ cursor.state # "none" => cursor.ino \in Inodes
    /\ cursor.state = "open" /\ cursor.got = <<>> => cursor.offset = 0
    /\ cursor.state = "end" => cursor.got # <<>> /\ cursor.offset = Len(Whole(cursor.ino))
    /\ cursor.state \in {"open", "end"} /\ cursor.got # <<>> =>
           /\ ListedKnown(cursor.ino)
           /\ cursor.offset \in 0 .. Len(Whole(cursor.ino))
           /\ cursor.got = SubSeq(Whole(cursor.ino), 1, cursor.offset)

\* A piece of a sequence.
LEMMA PieceOf ==
    ASSUME NEW S, NEW s \in Seq(S), NEW m \in Nat, NEW n \in Nat, m + n <= Len(s)
    PROVE  LET u == SubSeq(s, m + 1, m + n)
           IN  u \in Seq(S) /\ Len(u) = n /\ \A i \in 1 .. n : u[i] = s[m + i]
<1> DEFINE u == SubSeq(s, m + 1, m + n)
<1>1. m + 1 \in Int /\ m + n \in Int /\ \A i \in (m + 1) .. (m + n) : s[i] \in S
  <2>1. \A i \in (m + 1) .. (m + n) : i \in 1 .. Len(s)
        OBVIOUS
  <2> QED BY <2>1
<1>2. /\ u \in Seq(S)
      /\ Len(u) = IF m + 1 <= m + n THEN (m + n) - (m + 1) + 1 ELSE 0
      /\ \A i \in 1 .. (m + n) - (m + 1) + 1 : u[i] = s[(m + 1) + i - 1]
      BY <1>1, SubSeqProperties
<1>3. (m + n) - (m + 1) + 1 = n /\ \A i \in 1 .. n : (m + 1) + i - 1 = m + i
      OBVIOUS
<1> HIDE DEF u
<1>4. Len(u) = n
      BY <1>2, <1>3
<1> QED BY <1>2, <1>3, <1>4 DEF u

\* A cursor that has what lies before its offset takes up to n more, and ends
\* only behind the last.
LEMMA TakeNext ==
    ASSUME NEW S, NEW all \in Seq(S), Len(all) \in Nat \ {0}, NEW n \in 1 .. 2,
           cursor.state = "open",
           cursor.offset \in 0 .. Len(all), cursor.got = SubSeq(all, 1, cursor.offset)
    PROVE  LET c == Take(all, n)
           IN  /\ c.ino = cursor.ino /\ c.state \in {"open", "end"}
               /\ c.offset \in 0 .. Len(all) /\ c.got = SubSeq(all, 1, c.offset) /\ c.got # <<>>
               /\ c.state = "end" => c.offset = Len(all)
<1> DEFINE off  == cursor.offset
           rest == SubSeq(all, off + 1, Len(all))
           k    == IF n < Len(rest) THEN n ELSE Len(rest)
           c    == Take(all, n)
<1>9. off \in Nat /\ Len(all) \in Nat /\ off <= Len(all) /\ Len(all) # 0 /\ n \in Nat /\ n # 0
      OBVIOUS
<1>1. rest \in Seq(S) /\ Len(rest) = Len(all) - off /\ \A i \in 1 .. Len(rest) : rest[i] = all[off + i]
  <2> DEFINE d == Len(all) - off
  <2>1. all \in Seq(S) /\ d \in Nat /\ off \in Nat /\ off + d = Len(all) /\ off + d <= Len(all)
        BY <1>9
  <2> HIDE DEF off, d
  <2>2. /\ SubSeq(all, off + 1, off + d) \in Seq(S) /\ Len(SubSeq(all, off + 1, off + d)) = d
        /\ \A i \in 1 .. d : SubSeq(all, off + 1, off + d)[i] = all[off + i]
        BY ONLY <2>1, PieceOf
  <2> QED BY <2>1, <2>2 DEF d
<1>3. /\ c.ino = cursor.ino /\ c.offset = off + k /\ c.got = cursor.got \o SubSeq(rest, 1, k)
      /\ c.state = (IF k = 0 THEN "end" ELSE "open")
      BY DEF Take, CursorAt
<1> HIDE DEF off, rest, c
<1>2. /\ k \in 0 .. Len(rest) /\ off + k \in 0 .. Len(all) /\ off + k \in Nat /\ k \in Nat
      /\ k <= Len(rest) /\ off + k <= Len(all)
      BY <1>1, <1>9
<1>4. k = 0 => off = Len(all)
      BY <1>1, <1>9
<1>5. off + k # 0
      BY <1>1, <1>9
<1> HIDE DEF k
<1>6. SubSeq(rest, 1, k) = SubSeq(all, off + 1, off + k)
  <2> DEFINE u == SubSeq(rest, 1, k)
             v == SubSeq(all, off + 1, off + k)
  <2>1. u \in Seq(S) /\ Len(u) = k /\ \A i \in 1 .. k : u[i] = rest[i]
        BY <1>1, <1>2
  <2>2. v \in Seq(S) /\ Len(v) = k /\ \A i \in 1 .. k : v[i] = all[off + i]
        BY <1>2, <1>9, PieceOf
  <2>3. \A i \in 1 .. k : i \in 1 .. Len(rest)
        BY <1>1, <1>2
  <2> HIDE DEF u, v
  <2>4. \A i \in 1 .. k : u[i] = v[i]
        BY <1>1, <2>1, <2>2, <2>3
  <2>5. u = v
        BY <2>1, <2>2, <2>4, SeqEqual
  <2> QED BY <2>5 DEF u, v
<1>7. c.got = SubSeq(all, 1, off + k)
  <2>1. SubSeq(all, 1, off) \o SubSeq(all, off + 1, off + k) = SubSeq(all, 1, off + k)
    <3>1. 1 \in 1 .. Len(all) + 1 /\ off \in 1 - 1 .. Len(all) /\ off + k \in off .. Len(all)
          BY <1>2, <1>9
    <3> QED BY <3>1, ConcatAdjacentSubSeq
  <2> QED BY <1>3, <1>6, <2>1 DEF off
<1>8. c.got # <<>>
  <2>1. Len(SubSeq(all, 1, off + k)) = off + k
        BY <1>2
  <2>2. Len(<<>>) = 0
        OBVIOUS
  <2> QED BY <1>5, <1>7, <2>1, <2>2
<1>10. c.state = "end" => c.offset = Len(all)
  <2>1. c.state = "end" => k = 0
        BY <1>3
  <2> QED BY <1>3, <1>4, <1>9, <2>1
<1> QED BY <1>2, <1>3, <1>7, <1>8, <1>10 DEF c

\* What there is to read stays the same as long as the repositories do, when the
\* entries keep the inodes that they were given.
LEMMA WholeStays ==
    ASSUME NEW ino, UNCHANGED repoVars, inode_map'[ino] = inode_map[ino],
           LET ps == listed_paths(inode_map[ino], TRUE)
           IN  \A i \in DOMAIN ps : ps[i] \in DOMAIN path_map' /\ path_map'[ps[i]] = inode_of(ps, i)
    PROVE  Whole(ino)' = Whole(ino) /\ ListedKnown(ino)'
<1> DEFINE path == inode_map[ino]
           ps   == listed_paths(path, TRUE)
<1>0. accounts' = accounts /\ balances' = balances
      BY DEF repoVars
<1>1. listed_paths(inode_map[ino], TRUE)' = ps
      BY <1>0 DEF listed_paths
<1>2. ListedKnown(ino)'
      BY <1>1 DEF ListedKnown
<1>3. content(inode_map[ino])' = content(path)
      BY <1>0 DEF content
<1>4. \A i \in DOMAIN ps : inode_of(ps, i)' = inode_of(ps, i)
      BY <1>0, <1>1 DEF inode_of
<1>5. readdir_entries(ino, TRUE)' = readdir_entries(ino, TRUE)
      BY <1>1, <1>4 DEF readdir_entries
<1>6. is_directory(inode_map[ino])' = is_directory(path)
      OBVIOUS
<1> QED BY <1>2, <1>3, <1>5, <1>6 DEF Whole

\* There is always something to read in a directory, and in a file that is found.
LEMMA WholeShape ==
    ASSUME RepoInv, NEW ino, inode_map[ino] \in Seq(Names)
    PROVE  /\ \E S : Whole(ino) \in Seq(S)
           /\ Len(Whole(ino)) \in Nat
           /\ is_directory(inode_map[ino]) \/ content(inode_map[ino]) # <<>> => Len(Whole(ino)) # 0
<1>1. CASE is_directory(inode_map[ino])
  <2>1. Whole(ino) = readdir_entries(ino, TRUE)
        BY <1>1 DEF Whole
  <2>2. /\ \E S : readdir_entries(ino, TRUE) \in Seq(S)
        /\ Len(readdir_entries(ino, TRUE)) \in Nat /\ Len(readdir_entries(ino, TRUE)) >= 2
        BY EntriesShape
  <2> DEFINE len == Len(readdir_entries(ino, TRUE))
  <2> HIDE DEF len
  <2>3. len # 0
    <3>1. len >= 2
          BY <2>2 DEF len
    <3>2. ~(0 >= 2)
          OBVIOUS
    <3> QED BY <3>1, <3>2
  <2> QED BY <2>1, <2>2, <2>3 DEF len
<1>2. CASE ~is_directory(inode_map[ino])
  <2>1. Whole(ino) = content(inode_map[ino])
        BY <1>2 DEF Whole
  <2>2. CASE content(inode_map[ino]) = <<>>
    <3>1. <<>> \in Seq({}) /\ Len(<<>>) = 0 /\ 0 \in Nat
          OBVIOUS
    <3> QED BY <1>2, <2>1, <2>2, <3>1
  <2>3. CASE content(inode_map[ino]) # <<>>
    <3> DEFINE c == content(inode_map[ino])
    <3>1. (\E S : c \in Seq(S)) /\ Len(c) \in Nat \ {0}
          BY <2>3, ContentShape
    <3> HIDE DEF c
    <3>2. Len(c) \in Nat /\ Len(c) # 0
          BY <3>1
    <3> QED BY <2>1, <3>1, <3>2 DEF c
  <2> QED BY <2>2, <2>3
<1> QED BY <1>1, <1>2

\* A cursor that took more of what is there, when the entries keep their inodes.
LEMMA CursorTakes ==
    ASSUME RepoInv, CursorInv, cursor.state = "open", NEW n \in 1 .. 2,
           NEW ino, ino = cursor.ino, inode_map[ino] \in Seq(Names), ino \in Inodes',
           Len(Whole(ino)) # 0, cursor' = Take(Whole(ino), n),
           Whole(ino)' = Whole(ino), ListedKnown(ino)'
    PROVE  CursorInv'
<1> DEFINE all == Whole(ino)
           c   == Take(Whole(ino), n)
<1>1. (\E S : all \in Seq(S)) /\ Len(all) \in Nat
      BY WholeShape
<1>2. PICK S : all \in Seq(S)
      BY <1>1
<1>3. cursor.offset \in 0 .. Len(all) /\ cursor.got = SubSeq(all, 1, cursor.offset)
  <2>1. CASE cursor.got # <<>>
        BY <2>1 DEF CursorInv
  <2>2. CASE cursor.got = <<>>
    <3>1. cursor.offset = 0
          BY <2>2 DEF CursorInv
    <3>2. SubSeq(all, 1, 0) = <<>>
          BY SubSeqEmpty
    <3>3. 0 \in 0 .. Len(all)
          BY <1>1
    <3> QED BY <2>2, <3>1, <3>2, <3>3
  <2> QED BY <2>1, <2>2
<1>4. Len(all) \in Nat \ {0}
      BY <1>1
<1>5. /\ c.ino = cursor.ino /\ c.state \in {"open", "end"}
      /\ c.offset \in 0 .. Len(all) /\ c.got = SubSeq(all, 1, c.offset) /\ c.got # <<>>
      /\ c.state = "end" => c.offset = Len(all)
  <2> HIDE DEF all
  <2> SUFFICES /\ Take(all, n).ino = cursor.ino /\ Take(all, n).state \in {"open", "end"}
               /\ Take(all, n).offset \in 0 .. Len(all)
               /\ Take(all, n).got = SubSeq(all, 1, Take(all, n).offset) /\ Take(all, n).got # <<>>
               /\ Take(all, n).state = "end" => Take(all, n).offset = Len(all)
      BY DEF all
  <2> QED BY <1>2, <1>3, <1>4, TakeNext
<1>6. cursor' = c /\ all' = all
      OBVIOUS
<1> HIDE DEF c
<1>7. cursor'.ino = ino /\ cursor'.state \in {"open", "end"}
      BY <1>5, <1>6
<1>8. Whole(cursor.ino)' = all /\ ListedKnown(cursor.ino)'
      BY <1>6, <1>7
<1> HIDE DEF all
<1> QED BY <1>5, <1>6, <1>7, <1>8 DEF CursorInv

\* What every request does to what is being read.
LEMMA RequestCursor == TablesInv /\ RepoInv /\ CursorInv /\ Request => CursorInv'
<1> SUFFICES ASSUME TablesInv, RepoInv, CursorInv, Request PROVE CursorInv'
    OBVIOUS
<1> DEFINE ino == cursor.ino
           path == inode_map[ino]
<1>1. /\ TablesInv' /\ Inodes \subseteq Inodes' /\ DOMAIN path_map \subseteq DOMAIN path_map'
      /\ \A i \in Inodes : inode_map'[i] = inode_map[i]
      /\ \A p \in DOMAIN path_map : path_map'[p] = path_map[p]
      /\ UNCHANGED repoVars
      BY RequestTables DEF CursorInv
<1>2. cursor.state # "none" => ino \in Inodes /\ path \in Seq(Names) /\ path \in DOMAIN path_map
      BY DEF CursorInv, TablesInv, TablesInverse
<1>3. ASSUME UNCHANGED cursor PROVE CursorInv'
  <2>1. cursor.state \in {"open", "end"} /\ cursor.got # <<>> =>
            Whole(ino)' = Whole(ino) /\ ListedKnown(ino)'
    <3> SUFFICES ASSUME cursor.state \in {"open", "end"}, cursor.got # <<>>
                 PROVE  Whole(ino)' = Whole(ino) /\ ListedKnown(ino)'
        OBVIOUS
    <3>1. ino \in Inodes /\ ListedKnown(ino)
          BY <1>2 DEF CursorInv
    <3>2. LET ps == listed_paths(inode_map[ino], TRUE)
          IN  \A i \in DOMAIN ps : ps[i] \in DOMAIN path_map' /\ path_map'[ps[i]] = inode_of(ps, i)
          BY <1>1, <3>1 DEF ListedKnown, inode_of
    <3>3. inode_map'[ino] = inode_map[ino] /\ ino' = ino
          BY <1>1, <1>3, <3>1
    <3>4. ASSUME NEW CONSTANT j, j = cursor.ino PROVE Whole(j)' = Whole(j) /\ ListedKnown(j)'
          BY <1>1, <3>2, <3>3, <3>4, WholeStays
    <3> QED BY <1>3, <3>4
  <2>2. /\ cursor.state # "none" => cursor.ino \in Inodes
        /\ cursor.state \in {"none", "open", "end", "ENOENT"}
        BY DEF CursorInv
  <2> QED BY <1>1, <1>3, <2>1, <2>2 DEF CursorInv
<1>4. ASSUME NEW i \in Inodes', NEW state \in {"open", "ENOENT"}, cursor' = CursorAt(i, 0, <<>>, state)
      PROVE  CursorInv'
      BY <1>4 DEF CursorInv, CursorAt
<1>5. ASSUME cursor' = NoCursor PROVE CursorInv'
      BY <1>5 DEF CursorInv, NoCursor, CursorAt
<1>6. ASSUME NEW n \in 1 .. 2, NEW repo_ok \in BOOLEAN, readdir(n, repo_ok) PROVE CursorInv'
  <2>1. cursor.state = "open" /\ getattr_kind(path) = "Directory"
        BY <1>6 DEF readdir
  <2>2. ino \in Inodes /\ ino \in Inodes' /\ path \in Seq(Names)
        BY <1>1, <1>2, <2>1
  <2>3. CASE ~can_list(path)
    <3>1. cursor' = CursorAt(ino, 0, <<>>, "ENOENT")
          BY <1>6, <2>3 DEF readdir, Failed
    <3> QED BY <1>4, <2>2, <3>1
  <2>4. CASE can_list(path) /\ ~(repo_ok \/ path # Accounts)
    <3>1. cursor' = NoCursor
          BY <1>6, <2>4 DEF readdir
    <3> QED BY <1>5, <3>1
  <2>5. CASE can_list(path) /\ (repo_ok \/ path # Accounts)
    <3> DEFINE ps == listed_paths(path, repo_ok)
    <3>1. cursor' = Take(readdir_entries(ino, repo_ok), n) /\ get_or_create_inodes(ps)
          BY <1>6, <2>5 DEF readdir
    <3>2. ps = listed_paths(path, TRUE)
          BY <2>5 DEF listed_paths
    <3>3. readdir_entries(ino, repo_ok) = readdir_entries(ino, TRUE)
          BY <3>2 DEF readdir_entries
    <3>4. is_directory(path)
          BY <2>1, DirectoryKinds
    <3>5. readdir_entries(ino, repo_ok) = Whole(ino) /\ Len(Whole(ino)) # 0
          BY <2>2, <3>3, <3>4, WholeShape DEF Whole
    <3>6. /\ ps \in Seq(Seq(Names)) /\ IsInjective(ps)
          /\ \A i \in DOMAIN ps : SubSeq(ps[i], 1, Len(ps[i]) - 1) = path
          BY <2>2, ListedPaths
    <3>7. next_inode + Cardinality(NewPaths(ps)) <= MaxInode + 1 /\ path \in DOMAIN path_map
          BY <1>2, <1>6, <2>1 DEF readdir
    <3> HIDE DEF ps, path
    <3>8. \A i \in DOMAIN ps : ps[i] \in DOMAIN path_map' /\ path_map'[ps[i]] = inode_of(ps, i)
      <4>1. \A i \in DOMAIN ps : SubSeq(ps[i], 1, Len(ps[i]) - 1) \in DOMAIN path_map
            BY <3>6, <3>7
      <4> QED BY <3>1, <3>6, <3>7, <4>1, TablesGrow
    <3> USE DEF path
    <3>9. ASSUME NEW CONSTANT j, j = cursor.ino PROVE Whole(j)' = Whole(j) /\ ListedKnown(j)'
      <4>1. inode_map'[j] = inode_map[j]
            BY <1>1, <2>2, <3>9
      <4>2. LET qs == listed_paths(inode_map[j], TRUE)
            IN  \A i \in DOMAIN qs : qs[i] \in DOMAIN path_map' /\ path_map'[qs[i]] = inode_of(qs, i)
            BY <3>2, <3>8, <3>9
      <4> QED BY <1>1, <4>1, <4>2, WholeStays
    <3>10. ASSUME NEW CONSTANT j, j = cursor.ino PROVE CursorInv'
      <4>1. /\ Whole(j)' = Whole(j) /\ ListedKnown(j)'
            BY <3>9, <3>10
      <4>2. /\ inode_map[j] \in Seq(Names) /\ j \in Inodes' /\ Len(Whole(j)) # 0
            /\ cursor' = Take(Whole(j), n)
            BY <2>2, <3>1, <3>5, <3>10
      <4> QED BY <2>1, <3>10, <4>1, <4>2, CursorTakes
    <3> QED BY <3>10
  <2> QED BY <2>3, <2>4, <2>5
<1>7. ASSUME NEW n \in 1 .. 2, NEW repo_ok \in BOOLEAN, read(n, repo_ok) PROVE CursorInv'
  <2>1. cursor.state = "open" /\ getattr_kind(path) = "RegularFile" /\ UNCHANGED tables
        BY <1>7 DEF read
  <2>2. ino \in Inodes /\ ino \in Inodes' /\ path \in Seq(Names)
        BY <1>1, <1>2, <2>1
  <2>3. CASE ~(repo_ok /\ content(path) # <<>>)
    <3>1. cursor' = CursorAt(ino, 0, <<>>, "ENOENT")
          BY <1>7, <2>3 DEF read, Failed
    <3> QED BY <1>4, <2>2, <3>1
  <2>4. CASE repo_ok /\ content(path) # <<>>
    <3>1. cursor' = Take(content(path), n)
          BY <1>7, <2>4 DEF read
    <3>2. ~is_directory(path)
          BY <2>1, DirectoryKinds
    <3>3. content(path) = Whole(ino) /\ Len(Whole(ino)) # 0
          BY <2>2, <2>4, <3>2, WholeShape DEF Whole
    <3>4. listed_paths(path, TRUE) = <<>>
          BY <3>2 DEF listed_paths, is_directory, SecondLevel
    <3>5. ASSUME NEW CONSTANT j, j = cursor.ino PROVE CursorInv'
      <4>1. inode_map'[j] = inode_map[j]
            BY <1>1, <2>2, <3>5
      <4>2. LET qs == listed_paths(inode_map[j], TRUE)
            IN  \A i \in DOMAIN qs : qs[i] \in DOMAIN path_map' /\ path_map'[qs[i]] = inode_of(qs, i)
        <5>1. listed_paths(inode_map[j], TRUE) = <<>>
              BY <3>4, <3>5
        <5>2. DOMAIN <<>> = {}
              OBVIOUS
        <5> QED BY <5>1, <5>2, Zenon
      <4>3. Whole(j)' = Whole(j) /\ ListedKnown(j)'
            BY <1>1, <4>1, <4>2, WholeStays
      <4>4. /\ inode_map[j] \in Seq(Names) /\ j \in Inodes' /\ Len(Whole(j)) # 0
            /\ cursor' = Take(Whole(j), n)
            BY <2>2, <3>1, <3>3, <3>5
      <4> QED BY <2>1, <3>5, <4>3, <4>4, CursorTakes
    <3> QED BY <3>5
  <2> QED BY <2>3, <2>4
<1>8. ASSUME NEW parent \in Inodes, NEW name \in LookupNames, lookup(parent, name) PROVE CursorInv'
      BY <1>3, <1>8 DEF lookup
<1>9. ASSUME NEW i \in Inodes, Open(i) PROVE CursorInv'
  <2>1. cursor' = CursorAt(i, 0, <<>>, "open") /\ i \in Inodes'
        BY <1>1, <1>9 DEF Open
  <2> QED BY <1>4, <2>1
<1> QED BY <1>6, <1>7, <1>8, <1>9 DEF Request

\* A cursor has given a prefix of what there is to read, and all of it at the end.
LEMMA CursorIsExact == TablesInv /\ RepoInv /\ CursorInv => CursorExact
<1> SUFFICES ASSUME TablesInv, RepoInv, CursorInv, cursor.state \in {"open", "end"}
             PROVE  LET all == Whole(cursor.ino)
                    IN  /\ cursor.got # <<>> => cursor.got = SubSeq(all, 1, cursor.offset)
                        /\ cursor.state = "end" => cursor.got = all
    BY DEF CursorExact, Whole
<1> DEFINE all == Whole(cursor.ino)
<1>1. cursor.got # <<>> => cursor.got = SubSeq(all, 1, cursor.offset)
      BY DEF CursorInv
<1>2. inode_map[cursor.ino] \in Seq(Names)
      BY DEF CursorInv, TablesInv
<1>3. PICK S : all \in Seq(S)
      BY <1>2, WholeShape
<1>4. cursor.state = "end" => cursor.got # <<>> /\ cursor.offset = Len(all)
      BY DEF CursorInv
<1> HIDE DEF all
<1>5. SubSeq(all, 1, Len(all)) = all
      BY <1>3, SubSeqFull
<1> QED BY <1>1, <1>4, <1>5 DEF all


----------------------------------------------------------------------------
(* Mounting.                                                               *)

\* Which runs of fusermount there were when main is where it is; only the
\* manager makes any.
AttemptsInv ==
    /\ owner \in {"manager", "service"}
    /\ main \in {"unmounting", "lazy"} => owner = "manager"
    /\ main \in {"idle", "waiting", "unmounting"} => attempts = <<>>
    /\ main = "lazy" => attempts = <<"failed">>

MountInv == AttemptsInv /\ LeftBehind

\* A step of the task that starts no unmount keeps what is known of them: it
\* may end the task, or take it on from queued or starting.
LEMMA TaskStep ==
    ASSUME MountInv, UNCHANGED <<owner, main, outcome, attempts>>,
           task' = "ended" \/ task' = task \/ task \in {"queued", "starting"}
    PROVE  MountInv'
BY DEF MountInv, AttemptsInv, LeftBehind

\* Every step of task, owners and kernel keeps it.
LEMMA MountStep == MountInv /\ [FuseNext]_allVars => MountInv'
<1> SUFFICES ASSUME MountInv, [FuseNext]_allVars PROVE MountInv'
    OBVIOUS
<1>1. CASE TaskStarts \/ Mounts
      BY <1>1, TaskStep DEF TaskStarts, Mounts
<1>2. CASE MountFails \/ ReadPanics \/ SessionEnds \/ ServiceUnmount \/ RuntimeDropped
      BY <1>2, TaskStep DEF MountFails, ReadPanics, SessionEnds, ServiceUnmount, RuntimeDropped, Ends
<1>3. CASE Serve \/ (RepositoryStep /\ UNCHANGED mountVars) \/ UNCHANGED allVars
      BY <1>3, TaskStep DEF Serve, mountVars, allVars
<1>4. CASE Spawn \/ NoMountPoint \/ TaskAwaited \/ CtrlC
      BY <1>4 DEF Spawn, NoMountPoint, TaskAwaited, CtrlC, Returns, MountInv, AttemptsInv, LeftBehind
<1>5. CASE Unmount
      BY <1>5 DEF Unmount, Fusermount, Ends, Returns, MountInv, AttemptsInv, LeftBehind
<1>6. CASE LazyUnmount
  <2>1. attempts = <<"failed">> /\ owner = "manager"
        BY <1>6 DEF LazyUnmount, MountInv, AttemptsInv
  <2>2. owner' = "manager" /\ main' = "returned"
        BY <1>6, <2>1 DEF LazyUnmount, Returns
  <2>3. \/ attempts' = <<"failed", "done">> /\ task' = "detached"
        \/ attempts' = <<"failed", "failed">>
        BY <1>6, <2>1 DEF LazyUnmount, Fusermount
  <2> QED BY <2>2, <2>3 DEF MountInv, AttemptsInv, LeftBehind
<1> QED BY <1>1, <1>2, <1>3, <1>4, <1>5, <1>6 DEF FuseNext

\* Whatever the interleaving of the blocking task, the signal and fusermount:
\* the service returns Ok only after its mount is gone, and the manager leaves
\* one only after both runs of fusermount.
THEOREM NothingElseLeftBehind == FuseSpec => []LeftBehind
<1>1. FuseInit => MountInv
      BY DEF FuseInit, MountInv, AttemptsInv, LeftBehind
<1>2. MountInv => LeftBehind
      BY DEF MountInv
<1> QED BY <1>1, <1>2, MountStep, PTL DEF FuseSpec

----------------------------------------------------------------------------
(* The filesystem that is served.                                          *)

\* The tables, the repositories and what is being read are in order; where no
\* task serves a mount, the tables are new and nothing is read.
FuseInv ==
    /\ TablesInv /\ RepoInv /\ CursorInv
    /\ main \in {"idle", "waiting", "unmounting", "lazy", "returned"}
    /\ outcome \in {"none", "ok", "err"}
    /\ task \in {"none", "queued", "starting", "mounted", "detached", "ended"}
    /\ end \in {"none", "ok", "error", "panic", "dropped"}
    /\ ~Running => Fresh /\ cursor = NoCursor

\* A filesystem that ends leaves the one that new() makes.
LEMMA EndsFresh ==
    ASSUME RepoInv, NEW how, Ends(how)
    PROVE  /\ Fresh' /\ cursor' = NoCursor /\ task' = "ended" /\ end' = how
           /\ TablesInv' /\ RepoInv' /\ CursorInv'
<1>1. Fresh' /\ cursor' = NoCursor /\ task' = "ended" /\ end' = how /\ UNCHANGED repoVars
      BY DEF Ends, Fresh, NewInodeMap, NewPathMap, NewNextInode
<1>2. Fresh' => TablesInv'
      BY FreshTables, PTL
<1>3. RepoInv'
      BY <1>1 DEF RepoInv, repoVars
<1>4. CursorInv'
      BY <1>1 DEF CursorInv, NoCursor, CursorAt
<1> QED BY <1>1, <1>2, <1>3, <1>4

\* A step that leaves the filesystem alone.
LEMMA FilesystemStays ==
    ASSUME TablesInv, RepoInv, CursorInv, UNCHANGED fsVars
    PROVE  /\ TablesInv' /\ RepoInv' /\ CursorInv' /\ (Fresh => Fresh')
           /\ (cursor = NoCursor => cursor' = NoCursor)
           /\ Inodes' = Inodes /\ inode_map' = inode_map
<1> USE DEF fsVars, tables, repoVars
<1>1. TablesInv'
      BY DEF TablesInv, TablesInverse, Inodes
<1>2. RepoInv'
      BY DEF RepoInv
<1>3. Whole(cursor.ino)' = Whole(cursor.ino) /\ ListedKnown(cursor.ino)' = ListedKnown(cursor.ino)
      BY DEF Whole, ListedKnown, readdir_entries, content, listed_paths, inode_of, NewBefore
<1>4. Inodes' = Inodes /\ inode_map' = inode_map /\ cursor' = cursor
      BY DEF Inodes
<1>5. CursorInv'
      BY <1>3, <1>4 DEF CursorInv
<1>6. Fresh => Fresh'
      BY DEF Fresh, NewInodeMap, NewPathMap, NewNextInode
<1> QED BY <1>1, <1>2, <1>4, <1>5, <1>6 DEF NoCursor, CursorAt

\* Every step of the task, the owners, the kernel and the repositories keeps the
\* filesystem in order.
LEMMA FuseStep == FuseInv /\ [FuseNext]_allVars => FuseInv'
<1> SUFFICES ASSUME FuseInv, [FuseNext]_allVars PROVE FuseInv'
    OBVIOUS
<1>0. TablesInv /\ RepoInv /\ CursorInv
      BY DEF FuseInv
<1>1. CASE Serve
  <2>1. Request /\ UNCHANGED mountVars /\ task \in {"mounted", "detached"}
        BY <1>1 DEF Serve
  <2>2. TablesInv' /\ UNCHANGED repoVars
        BY <1>0, <2>1, RequestTables DEF CursorInv
  <2>3. RepoInv'
        BY <1>0, <2>2 DEF RepoInv, repoVars
  <2>4. CursorInv'
        BY <1>0, <2>1, RequestCursor
  <2> QED BY <2>1, <2>2, <2>3, <2>4 DEF FuseInv, mountVars, Running
<1>2. CASE RepositoryStep /\ UNCHANGED mountVars
  <2>1. RepoInv'
        BY <1>0, <1>2, RepositoryInv
  <2>2. UNCHANGED tables /\ cursor' = NoCursor
        BY <1>2 DEF RepositoryStep, AccountAdded, BalanceChanged, RepositoryGrows
  <2>3. TablesInv'
        BY <1>0, <2>2 DEF tables, TablesInv, TablesInverse, Inodes
  <2>4. CursorInv'
        BY <2>2 DEF CursorInv, NoCursor, CursorAt
  <2>5. Fresh => Fresh'
        BY <2>2 DEF tables, Fresh, NewInodeMap, NewPathMap, NewNextInode
  <2> QED BY <1>2, <2>1, <2>2, <2>3, <2>4, <2>5 DEF FuseInv, mountVars, Running
<1>3. ASSUME NEW how \in {"ok", "error", "panic", "dropped"}, Ends(how),
             main' \in {main, "returned"}, outcome' \in {outcome, "ok"}
      PROVE  FuseInv'
  <2>1. /\ Fresh' /\ cursor' = NoCursor /\ task' = "ended" /\ end' = how
        /\ TablesInv' /\ RepoInv' /\ CursorInv'
        BY <1>0, <1>3, EndsFresh
  <2> QED BY <1>3, <2>1 DEF FuseInv, Running
<1>4. CASE MountFails \/ ReadPanics \/ SessionEnds \/ ServiceUnmount \/ RuntimeDropped
      BY <1>3, <1>4 DEF MountFails, ReadPanics, SessionEnds, ServiceUnmount, RuntimeDropped
<1>5. ASSUME UNCHANGED fsVars,
             main' \in {main, "waiting", "unmounting", "lazy", "returned"},
             outcome' \in {outcome, "none", "ok", "err"},
             end' \in {end, "none"},
             task' = task \/ task' \in {"starting", "mounted", "detached"}
                          \/ (task \in {"none", "ended"} /\ task' = "queued")
      PROVE  FuseInv'
  <2>1. /\ TablesInv' /\ RepoInv' /\ CursorInv' /\ (Fresh => Fresh')
        /\ (cursor = NoCursor => cursor' = NoCursor)
        BY <1>0, <1>5, FilesystemStays
  <2> QED BY <1>5, <2>1 DEF FuseInv, Running
<1>6. CASE TaskStarts \/ Mounts \/ Spawn \/ NoMountPoint \/ TaskAwaited \/ CtrlC \/ LazyUnmount
      BY <1>5, <1>6 DEF TaskStarts, Mounts, Spawn, NoMountPoint, TaskAwaited, CtrlC, LazyUnmount,
                        Returns, Fusermount
<1>7. CASE Unmount
      BY <1>3, <1>5, <1>7 DEF Unmount, Returns, Fusermount
<1>8. CASE UNCHANGED allVars
      BY <1>5, <1>8 DEF allVars, mountVars
<1> QED BY <1>1, <1>2, <1>4, <1>6, <1>7, <1>8 DEF FuseNext

\* It holds from the start.
LEMMA FuseStart == FuseInit => FuseInv
<1> SUFFICES ASSUME FuseInit PROVE FuseInv
    OBVIOUS
<1>1. Fresh /\ cursor = NoCursor
      BY DEF FuseInit, FsInit, Fresh
<1>2. TablesInv
      BY <1>1, FreshTables
<1>3. RepoInv
      BY LedgerFilesystemAssumption DEF FuseInit, FsInit, RepoInv, IsInjective
<1>4. CursorInv
      BY <1>1 DEF CursorInv, NoCursor, CursorAt
<1> QED BY <1>1, <1>2, <1>3, <1>4 DEF FuseInit, FuseInv

\* The invariant holds in every state.
LEMMA FuseAlways == FuseSpec => []FuseInv
BY FuseStart, FuseStep, PTL DEF FuseSpec

\* Every variable of the filesystem, the owners and the task keeps its type, and
\* between two mounts the filesystem is as new() makes it.
THEOREM FuseTypesHold == FuseSpec => []FuseTypeOK
<1>1. FuseInv => FuseTypeOK
  <2> SUFFICES ASSUME FuseInv PROVE FuseTypeOK
      OBVIOUS
  <2>1. TablesInv /\ RepoInv /\ CursorInv
        BY DEF FuseInv
  <2>2. Inodes \subseteq Nat
    <3>1. Inodes = 1 .. (next_inode - 1) /\ next_inode \in Nat
          BY <2>1 DEF TablesInv, TablesInverse
    <3> QED BY <3>1
  <2>3. FsTypeOK
        BY <2>1, <2>2 DEF FsTypeOK, TablesInv, TablesInverse, RepoInv, CursorInv
  <2> QED BY <2>3 DEF FuseTypeOK, FuseInv, Fresh
<1> QED BY <1>1, FuseAlways, PTL

\* The two inode tables stay inverse to each other, without gaps and with the
\* parents of all they hold, whatever is looked up and listed.
THEOREM InodesAlwaysMatch == FuseSpec => []InodesMatch
<1>1. FuseInv => InodesMatch
      BY DEF FuseInv, TablesInv, TablesInverse, InodesMatch
<1> QED BY <1>1, FuseAlways, PTL

\* readdir, lookup, getattr and the path resolver always say the same of an
\* entry: its inode, its kind, and that a listed file can be read.
THEOREM AnswersAlwaysAgree == FuseSpec => []AnswersAgree
<1>1. FuseInv => AnswersAgree
      BY EntriesAgree DEF FuseInv
<1> QED BY <1>1, FuseAlways, PTL

\* Whatever can be read is a file with the data of the account that its path
\* names, and the files of every listed account can be read.
THEOREM ReadsAlwaysResolve == FuseSpec => []ReadsResolve
<1>1. FuseInv => ReadsResolve
      BY FilesResolve DEF FuseInv
<1> QED BY <1>1, FuseAlways, PTL

\* A directory or file that is read in pieces, of any size, gives everything once
\* and in order, although every call builds the whole reply anew and lookups
\* hand out inodes in between.
THEOREM CursorAlwaysExact == FuseSpec => []CursorExact
<1>1. FuseInv => CursorExact
      BY CursorIsExact DEF FuseInv
<1> QED BY <1>1, FuseAlways, PTL

\* The paths of every account the filesystem ever lists resolve to that account,
\* for any set of ids and any spelling of them.
THEOREM PathsAlwaysResolve == FuseSpec => []PathsResolve
<1>1. FuseInv => PathsResolve
  <2>1. RepoInv => \A i \in DOMAIN accounts : accounts[i] \in Ids
        BY DEF RepoInv
  <2> QED BY <2>1, PathsReadBack DEF FuseInv, PathsResolve
<1> QED BY <1>1, FuseAlways, PTL

\* As long as a mount is served, no inode ever stands for another path.
THEOREM InodesAreStable == FuseSpec => InodeStable
<1> DEFINE Stable == Running /\ task' # "ended" =>
                         \A i \in Inodes : i \in DOMAIN inode_map' /\ inode_map'[i] = inode_map[i]
<1>1. FuseInv /\ [FuseNext]_allVars => [Stable]_allVars
  <2> SUFFICES ASSUME FuseInv, FuseNext, task' # "ended" PROVE Stable
      OBVIOUS
  <2>1. CASE Serve
    <3>1. Inodes \subseteq Inodes' /\ \A i \in Inodes : inode_map'[i] = inode_map[i]
          BY <2>1, RequestTables DEF Serve, FuseInv, CursorInv
    <3> QED BY <3>1 DEF Inodes
  <2>2. CASE RepositoryStep
        BY <2>2 DEF RepositoryStep, AccountAdded, BalanceChanged, RepositoryGrows, tables, Inodes
  <2>3. CASE TaskStarts \/ Mounts \/ Spawn \/ NoMountPoint \/ TaskAwaited \/ CtrlC \/ LazyUnmount \/ Unmount
        BY <2>3 DEF TaskStarts, Mounts, Spawn, NoMountPoint, TaskAwaited, CtrlC, LazyUnmount, Unmount,
                    Ends, fsVars, tables, Inodes
  <2>4. CASE MountFails \/ ReadPanics \/ SessionEnds \/ ServiceUnmount \/ RuntimeDropped
        BY <2>4 DEF MountFails, ReadPanics, SessionEnds, ServiceUnmount, RuntimeDropped, Ends
  <2> QED BY <2>1, <2>2, <2>3, <2>4 DEF FuseNext
<1> QED BY <1>1, FuseAlways, PTL DEF FuseSpec, InodeStable
============================================================================
