-------------------------- MODULE LedgerFilesystem --------------------------
(***************************************************************************)
(* The FUSE filesystem (fuse/src/filesystem.rs): its inode tables, and     *)
(* what lookup, getattr, read and readdir answer from them and from the    *)
(* repositories.  fuser (external) runs the handlers one at a time.        *)
(*                                                                         *)
(* The kernel (external) walks down from the root: it asks for names in    *)
(* what it was told is a directory, lists directories and reads files.  An *)
(* open directory or file is read in pieces: a cursor keeps the offset and *)
(* what was returned so far.  Between two pieces the repositories          *)
(* (external) may change, and any call to them may fail.                   *)
(***************************************************************************)
EXTENDS PathResolver, FiniteSets, Functions

CONSTANTS
    LookupNames,   \* names that applications look up
    MaxInode,      \* bound on the inodes handed out
    FirstAccounts, \* the accounts at the start, each with a balance
    MaxData,       \* bound on the accounts and the versions of their data
    ContentLength  \* number of pieces of a file's content

ASSUME LedgerFilesystemAssumption ==
    /\ LookupNames \subseteq Names
    /\ FirstAccounts \in Seq(Ids)
    /\ \A i, j \in DOMAIN FirstAccounts : FirstAccounts[i] = FirstAccounts[j] => i = j
    /\ MaxInode \in Nat /\ MaxInode > 3 /\ MaxData \in Nat
    /\ ContentLength \in Nat \ {0}

VARIABLES
    inode_map, path_map, next_inode,
    accounts,   \* what find_accounts returns: the ids, in the repository's order
    balances,   \* version of each account's data, 0 for no balance
    cursor      \* the directory or file that is being read

tables   == <<inode_map, path_map, next_inode>>
repoVars == <<accounts, balances>>

\* got is history: what was returned since the cursor was opened.
CursorAt(ino, offset, got, state) == [ino |-> ino, offset |-> offset, got |-> got, state |-> state]

NoCursor == CursorAt(0, 0, <<>>, "none")

Inodes == DOMAIN inode_map

----------------------------------------------------------------------------
(* The inode tables.                                                       *)

Fixed == <<Root, Accounts, Transactions, Docs>>

InodeOfFixed(path) == CHOOSE i \in DOMAIN Fixed : Fixed[i] = path

\* The tables of LedgerFilesystem::new.
NewInodeMap  == [i \in 1 .. 4 |-> Fixed[i]]
NewPathMap   == [p \in {Fixed[i] : i \in 1 .. 4} |-> InodeOfFixed(p)]
NewNextInode == 5

\* The calls of get_or_create_inode of one handler, for distinct paths: a path
\* that is known keeps its inode, the others get the next ones in turn.
NewBefore(ps, i) == {ps[j] : j \in 1 .. (i - 1)} \ DOMAIN path_map

NewPaths(ps) == NewBefore(ps, Len(ps) + 1)

inode_of(ps, i) ==
    IF ps[i] \in DOMAIN path_map THEN path_map[ps[i]]
    ELSE next_inode + Cardinality(NewBefore(ps, i))

position(ps, path) == CHOOSE i \in DOMAIN ps : ps[i] = path

new_path(ps, ino) == CHOOSE path \in NewPaths(ps) : inode_of(ps, position(ps, path)) = ino

\* HashMap::insert of the new paths into both tables.
insert(ps) ==
    /\ inode_map' = [ino \in Inodes \cup next_inode .. (next_inode + Cardinality(NewPaths(ps)) - 1) |->
                        IF ino < next_inode THEN inode_map[ino] ELSE new_path(ps, ino)]
    /\ path_map' = [path \in DOMAIN path_map \cup NewPaths(ps) |->
                        IF path \in DOMAIN path_map THEN path_map[path]
                        ELSE inode_of(ps, position(ps, path))]

\* Mutant: next_inode advances by one, however many paths are new.
get_or_create_reuses(ps) ==
    /\ next_inode' = next_inode + (IF NewPaths(ps) = {} THEN 0 ELSE 1)
    /\ insert(ps)

get_or_create_inodes(ps) ==
    /\ next_inode' = next_inode + Cardinality(NewPaths(ps))
    /\ insert(ps)

----------------------------------------------------------------------------
(* What the handlers answer.                                               *)

Kind(dir) == IF dir THEN "Directory" ELSE "RegularFile"

SecondLevel(path, dir) == starts_with(path, dir) /\ Len(path) = 2

\* attr.kind of lookup's reply (it never sees the root), and of getattr's.
lookup_kind(path) ==
    Kind(path \in {Accounts, Transactions, Docs} \/ SecondLevel(path, Accounts) \/ SecondLevel(path, Docs))

getattr_kind(path) ==
    Kind(path \in {Root, Accounts, Transactions, Docs} \/ SecondLevel(path, Accounts) \/ SecondLevel(path, Docs))

Entry(name, ino, kind) == [name |-> name, ino |-> ino, kind |-> kind]

\* The paths that readdir asks inodes for.  A failure of list_accounts is
\* swallowed: the directory is listed as if it were empty.
listed_paths(path, repo_ok) ==
    IF path = Accounts /\ repo_ok THEN [i \in DOMAIN accounts |-> account_path(accounts[i])]
    ELSE IF SecondLevel(path, Accounts) THEN <<Append(path, BalanceFile), Append(path, TxFile)>>
    ELSE <<>>

\* Mutant: the parent of an account is the root.
dotdot_root(path) == 1

\* The inode of "..", written out in the code.
dotdot(path) == IF SecondLevel(path, Accounts) THEN 2 ELSE 1

readdir_entries(ino, repo_ok) ==
    LET path == inode_map[ino]
        ps   == listed_paths(path, repo_ok)
    IN  <<Entry(Dir("."), ino, "Directory"), Entry(Dir(".."), dotdot(path), "Directory")>>
        \o (IF path = Root THEN [i \in 1 .. 3 |-> Entry(Fixed[i + 1][1], i + 1, "Directory")] ELSE <<>>)
        \o [i \in DOMAIN ps |-> Entry(ps[i][Len(ps[i])], inode_of(ps, i), Kind(path = Accounts))]

\* Any other directory, that is one below /docs, answers ENOENT.
can_list(path) == path \in {Root, Accounts, Transactions, Docs} \/ SecondLevel(path, Accounts)

IsData(path) == ends_with(path, BalanceFile) \/ ends_with(path, TxFile)

\* path.split('/').nth(2).unwrap() of a file that lies directly in the root.
read_panics(path) == IsData(path) /\ Len(path) < 2

\* Mutant: the id is taken from the next name.
read_id_next(path) == IF Len(path) > 2 THEN parse_str(path[3]) ELSE NoId

\* The account whose data a path stands for: its second name, whatever the
\* first one is.
read_id(path) == IF Len(path) > 1 THEN parse_str(path[2]) ELSE NoId

\* The pieces of what read_account_balance or read_account_transactions formats,
\* of the version that is there now; <<>> for ENOENT.
content(path) ==
    LET id == read_id(path)
    IN  IF /\ IsData(path) /\ id # NoId
           /\ ends_with(path, BalanceFile) => balances[id] > 0
          THEN [k \in 1 .. ContentLength |->
                   [file |-> path[Len(path)], id |-> id, version |-> balances[id], part |-> k]]
          ELSE <<>>

----------------------------------------------------------------------------
(* The requests.  getattr, and the answer of lookup, change nothing more.  *)

FsInit ==
    /\ inode_map = NewInodeMap /\ path_map = NewPathMap /\ next_inode = NewNextInode
    /\ accounts = FirstAccounts
    /\ balances = [id \in Ids |-> IF id \in Range(accounts) THEN 1 ELSE 0]
    /\ cursor = NoCursor

\* Mutant: a new name takes over the inode of the one before it.
lookup_recycles(parent, name) ==
    LET path == Append(inode_map[parent], name)
        last == next_inode - 1
    IN  /\ getattr_kind(inode_map[parent]) = "Directory"
        /\ next_inode <= MaxInode
        /\ IF path \in DOMAIN path_map \/ last < 5 \/ parent = last
             THEN get_or_create_inodes(<<path>>)
             ELSE /\ inode_map' = [inode_map EXCEPT ![last] = path]
                  /\ path_map' = [p \in (DOMAIN path_map \ {inode_map[last]}) \cup {path} |->
                                     IF p = path THEN last ELSE path_map[p]]
                  /\ UNCHANGED next_inode
        /\ UNCHANGED <<repoVars, cursor>>

\* Any name gets an inode, whether there is such an account or not.
lookup(parent, name) ==
    /\ getattr_kind(inode_map[parent]) = "Directory"
    /\ next_inode <= MaxInode
    /\ get_or_create_inodes(<<Append(inode_map[parent], name)>>)
    /\ UNCHANGED <<repoVars, cursor>>

\* The kernel opens a directory or a file; the code keeps nothing of it.
Open(ino) ==
    /\ cursor.state # "open"
    /\ cursor' = CursorAt(ino, 0, <<>>, "open")
    /\ UNCHANGED <<tables, repoVars>>

\* Mutant: the offset given with an entry is its own position.
TakeAgain(all, n) ==
    LET rest == SubSeq(all, cursor.offset + 1, Len(all))
        k    == IF n < Len(rest) THEN n ELSE Len(rest)
    IN  CursorAt(cursor.ino, IF k = 0 THEN cursor.offset ELSE cursor.offset + k - 1,
                 cursor.got \o SubSeq(rest, 1, k), IF k = 0 THEN "end" ELSE "open")

\* The cursor when up to n items fit in the reply, from its offset on: the next
\* offset is that of the first item not returned, and an empty reply is the end.
Take(all, n) ==
    LET rest == SubSeq(all, cursor.offset + 1, Len(all))
        k    == IF n < Len(rest) THEN n ELSE Len(rest)
    IN  CursorAt(cursor.ino, cursor.offset + k,
                 cursor.got \o SubSeq(rest, 1, k), IF k = 0 THEN "end" ELSE "open")

Failed == CursorAt(cursor.ino, 0, <<>>, "ENOENT")

\* Every call builds all the entries, from what the repository returns by then,
\* and skips to the offset.  If the repository fails, an offset past the dots
\* finds the end there: such a listing is followed no further.
readdir(n, repo_ok) ==
    LET path == inode_map[cursor.ino]
        ps   == listed_paths(path, repo_ok)
    IN  /\ cursor.state = "open"
        /\ getattr_kind(path) = "Directory"
        /\ next_inode + Cardinality(NewPaths(ps)) <= MaxInode + 1
        /\ IF can_list(path)
             THEN /\ cursor' = IF repo_ok \/ path # Accounts
                                 THEN Take(readdir_entries(cursor.ino, repo_ok), n)
                                 ELSE NoCursor
                  /\ get_or_create_inodes(ps)
             ELSE cursor' = Failed /\ UNCHANGED tables
        /\ UNCHANGED repoVars

\* Every call formats the content anew and returns its part of it; an error of
\* any kind is ENOENT.
read(n, repo_ok) ==
    LET path == inode_map[cursor.ino]
    IN  /\ cursor.state = "open"
        /\ getattr_kind(path) = "RegularFile"
        /\ ~read_panics(path)
        /\ cursor' = IF repo_ok /\ content(path) # <<>>
                       THEN Take(content(path), n)
                       ELSE Failed
        /\ UNCHANGED <<tables, repoVars>>

\* The repositories change: an account appears, anywhere in an order that is
\* not promised, and an account's data gets a new version.  What is read in
\* pieces may then repeat, miss or mix: it is followed no further either.
RepositoryGrows ==
    /\ Len(accounts) + SumFunction(balances) < MaxData
    /\ cursor' = NoCursor
    /\ UNCHANGED tables

AccountAdded(id, i) ==
    /\ RepositoryGrows
    /\ id \notin Range(accounts)
    /\ accounts' = SubSeq(accounts, 1, i - 1) \o <<id>> \o SubSeq(accounts, i, Len(accounts))
    /\ UNCHANGED balances

BalanceChanged(id) ==
    /\ RepositoryGrows
    /\ balances' = [balances EXCEPT ![id] = @ + 1]
    /\ UNCHANGED accounts

Request ==
    \/ \E parent \in Inodes, name \in LookupNames : lookup(parent, name)
    \/ \E ino \in Inodes : Open(ino)
    \/ \E n \in 1 .. 2, repo_ok \in BOOLEAN : readdir(n, repo_ok)
    \/ \E n \in 1 .. 2, repo_ok \in BOOLEAN : read(n, repo_ok)

RepositoryStep ==
    \/ \E id \in Ids, i \in 1 .. (Len(accounts) + 1) : AccountAdded(id, i)
    \/ \E id \in Ids : BalanceChanged(id)

----------------------------------------------------------------------------
FsTypeOK ==
    /\ next_inode \in 5 .. (MaxInode + 1)
    /\ Inodes \subseteq Nat
    /\ \A i \in Inodes : inode_map[i] \in Seq(Names)
    /\ \A p \in DOMAIN path_map : path_map[p] \in Inodes
    /\ accounts \in Seq(Ids)
    /\ balances \in [Ids -> Nat]
    /\ cursor.state \in {"none", "open", "end", "ENOENT"}
    /\ cursor.state # "none" => cursor.ino \in Inodes

\* The two tables of the filesystem are inverse to each other, use every number
\* below next_inode, and hold the parent of every path they hold.
InodesMatch ==
    /\ Inodes = 1 .. (next_inode - 1)
    /\ \A i \in Inodes : inode_map[i] \in DOMAIN path_map /\ path_map[inode_map[i]] = i
    /\ \A p \in DOMAIN path_map : inode_map[path_map[p]] = p
    /\ \A p \in DOMAIN path_map \ {Root} : SubSeq(p, 1, Len(p) - 1) \in DOMAIN path_map

\* The paths generated for the accounts that the filesystem lists give back
\* their ids, never one of the other kind, and no file is taken for a directory.
PathsResolve == \A i \in DOMAIN accounts : ReadBack(accounts[i])

\* The path that an entry of a directory stands for.
EntryPath(path, name) ==
    CASE name = Dir(".")  -> path
      [] name = Dir("..") -> IF path = Root THEN Root ELSE SubSeq(path, 1, Len(path) - 1)
      [] OTHER            -> Append(path, name)

\* Whatever readdir lists, lookup and getattr describe in the same way: the
\* inode is the one in the tables (with those that are written out in the code
\* and those of earlier listings), the kind is that of both replies, and what
\* is listed as a file can be read without a panic.
AnswersAgree ==
    \A ino \in Inodes : can_list(inode_map[ino]) =>
        LET es == readdir_entries(ino, TRUE)
        IN  \A k \in DOMAIN es :
                LET p == EntryPath(inode_map[ino], es[k].name)
                IN  /\ p \in DOMAIN path_map => es[k].ino = path_map[p]
                    /\ es[k].kind = getattr_kind(p)
                    /\ es[k].kind = Kind(is_directory(p))
                    /\ p # Root => es[k].kind = lookup_kind(p)
                    /\ es[k].kind = "RegularFile" => is_valid_file(p) /\ ~read_panics(p)

\* A file below /accounts has the data of the account its path names, in any
\* spelling; the two files of every account that is listed can be read.
ReadsResolve ==
    /\ \A ino \in Inodes :
          LET p == inode_map[ino]
              c == content(p)
          IN  c # <<>> => /\ is_valid_file(p)
                          /\ starts_with(p, Accounts) => c[1].id = parse_account_id(p)
    /\ \A i \in DOMAIN accounts :
          LET id == accounts[i]
          IN  /\ content(transaction_log_path(id)) # <<>>
              /\ balances[id] > 0 => content(balance_path(id)) # <<>>

\* A directory or a file that is read in pieces gives each entry, or piece of
\* the content, once and in order, and all of them before the end, as long as
\* the repositories neither change nor fail meanwhile.
CursorExact ==
    cursor.state \in {"open", "end"} =>
        LET path == inode_map[cursor.ino]
            all  == IF is_directory(path) THEN readdir_entries(cursor.ino, TRUE) ELSE content(path)
        IN  /\ cursor.got # <<>> => cursor.got = SubSeq(all, 1, cursor.offset)
            /\ cursor.state = "end" => cursor.got = all
============================================================================
