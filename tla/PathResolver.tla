---------------------------- MODULE PathResolver ----------------------------
(***************************************************************************)
(* Paths of the FUSE filesystem and what their shape means (fuse/src/      *)
(* path_resolver.rs).                                                      *)
(*                                                                         *)
(* A path is the sequence of the names between its slashes: "/" is <<>>,   *)
(* and every other path has as many slashes as names.  A name is a stem    *)
(* and an extension, all that the code looks at.  Uuid says which id       *)
(* uuid::Uuid::parse_str (external) finds in a stem, or NoId: an id has    *)
(* several spellings, of which Spelling is the one that Display writes.    *)
(***************************************************************************)
EXTENDS Naturals, Sequences

CONSTANTS Ids, NoId, Stems, Uuid, Spelling

ASSUME PathResolverAssumption ==
    /\ {"accounts", "transactions", "docs", "balance", "tx", "snapshot"} \subseteq Stems
    /\ Stems \cap {".", ".."} = {}
    /\ NoId \notin Ids
    /\ Uuid \in [Stems -> Ids \cup {NoId}]
    /\ Spelling \in [Ids -> Stems]
    /\ \A id \in Ids : Uuid[Spelling[id]] = id

Extensions == {"", ".json", ".log", ".pdf"}

Names == [stem : Stems, ext : Extensions]

Name(stem, ext) == [stem |-> stem, ext |-> ext]
Dir(stem)       == Name(stem, "")

Root     == <<>>
Accounts == <<Dir("accounts")>>
Transactions == <<Dir("transactions")>>
Docs     == <<Dir("docs")>>

BalanceFile  == Name("balance", ".json")
TxFile       == Name("tx", ".log")
SnapshotFile == Name("snapshot", ".json")

\* An id with an extension is no UUID.
parse_str(name) == IF name.ext = "" THEN Uuid[name.stem] ELSE NoId

ends_with(path, name)    == path # Root /\ path[Len(path)] = name
ends_with_ext(path, ext) == path # Root /\ path[Len(path)].ext = ext
starts_with(path, dir)   == Len(path) > 1 /\ <<path[1]>> = dir

\* The id of the account a path lies under, or NoId for Err(InvalidPath).
parse_account_id(path) ==
    IF starts_with(path, Accounts) THEN parse_str(path[2]) ELSE NoId

parse_transaction_id(path) ==
    IF starts_with(path, Transactions) /\ path[2].ext = ".json"
      THEN parse_str(Dir(path[2].stem)) ELSE NoId

\* Mutant: every second level is a directory.
is_directory_level(path) == Len(path) = 2 \/ path \in {Root, Accounts, Transactions, Docs}

is_directory(path) ==
    \/ path \in {Root, Accounts, Transactions, Docs}
    \/ Len(path) = 2 /\ (starts_with(path, Accounts) \/ starts_with(path, Docs))

is_valid_file(path) ==
    \/ ends_with(path, BalanceFile) \/ ends_with(path, TxFile) \/ ends_with(path, SnapshotFile)
    \/ starts_with(path, Transactions) /\ ends_with_ext(path, ".json")
    \/ starts_with(path, Docs) /\ (ends_with_ext(path, ".json") \/ ends_with_ext(path, ".pdf"))

get_file_type(path) ==
    IF is_directory(path) THEN "Directory"
    ELSE CASE ends_with_ext(path, ".json") -> "Json"
           [] ends_with_ext(path, ".log")  -> "Log"
           [] ends_with_ext(path, ".pdf")  -> "Pdf"
           [] OTHER                        -> "Unknown"

account_path(id)         == Append(Accounts, Dir(Spelling[id]))
balance_path(id)         == Append(account_path(id), BalanceFile)
transaction_log_path(id) == Append(account_path(id), TxFile)
transaction_path(id)     == Append(Transactions, Name(Spelling[id], ".json"))
document_path(type, id, name) == Docs \o <<Dir(type), Dir(id), name>>

\* snapshot_<timestamp>.json: a stem of its own for every timestamp.
snapshot_path(id, stem) == Append(account_path(id), Name(stem, ".json"))

----------------------------------------------------------------------------
\* What the generators write for an id, the parsers and the classification read
\* back.
ReadBack(id) ==
    /\ \A p \in {account_path(id), balance_path(id), transaction_log_path(id)} :
          parse_account_id(p) = id /\ parse_transaction_id(p) = NoId
    /\ parse_transaction_id(transaction_path(id)) = id
    /\ parse_account_id(transaction_path(id)) = NoId
    /\ \A p \in {balance_path(id), transaction_log_path(id), transaction_path(id)} :
          is_valid_file(p) /\ ~is_directory(p)
    /\ is_directory(account_path(id)) /\ ~is_valid_file(account_path(id))
============================================================================
