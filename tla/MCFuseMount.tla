---------------------------- MODULE MCFuseMount ----------------------------
(* Instances of FuseMount for TLC. *)
EXTENDS FuseMount

MCIds == {"id1", "id2"}

MCStems == {"accounts", "transactions", "docs", "balance", "tx", "snapshot", "i", "j"}

MCUuid == [s \in MCStems |-> CASE s = "i" -> "id1" [] s = "j" -> "id2" [] OTHER -> "none"]

MCSpelling == [id \in MCIds |-> IF id = "id1" THEN "i" ELSE "j"]

MCFirstAccounts == <<"id1">>

\* A file that every account has, looked up in every directory: in the root it
\* is a file that cannot be read, in /accounts it is taken for an account.
MCLookupNames == {BalanceFile}
============================================================================
