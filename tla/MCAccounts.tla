------------------------------ MODULE MCAccounts ------------------------------
(* Accounts on small sets for TLC. *)
EXTENDS Accounts, TLC

\* All rows are unique ones, or none is.
ASSUME RowsAreAlike == UniqueRows \in {Rows, {}}

Symmetry == Permutations(AccountIds) \cup Permutations(Addrs) \cup Permutations(Rows)
              \cup Permutations(Requests)
=============================================================================
