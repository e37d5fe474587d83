------------------------------ MODULE MCSession ------------------------------
(* Session on small sets for TLC. *)
EXTENDS Session, TLC

Symmetry == Permutations(WalletAccounts) \cup Permutations(Requests)
=============================================================================
