----------------------------- MODULE MCPasscode -----------------------------
(* Passcode on small sets for TLC. *)
EXTENDS Passcode, TLC

Symmetry ==
  Permutations(Creators) \cup Permutations(Verifiers) \cup Permutations(PasscodeIds)
    \cup Permutations(Codes) \cup Permutations(Emails)
    \cup Permutations(AccountIds \ WalletAccounts)
=============================================================================
