\* Two requests of one browser in flight at the same time.
SPECIFICATION Spec
CONSTANTS
  AccountIds = {a1, a2, a3}
  WalletAccounts = {a2, a3}
  Requests = {r1, r2}
  None = None
SYMMETRY Symmetry
INVARIANTS TypeOK SessionConsistent OnlyProvedAccounts
PROPERTIES OnlyProvedChange
