\* Two overlapping requests of each kind, a merge, two e-mails, any interleaving.
SPECIFICATION Spec
CONSTANTS
  Emails = {e1, e2}
  Codes = {k1, k2}
  PasscodeIds = {p1, p2}
  AccountIds = {w, n1, n2}
  WalletAccounts = {w}
  Creators = {c1, c2}
  Verifiers = {v1, v2}
  Mergers = {m}
  MaxTryCount = 1
  MaxFailures = 1
  None = None
  NoEmail = NoEmail
  NoRow = NoRow
SYMMETRY Symmetry
INVARIANTS TypeOK TryBound UseBound RolesLost
PROPERTIES LoginMatchesEmail
