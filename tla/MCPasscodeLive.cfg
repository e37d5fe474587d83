\* Three createPasscode calls, two at a time, and a verification, none of them
\* lost: the valid passcodes, and the role of every account that is created.
SPECIFICATION FairSpec
CONSTANTS
  Emails = {e1}
  Codes = {k1}
  PasscodeIds = {p1, p2, p3}
  AccountIds = {w, n1}
  WalletAccounts = {w}
  Creators = {c1, c2}
  Verifiers = {v1}
  Mergers = {m}
  MaxTryCount = 2
  MaxFailures = 0
  None = None
  NoEmail = NoEmail
  NoRow = NoRow
INVARIANTS UnconsumedBound
PROPERTIES RoleFollowsAccount
