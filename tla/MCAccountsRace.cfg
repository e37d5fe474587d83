\* A Google account connected to the wallet account between the check and the merge.
SPECIFICATION Spec
CONSTANTS
  AccountIds = {a1, a2}
  Addrs = {w1}
  Emails = {e1}
  Googles = {g1}
  Rows = {}
  UniqueRows = {}
  Requests = {r1, r2}
  MaxEpoch = 1
  None = None
PROPERTIES MergeKeepsLogins
