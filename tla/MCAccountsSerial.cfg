\* One request at a time: every credential and row goes where Identity says.
SPECIFICATION Spec
CONSTANTS
  AccountIds = {a1, a2, a3}
  Addrs = {w1, w2}
  Emails = {e1}
  Googles = {g1}
  Rows = {i1, i2}
  UniqueRows = {i1, i2}
  Requests = {r1}
  MaxEpoch = 1
  None = None
SYMMETRY Symmetry
INVARIANTS ReferencesOK
PROPERTIES ImplementsIdentity MergeKeepsLogins
