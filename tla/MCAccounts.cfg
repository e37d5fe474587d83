\* Two overlapping requests of every kind.
SPECIFICATION Spec
CONSTANTS
  AccountIds = {a1, a2, a3}
  Addrs = {w1}
  Emails = {e1}
  Googles = {g1}
  Rows = {}
  UniqueRows = {}
  Requests = {r1, r2}
  MaxEpoch = 1
  None = None
SYMMETRY Symmetry
INVARIANTS TypeOK ReferencesOK NonceInvalidated
PROPERTIES NoLoginStolen
