\* One request at a time: the documented sessions.
SPECIFICATION Spec
CONSTANTS
  AccountIds = {a1, a2, a3}
  WalletAccounts = {a2, a3}
  Requests = {r1}
  None = None
PROPERTIES ImplementsMultiLogin LogoutIsFinal
