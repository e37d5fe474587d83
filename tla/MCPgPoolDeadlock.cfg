\* As many POST /passcode as connections.
SPECIFICATION FairSpec
CONSTANTS
  Conns = {c1, c2}
  Plain = {p1}
  Mailers = {m1, m2}
  Googles = {}
  Mergers = {}
  Graphql = {}
  Deleters = {}
  Statements = {s1}
  Files = {}
  None = None
CHECK_DEADLOCK FALSE
PROPERTIES PasscodeAnswered
