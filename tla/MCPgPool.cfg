\* Two connections for a passcode, a merge, a GraphQL request and the deletion of a
\* post with two files; requests of two statements each. m1 is also a Google callback:
\* with its connection it either goes on as a passcode or finds no e-mails.
SPECIFICATION FairSpec
CONSTANTS
  Conns = {c1, c2}
  Plain = {}
  Mailers = {m1}
  Googles = {m1}
  Mergers = {g1}
  Graphql = {q1}
  Deleters = {d1}
  Statements = {s1, s2}
  Files = {f1, f2}
  None = None
INVARIANTS TypeOK ConnectionsOwned NoForeignTransaction  MergeAtomic NonceSaved NeverStuck
PROPERTIES EveryRequestEnds ServedInOrder 
