\* A reader (of the post or of the list), a creation and a deletion, two accounts,
\* one post with a file in each folder, and a change of the admin.
SPECIFICATION Spec
CONSTANTS
  a1 = a1
  a2 = a2
  p1 = p1
  f1 = f1
  f2 = f2
  Accounts = {a1, a2}
  Iris = {p1}
  Files = {f1, f2}
  PostFiles <- MCPostFiles
  Folder <- MCFolder
  Readers = {r1}
  Creates = {c1}
  Deletes = {d1}
  MaxAdminChanges = 1
  None = None
SYMMETRY Symmetry
CHECK_DEADLOCK FALSE
INVARIANTS TypeOK AnswerFitsPrivacy
PROPERTIES OnlyAdminsWrite FilesQueuedFirst
