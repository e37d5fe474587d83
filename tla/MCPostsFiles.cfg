\* A deletion of a post, one of whose files is stored with the posts.
SPECIFICATION Spec
CONSTANTS
  a1 = a1
  a2 = a2
  p1 = p1
  f1 = f1
  f2 = f2
  Accounts = {a1, a2}
  Iris = {p1}
  Files = {f1, f2}
  PostFiles <- MCPostFiles
  Folder <- MCFolder
  Readers = {r1}
  Creates = {c1}
  Deletes = {d1}
  MaxAdminChanges = 1
  None = None
SYMMETRY Symmetry
CHECK_DEADLOCK FALSE
INVARIANTS PostFilesQueued
