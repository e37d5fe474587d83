\* Two uploads and two deletions of one project file or one profile file, each job
\* run at most twice, and one crash.
SPECIFICATION FairSpec
CONSTANTS
  ProjectKeys = {k1}
  OtherKeys = {k2}
  Uploads = {u1, u2}
  Deletions = {d1, d2}
  MaxAttempts = 2
  MaxCrashes = 1
  None = None
CHECK_DEADLOCK FALSE
INVARIANTS TypeOK UploadKept RowHasObject DeletionComplete
PROPERTIES DeletionEnds JobsAdvance
