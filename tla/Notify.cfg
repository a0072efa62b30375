\* Two requests at a time, among runs of the job.
SPECIFICATION Spec
CONSTANTS
  UserId = {1, 2}
  Version = {1, 2}
  Tag = {t1, t2}
  FirstPrefs <- MCFirstPrefs
  Prefs <- MCPrefs
  Edited = {2}
  Request = {r1, r2}
  Cap = 1
  MaxTime = 2
  MaxRequests = 2
  MaxFailures = 1
INVARIANTS
  ToldAndNotRepeated
  ProposalsReach
PROPERTIES
  CatchesUp
