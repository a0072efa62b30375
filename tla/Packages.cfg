\* A fresh database, or an old journal replayed under a Left log, then migrated.
SPECIFICATION Spec
CONSTANTS
  PackageId = {p1, p2}
  CabalFile = {c1, c2}
  Tarball = {t1}
  UserId = {u1}
  Time = {1, 2}
  FilePath = {prefs}
  MaxLog = 4
  MaxRevisions = 2
  MaxTarballs = 1
SYMMETRY Symmetry
INVARIANTS
  RevisionsLogged
  IndexFormatsAgree
  EntriesResolve
PROPERTIES
  MigrationIsComplete
  IndexAppendOnly
CHECK_DEADLOCK FALSE
