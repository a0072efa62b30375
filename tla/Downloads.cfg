\* Three days, two packages, two imports that may overlap, a crash and an
\* error of the file system.
SPECIFICATION CountFairSpec
CONSTANTS
  PackageName = {p1, p2}
  ImportRequest = {i1, i2}
  MaxDay = 2
  MaxDownloads = 2
  MaxImports = 2
  MaxCrashes = 1
  MaxErrors = 1
CHECK_DEADLOCK FALSE  \* the last day is over and all is counted
INVARIANTS
  CountsConserved
  LogAndTotalsCover
PROPERTIES
  EventuallyCounted
