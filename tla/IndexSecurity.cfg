\* One request at a time; crashes, reloads and the cron job that signs again.
SPECIFICATION FairSpec
CONSTANTS
    Package = {p1}
    Request = {r1}
    MaxLog = 3
    MaxTarballs = 2
    MaxVersion = 3
    MaxCrashes = 1
    MaxFiles = 1
    MaxQueue = 2
    Value <- MCValue
    Unevaluable = {}
    p1 = p1
    r1 = r1
CHECK_DEADLOCK FALSE  \* the log is full and the server has crashed
INVARIANTS UploadsHavePackageJson TarballsGetEntries SignedMatchesState SignedIsServed
PROPERTIES EventuallyServed
