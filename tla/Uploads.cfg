\* Two requests at a time, of one or two users.
SPECIFICATION Spec
CONSTANTS
  foo = foo
  Foo = Foo
  Name = {foo, Foo}
  PackageId <- MCPackageId
  CandidateId <- MCCandidateId
  EditName = {foo}
  lowercase <- MCLowercase
  User = {u1, u2}
  Uploaders = {u1, u2}
  Tarball = {t1}
  MaxReleases = 2
  Request = {r1, r2}
SYMMETRY Symmetry
INVARIANTS
  ReportsAreTrue
  TrailingZerosExplained
  PackagesAreOwned
PROPERTIES
  EntitledReleases
  NoTakeover
