\* One request at a time: publishing a candidate is enough.
SPECIFICATION Spec
CONSTANTS
  foo = foo
  Foo = Foo
  Name = {foo, Foo}
  PackageId <- MCPackageId
  CandidateId <- MCCandidateId
  EditName = {foo}
  lowercase <- MCLowercase
  User = {u1, u2}
  Uploaders = {u1, u2}
  Tarball = {t1}
  MaxReleases = 2
  Request = {r1}
INVARIANT NoTrailingZeros
