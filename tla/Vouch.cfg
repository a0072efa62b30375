\* Two requests at a time vouch for two newcomers, while the job runs and admins edit the group.
SPECIFICATION Spec
CONSTANTS
  User = {a, b, c, d}
  Founders = {a, b}
  Vouchee = {c, d}
  requiredCountOfVouches = 2
  Month = 0
  Edited = {c}
  MaxPosts = 3
  MaxTime = 1
  Request = {r1, r2}
SYMMETRY Symmetry
INVARIANTS
  NotificationsAreTrue
  EnoughUnlessOverlapped
PROPERTIES
  SeveralVouchers
  NewUploadersWait
