\* One device, Follow then Request Sent, no fault.
SPECIFICATION Spec
CONSTANTS
  a = a
  b = b
  da = da
  db = db
  dc = dc
  Users = {a, b}
  Devices = {da}
  Owner <- MCOwner
  Legacy = {}
  NoUser = NoUser
  CallIds = {c1, c2}
  MaxTaps = 2
  MaxFaults = 0
SYMMETRY CallSymmetry
INVARIANTS
  FollowOffered
