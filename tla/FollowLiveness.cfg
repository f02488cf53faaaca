\* One device of user a, three taps, two calls at a time, one fault; no symmetry.
SPECIFICATION Spec
CONSTANTS
  a = a
  b = b
  da = da
  db = db
  dc = dc
  Users = {a, b}
  Devices = {da}
  Owner <- MCOwner
  Legacy = {}
  NoUser = NoUser
  CallIds = {c1, c2}
  MaxTaps = 3
  MaxFaults = 1
INVARIANTS
  SymmetricWithoutFaults
PROPERTIES
  StopFollowResolves
  UnfollowSettles
