\* Two devices of user a, three taps on Unfollow, two calls at a time, no fault.
SPECIFICATION Spec
CONSTANTS
  a = a
  b = b
  da = da
  db = db
  dc = dc
  Users = {a, b}
  Devices = {da, dc}
  Owner <- MCOwner
  Legacy = {}
  NoUser = NoUser
  CallIds = {c1, c2}
  MaxTaps = 3
  MaxFaults = 0
SYMMETRY CallSymmetry
CONSTRAINT ScreensOfUse
INVARIANTS
  SymmetricWhenQuiet
