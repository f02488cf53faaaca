\* The document of user b has no requests field.
SPECIFICATION HSpec
CONSTANTS
  a = a
  b = b
  da = da
  db = db
  dc = dc
  Users = {a, b}
  Devices = {da}
  Owner <- MCOwner
  Legacy = {b}
  NoUser = NoUser
  CallIds = {c1, c2}
  MaxTaps = 1
  MaxFaults = 0
SYMMETRY CallSymmetry
PROPERTIES
  RequestRecorded
