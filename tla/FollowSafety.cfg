\* Two users, one device each, three calls at a time, faults included.
SPECIFICATION HSpec
CONSTANTS
  a = a
  b = b
  da = da
  db = db
  dc = dc
  Users = {a, b}
  Devices = {da, db}
  Owner <- MCOwner
  Legacy = {}
  NoUser = NoUser
  CallIds = {c1, c2, c3}
  MaxTaps = 2
  MaxFaults = 1
SYMMETRY PairSymmetry
CONSTRAINT ScreensOfUse
INVARIANTS
  TypeOK
  NoSelfFollow
  EverApproved
  EverAsked
  AgreeUnlessTorn
PROPERTIES
  RequestRecorded
