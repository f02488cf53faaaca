\* One user registers, the other has an account; they share two devices.
CONSTANTS
  Users = {u, w}
  Old = {w}
  Nobody = Nobody
  None = None
  Devices = {d1, d2}
  MaxJobs = 1
  MaxTaps = 3
  MaxOuts = 2
  MaxFaults = 1
SPECIFICATION Spec
INVARIANTS TypeOK AccountHasDocument 
PROPERTIES ProfileKept BioKept
SYMMETRY DeviceSymmetry
CONSTRAINT Explored
