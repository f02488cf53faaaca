\* Two users are enough: one accept shifts the other row.
SPECIFICATION Spec
CONSTANTS
  Users = {u1, u2}
  MaxFaults = 0
  MaxEdits = 0
INVARIANTS
  RowsNamed
