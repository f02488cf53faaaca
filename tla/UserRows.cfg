\* Three listed users, one failing await, two changes of the array.
SPECIFICATION Spec
CONSTANTS
  Users = {u1, u2, u3}
  MaxFaults = 1
  MaxEdits = 2
INVARIANTS
  TypeOK
  RowsNamedUntilEdited
  BuildsUnlessFault
PROPERTIES
  LoadingEnds
