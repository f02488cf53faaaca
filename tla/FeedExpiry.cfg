\* One post is enough: at half past midnight, by a poster in the zone of the reader.
SPECIFICATION Spec
CONSTANTS
  near = near
  far = far
  me = me
  Posters = {near, far}
  Reader = me
  Zone <- MCZone
  Instants <- MCInstants
  MaxPosts = 1
  MaxEdits = 0
  MaxFaults = 0
INVARIANTS
  ViewableFor24Hours
