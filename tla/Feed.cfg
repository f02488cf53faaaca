\* Two posters in two zones, two posts, one failing read.
SPECIFICATION Spec
CONSTANTS
  near = near
  far = far
  me = me
  Posters = {near, far}
  Reader = me
  Zone <- MCZone
  Instants <- MCInstants
  MaxPosts = 2
  MaxEdits = 1
  MaxFaults = 1
INVARIANTS
  TypeOK
  FeedWindow
  RecentPostsShown
PROPERTIES
  FeedAppears
