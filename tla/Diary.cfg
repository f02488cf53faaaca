\* One user with a phone and a tablet.
CONSTANTS
  Devices = {d1, d2}
  MaxDiaries = 2
  MaxTexts = 2
  MaxScreens = 2
  MaxFaults = 1
SPECIFICATION FairSpec
INVARIANTS TypeOK DashboardStays
PROPERTIES ViewOnlyAdvances NoResurrection CreatorCloses
CHECK_DEADLOCK FALSE
