SPECIFICATION FairSpec
CONSTANTS
  Slots = {s1, s2}
  MediaSlots = {s1}
  MaxTime = 3
  Ttls = {0, 1}
  Updates = {3}
  MaxCmds = 2
  MaxQueue = 3
  MaxCrashes = 1
INVARIANTS
  TypeOK
  Sorted
  ListMatchesGraph
PROPERTIES
  PurgeExact
  ExpiredIsDeleted
