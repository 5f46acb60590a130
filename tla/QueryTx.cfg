SPECIFICATION Spec
CONSTANTS
  Workers = {w1, w2}
  Images = {}
  TdbImages = {i1}
  Videos = {v1}
  Blobs = {b1}
  Expiring = {i1, b1}
  NoFile = NoFile
  MaxCmds = 2
  MaxQueries = 2
  MaxCrashes = 1
INVARIANTS
  TypeOK
  QueueAlive
  AckedDurable
  ExpiringQueued
CHECK_DEADLOCK FALSE
