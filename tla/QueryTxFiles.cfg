SPECIFICATION Spec
CONSTANTS
  Workers = {w1, w2}
  Images = {}
  TdbImages = {}
  Videos = {v1}
  Blobs = {}
  Expiring = {}
  NoFile = NoFile
  MaxCmds = 2
  MaxQueries = 3
  MaxCrashes = 0
PROPERTIES
  FilesOutliveResponse
CHECK_DEADLOCK FALSE
