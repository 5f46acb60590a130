SPECIFICATION PartsSpec
CONSTANTS
  Driven = {"images", "tiledb", "video", "frames", "wire", "neo4j"}
  None = None
  Refs = {1, 2}
  AutoRef = 5
  Tags = {1}
  Vals = {0, 1}
  AskedVals = {1}
  Dirs = {"in", "any"}
  MaxNodes = 3
  MaxEdges = 2
  MaxCmds = 3
  MaxQueries = 1
  FindNow = 1
  FindTimes = {0}
  MaxVal = 1
  WordSize = 4
  MaxFound = 2
  Engines = {"ivf", "flinng", "dense", "sparse"}
  Vectors = {0, 1}
  Labels <- PartsLabels
  Quorum = 2
  MaxBatch = 2
  MaxDescs = 2
  NImages = 2
  MaxOps = 2
  TdbNames = {n1, n2}
  MaxDim = 4
  MaxPixels = 4
  MaxUchar = 2
  MinTile = 2
  Lengths = {0, 1, 5}
  MaxVideoOps = 3
  NFrames = 4
  Delay = 1
  Micro = 2
  Durations = {2, 3}
  MaxWanted = 2
  Header = 2
  Sizes = {0, 2, 3}
  MaxSize = 2
  WireQueries = 2
  RegionImages = {1, 2}
  Width = 3
  Corners = {0, 2}
  Sides = {2}
  MaxRegions = 2
  NeoWorkers = {w1, w2, w3}
  NeoConns = {c1, c2}
  NoConn = NoConn
  NeoCmds = 2
  NeoQueries = 2
INVARIANTS
  OpsInOrder
  ImageNotLost
  TdbRoundTrip
  ResizeInBounds
  VideoOpsInOrder
  SourceKept
  KeyFramesExact
  RightAnswer
  ConnsConserved
  NeoImagesStored
CHECK_DEADLOCK FALSE
