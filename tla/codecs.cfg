SPECIFICATION Spec
CONSTANTS
  Tile = 2
  MinScroll = 2
  Probes = 3
  Tries = 2
  Divisor = 12
  TileJobs <- MCTileJobs
  FrameJobs <- MCFrameJobs
  ScrollJobs <- MCScrollJobs
  TightJobs <- MCTightJobs
  ShapeJobs <- MCShapeJobs
  WheelJobs <- MCWheelJobs
INVARIANTS Arrives Thrift ScrollFound ShapeShown
CHECK_DEADLOCK FALSE
