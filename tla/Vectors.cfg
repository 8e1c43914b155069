SPECIFICATION MCSpec
CONSTANTS
  Entries <- SmallEntries
  MaxDims = 18
  SignificandBits = 2
  MaxExponent = 2
  CodeValues = 3
  Infinity = Infinity
  NegInfinity = NegInfinity
  NaN = NaN
  Dim = 2
  Alignments = {0, 3}
  GpuVectors <- SomeGpuVectors
  GpuIds = {1, 2}
  MaxPoints = 2
  Clusters = 2
  Quantizers = {"None", "SQ8", "PQ"}
  Quantized <- FirstOnly
  Vectors <- SomeVectors
  DimensionOf <- SmallDimension
  DistanceOf <- SmallDistance
  Names = {"a"}
  Dimensions = {1, 2}
  DocIds = {0, 1}
  Points <- SomePoints
  MaxNodes = 3
  None = None
  PointIds = {1, 2}
  QdrantPoints <- SomeQdrantPoints
  FileOf <- OwnFile
  Metrics = {"Cosine"}
  Conditions <- Red
  Torn = Torn
  Threshold = 2
  CacheSize = 1
  SnapshotInterval = 2
  OpenDimensions = {1}
INVARIANTS
  KernelsAgree
  SearchesFindBest
  FreshAnswers
  RestartRestores
  StorageAnswers
CHECK_DEADLOCK FALSE
