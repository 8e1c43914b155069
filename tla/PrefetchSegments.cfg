SPECIFICATION PrefetchSpec
CONSTANTS
  s1 = s1
  s2 = s2
  Tasks = {t1, t2}
  Segs = {s1, s2}
  Stored <- FirstStored
  Requests <- SomeRequests
  Versions = {1, 2}
  Size <- SizeOfVersion
  MaxBytes = 1
  MaxCounted = 2
  MaxSpoiled = 1
  NoSeg = NoSeg
  Failed = Failed
  Torn = Torn
  NoFile = NoFile
  Empty = Empty
  Records <- SmallRecords
  FetchRequests <- SomeFetches
  MaxDocs = 3
  MaxFetched = 2
  U32 = 64
  HeaderSize = 2
  SegmentHeader = 1
SYMMETRY TaskSymmetry
INVARIANTS
  PrefetchPerDocument
CHECK_DEADLOCK FALSE
