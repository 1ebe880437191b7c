CONSTANTS
  s1 = s1
  s2 = s2
  c1 = c1
  c2 = c2
  Streams <- OneStream
  Closers <- TwoClosers
  RecvCap = 1
  MaxDevWrites = 2
  MaxWrites = 2
SPECIFICATION Spec
SYMMETRY CloserSymmetry
INVARIANTS
  TypeOK
  NoOrphanStream
  NothingSurvivesClose
  AcknowledgedDataIsKept
  WrittenMeansConsumed
  NoLostWakeup
  ClosedStreamEndsService
