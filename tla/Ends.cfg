SPECIFICATION Spec
CONSTANTS
  u1 = u1
  u2 = u2
  a1 = a1
  a2 = a2
  a3 = a3
  b1 = b1
  c1 = c1
  c2 = c2
  q1 = q1
  q2 = q2
  NoBase = NoBase
  Reindexer = reindexer
  Units = {u1, u2}
  ArtifactsOf <- MCArtifactsOf
  BaseOf <- MCBaseOf
  CombosOf <- MCCombosOf
  MaxSchema = 2
  MaxFailures = 1
  Start = 2
  Length = 3
  RequestTries = 2
  BodyTries = 3
  MaxChunk = 4
  Requests = {q1, q2}
  MaxWrites = 1
  MaxLag = 1
  MaxRender = 1
  MaxTries = 2
  Quarter = 1
CHECK_DEADLOCK FALSE
INVARIANTS NormWhole RecordsReadable Delivered EdgeCurrent
PROPERTIES StreamAlwaysEnds EventuallyFresh
