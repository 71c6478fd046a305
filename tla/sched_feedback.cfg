SPECIFICATION FairSpec
CONSTANTS
  Pids = {p1, p2}
  Devices = {disco}
  IoThreads = {t1, t2}
  NoPcb = NoPcb
  Algorithm = "FEEDBACK"
  MaxDegree = 1
  Returns <- AnyReturn
  MaxBursts = 3
INVARIANTS
  TypeOK
  OnePlace
  PermitsMatch
PROPERTIES
  ImplementsDiagram
  ProcessEnds
CHECK_DEADLOCK FALSE
