SPECIFICATION Spec
CONSTANTS
  Pids = {p1, p2, p3}
  Devices = {disco}
  IoThreads = {t1}
  NoPcb = NoPcb
  Algorithm = "FEEDBACK"
  MaxDegree = 2
  Returns <- Mixed
  MaxBursts = 1
PROPERTY PcbIsAssigned
CHECK_DEADLOCK FALSE
