SPECIFICATION FifoSpec
CONSTANTS
  Pids = {p1, p2, p3}
  Devices = {disco}
  IoThreads = {t1}
  NoPcb = NoPcb
  Algorithm = "FIFO"
  MaxDegree = 4
  Returns <- ComputeAndIo
  MaxBursts = 1
PROPERTIES
  ServedInOrder
CHECK_DEADLOCK FALSE
