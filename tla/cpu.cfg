SPECIFICATION CpuFairSpec
CONSTANTS
  p1 = p1
  p2 = p2
  Algorithm = "FEEDBACK"
  MaxDispatches = 3
  MaxInstructions = 6
  InputsTable = 2
  PageSize = 8
  Pids = {p1, p2}
  Program <- TwoPrograms
  Segments <- TwoTables
  Registers = {"AX", "BX"}
  WordSize = 4
  Typed = {2}
  Starts = {0, 2, 6}
  Unwritten = Unwritten
INVARIANTS
  TypeOK
  CpuTypeOK
  OneEach
  FaultInTable
PROPERTIES
  ExecutesPrograms
  PcbComesBack
CHECK_DEADLOCK FALSE
