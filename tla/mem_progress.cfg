SPECIFICATION ScheduledSpec
CONSTANTS
  p1 = p1
  p2 = p2
  a1 = a1
  a2 = a2
  b1 = b1
  Pids = {p1, p2}
  Pages = {a1, a2, b1}
  Layout <- TwoAndOne
  NFrames = 2
  Algorithm = "CLOCK-M"
  Ops = {"MOV_OUT"}
  MaxAccesses = 2
  MaxChecks = 1
  NoPage = NoPage
INVARIANTS
  TypeOK
  FrameExclusive
  FramesExact
PROPERTY MovCompletes
CHECK_DEADLOCK FALSE
