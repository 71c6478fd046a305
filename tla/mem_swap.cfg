SPECIFICATION DataSpec
CONSTANTS
  p1 = p1
  a1 = a1
  a2 = a2
  Pids = {p1}
  Pages = {a1, a2}
  Layout <- TwoPages
  NFrames = 1
  Algorithm = "CLOCK"
  Ops = {"MOV_IN", "MOV_OUT"}
  MaxAccesses = 3
  MaxChecks = 1
  NoPage = NoPage
INVARIANT ReadsBack
CHECK_DEADLOCK FALSE
