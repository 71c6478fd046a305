SPECIFICATION SystemFairSpec
CONSTANTS
  c1 = c1
  c2 = c2
  Consolas = {c1, c2}
  Listing <- TwoListings
  Texts <- TwoTexts
  Segmentos <- TwoSegmentos
  Typed = {5}
  MaxBursts = 2
INVARIANTS
  SocketsTypeOK
  PcbIsWhole
  FreedBeforeExit
  NobodyMissing
PROPERTY ConsolaEnds
CHECK_DEADLOCK FALSE
