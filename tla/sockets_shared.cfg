SPECIFICATION Spec
CONSTANTS
  c1 = c1
  c2 = c2
  Consolas = {c1, c2}
  Listing <- TwoListings
  Texts <- TwoTexts
  Segmentos <- TwoSegmentos
  Typed = {5}
  MaxBursts = 1
INVARIANT OpCodeExpected
CHECK_DEADLOCK FALSE
