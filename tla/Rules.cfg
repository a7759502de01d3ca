SPECIFICATION Spec
CONSTANTS
  c = c
  d = d
  h = h
  s = s
  Suits = {c, d, h, s}
  Ranks = {2, 3, 4, 5, 6, 7, 14}
  WildRanks = {2, 4, 5, 6, 14}
  TrickRanks = {2, 3, 4}
  MaxCards <- MCMaxCards
  MaxWild = 5
  LargeHands <- MCLargeHands
  MaxHeld = 3
  Players = 3
SYMMETRY Symmetry
INVARIANTS
  NaturalHandsAreRanked
  WildHandsAreBestReplacements
  TricksFollowTheRules
CHECK_DEADLOCK FALSE
