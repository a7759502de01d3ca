SPECIFICATION FairSpec
CONSTANTS
  N = 3
  Ante = 2
  SmallBlind = 2
  BigBlind = 4
  Chip = 2
  Stakes <- MCStakes
  None = None
INVARIANTS
  CollisionsAreRaces
  ShowdownAfterTheRiver
  OnlyUncollectedBetsAreLost
PROPERTIES
  NeverHangs
