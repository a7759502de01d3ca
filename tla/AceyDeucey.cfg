SPECIFICATION FairSpec
CONSTANTS
  N = 2
  Antes <- MCAntes
  Ranks <- MCRanks
  Amounts <- MCAmounts
  MaxGames = 2
  MaxRounds = 3
INVARIANTS
  OfferedBetsAreAccepted
  AcesAreCalled
PROPERTIES
  ImplementsPlayable
CHECK_DEADLOCK FALSE
