SPECIFICATION FairSpec
CONSTANTS
  N = 4
  Ante = 1
  Tables <- MCTables
  Ranks <- MCRanks
INVARIANTS
  TradesHaveAPartner
PROPERTIES
  ImplementsPlayable
  KingsAreKept
  
CHECK_DEADLOCK FALSE
