SPECIFICATION FairSpec
CONSTANTS
  N = 4
  Ante = 1
  DeckSize = 52
  Trades = {1}
  MaxGames = 2
INVARIANTS
  EverybodyIsReportedOnce
PROPERTIES
  ImplementsPlayable
  OutMeansOut
CHECK_DEADLOCK FALSE
