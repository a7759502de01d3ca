SPECIFICATION LLFairSpec
CONSTANTS
  N = 4
  Ante = 1
  SmallBlind = 0
  BigBlind = 0
  Chip = 3
  LLStakes <- MCTwoStakes
  InitialDeal = 3
  TradeIns <- MCTradeIns
INVARIANTS
  OnlyDesertedPotsAreLost
  EverybodyTradesFirst
PROPERTIES
  KeepsPlaying
CHECK_DEADLOCK FALSE
