SPECIFICATION GFairSpec
CONSTANTS
  N = 3
  Ante = 2
  MaxOwed = 5
  CardCount = 3
  MaxRounds = 3
PROPERTIES
  ImplementsPlayable
  OnlyTheBoldPay
CHECK_DEADLOCK FALSE
