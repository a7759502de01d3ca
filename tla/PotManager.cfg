SPECIFICATION PMSpec
CONSTANTS
  N = 3
  Ante = 1
  SmallBlind = 2
  BigBlind = 4
  Chip = 2
  TableStakes <- MCStakes
  MaxRounds = 2
  NoPayouts = NoPayouts
INVARIANTS
  PMTypeOK
  ChipsConserved
  PotsArePaidToTheChip
  TurnIsOnSomebodyWhoMayAct
  RoundEndsSettled
  SidePotsMatchContributions
  BestHandsWinTheirPots
