SPECIFICATION FairSpec
CONSTANTS
  N = 3
  Ante = 1
  Variants <- MCAllVariants
  FullTable = 3
  DeckSize = 24
  OfferedOnly = FALSE
  MaxPot = 8
INVARIANTS
  BreaksAreMushroomsOrRaces
  NobodyOwes
  TheDeckLasts
PROPERTIES
  ImplementsPlayable
CHECK_DEADLOCK FALSE
