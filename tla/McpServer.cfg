CONSTANTS
  Requests = {1, 2, 3}
  Nobody = 0
SPECIFICATION FairSpec
INVARIANTS LinesAreWhole ReadYourWrites
PROPERTY EveryRequestAnswered
CHECK_DEADLOCK FALSE
