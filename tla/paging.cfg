CONSTANTS
  NONE = NONE
  Ids = {1, 2, 3, 4, 5}
  Times = {1, 2, 3}
  Asked <- AnyLimit
  DefaultLimit = 2
  MaxLimit = 2
SPECIFICATION Spec
INVARIANTS PagesAreInOrder OnlyTwinsAreMissed
CHECK_DEADLOCK FALSE
