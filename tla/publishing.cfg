CONSTANTS
  NONE = NONE
  Transactions = {1, 2}
  Events = {1, 2}
  TxOf <- OneEach
  Publishers = {p1, p2}
  Batch = 2
SPECIFICATION FairSpec
INVARIANTS OnceUnlessTroubled OvertakenInBatchOrTrouble
PROPERTIES ImplementsAtLeastOnce
CHECK_DEADLOCK FALSE
