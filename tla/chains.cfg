CONSTANTS
  NONE = NONE
  w1 = w1
  w2 = w2
  Currencies = {"BRL"}
  MaxInt = 6
  Wallets = {w1}
  Players = {"ana"}
  Providers = {"p"}
  Rounds = {"r1"}
  Exts = {"e1", "e2", "e3", "e4"}
  Keys = {"k1", "k2", "k3", "k4"}
  TxIds = {1, 2, 3, 4, 5}
  Times = {0}
  Clients = {c1}
  Consumers = {}
  Resolvers = {v1}
  MsgIds = {}
  Digests = {}
  Requests <- ChainRequests
  Messages = {}
  Openings <- EitherOpening
  MaxAttempts = 2
SPECIFICATION Spec
INVARIANTS MoneyIsExplained OutboxTellsTheBooks NoWaitCycle
PROPERTIES HistoryIsFrozen
