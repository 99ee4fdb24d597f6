CONSTANTS
  NONE = NONE
  w1 = w1
  w2 = w2
  Currencies = {"BRL", "EUR"}
  MaxInt = 6
  Wallets = {w1}
  Players = {"ana"}
  Providers = {"p"}
  Rounds = {"r1"}
  Exts = {"e1", "e2", "e3"}
  Keys = {"k1", "k2", "k3"}
  TxIds = {1, 2, 3, 4}
  Times = {0}
  Clients = {c1, c2}
  Consumers = {}
  Resolvers = {v1}
  MsgIds = {}
  Digests = {}
  Requests <- ForeignRequests
  Messages = {}
  Openings <- OneOpening
  MaxAttempts = 2
SPECIFICATION Spec
INVARIANTS MismatchesAreRecorded
