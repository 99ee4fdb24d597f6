CONSTANTS
  NONE = NONE
  Messages = {1, 2}
  Groups = {"w1", "w2"}
  GroupOf <- OneGroup
  Content <- PoisonFirst
  Consumers = {c1, c2}
  Limit = 3
  Redrive = TRUE
SPECIFICATION FairSpec
INVARIANTS NothingIsLost DeadLettersAreJustified GroupsStayInOrder
PROPERTIES ImplementsAtLeastOnce
