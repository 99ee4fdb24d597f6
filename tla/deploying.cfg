CONSTANTS
  Runners = {r1, r2}
  Top = 3
  Directions = {"up", "down"}
  Workers = {input, outbox, references}
  Requests = {q1, q2}
SPECIFICATION FairDeploymentSpec
INVARIANTS RegistryMatchesSchema DownRevertsTheLast ServesOnWholeSchema StopsInOrder EndsTidily
PROPERTIES UpReachesTheTop StopsByItself
CHECK_DEADLOCK FALSE
