\* Building, starting, serving and shutting down, with calls in flight.
SPECIFICATION FairSpec
CONSTANTS
  Config <- Configurations
  Signal = {"metrics", "logs"}
  Request = {r1, r2}
  Nobody = Nobody
INVARIANTS
  TypeOK
  ConnectorsReachLeaves
  BuildAcceptsTheValid
  WiringFollowsTheConfig
  RunningPipelinesServe
  ExitsAfterAnswering
PROPERTY
  ShutdownEnds
