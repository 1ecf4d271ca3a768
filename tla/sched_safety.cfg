\* The life cycle and the scheduler on four slots, with the fairness of the timer.
CONSTANTS
  e1 = e1
  e2 = e2
  e3 = e3
  e4 = e4
  Envs = {e1, e2, e3, e4}
  NULL = NULL
  ENVX <- MC_ENVX
SPECIFICATION FairSpec
INVARIANTS
  TypeOK
  EachEnvOnce
  StatusMatchesPlace
  PromptIsIdle
  AddressSpaceLive
PROPERTIES
  RoundRobinOrder
  ReadyEventuallyRuns
  LifeCycle
