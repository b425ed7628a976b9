CONSTANTS
  container = container
  hook = hook
  operator = operator
  Containers = {container, hook}
  Operator = operator
  MaxFaults = 1
SPECIFICATION Spec
INVARIANTS SchemaIsARevision ReadyMeansModels OnlyDisturbedOnesFail ResetGoesThrough
PROPERTIES ServesOnlyHead EveryContainerServes
CHECK_DEADLOCK FALSE
