CONSTANTS
  hook = hook
  operator = operator
  Bootstraps = {hook, operator}
  MaxEvents = 1
SPECIFICATION Spec
PROPERTIES AcceptedMeansBaseline FoundDatasetIsNeverReset DatabaseIsSetUp
CHECK_DEADLOCK FALSE
