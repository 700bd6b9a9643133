CONSTANTS
  Objects = {1, 2, 3}
  Deployments <- AllDeployments
  WritesAfterSwitch = FALSE
  MaxCommands = 4
  MaxFails = 2
  MaxRestarts = 1
  MaxEdits = 2
SPECIFICATION Spec
INVARIANTS ReplicaSurvivesHandovers RollbackRestores ProjectKept NothingLeftBehind
CHECK_DEADLOCK FALSE
CONSTRAINT CommandsOrEdits
