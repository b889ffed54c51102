SPECIFICATION Spec
CONSTANTS
  None = None
  Jobs = {"operator"}
  Group <- MCOneGroup
  Modes = {"apply", "rollback"}
  Revs = {1, 2}
  FirstRev = 1
  Deployed = {1, 2}
  Steps = {1}
  Keep = 5
  MaxRuns = 4
  Faulty = {}
  MaxFaults = 0
CHECK_DEADLOCK FALSE
PROPERTY RollbackGoesBack
