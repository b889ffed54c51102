SPECIFICATION Spec
CONSTANTS
  None = None
  Jobs = {"operator"}
  Group <- MCOneGroup
  Modes = {"apply", "noop", "rollback"}
  Revs = {1, 2}
  FirstRev = 1
  Deployed = {1, 2}
  Steps = {1, 2}
  Keep = 2
  MaxRuns = 5
  Faulty = {"copy", "swap", "apply", "interrupt"}
  MaxFaults = 2
CHECK_DEADLOCK FALSE
INVARIANTS ActiveIsApplied
PROPERTIES DeployKeepsLiveWhole KeepsAWayBack
