SPECIFICATION FairSpec
CONSTANTS
  None = None
  Jobs = {"update", "weekly"}
  Group <- MCGroups
  Modes = {"apply"}
  Revs = {1, 2}
  FirstRev = 1
  Deployed = {2}
  Steps = {1}
  Keep = 3
  MaxRuns = 4
  Faulty = {"copy", "swap", "apply", "interrupt"}
  MaxFaults = 2
CHECK_DEADLOCK FALSE
INVARIANTS LiveIsWhole
PROPERTIES NewRevisionIsApplied
