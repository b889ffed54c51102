SPECIFICATION HSpec
CONSTANTS
  None = None
  Runs = {timer, manual}
  Conditions = {"disk"}
  Collectors = {"ssh_facts"}
  Readings = {1}
  AgeCap = 0
  Retention = 0
  Faults = {"collector", "abort"}
  Modes <- SendOnly
  Source <- MCSource
  Rule <- MCRule
  Selections <- AllCollectors
SYMMETRY RunSymmetry
CHECK_DEADLOCK FALSE
INVARIANTS TypeOK  NoSilentRecovery
