SPECIFICATION HSpec
CONSTANTS
  None = None
  Runs = {"timer"}
  Conditions = {"updates", "signature"}
  Collectors = {"ssh_facts"}
  Readings = {0, 1}
  AgeCap = 2
  Retention = 1
  Faults = {"abort"}
  Modes <- SendOnly
  Source <- MCSource
  Rule <- MCRule
  Selections <- AllCollectors
CHECK_DEADLOCK FALSE
INVARIANTS ReopenThenGrace
PROPERTIES SeenIsMemory
