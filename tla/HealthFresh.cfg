SPECIFICATION HSpec
CONSTANTS
  None = None
  Runs = {"timer"}
  Conditions = {"updates"}
  Collectors = {"ssh_facts"}
  Readings = {0, 1}
  AgeCap = 2
  Retention = 2
  Faults = {}
  Modes <- SendOrDry
  Source <- MCSource
  Rule <- MCRule
  Selections <- AllCollectors
CHECK_DEADLOCK FALSE
INVARIANTS FreshBreachHeldBack
