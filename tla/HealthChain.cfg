SPECIFICATION FairSpec
CONSTANTS
  None = None
  Runs = {"timer"}
  Conditions = {"disk", "updates"}
  Collectors = {"ssh_facts"}
  Readings = {0, 1}
  AgeCap = 1
  Retention = 1
  Faults = {}
  Modes <- SendOrDry
  Source <- MCSource
  Rule <- MCRule
  Selections <- AllCollectors
CHECK_DEADLOCK FALSE
PROPERTIES ReportsChain AnnouncedOnce LastingBreachIsReported
