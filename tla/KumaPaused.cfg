SPECIFICATION Spec
CONSTANTS
  None = None
  Names = {"web", "mail", "nas", "old"}
  Targets = {"a", "b"}
  Hosts = {"nas"}
  Versions = {1, 2, 3}
  Catalog <- MCCatalog
  Uses = {"window", "page"}
  Listed <- MCListed
  Rollbacks = FALSE
  Faulty = {"resume"}
  MaxFaults = 1
CHECK_DEADLOCK FALSE
INVARIANT StoredIsWatching
