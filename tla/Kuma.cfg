SPECIFICATION FairSpec
CONSTANTS
  None = None
  Names = {"web", "mail", "nas", "old"}
  Targets = {"a", "b"}
  Hosts = {"nas"}
  Versions = {1, 2, 3}
  Catalog <- MCCatalog
  Uses = {"window", "page"}
  Listed <- MCListed
  Rollbacks = FALSE
  Faulty = {"update", "create", "resume", "delete", "notify", "assign", "key", "crash"}
  MaxFaults = 2
CHECK_DEADLOCK FALSE
INVARIANTS StoredIsProvisioned
PROPERTIES ExpectedIsKept ProvisionedAtLast
