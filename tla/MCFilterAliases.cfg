CONSTANTS
  None = None
  Documents <- MCDocuments
  Lists <- MCLists
  NewBindings <- MCBindings
  Addresses = {"0x3"}
  VaultIds = {1, 2}
  FilterDocuments <- MCAliasedDocuments
  Requests <- MCRequests
  Bodies <- MCBodies
SPECIFICATION MCSpec
INVARIANTS
  DeployersKept
CHECK_DEADLOCK FALSE
