CONSTANTS
  None = None
  Documents <- MCDocuments
  Lists <- MCLists
  NewBindings <- MCBindings
  Addresses = {"0x3"}
  VaultIds = {1, 2}
  FilterDocuments <- MCFilterDocuments
  Requests <- MCRequests
  Bodies <- MCBodies
SPECIFICATION MCSpec
INVARIANTS
  TypesOK
  NothingLost
  OrdersOnOneNetwork
  BindingsSound
  FilteredAsAsked
PROPERTIES
  UpdatesKeepTheRest
  PlainDocumentsFiltered
CHECK_DEADLOCK FALSE
