CONSTANTS
  None = None
  Text = Text
  Documents <- MCDocuments
  FieldInputs <- MCFieldInputs
  Amounts = {5}
  Selections = {"0x2"}
  VaultIds = {2}
  NameOrder <- MCNameOrder
  Foreign <- MCForeign
  MaxSaved = 1
SPECIFICATION MCSpec
INVARIANTS
  CopiesAgree
  RestoredAsSaved
  OrderAsEntered
  DepositsAsEntered
PROPERTIES
  VaultsKept
