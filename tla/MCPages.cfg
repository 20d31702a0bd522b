CONSTANTS
  alice = alice
  bob = bob
  g1 = g1
  g2 = g2
  None = None
  Subgraphs = {g1, g2}
  InitialTables <- MCTables
  Calls <- MCCalls
  Owners = {alice, bob}
  Ids = {2, 5}
  PageSize = 1
  U16 = 64
  LastTime = 9
  Main = g1
  MaxChanges = 2
SPECIFICATION Spec
INVARIANTS
  NothingMissed
  ListedWhenStill
PROPERTIES
  CallsEnd
CHECK_DEADLOCK FALSE
