CONSTANTS
  alice = alice
  bob = bob
  ob = ob
  x = x
  y = y
  FpDecimals = 1
  MaxDecimals = 1
  Scale <- MCScale
  MaxUint = 50
  ContextMod = 3
  OB = ob
  IOIndices = {1}
  Users = {alice, bob}
  Tokens = {x, y}
  VaultIds = {1}
  Borrowers = {bob}
  OutputMaxes = {4}
  Ratios = {1}
  DepositAmounts = {1}
  WithdrawAmounts = {1}
  LoanAmounts = {1}
  MoveAmounts = {}
  TakeAmounts = {1}
  TransferHooks = {"send", "credit"}
  MaxDepth = 2
  Orders <- AskAndBid
  InitBalances <- OneAgainstOne
  TakeLists <- SingleTake
SPECIFICATION Spec
INVARIANTS
  NoCallDrains
  LockMatchesStack
PROPERTIES
  Custodial
  FrozenWhileOutside
