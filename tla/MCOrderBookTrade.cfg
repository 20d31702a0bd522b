CONSTANTS
  alice = alice
  bob = bob
  ob = ob
  x = x
  y = y
  FpDecimals = 1
  MaxDecimals = 1
  Scale <- MCScale
  MaxUint = 50
  ContextMod = 3
  OB = ob
  IOIndices = {1}
  Users = {alice, bob}
  Tokens = {x, y}
  VaultIds = {1}
  Borrowers = {bob}
  OutputMaxes = {1, 4}
  Ratios = {1, 5}
  DepositAmounts = {1, 2}
  WithdrawAmounts = {2}
  LoanAmounts = {}
  MoveAmounts = {2}
  TakeAmounts = {2}
  TransferHooks = {}
  MaxDepth = 1
  Orders <- AsksAndBid
  InitBalances <- ThreeAgainstTwo
  TakeLists <- ListTakes
SPECIFICATION Spec
INVARIANTS
  TypeOK
  Solvent
  TakerLimits
PROPERTIES
  VaultDebitsAuthorised
