CONSTANTS
  FpDecimals = 2
  MaxDecimals = 3
  Scale <- MCScale
  MaxUint = 40
  ContextMod = 9
  Amounts <- MCAmounts
  OutputMaxes <- MCOutputMaxes
  Ratios <- MCRatios
  Decimals <- MCDecimals
SPECIFICATION Spec
CHECK_DEADLOCK FALSE
INVARIANT ContextDiffsMatchAnyDecimals
