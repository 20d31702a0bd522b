CONSTANTS
  Callers = {"c1", "c2", "c3"}
  Requests <- MCRequests
  Nodes = {"n1", "n2"}
  Parses <- MCParses
  MaxBlock = 1
  None = None
  Genesis = Genesis
  Latest = Latest
  Error = Error
  Endless = Endless
  LastBlock = 3
  FuzzedCharts <- MCFuzzedCharts
  FuzzedScenarios <- MCFuzzedScenarios
  Keys <- MCKeys
  TestDeployers <- MCTestDeployers
  Tests <- MCTests
  Bound <- MCBound
  MainKeys <- MCMainKeys
  TestKeys <- MCTestKeys
  Stacks <- MCStacks
  Scenarios <- MCScenarios
  Deployments <- MCDeployments
  Deployers <- MCDeployers
  Pragmas <- MCPragmas
  InSettings <- MCInSettings
  Metaboards <- MCMetaboards
  Metas <- MCMetas
  AskedCalls <- MCAskedCalls
  Zero = "zero"
SPECIFICATION MCSpec
INVARIANTS
  TypesOK
  AnswersHold
  ChartsAsAsked
  OneTradeTested
  WordsAsAsked
PROPERTIES
  AllEnd
CHECK_DEADLOCK FALSE
