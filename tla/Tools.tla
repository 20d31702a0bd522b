-------------------------------- MODULE Tools --------------------------------
(***************************************************************************)
(* The tools that run rainlang for the author of a strategy, at the same   *)
(* time: the language services and the parse command (Parsing), the fuzz   *)
(* runner that makes the data of charts (Fuzz), the runner of unit tests   *)
(* (UnitTests) and the words of contracts (Words). Each has a state of its *)
(* own; the two runners read the latest block of one chain.                *)
(***************************************************************************)
EXTENDS Parsing

CONSTANTS
  Genesis, Latest,               \* the blocks that are no number
  Error, Endless,                \* outcomes of expanding blocks
  LastBlock,                     \* bound: the last block of the runners' chain
  FuzzedCharts, FuzzedScenarios, \* the documents of the fuzz runner
  Keys,                          \* and the keys that they declare
  TestDeployers, Tests, Bound,   \* the tests, see UnitTests
  MainKeys, TestKeys, Stacks,
  Scenarios, Deployments,        \* the documents whose words are asked for,
  Deployers, Pragmas,            \* see Words
  InSettings, Metaboards, Metas, Zero,
  AskedCalls

VARIABLES
  block,                                   \* the chain of both runners
  self, left, run, tasks, data, fuzzPc,    \* of Fuzz
  runner, stacks, evaluated, testPc,       \* of UnitTests
  boards, asked                            \* of Words

fuzzVars == <<self, left, run, tasks, data, fuzzPc>>
testVars == <<runner, stacks, evaluated, testPc>>
wordsVars == <<boards, asked>>
toolsVars == <<vars, block, fuzzVars, testVars, wordsVars>>

F == INSTANCE Fuzz WITH
       Settings <- FuzzedCharts, Scenarios <- FuzzedScenarios,
       MaxBlock <- LastBlock, latest <- block, pc <- fuzzPc

T == INSTANCE UnitTests WITH
       Deployers <- TestDeployers, MaxBlock <- LastBlock,
       latest <- block, calls <- evaluated, pc <- testPc

W == INSTANCE Words WITH Calls <- AskedCalls, call <- asked

ASSUME ToolsAssumption ==
  F!FuzzAssumption /\ T!UnitTestsAssumption /\ W!WordsAssumption

(* All tools are begun, and one of them takes a step; a block that is mined*)
(* is a step of either runner.                                             *)
ToolsInit == Init /\ F!Init /\ T!Init /\ W!Init

ParsingStep == Next /\ UNCHANGED <<block, fuzzVars, testVars, wordsVars>>
FuzzStep == F!Next /\ UNCHANGED <<vars, testVars, wordsVars>>
TestStep == T!Next /\ UNCHANGED <<vars, fuzzVars, wordsVars>>
WordsStep == W!Next /\ UNCHANGED <<vars, block, fuzzVars, testVars>>

ToolsNext == ParsingStep \/ FuzzStep \/ TestStep \/ WordsStep

(* The fairness of each, as in its own specification *)
ToolsFairness ==
  /\ \A c \in Callers : WF_vars(Step(c))
  /\ WF_<<block, fuzzVars>>(F!Runner) /\ WF_<<block, fuzzVars>>(F!Tasks(TRUE))
  /\ WF_<<block, testVars>>(T!Runner)
  /\ WF_wordsVars(W!Client)

ToolsSpec == ToolsInit /\ [][ToolsNext]_toolsVars /\ ToolsFairness

-----------------------------------------------------------------------------
(* Properties *)

(* The state of each has the form that it should have.                     *)
TypesOK == TypeOK /\ F!TypeOK /\ T!TypeOK /\ W!TypeOK

(* The properties of Fuzz, UnitTests and Words *)
ChartsAsAsked == F!ChartsAsAsked
OneTradeTested == T!OneTradeTested
WordsAsAsked == W!WordsAsAsked

(* Whatever is begun ends (make_chart_data, run_unit_test, the language    *)
(* services and the words command), also when requests fail.               *)
AllEnd == CallsEnd /\ F!RunsEnd /\ T!TestEnds /\ W!CallEnds

=============================================================================
