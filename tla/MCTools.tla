------------------------------ MODULE MCTools ------------------------------
(***************************************************************************)
(* Small instances of the tools that run rainlang for the author of a      *)
(* strategy. Parsing: two nodes and three calls at the same time, of a     *)
(* text that one of the nodes accepts from block 1 on, and one that none   *)
(* accepts. Fuzz: documents of up to three charts, of scenarios with one   *)
(* run at the latest block, two at every second block, one from a block    *)
(* on, and one with an interval of 0. UnitTests: a document that elides    *)
(* two keys and a test that elides one, and stacks of no, two and three    *)
(* values. Words: two scenarios on two networks, of which one has a        *)
(* metaboard, two pragmas of which one scenario binds one, and a contract  *)
(* that has no words.                                                      *)
(*                                                                         *)
(* A behaviour is of one of them; the others have ended before it begins,  *)
(* as they share no more than the chain.                                   *)
(***************************************************************************)
EXTENDS Tools, TLC

-----------------------------------------------------------------------------
(* Parsing *)

MCRequests ==
  [kind : {"problems"}, document : {"composes", "problem"}, deployer : {None, "deployer"},
   text : {"good"}, node : {"n1"}, block : {None}]
  \cup [kind : {"parse"}, document : {"composes"}, deployer : {"deployer"},
        text : {"good"}, node : {"n1", "n2"}, block : {1}]
  \cup [kind : {"problems"}, document : {"composes"}, deployer : {"deployer"},
        text : {"bad"}, node : {"n1"}, block : {1}]

MCParses == {<<"good", "n1", 1>>}

-----------------------------------------------------------------------------
(* Fuzz *)

MCKeys == {"bound", "x", "y"}

MCFuzzedScenarios ==
  "latest" :> [runs |-> None, blocks |-> None, bound |-> {"bound"}] @@
  "second" :> [runs |-> 2, bound |-> {"bound", "x"},
               blocks |-> [range |-> [start |-> 1, end |-> 3], interval |-> 2]] @@
  "from" :> [runs |-> 1, bound |-> {"bound", "x", "y"},
             blocks |-> [range |-> [start |-> 1, end |-> None], interval |-> None]] @@
  "zero" :> [runs |-> 1, bound |-> {"bound", "x"},
             blocks |-> [range |-> [start |-> None, end |-> None], interval |-> 0]]

MCFuzzedCharts ==
  { "a" :> "latest" @@ "b" :> "second" @@ "c" :> "second",
    "a" :> "from" @@ "b" :> "latest", "a" :> "zero" }

-----------------------------------------------------------------------------
(* UnitTests *)

MCTests ==
  [scenario : {"some-key", "unknown"},
   blocks : {None, [range |-> [start |-> 1, end |-> Latest], interval |-> 2],
             [range |-> [start |-> 2, end |-> 3], interval |-> None],
             [range |-> [start |-> Genesis, end |-> Latest], interval |-> 0]}]
MCTestDeployers == {"some-key"}
MCBound == {"orderbook-subparser"}
MCMainKeys == {"orderbook-subparser", "second-binding", "third-binding"}
MCTestKeys == {"orderbook-subparser", "fourth-binding"}
MCStacks == {<<>>, <<2, 5>>, <<5, 2>>, <<2, 5, 6>>, <<5, 6, 2>>}

-----------------------------------------------------------------------------
(* Words *)

MCScenarios ==
  "s1" :> [deployer |-> "d1", network |-> "n1", bindings |-> "k1" :> "a1" @@ "k2" :> "a2"] @@
  "s2" :> [deployer |-> "d2", network |-> "n2", bindings |-> "k1" :> "a1"]

MCDeployments == "p1" :> "s1" @@ "p2" :> "s2"
MCDeployers == "d1" :> [address |-> "d1", network |-> "n1"] @@
               "d2" :> [address |-> "d2", network |-> "n2"]
MCPragmas == <<"k1", "k2">>
MCMetaboards == "n1" :> "b1"

MCMetas ==
  ({"d1", "d2", "a1", "a2"} \X {"b1"}) \cup ({"d1", "d2", "a1", "zero"} \X {"b2"})

MCInSettings == {"s1"}
MCAskedCalls ==
  [source : {"scenario"}, name : {"s1", "s2", "none"}, only : {"all", "deployer", "pragma"},
   board : {None, "b2"}, readable : BOOLEAN]
  \cup [source : {"deployment"}, name : {"p1", "p2", "none"}, only : {"all"},
        board : {None, "b2"}, readable : BOOLEAN]
  \cup [source : {"deployer"}, name : {"d1", "d2", "none"}, only : {"all"},
        board : {None, "b2"}, readable : {TRUE}]
  \cup [source : {"app"}, name : {None}, only : {"all"}, board : {None}, readable : {TRUE}]

-----------------------------------------------------------------------------
(* The tools that have ended *)

NothingParsed ==
  /\ latest = [n \in Nodes |-> MaxBlock]
  /\ forker = [queue |-> <<>>, fork |-> None]
  /\ calls = [c \in Callers |->
       [request |-> CHOOSE r \in Requests : TRUE, block |-> None,
        problems |-> {"request"}, pc |-> "done"]]
NothingCharted ==
  /\ self = [charts |-> <<>>, blocks |-> <<>>, drawn |-> 0, fork |-> None]
  /\ left = {} /\ run = F!NoRun(self) /\ tasks = <<>> /\ data = <<>>
  /\ fuzzPc = "done"
NothingTested ==
  /\ runner = [test |-> None, drawn |-> 0, fork |-> None, block |-> 0]
  /\ stacks = [pre |-> None, calculate |-> None]
  /\ evaluated = <<>> /\ testPc = "error"
NothingAsked ==
  /\ boards = Metaboards
  /\ asked = [args |-> CHOOSE a \in AskedCalls : a.board = None, scenario |-> None,
              left |-> {}, addresses |-> <<>>, answers |-> <<>>, rows |-> <<>>,
              output |-> <<>>, pc |-> "error"]

MCInit ==
  \/ Init /\ block = LastBlock /\ NothingCharted /\ NothingTested /\ NothingAsked
  \/ F!Init /\ NothingParsed /\ NothingTested /\ NothingAsked
  \/ T!Init /\ NothingParsed /\ NothingCharted /\ NothingAsked
  \/ W!Init /\ block = LastBlock /\ NothingParsed /\ NothingCharted /\ NothingTested

MCSpec == MCInit /\ [][ToolsNext]_toolsVars /\ ToolsFairness

=============================================================================
