------------------------------- MODULE Words --------------------------------
(***************************************************************************)
(* The words that an order may use: those of its deployer, and of the      *)
(* contracts that the pragma of its rainlang names. The words of each      *)
(* contract are fetched at the same time, from the metaboard of the network*)
(* of the scenario; the answers come in any order, and some may fail. The  *)
(* words command asks for one deployer, scenario or deployment, the desktop*)
(* app for all scenarios of a document.                                    *)
(***************************************************************************)
EXTENDS Integers, Sequences, FiniteSets

CONSTANTS
  Scenarios,   \* by name: their deployer, its network, and their bindings
  Deployments, \* by name: their scenario
  Deployers,   \* by name: their address and network
  Pragmas,     \* the keys that the document uses words from
  InSettings,  \* the scenarios that are in the settings file too
  Metaboards,  \* the metaboards of the networks that have one
  Metas,       \* the <<contract, metaboard>> that have words
  Zero,        \* the address that a key without a binding becomes
  Calls,       \* the calls that may be made
  None         \* Option::None

(* A scenario is not None and there are finitely many; the app asks for all*)
(* words and gives no metaboard.                                           *)
WordsAssumption ==
  /\ None \notin DOMAIN Scenarios /\ IsFiniteSet(DOMAIN Scenarios)
  /\ Deployments \in [DOMAIN Deployments -> DOMAIN Scenarios]
  /\ InSettings \subseteq DOMAIN Scenarios
  /\ Pragmas \in Seq({Pragmas[i] : i \in DOMAIN Pragmas})
  /\ Metaboards = [n \in DOMAIN Metaboards |-> Metaboards[n]]
  /\ \A c \in Calls :
       /\ c.source \in {"scenario", "deployment", "deployer", "app"}
       /\ c.only \in {"all", "deployer", "pragma"} /\ c.readable \in BOOLEAN
       /\ c.source = "app" => c.only = "all" /\ c.board = None

VARIABLES
  boards, \* config.metaboards
  call    \* the call, and where it is

vars == <<boards, call>>

-----------------------------------------------------------------------------
(* The document. The words command takes an empty one when the file cannot *)
(* be read.                                                                *)
ScenariosOf(args) == IF args.readable THEN DOMAIN Scenarios ELSE InSettings
PragmasOf(args) == IF args.readable THEN Pragmas ELSE <<>>

(* compose_to_rainlang: the bindings of the scenario, and zero for the keys*)
(* that it does not bind                                                   *)
ComposeToRainlang(args, scenario) ==
  LET bindings == Scenarios[scenario].bindings
      keys == PragmasOf(args)
  IN  [i \in DOMAIN keys |-> IF keys[i] \in DOMAIN bindings THEN bindings[keys[i]] ELSE Zero]

(* compose_scenario_to_rainlang                                            *)
ComposeScenario(args, scenario) == ComposeToRainlang(args, scenario)

-----------------------------------------------------------------------------
(* The words of a contract *)

Failed == [status |-> "error"]
AuthoringMeta(address, board) ==
  IF <<address, board>> \in Metas
  THEN [status |-> "ok", of |-> address, board |-> board] ELSE Failed

(* get_contract_authoring_meta_v2_for_scenario                             *)
Fetched(scenario, address) ==
  LET network == Scenarios[scenario].network
  IN  IF network \in DOMAIN boards THEN AuthoringMeta(address, boards[network]) ELSE Failed

ContractWords(address, words) == [address |-> address, words |-> words]

(* get_deployer_words_for_scenario                                         *)
DeployerWords(addresses, answers) == <<ContractWords(addresses[1], answers[1])>>

(* get_pragma_words_for_scenario                                           *)
PragmaWords(addresses, answers) ==
  [i \in DOMAIN addresses |-> ContractWords(addresses[i], answers[i])]

(* Mutation: the answers that are left are counted from the deployer on.   *)
AllWordsShifted(addresses, answers) ==
  LET pragmas == Tail(answers)
  IN  DeployerWords(addresses, answers) \o
      [i \in DOMAIN pragmas |-> ContractWords(addresses[i], pragmas[i])]

(* get_all_words_for_scenario: the first answer, the deployer's, is taken  *)
(* out, and answer i of those left is of address i + 1.                    *)
AllWords(addresses, answers) ==
  LET pragmas == Tail(answers)
  IN  DeployerWords(addresses, answers) \o
      [i \in DOMAIN pragmas |-> ContractWords(addresses[i + 1], pragmas[i])]

Row(scenario, only, addresses, answers) ==
  [scenario |-> scenario,
   words |-> CASE only = "deployer" -> DeployerWords(addresses, answers)
               [] only = "pragma" -> PragmaWords(addresses, answers)
               [] only = "all" -> AllWords(addresses, answers)]

-----------------------------------------------------------------------------
(* The call *)

Init ==
  /\ boards = Metaboards
  /\ \E args \in Calls :
       call = [args |-> args, scenario |-> None, left |-> {}, addresses |-> <<>>,
               answers |-> <<>>, rows |-> <<>>, output |-> <<>>, pc |-> "begin"]

Refuse == call' = [call EXCEPT !.pc = "error"] /\ UNCHANGED boards

(* The metaboard that the command is given, for the network of the scenario*)
Override(network) ==
  boards' = [n \in DOMAIN boards \cup (IF call.args.board = None THEN {} ELSE {network}) |->
               IF n = network /\ call.args.board # None THEN call.args.board ELSE boards[n]]

ForScenario(scenario) ==
  /\ Override(Scenarios[scenario].network)
  /\ call' = [call EXCEPT !.scenario = scenario,
                !.pc = IF call.args.only = "deployer" THEN "fetch" ELSE "pragmas",
                !.addresses = <<Scenarios[scenario].deployer>>,
                !.answers = <<None>>]

BeginScenario ==
  /\ call.pc = "begin" /\ call.args.source = "scenario"
  /\ IF call.args.name \in ScenariosOf(call.args) THEN ForScenario(call.args.name) ELSE Refuse

BeginDeployment ==
  /\ call.pc = "begin" /\ call.args.source = "deployment"
  /\ IF call.args.readable /\ call.args.name \in DOMAIN Deployments
     THEN ForScenario(Deployments[call.args.name]) ELSE Refuse

(* A deployer has no scenario; without any metaboard there is nothing to   *)
(* ask.                                                                    *)
BeginDeployer ==
  LET name == call.args.name
  IN  /\ call.pc = "begin" /\ call.args.source = "deployer"
      /\ IF name \in DOMAIN Deployers
            /\ (call.args.board # None \/ Deployers[name].network \in DOMAIN boards)
         THEN /\ call' = [call EXCEPT !.pc = "fetch", !.addresses = <<Deployers[name].address>>,
                                      !.answers = <<None>>]
              /\ UNCHANGED boards
         ELSE Refuse

(* get_authoring_meta_v2_for_scenarios                                     *)
BeginApp ==
  /\ call.pc = "begin" /\ call.args.source = "app"
  /\ call' = [call EXCEPT !.pc = "next", !.left = ScenariosOf(call.args)]
  /\ UNCHANGED boards

(* get_all_scenarios_all_words takes the scenarios in the order of a map.  *)
NextScenario ==
  /\ call.pc = "next"
  /\ IF call.left = {} THEN call' = [call EXCEPT !.pc = "done"]
     ELSE \E scenario \in call.left :
            call' = [call EXCEPT !.pc = "pragmas", !.left = @ \ {scenario},
                       !.scenario = scenario,
                       !.addresses = <<Scenarios[scenario].deployer>>, !.answers = <<None>>]
  /\ UNCHANGED boards

(* get_pragmas_for_scenario asks the parser for the pragma of the rainlang.*)
ReadPragmas ==
  LET addresses ==
        (IF call.args.only = "pragma" THEN <<>> ELSE call.addresses)
          \o ComposeScenario(call.args, call.scenario)
  IN  /\ call.pc = "pragmas"
      /\ call' = [call EXCEPT !.pc = "fetch", !.addresses = addresses,
                              !.answers = [i \in DOMAIN addresses |-> None]]
      /\ UNCHANGED boards

(* One of the requests that are made at the same time is answered.         *)
Fetch(i) ==
  LET answer ==
        IF call.args.source # "deployer" THEN Fetched(call.scenario, call.addresses[i])
        ELSE AuthoringMeta(call.addresses[i],
               IF call.args.board # None THEN call.args.board
               ELSE boards[Deployers[call.args.name].network])
  IN  /\ call.pc = "fetch" /\ call.answers[i] = None
      /\ call' = [call EXCEPT !.answers[i] = answer]
      /\ UNCHANGED boards

AllAnswered == call.pc = "fetch" /\ \A i \in DOMAIN call.answers : call.answers[i] # None

(* The words command prints the words of all contracts, unless one failed. *)
PrintWords ==
  /\ AllAnswered /\ call.args.source # "app"
  /\ LET words == Row(call.scenario, call.args.only, call.addresses, call.answers).words
     IN  call' = IF \E i \in DOMAIN words : words[i].words.status = "error"
                 THEN [call EXCEPT !.pc = "error"]
                 ELSE [call EXCEPT !.pc = "done", !.output = words]
  /\ UNCHANGED boards

(* The app shows each contract with its words or with its error.           *)
Show ==
  /\ AllAnswered /\ call.args.source = "app"
  /\ call' = [call EXCEPT !.pc = "next",
                !.rows = Append(@, Row(call.scenario, "all", call.addresses, call.answers))]
  /\ UNCHANGED boards

(* A request fails: for the pragma, which fails the call, or for the words *)
(* of a contract.                                                          *)
RequestFails ==
  \/ call.pc = "pragmas" /\ Refuse
  \/ /\ call.pc = "fetch" /\ UNCHANGED boards
     /\ \E i \in DOMAIN call.answers :
          call.answers[i] = None /\ call' = [call EXCEPT !.answers[i] = Failed]

Client ==
  \/ BeginScenario \/ BeginDeployment \/ BeginDeployer \/ BeginApp
  \/ NextScenario \/ ReadPragmas \/ PrintWords \/ Show
  \/ \E i \in DOMAIN call.answers : Fetch(i)

Next == Client \/ RequestFails

(* A request that does not fail is answered.                               *)
Spec == Init /\ [][Next]_vars /\ WF_vars(Client)

-----------------------------------------------------------------------------
(* Properties *)

(* The state has the form that it should have: every contract has one      *)
(* answer, and only the command changes a metaboard.                       *)
TypeOK ==
  /\ call.pc \in {"begin", "next", "pragmas", "fetch", "done", "error"}
  /\ DOMAIN call.answers = DOMAIN call.addresses
  /\ \A n \in DOMAIN boards : boards[n] = call.args.board \/ n \in DOMAIN Metaboards
  /\ call.args.board = None => boards = Metaboards

Shown(args, scenario, words) ==
  \A i \in DOMAIN words :
    words[i].words.status = "ok" =>
      /\ words[i].words.of = words[i].address
      /\ args.board # None => words[i].words.board = args.board
      /\ args.board = None /\ scenario # None =>
           words[i].words.board = Metaboards[Scenarios[scenario].network]

(* The words that are shown or printed for a contract are its own, from the*)
(* metaboard of the network of the scenario or the one that was given,     *)
(* whatever order the answers came in.                                     *)
WordsOfTheirContract ==
  /\ call.pc = "done" => Shown(call.args, call.scenario, call.output)
  /\ \A r \in DOMAIN call.rows : Shown(call.args, call.rows[r].scenario, call.rows[r].words)

(* The contracts of a scenario: its deployer, then those of the pragma     *)
Contracts(args, scenario, only) ==
  (IF only = "pragma" THEN <<>> ELSE <<Scenarios[scenario].deployer>>) \o
  (IF only = "deployer" THEN <<>> ELSE ComposeToRainlang(args, scenario))

(* The command prints the words of all contracts that it was asked for, in *)
(* their order, or nothing.                                                *)
PrintedIsComplete ==
  call.pc = "done" /\ call.args.source # "app" =>
    /\ \A i \in DOMAIN call.output : call.output[i].words.status = "ok"
    /\ call.scenario # None =>
         [i \in DOMAIN call.output |-> call.output[i].address] =
           Contracts(call.args, call.scenario, call.args.only)

(* The app shows every scenario with all of its contracts, also those whose*)
(* words could not be found.                                               *)
AppShowsAll ==
  call.pc = "done" /\ call.args.source = "app" =>
    /\ {call.rows[r].scenario : r \in DOMAIN call.rows} = ScenariosOf(call.args)
    /\ Len(call.rows) = Cardinality(ScenariosOf(call.args))
    /\ \A r \in DOMAIN call.rows :
         [i \in DOMAIN call.rows[r].words |-> call.rows[r].words[i].address] =
           Contracts(call.args, call.rows[r].scenario, "all")

(* The words that a user sees are those that were asked for, all of them.  *)
WordsAsAsked == WordsOfTheirContract /\ PrintedIsComplete /\ AppShowsAll

(* Every call ends, also when no contract has words.                       *)
CallEnds == <>(call.pc \in {"done", "error"})
=============================================================================
