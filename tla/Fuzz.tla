-------------------------------- MODULE Fuzz --------------------------------
(***************************************************************************)
(* The fuzz runner that makes the data of charts: for every chart a clone  *)
(* of the runner runs its scenario, at each of its blocks as many times as *)
(* it says. Every run is a task of its own that evaluates on the fork it   *)
(* was given, while the runner draws the bindings of the next ones and     *)
(* rolls its fork to the next block, and the chain goes on.                *)
(***************************************************************************)
EXTENDS Runs

CONSTANTS
  Settings,  \* the charts of documents, each with the name of its scenario
  Scenarios, \* the scenarios: their runs, blocks (a text) and bound keys
  Keys,      \* the keys that the document declares
  MaxBlock   \* bound: the last block of the chain

(* A scenario is read with its number of runs, and the range and the       *)
(* interval of its blocks (parse_blocks); a chart names a scenario.        *)
FuzzAssumption ==
  /\ BlocksAssumption /\ MaxBlock \in Nat /\ IsFiniteSet(Keys)
  /\ None \notin [range : [start : Nat \cup {Genesis}, end : Nat \cup {Latest}],
                  interval : Nat \cup {None}]
  /\ \A charts \in Settings : \A c \in DOMAIN charts : charts[c] \in DOMAIN Scenarios
  /\ \A name \in DOMAIN Scenarios :
       /\ Scenarios[name].runs \in Nat \cup {None}
       /\ Scenarios[name].blocks # None =>
            /\ Scenarios[name].blocks.range.start \in Nat \cup {None}
            /\ Scenarios[name].blocks.range.end \in Nat \cup {None}
            /\ Scenarios[name].blocks.interval \in Nat \cup {None}

VARIABLES
  latest, \* the latest block of the chain
  self,   \* the runner: its settings, how many values it has drawn, its fork
  left,   \* the charts that are left to do
  run,    \* the scenario that is run, and the clone that runs it
  tasks,  \* the runs that were spawned
  data,   \* scenarios_data: the results of every scenario
  pc      \* where make_chart_data is

vars == <<latest, self, left, run, tasks, data, pc>>

NoRun(runner) ==
  [scenario |-> None, runner |-> runner, blocks |-> <<>>, order |-> <<>>,
   at |-> 1, spawned |-> 0, results |-> <<>>]

(* The blocks of the scenarios have been read from their text, which may   *)
(* have been written from blocks that were read before.                    *)
ScenarioBlocks(again) ==
  [name \in DOMAIN Scenarios |->
    LET blocks == Scenarios[name].blocks
        read == ParseRange(blocks.range)
    IN  IF blocks = None THEN None
        ELSE [range |-> IF again THEN ParseRange(Serialize(read)) ELSE read,
              interval |-> blocks.interval]]

NoOfRuns(name) == IF Scenarios[name].runs = None THEN 1 ELSE Scenarios[name].runs

(* FuzzRunner::new, from the chart command or the desktop app              *)
MakeCharts ==
  /\ \E charts \in Settings, again \in BOOLEAN :
       self = [charts |-> charts, blocks |-> ScenarioBlocks(again), drawn |-> 0,
               fork |-> None]
  /\ left = DOMAIN self.charts /\ run = NoRun(self)
  /\ tasks = <<>> /\ data = <<>> /\ pc = "chart"

Init == latest \in 0 .. MaxBlock /\ MakeCharts

Mine == latest < MaxBlock /\ latest' = latest + 1 /\
        UNCHANGED <<self, left, run, tasks, data, pc>>

(* make_chart_data takes a chart, in the order of a hash map, and clones   *)
(* the runner.                                                             *)
NextChart ==
  /\ pc = "chart" /\ left # {}
  /\ \E chart \in left :
       /\ left' = left \ {chart}
       /\ run' = [NoRun(self) EXCEPT !.scenario = self.charts[chart]]
  /\ tasks' = <<>> /\ pc' = "named"
  /\ UNCHANGED <<latest, self, data>>

Finish == pc = "chart" /\ left = {} /\ pc' = "done" /\
          UNCHANGED <<latest, self, left, run, tasks, data>>

Goto(next) == pc' = next /\ UNCHANGED <<latest, self, left, tasks, data>>

(* run_scenario_by_name, and the number of the latest block                *)
ReadBlocks ==
  LET blocks == BlocksOf(run.runner.blocks[run.scenario], latest)
  IN  /\ pc = "named"
      /\ CASE blocks = Error -> Goto("error") /\ UNCHANGED run
           [] blocks = Endless -> Goto("endless") /\ UNCHANGED run
           [] OTHER -> Goto("fork") /\ run' = [run EXCEPT !.blocks = blocks]

(* add_or_select; a block that the chain does not have cannot be forked.   *)
(* Then the document is read.                                              *)
CreateFork ==
  /\ pc = "fork"
  /\ IF run.blocks[1] > latest THEN Goto("error") /\ UNCHANGED run
     ELSE \E order \in Elided(Keys, Scenarios[run.scenario].bound) :
            /\ Goto("roll")
            /\ run' = [run EXCEPT !.runner.fork = run.blocks[1], !.order = order]

(* Mutation: that a fork cannot be rolled does not stop the runs.          *)
RollAnyway ==
  /\ pc = "roll"
  /\ IF run.at > Len(run.blocks) THEN Goto("await") /\ UNCHANGED run
     ELSE Goto("spawn") /\
          run' = [run EXCEPT !.runner.fork = run.blocks[run.at], !.spawned = 0]

(* roll_fork for the next of the blocks                                    *)
RollFork ==
  /\ pc = "roll"
  /\ CASE run.at > Len(run.blocks) -> Goto("await") /\ UNCHANGED run
       [] run.at <= Len(run.blocks) /\ run.blocks[run.at] > latest ->
            Goto("error") /\ UNCHANGED run
       [] OTHER -> Goto("spawn") /\
                   run' = [run EXCEPT !.runner.fork = run.blocks[run.at], !.spawned = 0]

(* The bindings are drawn, then a task is spawned with a clone of the fork.*)
Spawn ==
  /\ pc = "spawn"
  /\ IF run.spawned = NoOfRuns(run.scenario)
     THEN /\ pc' = "roll" /\ run' = [run EXCEPT !.at = @ + 1]
          /\ UNCHANGED tasks
     ELSE /\ pc' = "spawn"
          /\ run' = [run EXCEPT !.spawned = @ + 1,
                                !.runner.drawn = @ + Len(run.order)]
          /\ tasks' = Append(tasks,
               [fork |-> run.runner.fork, status |-> "running",
                bindings |-> FinalBindings(run.order, Scenarios[run.scenario].bound,
                                           run.runner.drawn)])
  /\ UNCHANGED <<latest, self, left, data>>

(* Mutation: a task evaluates on the runner's fork, not on a clone.        *)
EvaluateOnShared(i, evaluates) ==
  /\ tasks[i].status = "running"
  /\ tasks' = [tasks EXCEPT ![i].status = IF evaluates THEN "ok" ELSE "failed",
                            ![i].fork = run.runner.fork]
  /\ UNCHANGED <<latest, self, left, run, data, pc>>

(* A task composes the document, and evaluates it on its fork.             *)
Evaluate(i, evaluates) ==
  /\ tasks[i].status = "running"
  /\ tasks' = [tasks EXCEPT ![i].status = IF evaluates THEN "ok" ELSE "failed"]
  /\ UNCHANGED <<latest, self, left, run, data, pc>>

(* The handles are awaited in the order of the runs, and the first that    *)
(* failed fails the scenario.                                              *)
Await ==
  LET i == Len(run.results)
  IN  /\ pc = "await" /\ i < Len(tasks) /\ tasks[i + 1].status # "running"
      /\ IF tasks[i + 1].status = "failed" THEN Goto("error") /\ UNCHANGED run
         ELSE /\ Goto("await")
              /\ run' = [run EXCEPT !.results = Append(@, tasks[i + 1])]

(* The traces are flattened, and inserted unless the scenario has data of a*)
(* chart before.                                                           *)
InsertData ==
  /\ pc = "await" /\ Len(run.results) = Len(tasks)
  /\ data' = [name \in DOMAIN data \cup {run.scenario} |->
                IF name \in DOMAIN data THEN data[name] ELSE run.results]
  /\ pc' = "chart"
  /\ UNCHANGED <<latest, self, left, run, tasks>>

(* A request of the runner itself fails.                                   *)
RequestFails == pc \in {"named", "fork", "roll"} /\ Goto("error") /\ UNCHANGED run

Runner ==
  \/ NextChart \/ Finish \/ ReadBlocks \/ CreateFork \/ RollFork \/ Spawn \/ Await
  \/ InsertData
Tasks(evaluates) == \E i \in DOMAIN tasks : Evaluate(i, evaluates)

Next == Runner \/ Tasks(TRUE) \/ Tasks(FALSE) \/ RequestFails \/ Mine

(* A request that does not fail is answered, and tasks are scheduled.      *)
Spec == Init /\ [][Next]_vars /\ WF_vars(Runner) /\ WF_vars(Tasks(TRUE))

-----------------------------------------------------------------------------
(* Properties *)

(* The state has the form that it should have: the runner that all charts  *)
(* start from is never changed, and no task is on a block that is not there*)
TypeOK ==
  /\ latest \in 0 .. MaxBlock /\ self.drawn = 0 /\ self.fork = None
  /\ left \subseteq DOMAIN self.charts
  /\ DOMAIN data \subseteq {self.charts[c] : c \in (DOMAIN self.charts) \ left}
  /\ pc \in {"chart", "named", "fork", "roll", "spawn", "await", "done", "error", "endless"}
  /\ \A i \in DOMAIN tasks :
       /\ tasks[i].fork \in 0 .. latest
       /\ tasks[i].status \in {"running", "ok", "failed"}

(* The blocks that the text of a scenario means: all from start to end that*)
(* are a multiple of the interval after the start                          *)
Meant(name, l) ==
  LET blocks == Scenarios[name].blocks
      start == IF blocks.range.start = None THEN 0 ELSE blocks.range.start
      end == IF blocks.range.end = None THEN l ELSE blocks.range.end
      interval == IF blocks.interval = None THEN 1 ELSE blocks.interval
  IN  IF blocks = None THEN {l} ELSE {b \in start .. end : (b - start) % interval = 0}

(* Row i of the data of a scenario (fuzz/mod.rs) is the result of run i,   *)
(* whatever order the tasks ended in: the rows are at ascending blocks, all*)
(* those that are meant by a range as of some latest block, each as often  *)
(* as the scenario has runs; also when the text was written again.         *)
RowsAtTheirBlocks ==
  \A name \in DOMAIN data :
    LET rows == data[name]
    IN  /\ \A i, j \in DOMAIN rows : i < j => rows[i].fork <= rows[j].fork
        /\ \E l \in 0 .. latest :
             \A b \in 0 .. MaxBlock :
               Cardinality({i \in DOMAIN rows : rows[i].fork = b})
                 = IF b \in Meant(name, l) THEN NoOfRuns(name) ELSE 0

(* Row i has the values number (i-1)k+1 .. ik of the seed for its k elided *)
(* keys: no value is used twice, and those of a scenario do not depend on  *)
(* the other charts or on how the tasks were scheduled.                    *)
ValuesOfTheSeed ==
  \A name \in DOMAIN data :
    LET k == Cardinality(Keys \ Scenarios[name].bound)
        rows == data[name]
    IN  \A i \in DOMAIN rows :
          /\ {rows[i].bindings[key] : key \in Keys \ Scenarios[name].bound}
               = (i - 1) * k + 1 .. i * k
          /\ \A key \in Scenarios[name].bound : rows[i].bindings[key] = "bound"

(* When make_chart_data succeeds, every chart has the data of its scenario,*)
(* with no run missing; a run that failed fails it.                        *)
ChartsComplete ==
  pc = "done" => DOMAIN data = {self.charts[c] : c \in DOMAIN self.charts}

(* Every chart has the rows it should have, with the values it should have.*)
ChartsAsAsked == RowsAtTheirBlocks /\ ValuesOfTheSeed /\ ChartsComplete

(* It ends, also when a run fails, unless it comes to a scenario with an   *)
(* interval of 0.                                                          *)
RunsEnd ==
  <>(\/ pc \in {"done", "error"}
     \/ pc = "endless" /\ Scenarios[run.scenario].blocks.interval = 0)
=============================================================================
