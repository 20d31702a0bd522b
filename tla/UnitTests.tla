----------------------------- MODULE UnitTests -----------------------------
(***************************************************************************)
(* The runner of unit tests of a dotrain document: a test document sets up *)
(* a trade in its entry point pre, the main document calculates and handles*)
(* it, and post checks what they did. The four are evaluated one after the *)
(* other, each in a task on a fork of its own, while the chain goes on;    *)
(* what one leaves on its stack is put in the context of the next ones.    *)
(***************************************************************************)
EXTENDS Runs

CONSTANTS
  Deployers,     \* the deployers of the main document, by name
  Tests,         \* the tests: the name of the scenario, and its blocks
  Bound,         \* the keys that their scenarios bind
  MainKeys,      \* the keys that the main document declares
  TestKeys,      \* the keys that the test document declares
  Stacks,        \* what pre and calculate-io may leave, the last value first
  MaxBlock       \* bound: the last block of the chain

(* parse_range gives Genesis or a number for the start of a range, Latest  *)
(* or a number for its end.                                                *)
UnitTestsAssumption ==
  /\ BlocksAssumption /\ MaxBlock \in Nat
  /\ IsFiniteSet(MainKeys) /\ IsFiniteSet(TestKeys)
  /\ \A t \in Tests : t.blocks # None =>
       /\ t.blocks.range.start \in Nat \cup {Genesis}
       /\ t.blocks.range.end \in Nat \cup {Latest}
       /\ t.blocks.interval \in Nat \cup {None}
  /\ \A s \in Stacks : s \in Seq(Nat)

VARIABLES
  latest, \* the latest block of the chain
  runner, \* the runner: its test, what it has drawn, its fork and its block
  stacks, \* the stacks of the entry points that it keeps
  calls,  \* the entry points that were evaluated, and how
  pc      \* where run_unit_test is

vars == <<latest, runner, stacks, calls, pc>>

(* TestRunner::new                                                         *)
Init ==
  /\ latest \in 0 .. MaxBlock
  /\ \E test \in Tests : runner = [test |-> test, drawn |-> 0, fork |-> None, block |-> 0]
  /\ stacks = [pre |-> None, calculate |-> None]
  /\ calls = <<>> /\ pc = "deployer"

Mine == latest < MaxBlock /\ latest' = latest + 1 /\
        UNCHANGED <<runner, stacks, calls, pc>>

(* The deployer that has the name of the scenario, the latest block, and   *)
(* the first block of the scenario                                         *)
FindBlock ==
  LET blocks == BlocksOf(runner.test.blocks, latest)
  IN  /\ pc = "deployer"
      /\ CASE runner.test.scenario \notin Deployers \/ blocks = Error ->
                pc' = "error" /\ UNCHANGED runner
           [] runner.test.scenario \in Deployers /\ blocks = Endless ->
                pc' = "endless" /\ UNCHANGED runner
           [] OTHER ->
                /\ pc' = "pre"
                /\ runner' = [runner EXCEPT !.block = blocks[1], !.fork = latest]
      /\ UNCHANGED <<latest, stacks, calls>>

(* get_final_bindings                                                      *)
GetFinalBindings(keys, order) == FinalBindings(order, Bound, runner.drawn)

NoContext == [maxOutput |-> 0, ratio |-> 0, input |-> 0, output |-> 0, decrease |-> 0]

OutputCap == stacks.pre[1]
OutputToken == stacks.pre[2]
InputToken == stacks.pre[3]
IoRatio == stacks.calculate[1]
MaxOutput == stacks.calculate[2]
Decrease == IF MaxOutput < OutputCap THEN MaxOutput ELSE OutputCap

(* Mutation: the fork is rolled to the latest block.                       *)
RunAtLatest(entrypoint, keys, context, next) ==
  /\ pc = entrypoint
  /\ \E order \in Elided(keys, Bound) :
       /\ runner' = [runner EXCEPT !.drawn = @ + Len(order), !.fork = latest]
       /\ calls' = Append(calls,
            [entrypoint |-> entrypoint, fork |-> latest, context |-> context,
             bindings |-> GetFinalBindings(keys, order)])
  /\ pc' = next /\ UNCHANGED latest

(* What is the same for all entry points: the bindings are drawn, the fork *)
(* is rolled to the block, and a task evaluates on a clone.                *)
Run(entrypoint, keys, context, next) ==
  /\ pc = entrypoint /\ runner.block <= latest
  /\ \E order \in Elided(keys, Bound) :
       /\ runner' = [runner EXCEPT !.drawn = @ + Len(order), !.fork = runner.block]
       /\ calls' = Append(calls,
            [entrypoint |-> entrypoint, fork |-> runner.block, context |-> context,
             bindings |-> GetFinalBindings(keys, order)])
  /\ pc' = next /\ UNCHANGED latest

RunPre ==
  /\ Run("pre", TestKeys, NoContext, "calculate-io")
  /\ \E stack \in Stacks : stacks' = [stacks EXCEPT !.pre = stack]

(* A stack that is too short for its indexes panics.                       *)
Panics ==
  \/ pc = "calculate-io" /\ Len(stacks.pre) < 3
  \/ pc = "handle-io" /\ Len(stacks.calculate) < 2
Panic == Panics /\ pc' = "panic" /\ UNCHANGED <<latest, runner, stacks, calls>>

(* The cap is in the cell that is the maximum output later.                *)
RunCalculate ==
  /\ ~Panics
  /\ Run("calculate-io", MainKeys,
         [NoContext EXCEPT !.maxOutput = OutputCap, !.input = InputToken,
                           !.output = OutputToken], "handle-io")
  /\ \E stack \in Stacks : stacks' = [stacks EXCEPT !.calculate = stack]

RunHandle ==
  /\ ~Panics
  /\ Run("handle-io", MainKeys, [NoContext EXCEPT !.decrease = Decrease], "post")
  /\ UNCHANGED stacks

RunPost ==
  /\ Run("post", TestKeys,
         [input |-> InputToken, output |-> OutputToken, maxOutput |-> MaxOutput,
          ratio |-> IoRatio, decrease |-> Decrease], "done")
  /\ UNCHANGED stacks

(* The fork cannot be rolled to a block that is not there.                 *)
RollFails ==
  /\ pc \in {"pre", "calculate-io", "handle-io", "post"} /\ ~Panics
  /\ runner.block > latest
  /\ pc' = "error" /\ UNCHANGED <<latest, runner, stacks, calls>>

(* A request fails, or an entry point reverts.                             *)
Fails ==
  /\ pc \in {"deployer", "pre", "calculate-io", "handle-io", "post"} /\ ~Panics
  /\ pc' = "error" /\ UNCHANGED <<latest, runner, stacks, calls>>

Runner ==
  FindBlock \/ RunPre \/ RunCalculate \/ Panic \/ RunHandle \/ RunPost \/ RollFails

Next == Runner \/ Fails \/ Mine

(* Tasks are scheduled, and a request that does not fail is answered.      *)
Spec == Init /\ [][Next]_vars /\ WF_vars(Runner)

-----------------------------------------------------------------------------
(* Properties *)

Entrypoints == <<"pre", "calculate-io", "handle-io", "post">>

(* The state has the form that it should have: the entry points are        *)
(* evaluated in their order, each of them once.                            *)
TypeOK ==
  /\ latest \in 0 .. MaxBlock
  /\ runner.drawn \in Nat /\ runner.block \in Nat
  /\ Len(calls) <= 4
  /\ \A i \in DOMAIN calls : calls[i].entrypoint = Entrypoints[i]
  /\ pc = "done" => Len(calls) = 4
  /\ pc \in {Entrypoints[i] : i \in 1 .. 4} \cup
            {"deployer", "done", "error", "endless", "panic"}

(* All entry points are evaluated at one block, the first of the scenario  *)
(* as of the start or else the block that was the latest then, however the *)
(* chain goes on.                                                          *)
AtOneBlock ==
  /\ \A i, j \in DOMAIN calls : calls[i].fork = calls[j].fork
  /\ \A i \in DOMAIN calls :
       /\ calls[i].fork <= latest
       /\ runner.test.blocks # None =>
            calls[i].fork = ToBlockNumber(runner.test.blocks.range.start, latest)

(* post checks the trade that happened (run_post_entrypoint): the tokens of*)
(* pre, the calculations of calculate-io, and the decrease that handle-io  *)
(* was told, which is neither over the cap nor over the maximum.           *)
PostSeesTheTrade ==
  Len(calls) = 4 =>
    LET context == calls[4].context
    IN  /\ <<context.ratio, context.maxOutput>> = SubSeq(stacks.calculate, 1, 2)
        /\ <<context.output, context.input>> = SubSeq(stacks.pre, 2, 3)
        /\ <<context.output, context.input>> =
             <<calls[2].context.output, calls[2].context.input>>
        /\ context.decrease = calls[3].context.decrease
        /\ context.decrease \in {stacks.pre[1], context.maxOutput}
        /\ context.decrease <= stacks.pre[1] /\ context.decrease <= context.maxOutput

(* The bindings of an entry point are those of its document: what the      *)
(* scenario binds is never drawn, the rest always, and never a value of    *)
(* another entry point.                                                    *)
BindingsOfDocument ==
  LET drawn(i) == {calls[i].bindings[key] : key \in (DOMAIN calls[i].bindings) \ Bound}
  IN  /\ \A i \in DOMAIN calls :
           DOMAIN calls[i].bindings = Bound \cup (IF i \in {1, 4} THEN TestKeys ELSE MainKeys)
      /\ \A i, j \in DOMAIN calls : i # j => drawn(i) \cap drawn(j) = {}

(* The entry points are evaluated on one trade: at one block, with the     *)
(* context of the ones before, each with its own document.                 *)
OneTradeTested == AtOneBlock /\ PostSeesTheTrade /\ BindingsOfDocument

(* A test ends: it passes, or fails, or panics, unless the interval of its *)
(* blocks is 0.                                                            *)
TestEnds ==
  <>(\/ pc \in {"done", "error", "panic"}
     \/ pc = "endless" /\ runner.test.blocks.interval = 0)

=============================================================================
