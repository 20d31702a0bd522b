------------------------------ MODULE Parsing ------------------------------
(***************************************************************************)
(* Parsing rainlang in a fork. The language services of the editor and the *)
(* parse command run at the same time, each for its own document, node and *)
(* block, and share one forker under a mutex, which is on one fork at a    *)
(* time. A document is looked at first: its own problems, its composition  *)
(* and the deployer, without which nothing is parsed.                      *)
(***************************************************************************)
EXTENDS Integers, Sequences, FiniteSets

CONSTANTS
  Callers,   \* the calls that are made
  Requests,  \* what each of them may ask
  Nodes,     \* the nodes that it may ask
  Parses,    \* the <<text, node, block>> whose parser accepts the text
  MaxBlock,  \* bound: the last block of a chain
  None       \* Option::None

ASSUME ParsingAssumption ==
  /\ MaxBlock \in Nat /\ None \notin Nat
  /\ Requests \subseteq
       [kind : {"problems", "parse"}, document : STRING, deployer : STRING \cup {None},
        text : STRING, node : Nodes, block : Nat \cup {None}]
  /\ \A r \in Requests : r.kind = "parse" => r.document = "composes" /\ r.deployer # None

VARIABLES
  latest, \* the latest block of the chain of each node
  forker, \* FORKER: the calls that hold or wait for its mutex, and its fork
  calls   \* the calls, and where each of them is

vars == <<latest, forker, calls>>

Init ==
  /\ latest = [node \in Nodes |-> 0]
  /\ forker = [queue |-> <<>>, fork |-> None]
  /\ calls \in [Callers -> {[request |-> r, block |-> None, problems |-> {},
                             pc |-> "document"] : r \in Requests}]

Mine(node) ==
  /\ latest[node] < MaxBlock
  /\ latest' = [latest EXCEPT ![node] = @ + 1]
  /\ UNCHANGED <<forker, calls>>

To(c, pc) == calls' = [calls EXCEPT ![c].pc = pc]
Report(c, problem) ==
  calls' = [calls EXCEPT ![c].pc = "done", ![c].problems = @ \cup {problem}]

(* DotrainAddOrderLsp.problems: the problems of the document, or of        *)
(* composing it; the command that parses rainlang has no document.         *)
ReadDocument(c) ==
  LET r == calls[c].request
  IN  /\ calls[c].pc = "document"
      /\ CASE r.kind = "problems" /\ r.document # "composes" -> Report(c, r.document)
           [] r.kind = "problems" /\ r.document = "composes" /\ r.deployer = None ->
                Report(c, "undefined deployer address")
           [] OTHER -> To(c, "block")
      /\ UNCHANGED <<latest, forker>>

(* The block that was given, or the latest; then the mutex is asked for.   *)
ReadBlock(c) ==
  LET r == calls[c].request
  IN  /\ calls[c].pc = "block"
      /\ calls' = [calls EXCEPT ![c].pc = "lock",
                     ![c].block = IF r.block = None THEN latest[r.node] ELSE r.block]
      /\ forker' = [forker EXCEPT !.queue = Append(@, c)]
      /\ UNCHANGED latest

Holds(c) == forker.queue # <<>> /\ Head(forker.queue) = c

(* Mutation: the mutex is only held while the fork is selected.            *)
SelectAndRelease(c) ==
  /\ calls[c].pc = "lock" /\ Holds(c)
  /\ IF calls[c].block <= latest[calls[c].request.node]
     THEN /\ forker' = [queue |-> Append(Tail(forker.queue), c),
                        fork |-> <<calls[c].request.node, calls[c].block>>]
          /\ To(c, "parse")
     ELSE /\ forker' = [forker EXCEPT !.queue = Tail(@)] /\ Report(c, "fork")
  /\ UNCHANGED latest

(* Mutation: the mutex stays locked when the fork fails.                   *)
SelectFailsLocked(c) ==
  /\ calls[c].pc = "lock" /\ Holds(c)
  /\ IF calls[c].block <= latest[calls[c].request.node]
     THEN /\ forker' = [forker EXCEPT !.fork = <<calls[c].request.node, calls[c].block>>]
          /\ To(c, "parse")
     ELSE UNCHANGED forker /\ Report(c, "fork")
  /\ UNCHANGED latest

(* add_or_select; leaving the function releases the mutex.                 *)
Select(c) ==
  /\ calls[c].pc = "lock" /\ Holds(c)
  /\ IF calls[c].block <= latest[calls[c].request.node]
     THEN /\ forker' = [forker EXCEPT !.fork = <<calls[c].request.node, calls[c].block>>]
          /\ To(c, "parse")
     ELSE forker' = [forker EXCEPT !.queue = Tail(@)] /\ Report(c, "fork")
  /\ UNCHANGED latest

(* fork_parse, with the deployer of the request, on the fork of the forker *)
Parse(c) ==
  /\ calls[c].pc = "parse" /\ Holds(c)
  /\ IF <<calls[c].request.text, forker.fork[1], forker.fork[2]>> \in Parses
     THEN To(c, "done") ELSE Report(c, "parser")
  /\ forker' = [forker EXCEPT !.queue = Tail(@)]
  /\ UNCHANGED latest

(* The request for the latest block fails, or one of the fork.             *)
RequestFails(c) ==
  \/ /\ calls[c].pc = "block" /\ calls[c].request.block = None
     /\ Report(c, "request") /\ UNCHANGED <<latest, forker>>
  \/ /\ calls[c].pc \in {"lock", "parse"} /\ Holds(c)
     /\ Report(c, "request") /\ forker' = [forker EXCEPT !.queue = Tail(@)]
     /\ UNCHANGED latest

Step(c) == ReadDocument(c) \/ ReadBlock(c) \/ Select(c) \/ Parse(c)

Next ==
  \/ \E c \in Callers : Step(c) \/ RequestFails(c)
  \/ \E node \in Nodes : Mine(node)

(* Every call goes on when it can; the mutex is fair, first come first     *)
(* served.                                                                 *)
Spec == Init /\ [][Next]_vars /\ \A c \in Callers : WF_vars(Step(c))

-----------------------------------------------------------------------------
(* Properties *)

(* The state has the form that it should have: the calls that hold or wait *)
(* for the mutex are those that are between asking for it and the end.     *)
TypeOK ==
  /\ latest \in [Nodes -> 0 .. MaxBlock]
  /\ \A i, j \in DOMAIN forker.queue : forker.queue[i] = forker.queue[j] => i = j
  /\ {forker.queue[i] : i \in DOMAIN forker.queue} =
       {c \in Callers : calls[c].pc \in {"lock", "parse"}}
  /\ \A c \in Callers :
       calls[c].pc \in {"document", "block", "lock", "parse", "done"}

(* What a call answers is what the parser says of its own text at its own  *)
(* node and block, whatever the calls at the same time do to the forker.   *)
ParsedOnOwnFork ==
  \A c \in Callers :
    LET r == calls[c].request
        accepted == <<r.text, r.node, calls[c].block>> \in Parses
    IN  calls[c].pc = "done" /\ calls[c].block # None =>
          /\ calls[c].problems = {} => accepted
          /\ "parser" \in calls[c].problems => ~accepted

(* An editor that shows no problem has a document that composes, and that  *)
(* was parsed with a deployer at the block that was asked for.             *)
NoProblemMeansParsed ==
  \A c \in Callers :
    LET r == calls[c].request
    IN  calls[c].pc = "done" /\ calls[c].problems = {} =>
          /\ r.document = "composes" /\ r.deployer # None
          /\ calls[c].block \in 0 .. latest[r.node]
          /\ r.block # None => calls[c].block = r.block

(* A call is answered for what it asked, and silent only when all is well. *)
AnswersHold == ParsedOnOwnFork /\ NoProblemMeansParsed

(* Every call ends, also one that waits for one that fails.                *)
CallsEnd == \A c \in Callers : <>(calls[c].pc = "done")
=============================================================================
