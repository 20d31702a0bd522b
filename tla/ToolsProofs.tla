---------------------------- MODULE ToolsProofs ----------------------------
(***************************************************************************)
(* Proofs about Tools, for any documents, calls, nodes and blocks: what is *)
(* answered of a text is of its own fork; the charts have the rows that    *)
(* they should have; a test is of one trade; and the words that are shown  *)
(* are those of the contracts that were asked for.                         *)
(***************************************************************************)
EXTENDS Tools, FiniteSetTheorems, SequenceTheorems, TLAPS

-----------------------------------------------------------------------------
(* Parsing: the inductive invariant *)

Problems ==
  {"undefined deployer address", "fork", "parser", "request"}
    \cup {r.document : r \in Requests}

(* A call: the block is read after the document, and a problem ends it.    *)
Call ==
  [request : Requests, block : Nat \cup {None}, problems : SUBSET Problems,
   pc : {"document", "block", "lock", "parse", "done"}]

Types ==
  /\ latest \in [Nodes -> Nat]
  /\ forker \in [queue : Seq(Callers), fork : (Nodes \X Nat) \cup {None}]
  /\ calls \in [Callers -> Call]

Own(c) == <<calls[c].request.node, calls[c].block>>
Accepted(c) == <<calls[c].request.text, calls[c].request.node, calls[c].block>> \in Parses

(* Where a call is                                                         *)
Before(c) == calls[c].pc \in {"document", "block"} => calls[c].block = None
Running(c) == calls[c].pc # "done" => calls[c].problems = {}
Composed(c) ==
  calls[c].pc \in {"block", "lock", "parse"} =>
    calls[c].request.document = "composes" /\ calls[c].request.deployer # None
Asked(c) ==
  calls[c].pc \in {"lock", "parse"} =>
    /\ calls[c].block \in Nat
    /\ calls[c].request.block # None => calls[c].block = calls[c].request.block

(* The call that parses holds the mutex, and the forker is on its fork.    *)
OnItsFork(c) ==
  calls[c].pc = "parse" =>
    Holds(c) /\ forker.fork = Own(c) /\ calls[c].block <= latest[calls[c].request.node]

(* What was answered                                                       *)
Answered(c) ==
  calls[c].pc = "done" =>
    /\ calls[c].problems = {} =>
         /\ Accepted(c)
         /\ calls[c].request.document = "composes" /\ calls[c].request.deployer # None
         /\ calls[c].block \in 0 .. latest[calls[c].request.node]
         /\ calls[c].request.block # None => calls[c].block = calls[c].request.block
    /\ "parser" \in calls[c].problems /\ calls[c].block # None => ~Accepted(c)

CallInv(c) ==
  Before(c) /\ Running(c) /\ Composed(c) /\ Asked(c) /\ OnItsFork(c) /\ Answered(c)

IInv == Types /\ \A c \in Callers : CallInv(c)

-----------------------------------------------------------------------------
(* The steps of a call *)

LEMMA InitInv == Init => IInv
  BY ParsingAssumption DEF Init, IInv, Types, Call, CallInv, Before, Running, Composed,
     Asked, OnItsFork, Answered

LEMMA MineInv == ASSUME IInv, NEW node \in Nodes, Mine(node) PROVE IInv'
<1>1. Types'
  BY DEF IInv, Types, Mine
<1>2. \A n \in Nodes : latest'[n] \in Nat /\ latest[n] <= latest'[n]
  BY DEF IInv, Types, Mine
<1>3. ASSUME NEW c \in Callers PROVE CallInv(c)'
  <2>1. /\ calls[c] \in Call
        /\ calls[c].request.node \in Nodes
        /\ calls' = calls
        /\ forker' = forker
    BY ParsingAssumption DEF IInv, Types, Mine, Call
  <2>2. CallInv(c)
    BY DEF IInv
  <2>. QED
    BY <1>2, <2>1, <2>2 DEF CallInv, Before, Running, Composed, Asked, OnItsFork, Answered,
       Holds, Own, Accepted, IInv, Types, Call
<1>. QED
  BY <1>1, <1>3 DEF IInv

(* A step of one call leaves the others what they are.                     *)
LEMMA OthersKept ==
  ASSUME IInv, NEW c \in Callers, NEW d \in Callers, d # c,
         latest' = latest, calls'[d] = calls[d],
         \/ forker' = forker
         \/ forker'.fork = forker.fork /\ forker'.queue = Append(forker.queue, c)
         \/ Holds(c)
  PROVE  CallInv(d)'
<1>1. CallInv(d)
  BY DEF IInv
<1>2. OnItsFork(d)'
  <2>1. CASE calls[d].pc # "parse"
    BY <2>1 DEF OnItsFork
  <2>2. CASE calls[d].pc = "parse"
    <3>1. Holds(d) /\ forker.fork = Own(d) /\ calls[d].block <= latest[calls[d].request.node]
      BY <1>1, <2>2 DEF CallInv, OnItsFork
    <3>2. ~Holds(c)
      BY <3>1 DEF Holds
    <3>3. CASE forker' = forker
      BY <3>1, <3>3 DEF OnItsFork, Holds, Own
    <3>4. CASE forker'.fork = forker.fork /\ forker'.queue = Append(forker.queue, c)
      <4>1. forker.queue \in Seq(Callers) /\ forker.queue # <<>> /\ Head(forker.queue) = d
        BY <3>1 DEF IInv, Types, Holds
      <4>2. forker'.queue # <<>> /\ Head(forker'.queue) = d
        BY <3>4, <4>1
      <4>. QED
        BY <3>1, <3>4, <4>2 DEF OnItsFork, Holds, Own
    <3>. QED
      BY <3>2, <3>3, <3>4
  <2>. QED
    BY <2>1, <2>2
<1>. QED
  BY <1>1, <1>2 DEF CallInv, Before, Running, Composed, Asked, Answered, Own, Accepted

(* A call that reports a problem is done, and otherwise what it was.       *)
LEMMA Reported ==
  ASSUME calls \in [Callers -> Call], NEW c \in Callers, NEW p \in Problems, Report(c, p)
  PROVE  /\ calls' \in [Callers -> Call]
         /\ calls'[c].pc = "done" /\ calls'[c].problems = calls[c].problems \cup {p}
         /\ calls'[c].request = calls[c].request /\ calls'[c].block = calls[c].block
         /\ \A d \in Callers : d # c => calls'[d] = calls[d]
<1>. DEFINE problems == calls[c].problems \cup {p}
<1>1. calls[c] \in Call
  OBVIOUS
<1>2. problems \in SUBSET Problems
  BY <1>1 DEF Call
<1>. HIDE DEF problems
<1>3. calls' = [calls EXCEPT ![c] = [calls[c] EXCEPT !.pc = "done", !.problems = problems]]
  BY <1>1 DEF Report, problems, Call
<1>4. [calls[c] EXCEPT !.pc = "done", !.problems = problems] \in Call
  BY <1>1, <1>2 DEF Call
<1>5. calls' \in [Callers -> Call]
  BY <1>3, <1>4
<1>6. calls'[c] = [calls[c] EXCEPT !.pc = "done", !.problems = problems]
  BY <1>3
<1>7. calls'[c].problems = problems
  BY <1>1, <1>6 DEF Call
<1>. QED
  BY <1>1, <1>3, <1>5, <1>6, <1>7 DEF problems, Call

(* The mutex is released.                                                  *)
LEMMA Released ==
  ASSUME Types, NEW c \in Callers, Holds(c), forker' = [forker EXCEPT !.queue = Tail(@)]
  PROVE  forker' \in [queue : Seq(Callers), fork : (Nodes \X Nat) \cup {None}]
<1>1. forker.queue \in Seq(Callers) /\ forker.queue # <<>>
  BY DEF Types, Holds
<1>2. Tail(forker.queue) \in Seq(Callers)
  BY <1>1
<1>. QED
  BY <1>2 DEF Types

LEMMA ReadDocumentInv == ASSUME IInv, NEW c \in Callers, ReadDocument(c) PROVE IInv'
<1>1. calls[c] \in Call /\ calls \in [Callers -> Call] /\ CallInv(c)
  BY DEF IInv, Types
<1>2. calls[c].request \in Requests /\ calls[c].pc = "document" /\ forker' = forker
      /\ latest' = latest
  BY <1>1 DEF ReadDocument, Call
<1>3. /\ calls[c].request.document \in Problems
      /\ calls[c].request.kind \in {"problems", "parse"}
      /\ calls[c].request.kind = "parse" =>
           calls[c].request.document = "composes" /\ calls[c].request.deployer # None
  BY <1>2, ParsingAssumption DEF Problems
<1>4. \/ To(c, "block") /\ calls[c].request.document = "composes"
                       /\ calls[c].request.deployer # None
      \/ Report(c, calls[c].request.document)
      \/ Report(c, "undefined deployer address")
  BY <1>3 DEF ReadDocument
<1>5. ASSUME NEW p \in Problems, Report(c, p) PROVE IInv'
  <2>1. /\ calls' \in [Callers -> Call]
        /\ calls'[c].pc = "done" /\ calls'[c].problems = calls[c].problems \cup {p}
        /\ calls'[c].block = None
        /\ \A d \in Callers : d # c => calls'[d] = calls[d]
    BY <1>1, <1>2, <1>5, Reported DEF CallInv, Before
  <2>2. CallInv(c)'
    BY <2>1 DEF CallInv, Before, Running, Composed, Asked, OnItsFork, Answered
  <2>3. \A d \in Callers : d # c => CallInv(d)'
    BY <1>2, <2>1, OthersKept
  <2>. QED
    BY <1>2, <2>1, <2>2, <2>3 DEF IInv, Types
<1>6. CASE To(c, "block") /\ calls[c].request.document = "composes"
                          /\ calls[c].request.deployer # None
  <2>1. calls' = [calls EXCEPT ![c].pc = "block"]
    BY <1>6 DEF To
  <2>2. calls' \in [Callers -> Call]
    BY <1>1, <2>1 DEF Call
  <2>3. CallInv(c)'
    BY <1>1, <1>2, <1>6, <2>1 DEF CallInv, Before, Running, Composed, Asked, OnItsFork,
       Answered, Call
  <2>4. \A d \in Callers : d # c => CallInv(d)'
    BY <1>1, <1>2, <2>1, OthersKept
  <2>. QED
    BY <1>2, <2>2, <2>3, <2>4 DEF IInv, Types
<1>7. CASE Report(c, calls[c].request.document)
  BY <1>3, <1>5, <1>7
<1>8. CASE Report(c, "undefined deployer address")
  <2>1. "undefined deployer address" \in Problems
    BY DEF Problems
  <2>. QED
    BY <1>5, <1>8, <2>1
<1>. QED
  BY <1>4, <1>6, <1>7, <1>8

LEMMA ReadBlockInv == ASSUME IInv, NEW c \in Callers, ReadBlock(c) PROVE IInv'
<1>1. calls[c] \in Call /\ calls \in [Callers -> Call] /\ CallInv(c)
  BY DEF IInv, Types
<1>2. calls[c].request \in Requests /\ calls[c].pc = "block" /\ latest' = latest
  BY <1>1 DEF ReadBlock, Call
<1>3. PICK b \in Nat :
        /\ calls' = [calls EXCEPT ![c].pc = "lock", ![c].block = b]
        /\ calls[c].request.block # None => b = calls[c].request.block
  BY <1>2, ParsingAssumption DEF ReadBlock, IInv, Types
<1>4. /\ forker' \in [queue : Seq(Callers), fork : (Nodes \X Nat) \cup {None}]
      /\ forker'.fork = forker.fork /\ forker'.queue = Append(forker.queue, c)
  <2>1. forker.queue \in Seq(Callers) /\ Append(forker.queue, c) \in Seq(Callers)
    BY DEF IInv, Types
  <2>2. forker' = [forker EXCEPT !.queue = Append(forker.queue, c)]
    BY DEF ReadBlock
  <2>. QED
    BY <2>1, <2>2 DEF IInv, Types
<1>5. calls' \in [Callers -> Call]
  BY <1>1, <1>3 DEF Call
<1>6. CallInv(c)'
  BY <1>1, <1>2, <1>3 DEF CallInv, Before, Running, Composed, Asked, OnItsFork, Answered, Call
<1>7. \A d \in Callers : d # c => CallInv(d)'
  BY <1>1, <1>2, <1>3, <1>4, OthersKept
<1>. QED
  BY <1>2, <1>4, <1>5, <1>6, <1>7 DEF IInv, Types

LEMMA SelectInv == ASSUME IInv, NEW c \in Callers, Select(c) PROVE IInv'
<1>1. /\ calls[c] \in Call /\ calls \in [Callers -> Call] /\ CallInv(c)
      /\ forker \in [queue : Seq(Callers), fork : (Nodes \X Nat) \cup {None}]
  BY DEF IInv, Types
<1>2. /\ calls[c].request \in Requests /\ calls[c].pc = "lock" /\ Holds(c) /\ latest' = latest
      /\ calls[c].request.node \in Nodes
  BY <1>1, ParsingAssumption DEF Select, Call
<1>3. \A d \in Callers : d # c => calls'[d] = calls[d]
  BY <1>1 DEF Select, Report, To
<1>4. \A d \in Callers : d # c => CallInv(d)'
  BY <1>2, <1>3, OthersKept
<1>5. CASE calls[c].block <= latest[calls[c].request.node]
  <2>1. /\ calls' = [calls EXCEPT ![c].pc = "parse"]
        /\ forker' = [forker EXCEPT !.fork = Own(c)]
    BY <1>5 DEF Select, To, Own
  <2>2. calls[c].block \in Nat
    BY <1>1, <1>2 DEF CallInv, Asked
  <2>3. forker' \in [queue : Seq(Callers), fork : (Nodes \X Nat) \cup {None}]
    BY <1>1, <1>2, <2>1, <2>2 DEF Own
  <2>4. calls' \in [Callers -> Call]
    BY <1>1, <2>1 DEF Call
  <2>5. CallInv(c)'
    BY <1>1, <1>2, <1>5, <2>1, <2>2 DEF CallInv, Before, Running, Composed, Asked, OnItsFork,
       Answered, Own, Holds, Call
  <2>. QED
    BY <1>2, <1>4, <2>3, <2>4, <2>5 DEF IInv, Types
<1>6. CASE ~(calls[c].block <= latest[calls[c].request.node])
  <2>0. calls[c].problems = {}
    BY <1>1, <1>2 DEF CallInv, Running
  <2>a. "fork" \in Problems
    BY DEF Problems
  <2>1. Report(c, "fork") /\ forker' = [forker EXCEPT !.queue = Tail(@)]
    BY <1>6 DEF Select
  <2>2. forker' \in [queue : Seq(Callers), fork : (Nodes \X Nat) \cup {None}]
    BY <1>2, <2>1, Released DEF IInv
  <2>3. /\ calls' \in [Callers -> Call] /\ calls'[c].pc = "done"
        /\ calls'[c].problems = {} \cup {"fork"}
    BY <1>1, <1>2, <2>0, <2>a, <2>1, Reported
  <2>4. CallInv(c)'
    BY <2>3 DEF CallInv, Before, Running, Composed, Asked, OnItsFork, Answered
  <2>. QED
    BY <1>2, <1>4, <2>2, <2>3, <2>4 DEF IInv, Types
<1>. QED
  BY <1>5, <1>6

LEMMA ParseInv == ASSUME IInv, NEW c \in Callers, Parse(c) PROVE IInv'
<1>1. /\ calls[c] \in Call /\ calls \in [Callers -> Call] /\ CallInv(c)
      /\ forker \in [queue : Seq(Callers), fork : (Nodes \X Nat) \cup {None}]
  BY DEF IInv, Types
<1>2. /\ calls[c].request \in Requests /\ calls[c].pc = "parse" /\ Holds(c) /\ latest' = latest
      /\ forker' = [forker EXCEPT !.queue = Tail(@)]
      /\ calls[c].request.node \in Nodes
  BY <1>1, ParsingAssumption DEF Parse, Call
<1>3. \A d \in Callers : d # c => calls'[d] = calls[d]
  BY <1>1 DEF Parse, Report, To
<1>4. \A d \in Callers : d # c => CallInv(d)'
  BY <1>2, <1>3, OthersKept
<1>5. forker' \in [queue : Seq(Callers), fork : (Nodes \X Nat) \cup {None}]
  BY <1>2, Released DEF IInv
<1>6. forker.fork[1] = calls[c].request.node /\ forker.fork[2] = calls[c].block
  BY <1>1, <1>2 DEF CallInv, OnItsFork, Own
<1>7. CASE Accepted(c)
  <2>1. calls' = [calls EXCEPT ![c].pc = "done"]
    BY <1>6, <1>7 DEF Parse, To, Accepted
  <2>2. calls' \in [Callers -> Call]
    BY <1>1, <2>1 DEF Call
  <2>3. calls[c].block \in Nat /\ latest[calls[c].request.node] \in Nat
        /\ calls[c].block <= latest[calls[c].request.node] /\ calls[c].problems = {}
    BY <1>1, <1>2 DEF CallInv, Asked, OnItsFork, Running, IInv, Types
  <2>4. CallInv(c)'
    BY <1>1, <1>2, <1>7, <2>1, <2>3 DEF CallInv, Before, Running, Composed, Asked, OnItsFork,
       Answered, Accepted, Call
  <2>. QED
    BY <1>2, <1>4, <1>5, <2>2, <2>4 DEF IInv, Types
<1>8. CASE ~Accepted(c)
  <2>0. calls[c].problems = {}
    BY <1>1, <1>2 DEF CallInv, Running
  <2>a. "parser" \in Problems
    BY DEF Problems
  <2>1. Report(c, "parser")
    BY <1>6, <1>8 DEF Parse, Accepted
  <2>2. /\ calls' \in [Callers -> Call] /\ calls'[c].pc = "done"
        /\ calls'[c].problems = {} \cup {"parser"}
        /\ calls'[c].request = calls[c].request /\ calls'[c].block = calls[c].block
    BY <1>1, <1>2, <2>0, <2>a, <2>1, Reported
  <2>3. CallInv(c)'
    BY <1>8, <2>2 DEF CallInv, Before, Running, Composed, Asked, OnItsFork,
       Answered, Accepted
  <2>. QED
    BY <1>2, <1>4, <1>5, <2>2, <2>3 DEF IInv, Types
<1>. QED
  BY <1>7, <1>8

LEMMA RequestFailsInv == ASSUME IInv, NEW c \in Callers, RequestFails(c) PROVE IInv'
<1>1. /\ calls[c] \in Call /\ calls \in [Callers -> Call] /\ CallInv(c)
      /\ forker \in [queue : Seq(Callers), fork : (Nodes \X Nat) \cup {None}]
  BY DEF IInv, Types
<1>2. /\ Report(c, "request")
      /\ latest' = latest /\ calls[c].pc # "done"
      /\ forker' = forker \/ (Holds(c) /\ forker' = [forker EXCEPT !.queue = Tail(@)])
  BY DEF RequestFails
<1>7. calls[c].problems = {} /\ "request" \in Problems
  BY <1>1, <1>2 DEF CallInv, Running, Problems
<1>5. /\ calls' \in [Callers -> Call] /\ calls'[c].pc = "done"
      /\ calls'[c].problems = {} \cup {"request"}
      /\ \A d \in Callers : d # c => calls'[d] = calls[d]
  BY <1>1, <1>2, <1>7, Reported
<1>3. \A d \in Callers : d # c => CallInv(d)'
  BY <1>2, <1>5, OthersKept
<1>4. forker' \in [queue : Seq(Callers), fork : (Nodes \X Nat) \cup {None}]
  BY <1>1, <1>2, Released DEF IInv
<1>6. CallInv(c)'
  BY <1>5 DEF CallInv, Before, Running, Composed, Asked, OnItsFork, Answered
<1>. QED
  BY <1>2, <1>3, <1>4, <1>5, <1>6 DEF IInv, Types

LEMMA NextInv == IInv /\ [Next]_vars => IInv'
<1>. SUFFICES ASSUME IInv, [Next]_vars PROVE IInv'
  OBVIOUS
<1>1. ASSUME NEW c \in Callers, ReadDocument(c) PROVE IInv'
  BY <1>1, ReadDocumentInv
<1>2. ASSUME NEW c \in Callers, ReadBlock(c) PROVE IInv'
  BY <1>2, ReadBlockInv
<1>3. ASSUME NEW c \in Callers, Select(c) PROVE IInv'
  BY <1>3, SelectInv
<1>4. ASSUME NEW c \in Callers, Parse(c) PROVE IInv'
  BY <1>4, ParseInv
<1>5. ASSUME NEW c \in Callers, RequestFails(c) PROVE IInv'
  BY <1>5, RequestFailsInv
<1>6. ASSUME NEW node \in Nodes, Mine(node) PROVE IInv'
  BY <1>6, MineInv
<1>7. CASE UNCHANGED vars
  BY <1>7 DEF vars, IInv, Types, CallInv, Before, Running, Composed, Asked, OnItsFork, Answered,
     Own, Accepted, Holds
<1>. QED
  BY <1>1, <1>2, <1>3, <1>4, <1>5, <1>6, <1>7 DEF Next, Step

(* The mutex: those that wait for it or hold it are in its queue, each once*)
In(q) == {q[i] : i \in DOMAIN q}
OnceEach(q) == \A i, j \in DOMAIN q : q[i] = q[j] => i = j
Waiting == {c \in Callers : calls[c].pc \in {"lock", "parse"}}
Mutex ==
  /\ \A node \in Nodes : latest[node] <= MaxBlock
  /\ OnceEach(forker.queue) /\ In(forker.queue) = Waiting

LEMMA Queued ==
  ASSUME NEW q \in Seq(Callers), NEW c \in Callers, OnceEach(q), c \notin In(q)
  PROVE  OnceEach(Append(q, c)) /\ In(Append(q, c)) = In(q) \cup {c}
<1> DEFINE r == Append(q, c)
           n == Len(q)
<1>1. n \in Nat /\ DOMAIN q = 1 .. n /\ DOMAIN r = 1 .. n + 1
  OBVIOUS
<1>2. r[n + 1] = c /\ \A i \in 1 .. n : r[i] = q[i] /\ q[i] # c
  BY DEF In
<1>3. \A i \in 1 .. n + 1 : i \in 1 .. n \/ i = n + 1
  BY <1>1
<1> HIDE DEF r, n
<1>4. OnceEach(r)
  BY <1>1, <1>2, <1>3 DEF OnceEach
<1>5. In(r) = In(q) \cup {c}
  <2>1. \A i \in 1 .. n : i \in 1 .. n + 1
    BY <1>1
  <2>2. n + 1 \in 1 .. n + 1
    BY <1>1
  <2> QED BY <1>1, <1>2, <1>3, <2>1, <2>2 DEF In
<1> QED BY <1>4, <1>5 DEF r

LEMMA Unqueued ==
  ASSUME NEW q \in Seq(Callers), q # <<>>, OnceEach(q)
  PROVE  OnceEach(Tail(q)) /\ In(Tail(q)) = In(q) \ {Head(q)} /\ Head(q) \in In(q)
<1> DEFINE r == Tail(q)
           n == Len(r)
<1>1. n \in Nat /\ DOMAIN q = 1 .. n + 1 /\ DOMAIN r = 1 .. n /\ Head(q) = q[1]
  OBVIOUS
<1>2. \A i \in 1 .. n : r[i] = q[i + 1]
  BY HeadTailProperties
<1> HIDE DEF r, n
<1>3. /\ 1 \in 1 .. n + 1
      /\ \A i \in 1 .. n : i + 1 \in 1 .. n + 1 /\ i + 1 # 1
      /\ \A i \in 1 .. n + 1 : i = 1 \/ (i - 1 \in 1 .. n /\ (i - 1) + 1 = i)
  BY <1>1
<1>4. OnceEach(r)
  <2> SUFFICES ASSUME NEW i \in 1 .. n, NEW j \in 1 .. n, r[i] = r[j] PROVE i = j
    BY <1>1 DEF OnceEach
  <2>1. i + 1 = j + 1
    BY <1>1, <1>2, <1>3 DEF OnceEach
  <2> QED BY <1>1, <2>1
<1>5. In(r) \subseteq In(q) \ {Head(q)}
  BY <1>1, <1>2, <1>3 DEF In, OnceEach
<1>6. In(q) \ {Head(q)} \subseteq In(r)
  <2> SUFFICES ASSUME NEW i \in 1 .. n + 1, q[i] # q[1] PROVE q[i] \in In(r)
    BY <1>1 DEF In
  <2>1. i - 1 \in 1 .. n /\ (i - 1) + 1 = i
    BY <1>3
  <2>2. r[i - 1] = q[i]
    BY <1>2, <2>1
  <2> QED BY <1>1, <2>1, <2>2 DEF In
<1>7. Head(q) \in In(q)
  BY <1>1, <1>3 DEF In
<1> QED BY <1>4, <1>5, <1>6, <1>7 DEF r

(* A call that asks for the mutex is queued, and the one that holds it     *)
(* leaves it when it is done.                                              *)
LEMMA MutexKept ==
  ASSUME Types, Mutex, NEW c \in Callers, latest' = latest,
         \A d \in Callers : d # c => calls'[d] = calls[d],
         \/ /\ forker'.queue = forker.queue
            /\ calls'[c].pc \in {"lock", "parse"} <=> calls[c].pc \in {"lock", "parse"}
         \/ /\ forker'.queue = Append(forker.queue, c)
            /\ calls[c].pc = "block" /\ calls'[c].pc = "lock"
         \/ Holds(c) /\ forker'.queue = Tail(forker.queue) /\ calls'[c].pc = "done"
  PROVE  Mutex'
<1>1. forker.queue \in Seq(Callers) /\ OnceEach(forker.queue) /\ In(forker.queue) = Waiting
  BY DEF Types, Mutex
<1>2. (\A node \in Nodes : latest[node] <= MaxBlock)'
  BY DEF Mutex
<1>3. CASE /\ forker'.queue = forker.queue
           /\ calls'[c].pc \in {"lock", "parse"} <=> calls[c].pc \in {"lock", "parse"}
  <2>1. Waiting' = Waiting
    BY <1>3 DEF Waiting
  <2> QED BY <1>1, <1>2, <1>3, <2>1 DEF Mutex, OnceEach, In
<1>4. CASE /\ forker'.queue = Append(forker.queue, c)
           /\ calls[c].pc = "block" /\ calls'[c].pc = "lock"
  <2>1. Waiting' = Waiting \cup {c} /\ c \notin Waiting
    BY <1>4 DEF Waiting
  <2>2. /\ OnceEach(Append(forker.queue, c))
        /\ In(Append(forker.queue, c)) = In(forker.queue) \cup {c}
    BY <1>1, <2>1, Queued
  <2>3. OnceEach(forker'.queue) /\ In(forker'.queue) = Waiting'
    BY <1>1, <1>4, <2>1, <2>2
  <2> QED BY <1>2, <2>3 DEF Mutex, OnceEach, In
<1>5. CASE Holds(c) /\ forker'.queue = Tail(forker.queue) /\ calls'[c].pc = "done"
  <2>1. forker.queue # <<>> /\ Head(forker.queue) = c
    BY <1>5 DEF Holds
  <2>2. Waiting' = Waiting \ {c}
    BY <1>5 DEF Waiting
  <2>3. /\ OnceEach(Tail(forker.queue))
        /\ In(Tail(forker.queue)) = In(forker.queue) \ {Head(forker.queue)}
    BY <1>1, <2>1, Unqueued
  <2>4. OnceEach(forker'.queue) /\ In(forker'.queue) = Waiting'
    BY <1>1, <1>5, <2>1, <2>2, <2>3
  <2> QED BY <1>2, <2>4 DEF Mutex, OnceEach, In
<1> QED BY <1>3, <1>4, <1>5

LEMMA MutexInit == Init => Mutex
<1> SUFFICES ASSUME Init PROVE Mutex
  OBVIOUS
<1>1. forker.queue = <<>> /\ DOMAIN forker.queue = {} /\ Waiting = {}
  BY DEF Init, Waiting
<1> QED BY <1>1, ParsingAssumption DEF Init, Mutex, OnceEach, In

LEMMA MutexNext == IInv /\ Mutex /\ [Next]_vars => Mutex'
<1> SUFFICES ASSUME IInv, Mutex, [Next]_vars PROVE Mutex'
  OBVIOUS
<1>1. Types
  BY DEF IInv
<1>2. ASSUME NEW c \in Callers, NEW p, Report(c, p)
      PROVE  calls'[c].pc = "done" /\ \A d \in Callers : d # c => calls'[d] = calls[d]
  <2>1. calls \in [Callers -> Call] /\ calls[c] \in Call
    BY <1>1 DEF Types
  <2> QED BY <1>2, <2>1 DEF Report, Call
<1>3. ASSUME NEW c \in Callers, NEW pc, To(c, pc)
      PROVE  calls'[c].pc = pc /\ \A d \in Callers : d # c => calls'[d] = calls[d]
  <2>1. calls \in [Callers -> Call] /\ calls[c] \in Call
    BY <1>1 DEF Types
  <2> QED BY <1>3, <2>1 DEF To, Call
<1>4. ASSUME NEW q, forker' = [forker EXCEPT !.queue = q] PROVE forker'.queue = q
  BY <1>1, <1>4 DEF Types
<1>5. ASSUME NEW c \in Callers, ReadDocument(c) PROVE Mutex'
  <2>1. /\ calls[c].pc = "document" /\ latest' = latest /\ forker' = forker
        /\ calls'[c].pc \in {"block", "done"}
        /\ \A d \in Callers : d # c => calls'[d] = calls[d]
    BY <1>2, <1>3, <1>5 DEF ReadDocument
  <2> QED BY <1>1, <2>1, MutexKept
<1>6. ASSUME NEW c \in Callers, ReadBlock(c) PROVE Mutex'
  <2>1. /\ calls[c].pc = "block" /\ latest' = latest
        /\ forker'.queue = Append(forker.queue, c)
    BY <1>4, <1>6 DEF ReadBlock
  <2>2. /\ calls'[c].pc = "lock"
        /\ \A d \in Callers : d # c => calls'[d] = calls[d]
    <3>1. calls \in [Callers -> Call] /\ calls[c] \in Call
      BY <1>1 DEF Types
    <3> QED BY <1>6, <3>1 DEF ReadBlock, Call
  <2> QED BY <1>1, <2>1, <2>2, MutexKept
<1>7. ASSUME NEW c \in Callers, Select(c) PROVE Mutex'
  <2>1. calls[c].pc = "lock" /\ Holds(c) /\ latest' = latest
    BY <1>7 DEF Select
  <2>2. CASE calls[c].block <= latest[calls[c].request.node]
    <3>1. To(c, "parse") /\ forker'.queue = forker.queue
      BY <1>1, <1>7, <2>2 DEF Select, Types
    <3> QED BY <1>1, <1>3, <2>1, <3>1, MutexKept
  <2>3. CASE ~(calls[c].block <= latest[calls[c].request.node])
    <3>1. Report(c, "fork") /\ forker'.queue = Tail(forker.queue)
      BY <1>4, <1>7, <2>3 DEF Select
    <3> QED BY <1>1, <1>2, <2>1, <3>1, MutexKept
  <2> QED BY <2>2, <2>3
<1>8. ASSUME NEW c \in Callers, Parse(c) PROVE Mutex'
  <2>1. Holds(c) /\ latest' = latest /\ forker'.queue = Tail(forker.queue)
    BY <1>4, <1>8 DEF Parse
  <2>2. /\ calls'[c].pc = "done"
        /\ \A d \in Callers : d # c => calls'[d] = calls[d]
    BY <1>2, <1>3, <1>8 DEF Parse
  <2> QED BY <1>1, <2>1, <2>2, MutexKept
<1>9. ASSUME NEW c \in Callers, RequestFails(c) PROVE Mutex'
  <2>1. /\ latest' = latest /\ Report(c, "request")
        /\ \/ calls[c].pc = "block" /\ forker' = forker
           \/ Holds(c) /\ forker' = [forker EXCEPT !.queue = Tail(@)]
    BY <1>9 DEF RequestFails
  <2>2. /\ calls'[c].pc = "done"
        /\ \A d \in Callers : d # c => calls'[d] = calls[d]
    BY <1>2, <2>1
  <2>3. CASE calls[c].pc = "block" /\ forker' = forker
    BY <1>1, <2>1, <2>2, <2>3, MutexKept
  <2>4. CASE Holds(c) /\ forker' = [forker EXCEPT !.queue = Tail(@)]
    <3>1. forker'.queue = Tail(forker.queue)
      BY <1>4, <2>4
    <3> QED BY <1>1, <2>1, <2>2, <2>4, <3>1, MutexKept
  <2> QED BY <2>1, <2>3, <2>4
<1>10. ASSUME NEW node \in Nodes, Mine(node) PROVE Mutex'
  <2>1. calls' = calls /\ forker' = forker
    BY <1>10 DEF Mine
  <2>2. \A n \in Nodes : latest'[n] <= MaxBlock
    BY <1>1, <1>10, ParsingAssumption DEF Mine, Types, Mutex
  <2> QED BY <2>1, <2>2 DEF Mutex, Waiting, OnceEach, In
<1>11. CASE UNCHANGED vars
  BY <1>11 DEF vars, Mutex, Waiting, OnceEach, In
<1> QED BY <1>5, <1>6, <1>7, <1>8, <1>9, <1>10, <1>11 DEF Next, Step

LEMMA ParsingTypeFacts == IInv /\ Mutex => TypeOK
<1> SUFFICES ASSUME IInv, Mutex PROVE TypeOK
  OBVIOUS
<1>1. latest \in [Nodes -> 0 .. MaxBlock]
  BY ParsingAssumption DEF IInv, Types, Mutex
<1>2. \A c \in Callers : calls[c].pc \in {"document", "block", "lock", "parse", "done"}
  BY DEF IInv, Types, Call
<1> QED BY <1>1, <1>2 DEF TypeOK, Mutex, OnceEach, In, Waiting

(* The answer of every call of parse_rainlang_on_fork is that of the parser*)
(* for its own text, node and block, and no problem is shown only of a     *)
(* document that composes and was parsed at the block that was asked for.  *)
LEMMA AnswersFacts == IInv => AnswersHold
<1>1. IInv => ParsedOnOwnFork
  BY DEF IInv, CallInv, Answered, Accepted, ParsedOnOwnFork
<1>2. IInv => NoProblemMeansParsed
  BY DEF IInv, CallInv, Answered, NoProblemMeansParsed
<1> QED BY <1>1, <1>2 DEF AnswersHold

-----------------------------------------------------------------------------
(* The sets of each tool are finite sets, and have the same cardinality.   *)

LEMMA FuzzSets == \A S : F!IsFiniteSet(S) = IsFiniteSet(S) /\ F!Cardinality(S) = Cardinality(S)
BY DEF F!IsFiniteSet, IsFiniteSet, F!Cardinality, Cardinality

LEMMA TestSets == \A S : T!IsFiniteSet(S) = IsFiniteSet(S) /\ T!Cardinality(S) = Cardinality(S)
BY DEF T!IsFiniteSet, IsFiniteSet, T!Cardinality, Cardinality

LEMMA WordsSets == \A S : W!IsFiniteSet(S) = IsFiniteSet(S) /\ W!Cardinality(S) = Cardinality(S)
BY DEF W!IsFiniteSet, IsFiniteSet, W!Cardinality, Cardinality

-----------------------------------------------------------------------------
(* The bindings of both runners *)

(* The elided keys in some order are all of them, each once.               *)
LEMMA ElidedFacts ==
  ASSUME NEW keys, NEW bound, IsFiniteSet(keys), NEW order \in F!Elided(keys, bound)
  PROVE  /\ Cardinality(keys \ bound) \in Nat
         /\ DOMAIN order = 1 .. Cardinality(keys \ bound)
         /\ Len(order) = Cardinality(keys \ bound)
         /\ {order[i] : i \in DOMAIN order} = keys \ bound
         /\ \A i, j \in DOMAIN order : order[i] = order[j] => i = j
<1> DEFINE K == keys \ bound
           n == Cardinality(K)
<1>1. IsFiniteSet(K) /\ n \in Nat
  BY FS_Difference, FS_CardinalityType
<1>2. order \in [1 .. n -> K] /\ \A i, j \in 1 .. n : order[i] = order[j] => i = j
  BY FuzzSets DEF F!Elided
<1> HIDE DEF n, K
<1>3. order \in Injection(1 .. n, K)
  BY <1>2 DEF Injection, IsInjective
<1>4. Cardinality(1 .. n) = n
  <2>1. 1 \in Int /\ n \in Int
    BY <1>1
  <2>2. Cardinality(1 .. n) = IF 1 > n THEN 0 ELSE n - 1 + 1
    BY <2>1, FS_Interval
  <2> QED BY <1>1, <2>2
<1>5. order \in Surjection(1 .. n, K)
  BY <1>1, <1>3, <1>4, FS_Injection DEF n
<1>6. {order[i] : i \in DOMAIN order} = K
  BY <1>2, <1>5 DEF Surjection
<1>7. Len(order) = n
  BY <1>1, <1>2
<1> QED BY <1>1, <1>2, <1>6, <1>7 DEF n, K

(* b has the values number drawn+1 .. drawn+n for the keys that are not    *)
(* bound.                                                                  *)
Drawn(b, keys, bound, drawn, n) ==
  /\ b \in [bound \cup keys -> Nat \cup {"bound"}]
  /\ \A k \in bound : b[k] = "bound"
  /\ {b[k] : k \in keys \ bound} = drawn + 1 .. drawn + n

(* The bindings of a run: one value of the generator for each elided key.  *)
LEMMA BindingsFacts ==
  ASSUME NEW keys, NEW bound, IsFiniteSet(keys), NEW order \in F!Elided(keys, bound),
         NEW drawn \in Nat
  PROVE  Drawn(F!FinalBindings(order, bound, drawn), keys, bound, drawn, Len(order))
<1> DEFINE b == F!FinalBindings(order, bound, drawn)
           at(k) == CHOOSE i \in DOMAIN order : order[i] = k
<1>1. /\ Len(order) \in Nat /\ DOMAIN order = 1 .. Len(order)
      /\ {order[i] : i \in DOMAIN order} = keys \ bound
      /\ \A i, j \in DOMAIN order : order[i] = order[j] => i = j
  <2>1. /\ Cardinality(keys \ bound) \in Nat
        /\ DOMAIN order = 1 .. Cardinality(keys \ bound)
        /\ Len(order) = Cardinality(keys \ bound)
        /\ {order[i] : i \in DOMAIN order} = keys \ bound
        /\ \A i, j \in DOMAIN order : order[i] = order[j] => i = j
    BY ElidedFacts, Zenon
  <2> QED BY <2>1
<1>2. DOMAIN b = bound \cup keys /\ \A k \in bound : b[k] = "bound"
  BY <1>1 DEF F!FinalBindings
<1>3. ASSUME NEW k \in keys \ bound
      PROVE  at(k) \in DOMAIN order /\ order[at(k)] = k /\ b[k] = drawn + at(k)
  <2>1. \E i \in DOMAIN order : order[i] = k
    BY <1>1
  <2> QED BY <1>1, <2>1 DEF F!FinalBindings
<1>4. ASSUME NEW i \in DOMAIN order
      PROVE  order[i] \in keys \ bound /\ at(order[i]) = i
  <2>1. order[i] \in keys \ bound
    BY <1>1
  <2> QED BY <1>1, <1>3, <2>1
<1> HIDE DEF b, at
<1>5. \A k \in keys \ bound : b[k] \in drawn + 1 .. drawn + Len(order)
  BY <1>1, <1>3
<1>6. ASSUME NEW v \in drawn + 1 .. drawn + Len(order)
      PROVE  \E k \in keys \ bound : b[k] = v
  <2>1. v - drawn \in DOMAIN order
    BY <1>1
  <2>2. b[order[v - drawn]] = drawn + (v - drawn)
    BY <1>3, <1>4, <2>1
  <2> QED BY <1>4, <2>1, <2>2
<1>7. {b[k] : k \in keys \ bound} = drawn + 1 .. drawn + Len(order)
  BY <1>5, <1>6
<1>8. b \in [bound \cup keys -> Nat \cup {"bound"}]
  <2>1. b = [k \in DOMAIN b |-> b[k]]
    BY DEF b, F!FinalBindings
  <2>2. \A k \in bound \cup keys : b[k] \in Nat \cup {"bound"}
    BY <1>1, <1>2, <1>5
  <2> QED BY <1>2, <2>1, <2>2
<1> QED BY <1>2, <1>7, <1>8 DEF b, Drawn

(* The same of the runner of tests *)
LEMMA TestElidedFacts ==
  ASSUME NEW keys, NEW bound, IsFiniteSet(keys), NEW order \in T!Elided(keys, bound)
  PROVE  Cardinality(keys \ bound) \in Nat /\ Len(order) = Cardinality(keys \ bound)
<1>1. order \in F!Elided(keys, bound)
  BY FuzzSets, TestSets DEF T!Elided, F!Elided
<1> QED BY <1>1, ElidedFacts, Zenon

LEMMA TestBindingsFacts ==
  ASSUME NEW keys, NEW bound, IsFiniteSet(keys), NEW order \in T!Elided(keys, bound),
         NEW drawn \in Nat
  PROVE  Drawn(T!FinalBindings(order, bound, drawn), keys, bound, drawn, Len(order))
<1>1. order \in F!Elided(keys, bound)
  BY FuzzSets, TestSets DEF T!Elided, F!Elided
<1>2. T!FinalBindings(order, bound, drawn) = F!FinalBindings(order, bound, drawn)
  BY DEF T!FinalBindings, F!FinalBindings
<1> QED BY <1>1, <1>2, BindingsFacts, Zenon

-----------------------------------------------------------------------------
(* Fuzz: the inductive invariant *)

(* The blocks of a scenario, as read                                       *)
ReadBlocksOf(name) ==
  IF FuzzedScenarios[name].blocks = None THEN None
  ELSE [range |-> F!ParseRange(FuzzedScenarios[name].blocks.range),
        interval |-> FuzzedScenarios[name].blocks.interval]

BoundKeys(name) == FuzzedScenarios[name].bound
NoOfDrawn(name) == Cardinality(Keys \ BoundKeys(name))

(* blocks is what the text of the scenario expands to as of block l.       *)
ExpandedAt(blocks, name, l) ==
  blocks = F!BlocksOf(ReadBlocksOf(name), l) /\ blocks \notin {Error, Endless}

(* The rows are on blocks, n on each, in their order.                      *)
Placed(rows, blocks, n) ==
  \A i \in DOMAIN rows : \E j \in 1 .. Len(blocks) :
    rows[i].fork = blocks[j] /\ (j - 1) * n < i /\ i <= j * n

(* The rows have the values of the seed, in their order.                   *)
Valued(rows, name) ==
  \A i \in DOMAIN rows :
    Drawn(rows[i].bindings, Keys, BoundKeys(name), (i - 1) * NoOfDrawn(name), NoOfDrawn(name))

Statuses == {"running", "ok", "failed"}
Bindings ==
  UNION {[BoundKeys(name) \cup Keys -> Nat \cup {"bound"}] : name \in DOMAIN FuzzedScenarios}
Task == [fork : Nat, status : Statuses, bindings : Bindings]

RunnerShape ==
  [charts : FuzzedCharts, blocks : {F!ScenarioBlocks(FALSE)}, drawn : Nat,
   fork : Nat \cup {None}]
RunShape ==
  [scenario : DOMAIN FuzzedScenarios \cup {None}, runner : RunnerShape, blocks : Seq(Nat),
   order : Seq(Keys), at : Nat, spawned : Nat, results : Seq(Task)]

FuzzTypes ==
  /\ block \in 0 .. LastBlock
  /\ self \in RunnerShape /\ self.drawn = 0 /\ self.fork = None
  /\ left \subseteq DOMAIN self.charts
  /\ run \in RunShape /\ run.runner.charts = self.charts
  /\ tasks \in Seq(Task)
  /\ fuzzPc \in {"chart", "named", "fork", "roll", "spawn", "await", "done", "error", "endless"}

(* The data are of the charts that are done.                               *)
Charted == {self.charts[c] : c \in (DOMAIN self.charts) \ left}
DataSoFar ==
  /\ fuzzPc = "done" => left = {}
  /\ fuzzPc \in {"chart", "done"} => DOMAIN data = Charted
  /\ fuzzPc \in {"named", "fork", "roll", "spawn", "await"} =>
       run.scenario \in DOMAIN FuzzedScenarios /\ DOMAIN data \cup {run.scenario} = Charted
  /\ DOMAIN data \subseteq Charted

(* Where the run of a scenario is                                          *)
FuzzRunning ==
  /\ fuzzPc \in {"fork", "roll", "spawn", "await"} =>
       \E l \in 0 .. block : ExpandedAt(run.blocks, run.scenario, l)
  /\ fuzzPc \in {"named", "fork"} => tasks = <<>> /\ run.runner.drawn = 0
  /\ fuzzPc \in {"named", "fork", "roll", "spawn"} => run.results = <<>>
  /\ fuzzPc \in {"named", "fork"} => run.at = 1
  /\ fuzzPc \in {"roll", "spawn", "await"} =>
       /\ run.order \in F!Elided(Keys, BoundKeys(run.scenario))
       /\ run.runner.drawn = Len(tasks) * NoOfDrawn(run.scenario)
       /\ Placed(tasks, run.blocks, F!NoOfRuns(run.scenario))
       /\ Valued(tasks, run.scenario)
  /\ fuzzPc = "roll" =>
       /\ run.at \in 1 .. Len(run.blocks) + 1
       /\ Len(tasks) = (run.at - 1) * F!NoOfRuns(run.scenario)
  /\ fuzzPc = "spawn" =>
       /\ run.at \in 1 .. Len(run.blocks) /\ run.spawned \in 0 .. F!NoOfRuns(run.scenario)
       /\ Len(tasks) = (run.at - 1) * F!NoOfRuns(run.scenario) + run.spawned
       /\ run.runner.fork = run.blocks[run.at] /\ run.runner.fork <= block
  /\ fuzzPc = "await" => Len(tasks) = Len(run.blocks) * F!NoOfRuns(run.scenario)

(* A result is a task that has ended.                                      *)
Awaited ==
  /\ Len(run.results) <= Len(tasks)
  /\ \A i \in DOMAIN run.results : run.results[i] = tasks[i] /\ tasks[i].status = "ok"
  /\ \A i \in DOMAIN tasks : tasks[i].fork <= block

(* The rows of a scenario                                                  *)
RowsOf(rows, name, l) ==
  \E blocks \in Seq(Nat) :
    /\ ExpandedAt(blocks, name, l)
    /\ rows \in Seq(Task) /\ Len(rows) = Len(blocks) * F!NoOfRuns(name)
    /\ Placed(rows, blocks, F!NoOfRuns(name)) /\ Valued(rows, name)

DataRight == \A name \in DOMAIN data : \E l \in 0 .. block : RowsOf(data[name], name, l)

FuzzInv == FuzzTypes /\ DataSoFar /\ FuzzRunning /\ Awaited /\ DataRight

-----------------------------------------------------------------------------
(* Numbers *)

(* A block of n rows ends where the next begins.                           *)
LEMMA Rounds ==
  ASSUME NEW j \in Nat, NEW n \in Nat
  PROVE  /\ j * n \in Nat /\ (j + 1) * n = j * n + n
         /\ j > 0 => (j - 1) * n \in Nat /\ j * n = (j - 1) * n + n
<1>1. j * n \in Nat
  OBVIOUS
<1>2. (j + 1) * n = j * n + n
  OBVIOUS
<1>3. ASSUME j > 0 PROVE (j - 1) * n \in Nat /\ j * n = (j - 1) * n + n
  <2>1. j - 1 \in Nat
    BY <1>3
  <2>2. (j - 1) * n \in Nat
    BY <2>1
  <2>3. ((j - 1) + 1) * n = (j - 1) * n + n
    BY <2>1
  <2>4. (j - 1) + 1 = j
    OBVIOUS
  <2> QED BY <2>2, <2>3, <2>4
<1> QED BY <1>1, <1>2, <1>3

LEMMA RoundsMono ==
  ASSUME NEW a \in Nat, NEW b \in Nat, NEW n \in Nat, a <= b
  PROVE  a * n <= b * n
<1>1. b - a \in Nat
  OBVIOUS
<1>2. (b - a) * n \in Nat
  BY <1>1
<1>3. b * n = a * n + (b - a) * n
  <2>1. (a + (b - a)) * n = a * n + (b - a) * n
    BY <1>1
  <2>2. a + (b - a) = b
    OBVIOUS
  <2> QED BY <2>1, <2>2
<1> QED BY <1>2, <1>3

(* Row i is in the round j that its number says, and in no other.          *)
LEMMA RoundOf ==
  ASSUME NEW i \in Nat, NEW j \in Nat \ {0}, NEW m \in Nat \ {0}, NEW n \in Nat,
         NEW h \in Nat, i <= h, (j - 1) * n < i, h <= m * n
  PROVE  j <= m
<1>1. SUFFICES ASSUME ~(j <= m) PROVE FALSE
  OBVIOUS
<1>2. m \in Nat /\ j - 1 \in Nat /\ m <= j - 1
  BY <1>1
<1>3. m * n <= (j - 1) * n
  BY <1>2, RoundsMono
<1>4. m * n \in Nat /\ (j - 1) * n \in Nat
  BY <1>2
<1> QED BY <1>3, <1>4

LEMMA Quotient ==
  ASSUME NEW d \in Nat, NEW v \in Nat \ {0}
  PROVE  /\ d \div v \in Nat
         /\ \A q \in Nat : q * v <= d <=> q <= d \div v
         /\ d % v = 0 <=> \E q \in Nat : d = q * v
<1>1. d \div v \in Nat /\ d = v * (d \div v) + (d % v) /\ d % v \in 0 .. v - 1
  OBVIOUS
<1>2. ASSUME NEW q \in Nat, q <= d \div v PROVE q * v <= d
  <2>1. q * v <= (d \div v) * v
    BY <1>1, <1>2, RoundsMono
  <2>2. q * v \in Nat /\ (d \div v) * v \in Nat /\ (d \div v) * v = v * (d \div v)
    BY <1>1
  <2> QED BY <1>1, <2>1, <2>2
<1>3. ASSUME NEW q \in Nat, ~(q <= d \div v) PROVE ~(q * v <= d)
  <2>1. (d \div v) + 1 \in Nat /\ (d \div v) + 1 <= q
    BY <1>1, <1>3
  <2>2. ((d \div v) + 1) * v <= q * v
    BY <2>1, RoundsMono
  <2>3. ((d \div v) + 1) * v = v * (d \div v) + v
    BY <1>1
  <2>4. q * v \in Nat /\ v * (d \div v) \in Nat
    BY <1>1
  <2> QED BY <1>1, <2>2, <2>3, <2>4
<1>4. ASSUME d % v = 0 PROVE \E q \in Nat : d = q * v
  <2>1. d = (d \div v) * v
    BY <1>1, <1>4
  <2> QED BY <1>1, <2>1
<1>5. ASSUME NEW q \in Nat, d = q * v PROVE d % v = 0
  <2>1. q = d \div v
    <3>1. q <= d \div v
      BY <1>3, <1>5
    <3>2. (d \div v) * v <= q * v
      BY <1>1, <1>2, <1>5
    <3>3. CASE d \div v > q
      <4>1. q + 1 \in Nat /\ q + 1 <= d \div v
        BY <1>1, <3>3
      <4>2. (q + 1) * v <= (d \div v) * v
        BY <1>1, <4>1, RoundsMono
      <4>3. (q + 1) * v = q * v + v /\ q * v \in Nat /\ (d \div v) * v \in Nat
        BY <1>1
      <4> QED BY <3>2, <4>2, <4>3
    <3> QED BY <1>1, <3>1, <3>3
  <2>2. v * (d \div v) = q * v
    BY <1>1, <2>1
  <2>3. v * (d \div v) \in Nat /\ q * v \in Nat
    BY <1>1
  <2> QED BY <1>1, <1>5, <2>2, <2>3
<1> QED BY <1>1, <1>2, <1>3, <1>4, <1>5

-----------------------------------------------------------------------------
(* The blocks of a scenario *)

(* What was written from blocks that were read is read again as they were. *)
LEMMA ReadAgain ==
  ASSUME NEW again \in BOOLEAN
  PROVE  /\ F!ScenarioBlocks(again) = F!ScenarioBlocks(FALSE)
         /\ \A name \in DOMAIN FuzzedScenarios :
              F!ScenarioBlocks(FALSE)[name] = ReadBlocksOf(name)
<1>1. ASSUME NEW name \in DOMAIN FuzzedScenarios, FuzzedScenarios[name].blocks # None
      PROVE  F!ParseRange(F!Serialize(F!ParseRange(FuzzedScenarios[name].blocks.range)))
               = F!ParseRange(FuzzedScenarios[name].blocks.range)
  <2> DEFINE text == FuzzedScenarios[name].blocks.range
  <2>1. /\ text.start \in Nat \cup {None} /\ text.end \in Nat \cup {None}
        /\ Genesis \notin Nat /\ Latest \notin Nat /\ None \notin Nat
    BY <1>1, ToolsAssumption DEF F!FuzzAssumption, F!BlocksAssumption
  <2> HIDE DEF text
  <2> DEFINE read == F!ParseRange(text)
  <2>2. /\ read.start = IF text.start = None THEN Genesis ELSE text.start
        /\ read.end = IF text.end = None THEN Latest ELSE text.end
    BY DEF F!ParseRange
  <2> HIDE DEF read
  <2> DEFINE written == F!Serialize(read)
  <2>3. written.start = text.start /\ written.end = text.end
    BY <2>1, <2>2 DEF F!Serialize
  <2> HIDE DEF written
  <2>4. F!ParseRange(written) = F!ParseRange(text)
    BY <2>3 DEF F!ParseRange
  <2> QED BY <2>4 DEF written, read, text
<1>2. F!ScenarioBlocks(TRUE) = F!ScenarioBlocks(FALSE)
  BY <1>1 DEF F!ScenarioBlocks
<1>3. \A name \in DOMAIN FuzzedScenarios : F!ScenarioBlocks(FALSE)[name] = ReadBlocksOf(name)
  BY DEF F!ScenarioBlocks, ReadBlocksOf
<1> QED BY <1>2, <1>3

(* The blocks are those of the set, in ascending order, each once.         *)
Ascending(blocks, set) ==
  /\ blocks \in Seq(Nat) /\ Len(blocks) \in Nat \ {0}
  /\ \A i, j \in 1 .. Len(blocks) : i <= j => blocks[i] <= blocks[j]
  /\ \A i, j \in 1 .. Len(blocks) : blocks[i] = blocks[j] => i = j
  /\ {blocks[i] : i \in 1 .. Len(blocks)} = set

(* What a text expands to is what it means, in ascending order.            *)
LEMMA ExpandedFacts ==
  ASSUME NEW name \in DOMAIN FuzzedScenarios, NEW l \in Nat, NEW blocks,
         ExpandedAt(blocks, name, l)
  PROVE  Ascending(blocks, F!Meant(name, l))
<1>1. CASE FuzzedScenarios[name].blocks = None
  <2>1. blocks = <<l>>
    BY <1>1 DEF ExpandedAt, ReadBlocksOf, F!BlocksOf
  <2>2. F!Meant(name, l) = {l}
    BY <1>1 DEF F!Meant
  <2>3. blocks \in Seq(Nat) /\ Len(blocks) = 1 /\ blocks[1] = l
    BY <2>1
  <2> QED BY <2>2, <2>3 DEF Ascending
<1>2. CASE FuzzedScenarios[name].blocks # None
  <2> DEFINE b == FuzzedScenarios[name].blocks
             start == IF b.range.start = None THEN 0 ELSE b.range.start
             end == IF b.range.end = None THEN l ELSE b.range.end
             v == IF b.interval = None THEN 1 ELSE b.interval
             read == ReadBlocksOf(name)
  <2>1. /\ b.range.start \in Nat \cup {None} /\ b.range.end \in Nat \cup {None}
        /\ b.interval \in Nat \cup {None}
        /\ Genesis \notin Nat /\ Latest \notin Nat /\ None \notin Nat /\ Genesis # Latest
    BY <1>2, ToolsAssumption DEF F!FuzzAssumption, F!BlocksAssumption
  <2>2. start \in Nat /\ end \in Nat /\ v \in Nat
    BY <2>1
  <2>3. /\ read.interval = b.interval /\ read.range = F!ParseRange(b.range)
        /\ read = [range |-> F!ParseRange(b.range), interval |-> b.interval]
    BY <1>2 DEF ReadBlocksOf
  <2> DEFINE range == F!ParseRange(b.range)
  <2>4. /\ range \in [start : Nat \cup {Genesis}, end : Nat \cup {Latest}]
        /\ range.start = IF b.range.start = None THEN Genesis ELSE b.range.start
        /\ range.end = IF b.range.end = None THEN Latest ELSE b.range.end
    BY <2>1 DEF F!ParseRange
  <2>5. F!ToBlockNumber(range.start, l) = start /\ F!ToBlockNumber(range.end, l) = end
    BY <2>1, <2>4 DEF F!ToBlockNumber
  <2>6. read # None
    <3>1. read \in [range : [start : Nat \cup {Genesis}, end : Nat \cup {Latest}],
                    interval : Nat \cup {None}]
      BY <2>1, <2>3, <2>4
    <3> QED BY <3>1, ToolsAssumption DEF F!FuzzAssumption
  <2>7. F!BlocksOf(read, l) \notin {Error, Endless}
    BY DEF ExpandedAt
  <2> DEFINE e == [i \in 1 .. (end - start) \div v + 1 |-> start + (i - 1) * v]
  <2>8. start <= end /\ v # 0
    BY <2>3, <2>5, <2>6, <2>7 DEF F!BlocksOf, F!ExpandToBlockNumbers, F!Validate
  <2>9. blocks = e
    BY <2>3, <2>5, <2>6, <2>7 DEF ExpandedAt, F!BlocksOf, F!ExpandToBlockNumbers, F!Validate
  <2>10. F!Meant(name, l) = {x \in start .. end : (x - start) % v = 0}
    BY <1>2 DEF F!Meant
  <2> HIDE DEF b, start, end, v, read, range
  <2> DEFINE d == end - start
             q == d \div v
  <2>11. d \in Nat /\ v \in Nat \ {0}
    BY <2>2, <2>8
  <2>12. /\ q \in Nat
         /\ \A p \in Nat : p * v <= d <=> p <= q
    BY <2>11, Quotient
  <2>13. e = [i \in 1 .. q + 1 |-> start + (i - 1) * v]
    OBVIOUS
  <2> HIDE DEF e, q
  <2>14. ASSUME NEW i \in 1 .. q + 1
         PROVE  e[i] = start + (i - 1) * v /\ e[i] \in Nat /\ (i - 1) * v \in Nat
                /\ i - 1 \in Nat /\ i - 1 <= q
    <3>1. i - 1 \in Nat /\ i - 1 <= q
      BY <2>12
    <3>2. (i - 1) * v \in Nat
      BY <2>11, <3>1
    <3> QED BY <2>2, <2>13, <3>1, <3>2
  <2>15. e \in Seq(Nat) /\ Len(e) = q + 1
    <3>1. q + 1 \in Nat
      BY <2>12
    <3>2. \A i \in 1 .. q + 1 : e[i] \in Nat
      BY <2>14
    <3> QED BY <2>13, <3>1, <3>2
  <2>16. ASSUME NEW i \in 1 .. q + 1, NEW j \in 1 .. q + 1, i < j
         PROVE  e[i] < e[j]
    <3>1. i \in Nat /\ i <= j - 1 /\ j - 1 \in Nat /\ i - 1 \in Nat
      BY <2>12, <2>16
    <3>2. i * v <= (j - 1) * v
      BY <2>11, <3>1, RoundsMono
    <3>3. i * v = (i - 1) * v + v /\ i * v \in Nat
      BY <2>11, <3>1, Rounds
    <3>4. (i - 1) * v < (j - 1) * v
      BY <2>11, <2>14, <3>2, <3>3
    <3> QED BY <2>2, <2>14, <3>4
  <2>17. \A i, j \in 1 .. q + 1 : i <= j => e[i] <= e[j]
    <3> TAKE i, j \in 1 .. q + 1
    <3>1. CASE i < j
      BY <2>14, <2>16, <3>1
    <3>2. CASE i = j
      BY <2>14, <3>2
    <3> QED BY <2>12, <3>1, <3>2
  <2>18. \A i, j \in 1 .. q + 1 : e[i] = e[j] => i = j
    <3> SUFFICES ASSUME NEW i \in 1 .. q + 1, NEW j \in 1 .. q + 1, e[i] = e[j], i # j
                 PROVE  FALSE
      OBVIOUS
    <3>1. e[i] < e[j] \/ e[j] < e[i]
      BY <2>12, <2>16
    <3> QED BY <2>14, <3>1
  <2>19. ASSUME NEW i \in 1 .. q + 1
         PROVE  e[i] \in start .. end /\ (e[i] - start) % v = 0
    <3>1. (i - 1) * v <= d
      BY <2>12, <2>14
    <3>2. e[i] - start = (i - 1) * v
      BY <2>2, <2>14
    <3>3. e[i] - start \in Nat
      BY <2>14, <3>2
    <3>4. (e[i] - start) % v = 0
      BY <2>11, <2>14, <3>2, <3>3, Quotient
    <3> QED BY <2>2, <2>14, <3>1, <3>4
  <2>20. ASSUME NEW x \in start .. end, (x - start) % v = 0
         PROVE  \E i \in 1 .. q + 1 : e[i] = x
    <3>1. x - start \in Nat /\ x - start <= d
      BY <2>2
    <3>2. PICK p \in Nat : x - start = p * v
      BY <2>11, <2>20, <3>1, Quotient
    <3>3. p <= q
      BY <2>12, <3>1, <3>2
    <3>4. p + 1 \in 1 .. q + 1 /\ (p + 1) - 1 = p
      BY <2>12, <3>3
    <3>5. e[p + 1] = start + p * v
      BY <2>14, <3>4
    <3> QED BY <2>2, <3>2, <3>4, <3>5
  <2>21. {e[i] : i \in 1 .. q + 1} = F!Meant(name, l)
    BY <2>10, <2>19, <2>20
  <2> QED BY <2>9, <2>12, <2>15, <2>17, <2>18, <2>21 DEF Ascending
<1> QED BY <1>1, <1>2

-----------------------------------------------------------------------------
(* The rows of a scenario *)

LEMMA RunsType ==
  ASSUME NEW name \in DOMAIN FuzzedScenarios
  PROVE  /\ F!NoOfRuns(name) \in Nat /\ NoOfDrawn(name) \in Nat
         /\ IsFiniteSet(Keys)
<1>1. F!NoOfRuns(name) \in Nat
  BY ToolsAssumption DEF F!FuzzAssumption, F!NoOfRuns
<1>2. IsFiniteSet(Keys)
  BY ToolsAssumption, FuzzSets DEF F!FuzzAssumption
<1> QED BY <1>1, <1>2, FS_Difference, FS_CardinalityType DEF NoOfDrawn

(* The rows ascend, n on each of the blocks and none on another.           *)
Even(rows, on, n) ==
  /\ \A h, i \in DOMAIN rows : h < i => rows[h].fork <= rows[i].fork
  /\ \A b : Cardinality({i \in DOMAIN rows : rows[i].fork = b}) = IF b \in on THEN n ELSE 0

(* Rows that are on the blocks of a scenario are n on each of them.        *)
LEMMA PlacedFacts ==
  ASSUME NEW rows, NEW n \in Nat, NEW blocks, NEW set, Ascending(blocks, set),
         DOMAIN rows = 1 .. Len(blocks) * n, Placed(rows, blocks, n)
  PROVE  Even(rows, set, n)
<1> DEFINE m == Len(blocks)
<1>0. /\ m \in Nat \ {0} /\ Len(blocks) = m /\ DOMAIN rows = 1 .. m * n
      /\ \A i, j \in 1 .. m : i <= j => blocks[i] <= blocks[j]
      /\ \A i, j \in 1 .. m : blocks[i] = blocks[j] => i = j
      /\ {blocks[i] : i \in 1 .. m} = set
  BY DEF Ascending
<1> HIDE DEF m
<1>1. \A i \in DOMAIN rows : \E j \in 1 .. m :
        rows[i].fork = blocks[j] /\ (j - 1) * n < i /\ i <= j * n
  BY <1>0 DEF Placed
<1>2. m * n \in Nat /\ \A i \in DOMAIN rows : i \in Nat \ {0}
  <2>1. m * n \in Nat
    BY <1>0
  <2> QED BY <1>0, <2>1
<1>3. ASSUME NEW h \in DOMAIN rows, NEW i \in DOMAIN rows, h < i
      PROVE  rows[h].fork <= rows[i].fork
  <2>1. PICK j \in 1 .. m : rows[h].fork = blocks[j] /\ (j - 1) * n < h /\ h <= j * n
    BY <1>1
  <2>2. PICK k \in 1 .. m : rows[i].fork = blocks[k] /\ (k - 1) * n < i /\ i <= k * n
    BY <1>1
  <2>3. j \in Nat \ {0} /\ k \in Nat \ {0} /\ h \in Nat /\ i \in Nat /\ h <= i
    BY <1>0, <1>2, <1>3
  <2>4. j <= k
    BY <2>1, <2>2, <2>3, RoundOf
  <2> QED BY <1>0, <2>1, <2>2, <2>4
<1>4. ASSUME NEW b
      PROVE  Cardinality({i \in DOMAIN rows : rows[i].fork = b})
               = IF b \in {blocks[i] : i \in 1 .. m} THEN n ELSE 0
  <2> DEFINE on == {i \in DOMAIN rows : rows[i].fork = b}
  <2>1. CASE b \in {blocks[i] : i \in 1 .. m}
    <3>1. PICK j \in 1 .. m : b = blocks[j]
      BY <2>1
    <3>2. j \in Nat \ {0} /\ j - 1 \in Nat
      BY <1>0
    <3>3. (j - 1) * n \in Nat /\ j * n = (j - 1) * n + n /\ j * n \in Nat
      BY <3>2, Rounds
    <3>4. j * n <= m * n
      BY <1>0, <3>2, RoundsMono
    <3> DEFINE from == (j - 1) * n
    <3>5. ASSUME NEW i \in on
          PROVE  i \in from + 1 .. from + n
      <4>1. i \in DOMAIN rows /\ rows[i].fork = blocks[j]
        BY <3>1
      <4>2. PICK k \in 1 .. m : rows[i].fork = blocks[k] /\ (k - 1) * n < i /\ i <= k * n
        BY <1>1, <4>1
      <4>3. k = j
        BY <1>0, <4>1, <4>2
      <4>4. i \in Nat
        BY <1>2, <4>1
      <4> QED BY <3>3, <4>2, <4>3, <4>4
    <3>6. ASSUME NEW i \in from + 1 .. from + n
          PROVE  i \in on
      <4>1. i \in Nat /\ i >= 1 /\ (j - 1) * n < i /\ i <= j * n
        BY <3>3
      <4>2. i \in DOMAIN rows
        BY <1>0, <1>2, <3>3, <3>4, <4>1
      <4>3. PICK k \in 1 .. m : rows[i].fork = blocks[k] /\ (k - 1) * n < i /\ i <= k * n
        BY <1>1, <4>2
      <4>4. k \in Nat \ {0} /\ i <= i
        BY <1>0, <4>1
      <4>5. k <= j
        BY <1>0, <3>2, <4>1, <4>3, <4>4, RoundOf
      <4>6. j <= k
        BY <1>0, <3>2, <4>1, <4>3, <4>4, RoundOf
      <4>7. k = j
        BY <3>2, <4>4, <4>5, <4>6
      <4> QED BY <3>1, <4>2, <4>3, <4>7
    <3>7. on = from + 1 .. from + n
      BY <3>5, <3>6
    <3> HIDE DEF from, on
    <3>8. Cardinality(from + 1 .. from + n) = n
      <4>1. from + 1 \in Int /\ from + n \in Int
        BY <3>3 DEF from
      <4>2. Cardinality(from + 1 .. from + n)
              = IF from + 1 > from + n THEN 0 ELSE (from + n) - (from + 1) + 1
        BY <4>1, FS_Interval
      <4>3. from \in Nat
        BY <3>3 DEF from
      <4> QED BY <4>2, <4>3
    <3> QED BY <2>1, <3>7, <3>8 DEF on
  <2>2. CASE b \notin {blocks[i] : i \in 1 .. m}
    <3>1. on = {}
      BY <1>1, <2>2
    <3> QED BY <2>2, <3>1, FS_EmptySet
  <2> QED BY <2>1, <2>2
<1> QED BY <1>0, <1>3, <1>4 DEF Even

(* A row has the values number (i-1)k+1 .. ik of the seed.                 *)
LEMMA ValuedFacts ==
  ASSUME NEW rows \in Seq(Task), NEW name \in DOMAIN FuzzedScenarios, Valued(rows, name),
         NEW i \in DOMAIN rows
  PROVE  /\ {rows[i].bindings[key] : key \in Keys \ BoundKeys(name)}
              = (i - 1) * NoOfDrawn(name) + 1 .. i * NoOfDrawn(name)
         /\ \A key \in BoundKeys(name) : rows[i].bindings[key] = "bound"
<1> DEFINE k == NoOfDrawn(name)
<1>1. Drawn(rows[i].bindings, Keys, BoundKeys(name), (i - 1) * k, k)
  BY DEF Valued
<1>2. k \in Nat
  BY RunsType
<1>3. i \in Nat /\ i > 0
  OBVIOUS
<1>4. i * k = (i - 1) * k + k
  BY <1>2, <1>3, Rounds
<1> HIDE DEF k
<1> QED BY <1>1, <1>4 DEF Drawn, k

LEMMA DataAsAsked ==
  ASSUME FuzzInv
  PROVE  F!RowsAtTheirBlocks /\ F!ValuesOfTheSeed
<1>1. ASSUME NEW name \in DOMAIN data
      PROVE  /\ name \in DOMAIN FuzzedScenarios
             /\ \E l \in 0 .. block : RowsOf(data[name], name, l)
  <2>1. \E l \in 0 .. block : RowsOf(data[name], name, l)
    BY DEF FuzzInv, DataRight
  <2>2. PICK c \in DOMAIN self.charts : name = self.charts[c]
    BY DEF FuzzInv, DataSoFar, Charted
  <2>3. self.charts \in FuzzedCharts
    BY DEF FuzzInv, FuzzTypes, RunnerShape
  <2>4. name \in DOMAIN FuzzedScenarios
    BY <2>2, <2>3, ToolsAssumption DEF F!FuzzAssumption
  <2> QED BY <2>1, <2>4
<1>2. block \in Nat
  BY ToolsAssumption DEF FuzzInv, FuzzTypes, F!FuzzAssumption
<1>3. ASSUME NEW name \in DOMAIN data
      PROVE  LET rows == data[name]
             IN  /\ \A i, j \in DOMAIN rows : i < j => rows[i].fork <= rows[j].fork
                 /\ \E l \in 0 .. block :
                      \A b \in 0 .. LastBlock :
                        Cardinality({i \in DOMAIN rows : rows[i].fork = b})
                          = IF b \in F!Meant(name, l) THEN F!NoOfRuns(name) ELSE 0
  <2> DEFINE rows == data[name]
             n == F!NoOfRuns(name)
  <2>1. PICK l \in 0 .. block : RowsOf(rows, name, l)
    BY <1>1
  <2>2. PICK blocks \in Seq(Nat) :
          /\ ExpandedAt(blocks, name, l)
          /\ rows \in Seq(Task) /\ Len(rows) = Len(blocks) * n
          /\ Placed(rows, blocks, n)
    BY <2>1 DEF RowsOf
  <2>3. l \in Nat /\ n \in Nat /\ name \in DOMAIN FuzzedScenarios
    BY <1>1, <1>2, RunsType
  <2>4. Ascending(blocks, F!Meant(name, l))
    BY <2>2, <2>3, ExpandedFacts
  <2>5. DOMAIN rows = 1 .. Len(blocks) * n
    BY <2>2
  <2> HIDE DEF rows, n
  <2>6. Even(rows, F!Meant(name, l), n)
    BY <2>2, <2>3, <2>4, <2>5, PlacedFacts
  <2>7. \A i, j \in DOMAIN rows : i < j => rows[i].fork <= rows[j].fork
    BY <2>6 DEF Even
  <2>8. \A b \in 0 .. LastBlock :
          Cardinality({i \in DOMAIN rows : rows[i].fork = b})
            = IF b \in F!Meant(name, l) THEN n ELSE 0
    BY <2>6 DEF Even
  <2> QED BY <2>7, <2>8 DEF rows, n
<1>4. ASSUME NEW name \in DOMAIN data, NEW i \in DOMAIN data[name]
      PROVE  /\ {data[name][i].bindings[key] : key \in Keys \ BoundKeys(name)}
                  = (i - 1) * NoOfDrawn(name) + 1 .. i * NoOfDrawn(name)
             /\ \A key \in BoundKeys(name) : data[name][i].bindings[key] = "bound"
  <2>1. data[name] \in Seq(Task) /\ Valued(data[name], name) /\ name \in DOMAIN FuzzedScenarios
    BY <1>1 DEF RowsOf
  <2> QED BY <2>1, ValuedFacts
<1>5. F!RowsAtTheirBlocks
  BY <1>3, FuzzSets DEF F!RowsAtTheirBlocks
<1>6. F!ValuesOfTheSeed
  BY <1>4, FuzzSets DEF F!ValuesOfTheSeed, BoundKeys, NoOfDrawn
<1> QED BY <1>5, <1>6

-----------------------------------------------------------------------------
(* The initial states, and the steps of the runner *)

LEMMA LatestType ==
  ASSUME FuzzTypes
  PROVE  block \in Nat /\ LastBlock \in Nat
BY ToolsAssumption DEF FuzzTypes, F!FuzzAssumption

LEMMA FuzzInitInv == F!Init => FuzzInv
<1> SUFFICES ASSUME F!Init PROVE FuzzInv
  OBVIOUS
<1>1. PICK charts \in FuzzedCharts, again \in BOOLEAN :
        self = [charts |-> charts, blocks |-> F!ScenarioBlocks(again), drawn |-> 0,
                fork |-> None]
  BY DEF F!Init, F!MakeCharts
<1>2. /\ block \in 0 .. LastBlock /\ left = DOMAIN self.charts /\ run = F!NoRun(self)
      /\ tasks = <<>> /\ data = <<>> /\ fuzzPc = "chart"
  BY DEF F!Init, F!MakeCharts
<1>3. self \in RunnerShape /\ self.drawn = 0 /\ self.fork = None
  <2>1. F!ScenarioBlocks(again) \in {F!ScenarioBlocks(FALSE)}
    BY ReadAgain
  <2> QED BY <1>1, <2>1 DEF RunnerShape
<1>4. run \in RunShape /\ run.runner.charts = self.charts /\ run.results = <<>>
  BY <1>2, <1>3 DEF F!NoRun, RunShape
<1>5. FuzzTypes
  BY <1>2, <1>3, <1>4 DEF FuzzTypes
<1>6. DataSoFar
  <2>1. DOMAIN data = {} /\ Charted = {}
    BY <1>2 DEF Charted
  <2> QED BY <1>2, <2>1 DEF DataSoFar
<1>7. FuzzRunning /\ Awaited /\ DataRight
  BY <1>2, <1>4 DEF FuzzRunning, Awaited, DataRight
<1> QED BY <1>5, <1>6, <1>7 DEF FuzzInv

(* The rows that are there stay as they should be while the chain goes on. *)
LEMMA DataKept ==
  ASSUME FuzzInv, data' = data, block' \in Nat, block <= block'
  PROVE  DataRight'
<1>1. block \in Nat
  BY LatestType DEF FuzzInv
<1>2. 0 .. block \subseteq 0 .. block'
  BY <1>1
<1> QED BY <1>2 DEF FuzzInv, DataRight

(* A step that stops                                                       *)
LEMMA FuzzStopStep ==
  ASSUME FuzzInv, UNCHANGED <<block, self, left, run, tasks, data>>,
         fuzzPc' \in {"error", "endless"}
  PROVE  FuzzInv'
<1>1. FuzzTypes' /\ Awaited'
  BY DEF FuzzInv, FuzzTypes, Awaited
<1>2. DataSoFar'
  BY DEF FuzzInv, DataSoFar, Charted
<1>3. FuzzRunning' /\ DataRight'
  BY DEF FuzzInv, FuzzRunning, DataRight
<1> QED BY <1>1, <1>2, <1>3 DEF FuzzInv

LEMMA NextChartStep == ASSUME FuzzInv, F!NextChart PROVE FuzzInv'
<1>1. PICK chart \in left :
        /\ left' = left \ {chart}
        /\ run' = [F!NoRun(self) EXCEPT !.scenario = self.charts[chart]]
  BY DEF F!NextChart
<1>2. /\ tasks' = <<>> /\ fuzzPc = "chart" /\ fuzzPc' = "named"
      /\ block' = block /\ self' = self /\ data' = data
  BY DEF F!NextChart
<1>3. self \in RunnerShape /\ left \subseteq DOMAIN self.charts /\ self.drawn = 0
  BY DEF FuzzInv, FuzzTypes
<1>4. self.charts[chart] \in DOMAIN FuzzedScenarios
  BY <1>3, ToolsAssumption DEF F!FuzzAssumption, RunnerShape
<1>5. /\ run' \in RunShape /\ run'.runner = self /\ run'.scenario = self.charts[chart]
      /\ run'.results = <<>> /\ run'.at = 1
  <2>1. F!NoRun(self) \in RunShape /\ F!NoRun(self).runner = self
        /\ F!NoRun(self).results = <<>> /\ F!NoRun(self).at = 1
    BY <1>3 DEF F!NoRun, RunShape
  <2> QED BY <1>1, <1>4, <2>1 DEF RunShape
<1>6. FuzzTypes'
  BY <1>1, <1>2, <1>5 DEF FuzzInv, FuzzTypes
<1>7. DataSoFar'
  <2>1. DOMAIN data = Charted
    BY <1>2 DEF FuzzInv, DataSoFar
  <2>2. Charted' = Charted \cup {self.charts[chart]}
    BY <1>1, <1>2, <1>3 DEF Charted
  <2> QED BY <1>2, <1>4, <1>5, <2>1, <2>2 DEF DataSoFar
<1>8. FuzzRunning' /\ Awaited'
  BY <1>2, <1>3, <1>5 DEF FuzzRunning, Awaited
<1>9. DataRight'
  BY <1>2 DEF FuzzInv, DataRight
<1> QED BY <1>6, <1>7, <1>8, <1>9 DEF FuzzInv

LEMMA FinishStep == ASSUME FuzzInv, F!Finish PROVE FuzzInv'
<1>1. /\ UNCHANGED <<block, self, left, run, tasks, data>> /\ fuzzPc' = "done"
      /\ fuzzPc = "chart" /\ left = {}
  BY DEF F!Finish
<1>2. FuzzTypes' /\ Awaited' /\ FuzzRunning' /\ DataRight'
  BY <1>1 DEF FuzzInv, FuzzTypes, Awaited, FuzzRunning, DataRight
<1>3. DataSoFar'
  BY <1>1 DEF FuzzInv, DataSoFar, Charted
<1> QED BY <1>2, <1>3 DEF FuzzInv

LEMMA ReadBlocksStep == ASSUME FuzzInv, F!ReadBlocks PROVE FuzzInv'
<1> DEFINE name == run.scenario
           blocks == F!BlocksOf(run.runner.blocks[name], block)
<1>1. /\ UNCHANGED <<block, self, left, tasks, data>> /\ fuzzPc = "named"
      /\ \/ fuzzPc' \in {"error", "endless"} /\ run' = run
         \/ /\ fuzzPc' = "fork" /\ blocks \notin {Error, Endless}
            /\ run' = [run EXCEPT !.blocks = blocks]
  BY DEF F!ReadBlocks, F!Goto
<1>2. CASE fuzzPc' \in {"error", "endless"} /\ run' = run
  BY <1>1, <1>2, FuzzStopStep
<1>3. CASE /\ fuzzPc' = "fork" /\ blocks \notin {Error, Endless}
           /\ run' = [run EXCEPT !.blocks = blocks]
  <2>1. run \in RunShape /\ name \in DOMAIN FuzzedScenarios /\ block \in Nat
    BY <1>1, LatestType DEF FuzzInv, FuzzTypes, DataSoFar
  <2>2. run.runner.blocks[name] = ReadBlocksOf(name)
    BY <2>1, ReadAgain DEF RunShape, RunnerShape
  <2>3. ExpandedAt(blocks, name, block)
    BY <1>3, <2>2 DEF ExpandedAt
  <2> HIDE DEF blocks
  <2>4. blocks \in Seq(Nat)
    BY <2>1, <2>3, ExpandedFacts DEF Ascending
  <2>5. /\ run' \in RunShape /\ run'.blocks = blocks /\ run'.scenario = name
        /\ run'.runner = run.runner /\ run'.results = run.results /\ run'.at = run.at
    BY <1>3, <2>1, <2>4 DEF RunShape
  <2>6. FuzzTypes'
    BY <1>1, <1>3, <2>5 DEF FuzzInv, FuzzTypes
  <2>7. DataSoFar'
    BY <1>1, <1>3, <2>5 DEF FuzzInv, DataSoFar, Charted
  <2>8. FuzzRunning'
    <3>1. \E l \in 0 .. block' : ExpandedAt(run'.blocks, run'.scenario, l)
      BY <1>1, <2>1, <2>3, <2>5
    <3>2. tasks' = <<>> /\ run'.runner.drawn = 0 /\ run'.results = <<>> /\ run'.at = 1
      BY <1>1, <2>5 DEF FuzzInv, FuzzRunning
    <3> QED BY <1>3, <3>1, <3>2 DEF FuzzRunning
  <2>9. Awaited' /\ DataRight'
    BY <1>1, <2>5 DEF FuzzInv, Awaited, DataRight
  <2> QED BY <2>6, <2>7, <2>8, <2>9 DEF FuzzInv
<1> QED BY <1>1, <1>2, <1>3

LEMMA CreateForkStep == ASSUME FuzzInv, F!CreateFork PROVE FuzzInv'
<1> DEFINE name == run.scenario
<1>1. /\ UNCHANGED <<block, self, left, tasks, data>> /\ fuzzPc = "fork"
      /\ \/ fuzzPc' = "error" /\ run' = run
         \/ /\ fuzzPc' = "roll"
            /\ \E order \in F!Elided(Keys, BoundKeys(name)) :
                 run' = [run EXCEPT !.runner.fork = run.blocks[1], !.order = order]
  BY DEF F!CreateFork, F!Goto, BoundKeys
<1>2. CASE fuzzPc' = "error" /\ run' = run
  BY <1>1, <1>2, FuzzStopStep
<1>3. CASE /\ fuzzPc' = "roll"
           /\ \E order \in F!Elided(Keys, BoundKeys(name)) :
                run' = [run EXCEPT !.runner.fork = run.blocks[1], !.order = order]
  <2>1. PICK order \in F!Elided(Keys, BoundKeys(name)) :
          run' = [run EXCEPT !.runner.fork = run.blocks[1], !.order = order]
    BY <1>3
  <2>2. run \in RunShape /\ name \in DOMAIN FuzzedScenarios /\ block \in Nat
    BY <1>1, LatestType DEF FuzzInv, FuzzTypes, DataSoFar
  <2>3. PICK l \in 0 .. block : ExpandedAt(run.blocks, name, l)
    BY <1>1 DEF FuzzInv, FuzzRunning
  <2>4. Ascending(run.blocks, F!Meant(name, l))
    BY <2>2, <2>3, ExpandedFacts
  <2>5. run.blocks[1] \in Nat /\ Len(run.blocks) \in Nat \ {0}
    BY <2>4 DEF Ascending
  <2>6. order \in Seq(Keys)
    <3>1. NoOfDrawn(name) \in Nat
      BY <2>2, RunsType
    <3>2. order \in [1 .. NoOfDrawn(name) -> Keys \ BoundKeys(name)]
      BY FuzzSets DEF F!Elided, NoOfDrawn
    <3>3. order \in Seq(Keys \ BoundKeys(name))
      BY <3>1, <3>2
    <3>4. \A i \in 1 .. Len(order) : order[i] \in Keys
      BY <3>3
    <3> QED BY <3>3, <3>4
  <2>7. /\ run' \in RunShape /\ run'.blocks = run.blocks /\ run'.scenario = name
        /\ run'.runner.drawn = run.runner.drawn /\ run'.runner.charts = run.runner.charts
        /\ run'.results = run.results /\ run'.at = run.at /\ run'.order = order
    <3>1. [run.runner EXCEPT !.fork = run.blocks[1]] \in RunnerShape
      BY <2>2, <2>5 DEF RunShape, RunnerShape
    <3>2. run' = [run EXCEPT !.runner = [run.runner EXCEPT !.fork = run.blocks[1]],
                             !.order = order]
      BY <2>1, <2>2 DEF RunShape
    <3>3. run.runner \in RunnerShape
      BY <2>2 DEF RunShape
    <3> DEFINE r == [run.runner EXCEPT !.fork = run.blocks[1]]
    <3>4. r.drawn = run.runner.drawn /\ r.charts = run.runner.charts
      BY <3>3 DEF RunnerShape
    <3> HIDE DEF r
    <3>5. r \in RunnerShape /\ run' = [run EXCEPT !.runner = r, !.order = order]
      BY <3>1, <3>2 DEF r
    <3> QED BY <2>2, <2>6, <3>4, <3>5 DEF RunShape
  <2>8. FuzzTypes'
    BY <1>1, <1>3, <2>7 DEF FuzzInv, FuzzTypes
  <2>9. DataSoFar'
    <3>1. Charted' = Charted /\ data' = data /\ run'.scenario = run.scenario
      BY <1>1, <2>7 DEF Charted
    <3>2. run.scenario \in DOMAIN FuzzedScenarios /\ DOMAIN data \cup {run.scenario} = Charted
      BY <1>1 DEF FuzzInv, DataSoFar
    <3> QED BY <1>3, <3>1, <3>2 DEF DataSoFar
  <2>10. FuzzRunning'
    <3>1. tasks' = <<>> /\ run'.runner.drawn = 0 /\ run'.results = <<>> /\ run'.at = 1
      BY <1>1, <2>7 DEF FuzzInv, FuzzRunning
    <3>2. F!NoOfRuns(name) \in Nat /\ NoOfDrawn(name) \in Nat
      BY <2>2, RunsType
    <3>3. Len(tasks') = 0 /\ DOMAIN tasks' = {}
      BY <3>1
    <3>4. 0 = Len(tasks') * NoOfDrawn(name) /\ Len(tasks') = (1 - 1) * F!NoOfRuns(name)
      BY <3>2, <3>3
    <3>5. 1 \in 1 .. Len(run.blocks) + 1
      BY <2>5
    <3>6. Placed(tasks', run'.blocks, F!NoOfRuns(name)) /\ Valued(tasks', name)
      BY <3>3 DEF Placed, Valued
    <3>7. \E m \in 0 .. block' : ExpandedAt(run'.blocks, run'.scenario, m)
      BY <1>1, <2>3, <2>7
    <3> QED BY <1>3, <2>7, <3>1, <3>4, <3>5, <3>6, <3>7 DEF FuzzRunning
  <2>11. Awaited' /\ DataRight'
    BY <1>1, <2>7 DEF FuzzInv, Awaited, DataRight
  <2> QED BY <2>8, <2>9, <2>10, <2>11 DEF FuzzInv
<1> QED BY <1>1, <1>2, <1>3

LEMMA RollForkStep == ASSUME FuzzInv, F!RollFork PROVE FuzzInv'
<1> DEFINE name == run.scenario
<1>1. /\ UNCHANGED <<block, self, left, tasks, data>> /\ fuzzPc = "roll"
      /\ \/ fuzzPc' = "error" /\ run' = run
         \/ fuzzPc' = "await" /\ run' = run /\ run.at > Len(run.blocks)
         \/ /\ fuzzPc' = "spawn" /\ ~(run.at > Len(run.blocks))
            /\ ~(run.at <= Len(run.blocks) /\ run.blocks[run.at] > block)
            /\ run' = [run EXCEPT !.runner.fork = run.blocks[run.at], !.spawned = 0]
  BY DEF F!RollFork, F!Goto
<1>2. run \in RunShape /\ name \in DOMAIN FuzzedScenarios /\ block \in Nat
  BY <1>1, LatestType DEF FuzzInv, FuzzTypes, DataSoFar
<1>3. PICK l \in 0 .. block : ExpandedAt(run.blocks, name, l)
  BY <1>1 DEF FuzzInv, FuzzRunning
<1>4. run.blocks \in Seq(Nat) /\ Len(run.blocks) \in Nat \ {0}
  BY <1>2, <1>3, ExpandedFacts DEF Ascending
<1>5. /\ run.at \in 1 .. Len(run.blocks) + 1 /\ run.results = <<>>
      /\ Len(tasks) = (run.at - 1) * F!NoOfRuns(name)
      /\ run.order \in F!Elided(Keys, BoundKeys(name))
      /\ run.runner.drawn = Len(tasks) * NoOfDrawn(name)
      /\ Placed(tasks, run.blocks, F!NoOfRuns(name))
      /\ Valued(tasks, name)
  BY <1>1 DEF FuzzInv, FuzzRunning
<1>6. F!NoOfRuns(name) \in Nat
  BY <1>2, RunsType
<1>7. Charted' = Charted /\ DOMAIN data \cup {name} = Charted
  BY <1>1 DEF FuzzInv, DataSoFar, Charted
<1>8. CASE fuzzPc' = "error" /\ run' = run
  BY <1>1, <1>8, FuzzStopStep
<1>9. CASE fuzzPc' = "await" /\ run' = run /\ run.at > Len(run.blocks)
  <2>1. FuzzTypes' /\ Awaited' /\ DataRight'
    BY <1>1, <1>9 DEF FuzzInv, FuzzTypes, Awaited, DataRight
  <2>2. DataSoFar'
    BY <1>1, <1>2, <1>7, <1>9 DEF DataSoFar
  <2>3. FuzzRunning'
    <3>1. run.at - 1 = Len(run.blocks)
      BY <1>4, <1>5, <1>9
    <3>2. Len(tasks) = Len(run.blocks) * F!NoOfRuns(name)
      BY <1>5, <3>1
    <3> QED BY <1>1, <1>3, <1>5, <1>9, <3>2 DEF FuzzRunning
  <2> QED BY <2>1, <2>2, <2>3 DEF FuzzInv
<1>10. CASE /\ fuzzPc' = "spawn" /\ ~(run.at > Len(run.blocks))
            /\ ~(run.at <= Len(run.blocks) /\ run.blocks[run.at] > block)
            /\ run' = [run EXCEPT !.runner.fork = run.blocks[run.at], !.spawned = 0]
  <2> DEFINE onBlock == run.blocks[run.at]
  <2>1. run.at \in 1 .. Len(run.blocks) /\ onBlock \in Nat /\ onBlock <= block
    <3>1. run.at \in 1 .. Len(run.blocks)
      BY <1>4, <1>5, <1>10
    <3>2. onBlock \in Nat
      BY <1>4, <3>1
    <3>3. run.at <= Len(run.blocks) /\ ~(onBlock > block)
      BY <1>4, <1>10, <3>1
    <3> QED BY <1>2, <3>1, <3>2, <3>3
  <2> HIDE DEF onBlock
  <2>2. /\ run' \in RunShape /\ run'.blocks = run.blocks /\ run'.scenario = name
        /\ run'.runner.drawn = run.runner.drawn /\ run'.runner.charts = run.runner.charts
        /\ run'.runner.fork = onBlock /\ run'.spawned = 0
        /\ run'.results = run.results /\ run'.at = run.at /\ run'.order = run.order
    <3> DEFINE r == [run.runner EXCEPT !.fork = onBlock]
    <3>1. run.runner \in RunnerShape
      BY <1>2 DEF RunShape
    <3>2. /\ r \in RunnerShape /\ r.drawn = run.runner.drawn
          /\ r.charts = run.runner.charts /\ r.fork = onBlock
      BY <2>1, <3>1 DEF RunnerShape
    <3>3. run' = [run EXCEPT !.runner = r, !.spawned = 0]
      BY <1>2, <1>10 DEF RunShape, onBlock
    <3> HIDE DEF r
    <3> QED BY <1>2, <3>2, <3>3 DEF RunShape
  <2>3. FuzzTypes'
    BY <1>1, <1>10, <2>2 DEF FuzzInv, FuzzTypes
  <2>4. Awaited' /\ DataRight'
    BY <1>1, <2>2 DEF FuzzInv, Awaited, DataRight
  <2>5. DataSoFar'
    BY <1>1, <1>2, <1>7, <1>10, <2>2 DEF DataSoFar
  <2>6. FuzzRunning'
    <3>1. /\ run'.spawned \in 0 .. F!NoOfRuns(name)
          /\ Len(tasks') = (run'.at - 1) * F!NoOfRuns(name) + run'.spawned
      <4>1. (run.at - 1) * F!NoOfRuns(name) \in Nat
        BY <1>4, <1>5, <1>6, Rounds
      <4> QED BY <1>1, <1>5, <1>6, <2>2, <4>1
    <3>2. run'.runner.fork = run'.blocks[run'.at] /\ run'.runner.fork <= block'
      BY <1>1, <2>1, <2>2 DEF onBlock
    <3>3. \E m \in 0 .. block' : ExpandedAt(run'.blocks, run'.scenario, m)
      BY <1>1, <1>3, <2>2
    <3> QED BY <1>1, <1>5, <1>10, <2>1, <2>2, <3>1, <3>2, <3>3 DEF FuzzRunning
  <2> QED BY <2>3, <2>4, <2>5, <2>6 DEF FuzzInv
<1> QED BY <1>1, <1>8, <1>9, <1>10

OneMore(more, rows, row) ==
  /\ more \in Seq(Task) /\ Len(more) = Len(rows) + 1
  /\ \A i \in DOMAIN rows : more[i] = rows[i]
  /\ more[Len(rows) + 1] = row

(* Another row is on the block of its round, and has the next values.      *)
LEMMA RowAdded ==
  ASSUME NEW rows \in Seq(Task), NEW row \in Task, NEW blocks,
         NEW name \in DOMAIN FuzzedScenarios,
         NEW at \in 1 .. Len(blocks), Len(blocks) \in Nat, NEW spawned \in Nat,
         spawned < F!NoOfRuns(name),
         Len(rows) = (at - 1) * F!NoOfRuns(name) + spawned, row.fork = blocks[at],
         Drawn(row.bindings, Keys, BoundKeys(name),
               Len(rows) * NoOfDrawn(name), NoOfDrawn(name)),
         Placed(rows, blocks, F!NoOfRuns(name)), Valued(rows, name)
  PROVE  /\ OneMore(Append(rows, row), rows, row)
         /\ Placed(Append(rows, row), blocks, F!NoOfRuns(name))
         /\ Valued(Append(rows, row), name)
<1> DEFINE more == Append(rows, row)
           n == F!NoOfRuns(name)
           k == NoOfDrawn(name)
           len == Len(rows)
<1>1. /\ more \in Seq(Task) /\ Len(more) = len + 1 /\ len \in Nat
      /\ DOMAIN more = 1 .. len + 1 /\ DOMAIN rows = 1 .. len
      /\ \A i \in 1 .. len : more[i] = rows[i]
      /\ more[len + 1] = row
  BY AppendProperties
<1>2. n \in Nat /\ k \in Nat /\ at \in Nat /\ at > 0
  BY RunsType
<1>3. (at - 1) * n \in Nat /\ at * n = (at - 1) * n + n
  BY <1>2, Rounds
<1> HIDE DEF more, n, k, len
<1>4. len = (at - 1) * n + spawned /\ spawned < n
  BY DEF len, n
<1>5. (at - 1) * n < len + 1 /\ len + 1 <= at * n
  BY <1>1, <1>2, <1>3, <1>4
<1>6. Placed(more, blocks, n)
  <2> SUFFICES ASSUME NEW i \in DOMAIN more
      PROVE  \E j \in 1 .. Len(blocks) :
               more[i].fork = blocks[j] /\ (j - 1) * n < i /\ i <= j * n
    BY DEF Placed
  <2>1. CASE i = len + 1
    BY <1>1, <1>5, <2>1
  <2>2. CASE i # len + 1
    <3>1. i \in DOMAIN rows /\ more[i] = rows[i]
      BY <1>1, <2>2
    <3> QED BY <3>1 DEF Placed, n
  <2> QED BY <2>1, <2>2
<1>7. Valued(more, name)
  <2> SUFFICES ASSUME NEW i \in DOMAIN more
      PROVE  Drawn(more[i].bindings, Keys, BoundKeys(name), (i - 1) * k, k)
    BY DEF Valued, k
  <2>1. CASE i = len + 1
    <3>1. i - 1 = len
      BY <1>1, <2>1
    <3>2. Drawn(row.bindings, Keys, BoundKeys(name), len * k, k)
      BY DEF len, k
    <3> QED BY <1>1, <2>1, <3>1, <3>2
  <2>2. CASE i # len + 1
    <3>1. i \in DOMAIN rows /\ more[i] = rows[i]
      BY <1>1, <2>2
    <3> QED BY <3>1 DEF Valued, k
  <2> QED BY <2>1, <2>2
<1> QED BY <1>1, <1>6, <1>7 DEF more, n, len, OneMore

LEMMA SpawnStep == ASSUME FuzzInv, F!Spawn PROVE FuzzInv'
<1> DEFINE name == run.scenario
           n == F!NoOfRuns(name)
           k == NoOfDrawn(name)
           row == [fork |-> run.runner.fork, status |-> "running",
                   bindings |-> F!FinalBindings(run.order, BoundKeys(name), run.runner.drawn)]
<1>1. /\ UNCHANGED <<block, self, left, data>> /\ fuzzPc = "spawn"
      /\ \/ /\ run.spawned = n /\ fuzzPc' = "roll" /\ run' = [run EXCEPT !.at = @ + 1]
            /\ tasks' = tasks
         \/ /\ run.spawned # n /\ fuzzPc' = "spawn"
            /\ run' = [run EXCEPT !.spawned = @ + 1, !.runner.drawn = @ + Len(run.order)]
            /\ tasks' = Append(tasks, row)
  BY DEF F!Spawn, BoundKeys
<1>2. /\ run \in RunShape
      /\ name \in DOMAIN FuzzedScenarios
      /\ block \in Nat
      /\ tasks \in Seq(Task)
  BY <1>1, LatestType DEF FuzzInv, FuzzTypes, DataSoFar
<1>3. PICK l \in 0 .. block : ExpandedAt(run.blocks, name, l)
  BY <1>1 DEF FuzzInv, FuzzRunning
<1>4. run.blocks \in Seq(Nat) /\ Len(run.blocks) \in Nat \ {0}
  BY <1>2, <1>3, ExpandedFacts DEF Ascending
<1>5. /\ run.at \in 1 .. Len(run.blocks) /\ run.spawned \in 0 .. n /\ run.results = <<>>
      /\ Len(tasks) = (run.at - 1) * n + run.spawned
      /\ run.runner.fork = run.blocks[run.at] /\ run.runner.fork <= block
      /\ run.order \in F!Elided(Keys, BoundKeys(name))
      /\ run.runner.drawn = Len(tasks) * k
      /\ Placed(tasks, run.blocks, n) /\ Valued(tasks, name)
  BY <1>1 DEF FuzzInv, FuzzRunning
<1>10. /\ run.at \in 1 .. Len(run.blocks) /\ run.runner.fork = run.blocks[run.at]
       /\ run.spawned \in 0 .. n
  BY <1>5, Zenon
<1>6. n \in Nat /\ k \in Nat /\ IsFiniteSet(Keys)
  BY <1>2, RunsType
<1>7. Charted' = Charted /\ DOMAIN data \cup {name} = Charted
  BY <1>1 DEF FuzzInv, DataSoFar, Charted
<1> HIDE DEF row
<1>8. CASE /\ run.spawned = n /\ fuzzPc' = "roll" /\ run' = [run EXCEPT !.at = @ + 1]
           /\ tasks' = tasks
  <2>1. run.at + 1 \in Nat /\ run.at \in Nat /\ run.at > 0
    BY <1>4, <1>5
  <2>2. /\ run' \in RunShape /\ run'.blocks = run.blocks /\ run'.scenario = name
        /\ run'.runner = run.runner /\ run'.order = run.order
        /\ run'.results = run.results /\ run'.at = run.at + 1
    BY <1>2, <1>8, <2>1 DEF RunShape
  <2>3. FuzzTypes'
    BY <1>1, <1>8, <2>2 DEF FuzzInv, FuzzTypes
  <2>4. Awaited' /\ DataRight'
    BY <1>1, <1>8, <2>2 DEF FuzzInv, Awaited, DataRight
  <2>5. DataSoFar'
    BY <1>1, <1>2, <1>7, <1>8, <2>2 DEF DataSoFar
  <2>6. FuzzRunning'
    <3>1. Len(tasks') = (run'.at - 1) * n
      <4>1. run.at * n = (run.at - 1) * n + n
        BY <1>6, <2>1, Rounds
      <4>2. run'.at - 1 = run.at
        BY <2>1, <2>2
      <4> QED BY <1>5, <1>8, <4>1, <4>2
    <3>2. run'.at \in 1 .. Len(run'.blocks) + 1
      <4>1. run.at + 1 \in 1 .. Len(run.blocks) + 1
        BY <1>4, <1>10
      <4> QED BY <2>2, <4>1
    <3>3. \E m \in 0 .. block' : ExpandedAt(run'.blocks, run'.scenario, m)
      BY <1>1, <1>3, <2>2
    <3> QED BY <1>1, <1>5, <1>8, <2>2, <3>1, <3>2, <3>3 DEF FuzzRunning
  <2> QED BY <2>3, <2>4, <2>5, <2>6 DEF FuzzInv
<1>9. CASE /\ run.spawned # n /\ fuzzPc' = "spawn"
           /\ run' = [run EXCEPT !.spawned = @ + 1, !.runner.drawn = @ + Len(run.order)]
           /\ tasks' = Append(tasks, row)
  <2>1. Len(run.order) = k
    BY <1>5, <1>6, ElidedFacts DEF NoOfDrawn
  <2>2. run.runner \in RunnerShape /\ run.runner.drawn \in Nat /\ Len(tasks) \in Nat
    <3>1. run.runner \in RunnerShape
      BY <1>2 DEF RunShape
    <3>2. run.runner.drawn \in Nat
      BY <3>1 DEF RunnerShape
    <3> QED BY <1>2, <3>1, <3>2
  <2>3. Drawn(row.bindings, Keys, BoundKeys(name), Len(tasks) * k, k)
    <3>1. Drawn(F!FinalBindings(run.order, BoundKeys(name), run.runner.drawn),
                Keys, BoundKeys(name), run.runner.drawn, Len(run.order))
      BY <1>5, <1>6, <2>2, BindingsFacts
    <3> QED BY <1>5, <2>1, <3>1 DEF row
  <2>4. row \in Task /\ row.fork = run.blocks[run.at] /\ row.fork <= block
    <3>1. row.bindings \in Bindings
      BY <1>2, <2>3 DEF Drawn, Bindings
    <3>2. run.runner.fork \in Nat
      BY <1>4, <1>10
    <3> QED BY <1>5, <3>1, <3>2 DEF row, Task, Statuses
  <2>5. run.spawned \in Nat /\ run.spawned < n
    BY <1>6, <1>9, <1>10
  <2>6. /\ tasks' \in Seq(Task) /\ Len(tasks') = Len(tasks) + 1
        /\ \A i \in DOMAIN tasks : tasks'[i] = tasks[i]
        /\ tasks'[Len(tasks) + 1] = row
        /\ Placed(tasks', run.blocks, n) /\ Valued(tasks', name)
    <3>1. Len(run.blocks) \in Nat
      BY <1>4
    <3>2. /\ OneMore(Append(tasks, row), tasks, row)
          /\ Placed(Append(tasks, row), run.blocks, n) /\ Valued(Append(tasks, row), name)
      BY <1>2, <1>5, <2>3, <2>4, <2>5, <3>1, RowAdded
    <3> QED BY <1>9, <3>2 DEF OneMore
  <2>7. /\ run' \in RunShape /\ run'.blocks = run.blocks /\ run'.scenario = name
        /\ run'.runner.drawn = run.runner.drawn + k
        /\ run'.runner.charts = run.runner.charts /\ run'.runner.fork = run.runner.fork
        /\ run'.spawned = run.spawned + 1
        /\ run'.results = run.results /\ run'.at = run.at /\ run'.order = run.order
    <3> DEFINE r == [run.runner EXCEPT !.drawn = run.runner.drawn + k]
    <3>1. run.runner.drawn + k \in Nat /\ run.spawned + 1 \in Nat
      BY <1>6, <2>2, <2>5
    <3>2. /\ r \in RunnerShape /\ r.drawn = run.runner.drawn + k
          /\ r.charts = run.runner.charts /\ r.fork = run.runner.fork
      BY <2>2, <3>1 DEF RunnerShape
    <3>3. run' = [run EXCEPT !.runner = r, !.spawned = run.spawned + 1]
      BY <1>2, <1>9, <2>1 DEF RunShape
    <3> HIDE DEF r
    <3> QED BY <1>2, <3>1, <3>2, <3>3 DEF RunShape
  <2>8. FuzzTypes'
    BY <1>1, <1>9, <2>6, <2>7 DEF FuzzInv, FuzzTypes
  <2>9. Awaited'
    <3>1. \A i \in DOMAIN tasks : tasks[i].fork <= block
      BY DEF FuzzInv, Awaited
    <3>2. \A i \in DOMAIN tasks' : tasks'[i].fork <= block'
      BY <1>1, <2>2, <2>4, <2>6, <3>1
    <3>3. run'.results = <<>>
      BY <1>5, <2>7
    <3>4. Len(run'.results) <= Len(tasks') /\ DOMAIN run'.results = {}
      BY <2>2, <2>6, <3>3
    <3> QED BY <3>2, <3>4 DEF Awaited
  <2>10. DataRight'
    BY <1>1 DEF FuzzInv, DataRight
  <2>11. DataSoFar'
    BY <1>1, <1>2, <1>7, <1>9, <2>7 DEF DataSoFar
  <2>12. FuzzRunning'
    <3>1. run'.runner.drawn = Len(tasks') * k
      <4>1. (Len(tasks) + 1) * k = Len(tasks) * k + k
        BY <1>6, <2>2, Rounds
      <4> QED BY <1>5, <2>6, <2>7, <4>1
    <3>2. /\ run'.spawned \in 0 .. n
          /\ Len(tasks') = (run'.at - 1) * n + run'.spawned
      <4>1. run.at \in Nat /\ run.at > 0
        BY <1>4, <1>5
      <4>2. (run.at - 1) * n \in Nat
        BY <1>6, <4>1, Rounds
      <4>3. Len(tasks') = ((run.at - 1) * n + run.spawned) + 1
        BY <1>5, <2>6
      <4>4. run'.at = run.at /\ run'.spawned = run.spawned + 1
        BY <2>7
      <4> HIDE DEF n
      <4> QED BY <1>6, <2>5, <4>2, <4>3, <4>4
    <3>3. \E m \in 0 .. block' : ExpandedAt(run'.blocks, run'.scenario, m)
      BY <1>1, <1>3, <2>7
    <3> QED BY <1>1, <1>5, <1>9, <2>6, <2>7, <3>1, <3>2, <3>3 DEF FuzzRunning
  <2> QED BY <2>8, <2>9, <2>10, <2>11, <2>12 DEF FuzzInv
<1> QED BY <1>1, <1>8, <1>9

LEMMA AwaitStep == ASSUME FuzzInv, F!Await PROVE FuzzInv'
<1> DEFINE i == Len(run.results)
           task == tasks[i + 1]
<1>1. /\ UNCHANGED <<block, self, left, tasks, data>> /\ fuzzPc = "await"
      /\ i < Len(tasks) /\ task.status # "running"
      /\ \/ task.status = "failed" /\ fuzzPc' = "error" /\ run' = run
         \/ /\ task.status # "failed" /\ fuzzPc' = "await"
            /\ run' = [run EXCEPT !.results = Append(run.results, task)]
  BY DEF F!Await, F!Goto
<1>2. /\ run \in RunShape /\ run.results \in Seq(Task) /\ tasks \in Seq(Task)
      /\ i \in Nat /\ Len(tasks) \in Nat
  <2>1. run \in RunShape /\ tasks \in Seq(Task)
    BY DEF FuzzInv, FuzzTypes
  <2>2. run.results \in Seq(Task)
    BY <2>1 DEF RunShape
  <2> QED BY <2>1, <2>2
<1>3. i + 1 \in 1 .. Len(tasks) /\ task \in Task
  BY <1>1, <1>2
<1>4. CASE fuzzPc' = "error" /\ run' = run
  BY <1>1, <1>4, FuzzStopStep
<1>5. CASE /\ task.status # "failed" /\ fuzzPc' = "await"
           /\ run' = [run EXCEPT !.results = Append(run.results, task)]
  <2>1. task.status = "ok"
    BY <1>1, <1>3, <1>5 DEF Task, Statuses
  <2> HIDE DEF task
  <2> DEFINE more == Append(run.results, task)
  <2>2. /\ more \in Seq(Task) /\ Len(more) = i + 1 /\ DOMAIN more = 1 .. i + 1
        /\ \A j \in 1 .. i : more[j] = run.results[j]
        /\ more[i + 1] = task
    BY <1>2, <1>3, AppendProperties
  <2> HIDE DEF more
  <2>3. /\ run' \in RunShape /\ run'.blocks = run.blocks /\ run'.scenario = run.scenario
        /\ run'.runner = run.runner /\ run'.results = more /\ run'.order = run.order
    BY <1>2, <1>5, <2>2 DEF RunShape, more
  <2>4. FuzzTypes'
    BY <1>1, <1>5, <2>3 DEF FuzzInv, FuzzTypes
  <2>5. DataSoFar'
    <3>1. Charted' = Charted
      BY <1>1 DEF Charted
    <3>2. run.scenario \in DOMAIN FuzzedScenarios /\ DOMAIN data \cup {run.scenario} = Charted
      BY <1>1 DEF FuzzInv, DataSoFar
    <3> QED BY <1>1, <1>5, <2>3, <3>1, <3>2 DEF DataSoFar
  <2>6. FuzzRunning'
    BY <1>1, <1>5, <2>3 DEF FuzzInv, FuzzRunning
  <2>7. Awaited'
    <3>1. \A j \in DOMAIN more : more[j] = tasks[j] /\ tasks[j].status = "ok"
      <4> TAKE j \in DOMAIN more
      <4>1. CASE j = i + 1
        BY <2>1, <2>2, <4>1 DEF task
      <4>2. CASE j # i + 1
        <5>1. j \in DOMAIN run.results /\ more[j] = run.results[j]
          BY <1>2, <2>2, <4>2
        <5> QED BY <5>1 DEF FuzzInv, Awaited
      <4> QED BY <4>1, <4>2
    <3>2. Len(more) <= Len(tasks)
      BY <1>2, <1>3, <2>2
    <3> QED BY <1>1, <2>3, <3>1, <3>2 DEF FuzzInv, Awaited
  <2>8. DataRight'
    BY <1>1 DEF FuzzInv, DataRight
  <2> QED BY <2>4, <2>5, <2>6, <2>7, <2>8 DEF FuzzInv
<1> QED BY <1>1, <1>4, <1>5

LEMMA InsertDataStep == ASSUME FuzzInv, F!InsertData PROVE FuzzInv'
<1> DEFINE name == run.scenario
<1>1. /\ UNCHANGED <<block, self, left, run, tasks>> /\ fuzzPc = "await" /\ fuzzPc' = "chart"
      /\ Len(run.results) = Len(tasks)
      /\ data' = [nm \in DOMAIN data \cup {name} |->
                    IF nm \in DOMAIN data THEN data[nm] ELSE run.results]
  BY DEF F!InsertData
<1>2. /\ run \in RunShape /\ run.results \in Seq(Task) /\ tasks \in Seq(Task)
      /\ name \in DOMAIN FuzzedScenarios /\ block \in Nat
  <2>1. /\ run \in RunShape
        /\ tasks \in Seq(Task)
        /\ name \in DOMAIN FuzzedScenarios
        /\ block \in Nat
    BY <1>1, LatestType DEF FuzzInv, FuzzTypes, DataSoFar
  <2>2. run.results \in Seq(Task)
    BY <2>1 DEF RunShape
  <2> QED BY <2>1, <2>2
<1>3. run.results = tasks
  <2>1. \A i \in 1 .. Len(run.results) : run.results[i] = tasks[i]
    BY <1>2 DEF FuzzInv, Awaited
  <2> QED BY <1>1, <1>2, <2>1, SeqEqual
<1>4. \E l \in 0 .. block : RowsOf(tasks, name, l)
  <2>1. PICK l \in 0 .. block : ExpandedAt(run.blocks, name, l)
    BY <1>1 DEF FuzzInv, FuzzRunning
  <2>2. run.blocks \in Seq(Nat)
    BY <1>2 DEF RunShape
  <2>3. /\ Len(tasks) = Len(run.blocks) * F!NoOfRuns(name)
        /\ Placed(tasks, run.blocks, F!NoOfRuns(name)) /\ Valued(tasks, name)
    BY <1>1 DEF FuzzInv, FuzzRunning
  <2>4. RowsOf(tasks, name, l)
    BY <1>2, <2>1, <2>2, <2>3 DEF RowsOf
  <2> QED BY <2>4
<1>5. DataRight'
  <2> SUFFICES ASSUME NEW nm \in DOMAIN data'
      PROVE  \E l \in 0 .. block : RowsOf(data'[nm], nm, l)
    BY <1>1 DEF DataRight
  <2>1. CASE nm \in DOMAIN data
    <3>1. data'[nm] = data[nm]
      BY <1>1, <2>1
    <3> QED BY <2>1, <3>1 DEF FuzzInv, DataRight
  <2>2. CASE nm \notin DOMAIN data
    <3>1. nm = name /\ data'[nm] = tasks
      BY <1>1, <1>3, <2>2
    <3> QED BY <1>4, <3>1
  <2> QED BY <2>1, <2>2
<1>6. DataSoFar'
  <2>1. Charted' = Charted /\ DOMAIN data' = DOMAIN data \cup {name}
    BY <1>1 DEF Charted
  <2>2. DOMAIN data \cup {name} = Charted
    BY <1>1 DEF FuzzInv, DataSoFar
  <2> QED BY <1>1, <2>1, <2>2 DEF DataSoFar
<1>7. FuzzTypes' /\ FuzzRunning' /\ Awaited'
  BY <1>1 DEF FuzzInv, FuzzTypes, FuzzRunning, Awaited
<1> QED BY <1>5, <1>6, <1>7 DEF FuzzInv

(* The evaluation of a run changes nothing but its status.                 *)
LEMMA EvaluateStep ==
  ASSUME FuzzInv, NEW i \in DOMAIN tasks, NEW evaluates \in BOOLEAN, F!Evaluate(i, evaluates)
  PROVE  FuzzInv'
<1> DEFINE s == IF evaluates THEN "ok" ELSE "failed"
           task == [tasks[i] EXCEPT !.status = s]
<1>1. /\ UNCHANGED <<block, self, left, run, data, fuzzPc>> /\ tasks[i].status = "running"
      /\ tasks' = [tasks EXCEPT ![i].status = s]
  BY DEF F!Evaluate
<1>2. tasks \in Seq(Task) /\ tasks[i] \in Task /\ i \in 1 .. Len(tasks)
  BY DEF FuzzInv, FuzzTypes
<1>3. task \in Task /\ task.fork = tasks[i].fork /\ task.bindings = tasks[i].bindings
  <2>1. s \in Statuses
    BY DEF Statuses
  <2> HIDE DEF s
  <2> QED BY <1>2, <2>1 DEF Task
<1>4. tasks' = [tasks EXCEPT ![i] = task]
  BY <1>1
<1> HIDE DEF task
<1>5. /\ tasks' \in Seq(Task) /\ Len(tasks') = Len(tasks) /\ DOMAIN tasks' = DOMAIN tasks
      /\ \A j \in DOMAIN tasks : tasks'[j] = IF j = i THEN task ELSE tasks[j]
  <2>1. tasks' \in Seq(Task) /\ Len(tasks') = Len(tasks)
    BY <1>2, <1>3, <1>4, ExceptSeq
  <2>2. \A j \in 1 .. Len(tasks) : tasks'[j] = IF j = i THEN task ELSE tasks[j]
    BY <1>2, <1>3, <1>4, ExceptSeq
  <2> QED BY <1>2, <2>1, <2>2
<1>6. \A j \in DOMAIN tasks :
        tasks'[j].fork = tasks[j].fork /\ tasks'[j].bindings = tasks[j].bindings
  BY <1>3, <1>5
<1>7. FuzzTypes'
  BY <1>1, <1>5 DEF FuzzInv, FuzzTypes
<1>8. DataSoFar' /\ DataRight'
  BY <1>1 DEF FuzzInv, DataSoFar, DataRight, Charted
<1>9. Awaited'
  <2>1. \A j \in DOMAIN run.results : run.results[j] = tasks[j] /\ tasks[j].status = "ok"
    BY DEF FuzzInv, Awaited
  <2>2. \A j \in DOMAIN run.results : j \in DOMAIN tasks /\ j # i
    <3> TAKE j \in DOMAIN run.results
    <3>1. Len(run.results) <= Len(tasks) /\ run.results \in Seq(Task)
      BY DEF FuzzInv, Awaited, FuzzTypes, RunShape
    <3> QED BY <1>1, <1>2, <2>1, <3>1
  <2>3. \A j \in DOMAIN run.results : run.results[j] = tasks'[j] /\ tasks'[j].status = "ok"
    BY <1>5, <2>1, <2>2
  <2> QED BY <1>1, <1>5, <1>6, <2>3 DEF FuzzInv, Awaited
<1>10. FuzzRunning'
  <2>1. \A blocks, n : Placed(tasks, blocks, n) => Placed(tasks', blocks, n)
    BY <1>5, <1>6 DEF Placed
  <2>2. \A name : Valued(tasks, name) => Valued(tasks', name)
    BY <1>5, <1>6 DEF Valued
  <2>3. tasks # <<>>
    BY <1>2
  <2> QED BY <1>1, <1>5, <2>1, <2>2, <2>3 DEF FuzzInv, FuzzRunning
<1> QED BY <1>7, <1>8, <1>9, <1>10 DEF FuzzInv

LEMMA FuzzMineStep == ASSUME FuzzInv, F!Mine PROVE FuzzInv'
<1>1. /\ block < LastBlock /\ block' = block + 1
      /\ UNCHANGED <<self, left, run, tasks, data, fuzzPc>>
  BY DEF F!Mine
<1>2. block \in Nat /\ LastBlock \in Nat /\ block' \in Nat /\ block <= block'
      /\ 0 .. block \subseteq 0 .. block'
  BY <1>1, LatestType DEF FuzzInv
<1>3. FuzzTypes'
  BY <1>1, <1>2 DEF FuzzInv, FuzzTypes
<1>4. DataSoFar'
  BY <1>1 DEF FuzzInv, DataSoFar, Charted
<1>5. DataRight'
  BY <1>1, <1>2, DataKept
<1>6. \A i \in DOMAIN tasks : tasks[i].fork \in Nat
  <2> TAKE i \in DOMAIN tasks
  <2>1. tasks[i] \in Task
    BY DEF FuzzInv, FuzzTypes
  <2> QED BY <2>1 DEF Task
<1>7. Awaited'
  BY <1>1, <1>2, <1>6 DEF FuzzInv, Awaited
<1>8. FuzzRunning'
  <2>1. fuzzPc \in {"fork", "roll", "spawn", "await"} =>
          \E l \in 0 .. block' : ExpandedAt(run.blocks, run.scenario, l)
    BY <1>2 DEF FuzzInv, FuzzRunning
  <2>2. fuzzPc = "spawn" => run.runner.fork \in Nat
    <3> SUFFICES ASSUME fuzzPc = "spawn" PROVE run.runner.fork \in Nat
      OBVIOUS
    <3>1. run.blocks \in Seq(Nat)
      BY DEF FuzzInv, FuzzTypes, RunShape
    <3>2. run.at \in 1 .. Len(run.blocks) /\ run.runner.fork = run.blocks[run.at]
      BY DEF FuzzInv, FuzzRunning
    <3> QED BY <3>1, <3>2
  <2>3. fuzzPc = "spawn" => run.runner.fork <= block'
    BY <1>2, <2>2 DEF FuzzInv, FuzzRunning
  <2> QED BY <1>1, <2>1, <2>3 DEF FuzzInv, FuzzRunning
<1> QED BY <1>3, <1>4, <1>5, <1>7, <1>8 DEF FuzzInv

LEMMA FuzzNextInv == FuzzInv /\ [F!Next]_F!vars => FuzzInv'
<1> SUFFICES ASSUME FuzzInv, [F!Next]_F!vars PROVE FuzzInv'
  OBVIOUS
<1>1. CASE F!NextChart
  BY <1>1, NextChartStep
<1>2. CASE F!Finish
  BY <1>2, FinishStep
<1>3. CASE F!ReadBlocks
  BY <1>3, ReadBlocksStep
<1>4. CASE F!CreateFork
  BY <1>4, CreateForkStep
<1>5. CASE F!RollFork
  BY <1>5, RollForkStep
<1>6. CASE F!Spawn
  BY <1>6, SpawnStep
<1>7. CASE F!Await
  BY <1>7, AwaitStep
<1>8. CASE F!InsertData
  BY <1>8, InsertDataStep
<1>9. CASE F!Tasks(TRUE) \/ F!Tasks(FALSE)
  BY <1>9, EvaluateStep DEF F!Tasks
<1>10. CASE F!RequestFails
  BY <1>10, FuzzStopStep DEF F!RequestFails, F!Goto
<1>11. CASE F!Mine
  BY <1>11, FuzzMineStep
<1>12. CASE UNCHANGED F!vars
  <2>1. UNCHANGED <<block, self, left, run, tasks, data, fuzzPc>>
    BY <1>12 DEF F!vars
  <2>2. FuzzTypes' /\ DataSoFar' /\ Awaited'
    BY <2>1 DEF FuzzInv, FuzzTypes, DataSoFar, Charted, Awaited
  <2>3. FuzzRunning' /\ DataRight'
    BY <2>1 DEF FuzzInv, FuzzRunning, DataRight
  <2> QED BY <2>2, <2>3 DEF FuzzInv
<1> QED
  BY <1>1, <1>2, <1>3, <1>4, <1>5, <1>6, <1>7, <1>8, <1>9, <1>10, <1>11, <1>12
  DEF F!Next, F!Runner

-----------------------------------------------------------------------------
(* What the invariant shows *)

(* The state of the fuzz runner has the form that it should have: the      *)
(* runner that all charts start from is never changed, and no task is on a *)
(* block that is not there.                                                *)
LEMMA FuzzTypeFacts == FuzzInv => F!TypeOK
<1> SUFFICES ASSUME FuzzInv PROVE F!TypeOK
  OBVIOUS
<1>1. \A i \in DOMAIN tasks : tasks[i].fork \in 0 .. block /\ tasks[i].status \in Statuses
  <2> TAKE i \in DOMAIN tasks
  <2>1. tasks[i] \in Task /\ block \in Nat
    BY LatestType DEF FuzzInv, FuzzTypes
  <2>2. tasks[i].fork \in Nat /\ tasks[i].status \in Statuses
    BY <2>1 DEF Task
  <2>3. tasks[i].fork <= block
    BY DEF FuzzInv, Awaited
  <2> QED BY <2>1, <2>2, <2>3
<1> QED BY <1>1 DEF FuzzInv, FuzzTypes, DataSoFar, Charted, F!TypeOK, Statuses

(* Every chart has the rows it should have, on the blocks that its scenario*)
(* means, with the values of the seed, in whatever order the runs ended.   *)
LEMMA ChartsFacts == FuzzInv => F!ChartsAsAsked
<1> SUFFICES ASSUME FuzzInv PROVE F!ChartsAsAsked
  OBVIOUS
<1>1. F!ChartsComplete
  BY DEF FuzzInv, DataSoFar, Charted, F!ChartsComplete
<1> QED BY <1>1, DataAsAsked DEF F!ChartsAsAsked

-----------------------------------------------------------------------------
(* UnitTests: the inductive invariant *)

KeysOf(i) == IF i \in {1, 4} THEN TestKeys ELSE MainKeys
BindingsOf(i) == [Bound \cup KeysOf(i) -> Nat \cup {"bound"}]

Context == [maxOutput : Nat, ratio : Nat, input : Nat, output : Nat, decrease : Nat]
Evaluation ==
  [entrypoint : {T!Entrypoints[i] : i \in 1 .. 4}, fork : Nat, context : Context,
   bindings : UNION {BindingsOf(i) : i \in 1 .. 4}]

TestTypes ==
  /\ block \in 0 .. LastBlock
  /\ runner \in [test : Tests, drawn : Nat, fork : Nat \cup {None}, block : Nat]
  /\ stacks \in [pre : Stacks \cup {None}, calculate : Stacks \cup {None}]
  /\ evaluated \in Seq(Evaluation)
  /\ testPc \in {T!Entrypoints[i] : i \in 1 .. 4} \cup
                {"deployer", "done", "error", "endless", "panic"}

(* The entry points are evaluated in their order.                          *)
InOrder ==
  /\ Len(evaluated) <= 4
  /\ testPc = "deployer" => Len(evaluated) = 0
  /\ \A i \in 1 .. 4 : testPc = T!Entrypoints[i] => Len(evaluated) = i - 1
  /\ testPc = "done" => Len(evaluated) = 4
  /\ \A i \in DOMAIN evaluated : evaluated[i].entrypoint = T!Entrypoints[i]

(* A number does not depend on the latest block.                           *)
OnItsBlock ==
  /\ (evaluated # <<>> \/ testPc \in {T!Entrypoints[i] : i \in 1 .. 4})
       /\ runner.test.blocks # None =>
         runner.block = T!ToBlockNumber(runner.test.blocks.range.start, 0)
  /\ \A i \in DOMAIN evaluated : evaluated[i].fork = runner.block /\ runner.block <= block

(* What each entry point was told, by those before it                      *)
Told ==
  /\ Len(evaluated) >= 1 => stacks.pre \in Stacks
  /\ Len(evaluated) >= 2 =>
       /\ Len(stacks.pre) >= 3 /\ stacks.calculate \in Stacks
       /\ evaluated[2].context.output = T!OutputToken
       /\ evaluated[2].context.input = T!InputToken
  /\ Len(evaluated) >= 3 =>
       Len(stacks.calculate) >= 2 /\ evaluated[3].context.decrease = T!Decrease
  /\ Len(evaluated) >= 4 =>
       evaluated[4].context =
         [input |-> T!InputToken, output |-> T!OutputToken, maxOutput |-> T!MaxOutput,
          ratio |-> T!IoRatio, decrease |-> T!Decrease]

(* The values drawn for the bindings of a call                             *)
DrawnFor(b) == {b[key] : key \in (DOMAIN b) \ Bound}
ValuesApart ==
  /\ \A i \in DOMAIN evaluated :
       /\ DOMAIN evaluated[i].bindings = Bound \cup KeysOf(i)
       /\ DrawnFor(evaluated[i].bindings) \subseteq 1 .. runner.drawn
  /\ \A i, j \in DOMAIN evaluated :
       i # j => DrawnFor(evaluated[i].bindings) \cap DrawnFor(evaluated[j].bindings) = {}

TestInv == TestTypes /\ InOrder /\ OnItsBlock /\ Told /\ ValuesApart

-----------------------------------------------------------------------------
(* The initial states, and the steps *)

LEMMA TestInitInv == T!Init => TestInv
<1> SUFFICES ASSUME T!Init PROVE TestInv
  OBVIOUS
<1>1. PICK test \in Tests : runner = [test |-> test, drawn |-> 0, fork |-> None, block |-> 0]
  BY DEF T!Init
<1>2. block \in 0 .. LastBlock /\ stacks = [pre |-> None, calculate |-> None]
      /\ evaluated = <<>> /\ testPc = "deployer"
  BY DEF T!Init
<1>3. TestTypes
  BY <1>1, <1>2 DEF TestTypes
<1>4. InOrder /\ Told /\ ValuesApart
  BY <1>2 DEF InOrder, Told, ValuesApart, T!Entrypoints
<1>5. OnItsBlock
  BY <1>2 DEF OnItsBlock, T!Entrypoints
<1> QED BY <1>3, <1>4, <1>5 DEF TestInv

(* The first block of a test *)
LEMMA FirstBlock ==
  ASSUME NEW t \in Tests, NEW l \in Nat,
         T!BlocksOf(t.blocks, l) \notin {Error, Endless}
  PROVE  /\ T!BlocksOf(t.blocks, l)[1] \in Nat
         /\ t.blocks # None =>
              T!BlocksOf(t.blocks, l)[1] = T!ToBlockNumber(t.blocks.range.start, 0)
<1>1. CASE t.blocks = None
  BY <1>1 DEF T!BlocksOf
<1>2. CASE t.blocks # None
  <2> DEFINE start == T!ToBlockNumber(t.blocks.range.start, l)
             end == T!ToBlockNumber(t.blocks.range.end, l)
             interval == IF t.blocks.interval = None THEN 1 ELSE t.blocks.interval
  <2>1. /\ t.blocks.range.start \in Nat \cup {Genesis}
        /\ t.blocks.range.end \in Nat \cup {Latest}
        /\ t.blocks.interval \in Nat \cup {None}
        /\ Genesis # Latest /\ Genesis \notin Nat /\ Latest \notin Nat
    BY <1>2, ToolsAssumption DEF T!UnitTestsAssumption, T!BlocksAssumption
  <2>2. start \in Nat /\ end \in Nat /\ start = T!ToBlockNumber(t.blocks.range.start, 0)
    BY <2>1 DEF T!ToBlockNumber
  <2>3. interval \in Nat
    BY <2>1
  <2> DEFINE expanded ==
               [i \in 1 .. (end - start) \div interval + 1 |-> start + (i - 1) * interval]
  <2>4. start <= end /\ interval # 0
    BY <1>2 DEF T!BlocksOf, T!ExpandToBlockNumbers, T!Validate
  <2>7. T!BlocksOf(t.blocks, l) = expanded
    BY <1>2 DEF T!BlocksOf, T!ExpandToBlockNumbers, T!Validate
  <2> HIDE DEF start, end, interval
  <2>5. (end - start) \div interval \in Nat
    <3>1. \A x \in Nat, y \in Nat \ {0} : x \div y \in Nat
      OBVIOUS
    <3>2. end - start \in Nat /\ interval \in Nat \ {0}
      BY <2>2, <2>3, <2>4
    <3> QED BY <3>1, <3>2
  <2>6. expanded[1] = start
    <3>1. 1 \in 1 .. (end - start) \div interval + 1
      BY <2>5
    <3>2. start + (1 - 1) * interval = start
      BY <2>2, <2>3
    <3> QED BY <3>1, <3>2
  <2> HIDE DEF expanded
  <2> QED BY <2>2, <2>6, <2>7
<1> QED BY <1>1, <1>2

LEMMA FindBlockStep ==
  ASSUME TestInv, T!FindBlock
  PROVE  TestInv'
<1> DEFINE blocks == T!BlocksOf(runner.test.blocks, block)
<1>1. /\ testPc = "deployer" /\ block' = block /\ stacks' = stacks /\ evaluated' = evaluated
      /\ evaluated = <<>>
  BY DEF T!FindBlock, TestInv, TestTypes, InOrder
<1>2. \/ testPc' \in {"error", "endless"} /\ runner' = runner
      \/ /\ testPc' = "pre" /\ blocks \notin {Error, Endless}
         /\ runner' = [runner EXCEPT !.block = blocks[1], !.fork = block]
  BY DEF T!FindBlock
<1>3. runner.test \in Tests /\ block \in Nat /\ block \in 0 .. LastBlock
  BY ToolsAssumption DEF TestInv, TestTypes, T!UnitTestsAssumption
<1>4. testPc' = "pre" => /\ blocks[1] \in Nat
                         /\ runner.test.blocks # None =>
                              blocks[1] = T!ToBlockNumber(runner.test.blocks.range.start, 0)
  BY <1>2, <1>3, FirstBlock
<1> HIDE DEF blocks
<1>5. /\ runner' \in [test : Tests, drawn : Nat, fork : Nat \cup {None}, block : Nat]
      /\ runner'.test = runner.test
      /\ testPc' = "pre" => runner'.block = blocks[1]
  BY <1>2, <1>3, <1>4 DEF TestInv, TestTypes
<1>6. TestTypes'
  BY <1>1, <1>2, <1>5 DEF TestInv, TestTypes, T!Entrypoints
<1>7. InOrder' /\ Told' /\ ValuesApart'
  BY <1>1, <1>2 DEF InOrder, Told, ValuesApart, T!Entrypoints
<1>8. OnItsBlock'
  BY <1>1, <1>2, <1>4, <1>5 DEF OnItsBlock, T!Entrypoints
<1> QED BY <1>6, <1>7, <1>8 DEF TestInv

(* A step that stops keeps all but the place.                              *)
LEMMA TestStopStep ==
  ASSUME TestInv, UNCHANGED <<block, runner, stacks, evaluated>>,
         testPc' \in {"error", "panic"},
         testPc # "done"
  PROVE  TestInv'
<1>1. TestTypes'
  BY DEF TestInv, TestTypes, T!Entrypoints
<1>2. InOrder'
  BY DEF TestInv, InOrder, T!Entrypoints
<1>3. Told'
  BY DEF TestInv, Told, T!OutputToken, T!InputToken, T!MaxOutput, T!IoRatio,
      T!Decrease, T!OutputCap
<1>4. ValuesApart'
  BY DEF TestInv, ValuesApart
<1>5. OnItsBlock'
  BY DEF TestInv, OnItsBlock, T!Entrypoints
<1> QED BY <1>1, <1>2, <1>3, <1>4, <1>5 DEF TestInv

(* What evaluating entry point i leaves                                    *)
Evaluated(i, context, next) ==
  /\ block' = block /\ testPc' = next
  /\ runner' \in [test : Tests, drawn : Nat, fork : Nat \cup {None}, block : Nat]
  /\ Len(evaluated) = i - 1 /\ Len(evaluated') = i
  /\ evaluated' \in Seq(Evaluation)
  /\ \A k \in 1 .. i - 1 : evaluated'[k] = evaluated[k]
  /\ evaluated'[i].context = context
  /\ \A k \in DOMAIN evaluated' : evaluated'[k].entrypoint = T!Entrypoints[k]
  /\ ValuesApart' /\ OnItsBlock'

(* What evaluating the i-th entry point changes                            *)
LEMMA RunFacts ==
  ASSUME TestInv, NEW i \in 1 .. 4, NEW context \in Context, NEW next,
         T!Run(T!Entrypoints[i], KeysOf(i), context, next)
  PROVE  Evaluated(i, context, next)
<1>1. PICK order \in T!Elided(KeysOf(i), Bound) :
        /\ runner' = [runner EXCEPT !.drawn = @ + Len(order), !.fork = runner.block]
        /\ evaluated' = Append(evaluated,
             [entrypoint |-> T!Entrypoints[i], fork |-> runner.block, context |-> context,
              bindings |-> T!FinalBindings(order, Bound, runner.drawn)])
  BY DEF T!Run, T!GetFinalBindings
<1>2. /\ testPc = T!Entrypoints[i] /\ runner.block <= block /\ testPc' = next /\ block' = block
  BY DEF T!Run
<1>3. /\ Len(evaluated) = i - 1 /\ evaluated \in Seq(Evaluation)
      /\ runner \in [test : Tests, drawn : Nat, fork : Nat \cup {None}, block : Nat]
      /\ \A k \in DOMAIN evaluated : evaluated[k].entrypoint = T!Entrypoints[k]
  BY <1>2 DEF TestInv, TestTypes, InOrder
<1>4. IsFiniteSet(KeysOf(i))
  BY ToolsAssumption, TestSets DEF KeysOf, T!UnitTestsAssumption
<1>5. Len(order) \in Nat
  <2>1. Cardinality(KeysOf(i) \ Bound) \in Nat /\ Len(order) = Cardinality(KeysOf(i) \ Bound)
    BY <1>4, TestElidedFacts, Zenon
  <2> QED BY <2>1
<1> DEFINE b == T!FinalBindings(order, Bound, runner.drawn)
           e == [entrypoint |-> T!Entrypoints[i], fork |-> runner.block, context |-> context,
                 bindings |-> b]
<1>6. /\ DOMAIN b = Bound \cup KeysOf(i)
      /\ {b[k] : k \in KeysOf(i) \ Bound} = runner.drawn + 1 .. runner.drawn + Len(order)
      /\ b \in BindingsOf(i)
  <2>1. runner.drawn \in Nat
    BY <1>3
  <2>2. Drawn(b, KeysOf(i), Bound, runner.drawn, Len(order))
    BY <1>4, <2>1, TestBindingsFacts
  <2> HIDE DEF b
  <2> QED BY <2>2 DEF BindingsOf, Drawn
<1> HIDE DEF b
<1>7. DrawnFor(b) = runner.drawn + 1 .. runner.drawn + Len(order)
  <2>1. (DOMAIN b) \ Bound = KeysOf(i) \ Bound
    BY <1>6
  <2> QED BY <1>6, <2>1, Zenon DEF DrawnFor
<1>8. e \in Evaluation
  <2>1. b \in UNION {BindingsOf(k) : k \in 1 .. 4}
    BY <1>6
  <2> QED BY <1>3, <2>1 DEF Evaluation
<1>9. evaluated' = Append(evaluated, e)
  BY <1>1 DEF b
<1> DEFINE Evaluations == Evaluation
<1>10. evaluated \in Seq(Evaluations) /\ e \in Evaluations
  BY <1>3, <1>8
<1> HIDE DEF e, Evaluations
<1>11. /\ evaluated' \in Seq(Evaluations) /\ Len(evaluated') = i /\ evaluated'[i] = e
       /\ \A k \in 1 .. i - 1 : evaluated'[k] = evaluated[k]
       /\ DOMAIN evaluated' = 1 .. i /\ DOMAIN evaluated = 1 .. i - 1
  <2>1. Len(evaluated) = i - 1
    BY <1>3
  <2> QED BY <1>9, <1>10, <2>1
<1>12. evaluated'[i].context = context /\ evaluated'[i].entrypoint = T!Entrypoints[i]
       /\ evaluated'[i].fork = runner.block /\ evaluated'[i].bindings = b
  BY <1>11 DEF e
<1>13. /\ runner'.test = runner.test /\ runner'.block = runner.block
       /\ runner'.drawn = runner.drawn + Len(order)
       /\ runner' \in [test : Tests, drawn : Nat, fork : Nat \cup {None}, block : Nat]
  <2>1. /\ runner.test \in Tests /\ runner.block \in Nat
        /\ runner.drawn + Len(order) \in Nat
    BY <1>3, <1>5
  <2> QED BY <1>1, <1>3, <2>1
<1>14. OnItsBlock'
  <2>1. runner'.test.blocks # None =>
          runner'.block = T!ToBlockNumber(runner'.test.blocks.range.start, 0)
    BY <1>2, <1>13 DEF TestInv, OnItsBlock
  <2>2. /\ \A k \in DOMAIN evaluated' : evaluated'[k].fork = runner'.block
        /\ runner'.block <= block'
    BY <1>2, <1>11, <1>12, <1>13 DEF TestInv, OnItsBlock
  <2> QED BY <2>1, <2>2 DEF OnItsBlock
<1>15. ValuesApart'
  <2>1. ASSUME NEW k \in 1 .. i - 1
        PROVE  /\ DOMAIN evaluated'[k].bindings = Bound \cup KeysOf(k)
               /\ DrawnFor(evaluated'[k].bindings) \subseteq 1 .. runner.drawn
    BY <1>11 DEF TestInv, ValuesApart
  <2>2. ASSUME NEW k \in DOMAIN evaluated'
        PROVE  /\ DOMAIN evaluated'[k].bindings = Bound \cup KeysOf(k)
               /\ DrawnFor(evaluated'[k].bindings) \subseteq 1 .. runner'.drawn
    <3>1. CASE k = i
      BY <1>3, <1>5, <1>6, <1>7, <1>12, <1>13, <3>1
    <3>2. CASE k # i
      <4>1. k \in 1 .. i - 1
        BY <1>11, <3>2
      <4>2. 1 .. runner.drawn \subseteq 1 .. runner'.drawn
        BY <1>3, <1>5, <1>13
      <4> QED BY <2>1, <4>1, <4>2
    <3> QED BY <3>1, <3>2
  <2>3. ASSUME NEW k \in 1 .. i - 1
        PROVE  DrawnFor(evaluated'[k].bindings) \cap DrawnFor(evaluated'[i].bindings) = {}
    <3>1. \A v \in DrawnFor(evaluated'[k].bindings) : v <= runner.drawn
      BY <1>3, <2>1
    <3>2. \A v \in DrawnFor(evaluated'[i].bindings) : ~(v <= runner.drawn)
      BY <1>3, <1>5, <1>7, <1>12
    <3> QED BY <3>1, <3>2
  <2>4. ASSUME NEW k \in DOMAIN evaluated', NEW l \in DOMAIN evaluated', k # l
        PROVE  DrawnFor(evaluated'[k].bindings) \cap DrawnFor(evaluated'[l].bindings) = {}
    <3>1. CASE k = i \/ l = i
      BY <1>11, <2>3, <2>4, <3>1
    <3>2. CASE k # i /\ l # i
      <4>1. k \in DOMAIN evaluated /\ l \in DOMAIN evaluated
            /\ evaluated'[k] = evaluated[k] /\ evaluated'[l] = evaluated[l]
        BY <1>11, <3>2
      <4> QED BY <2>4, <4>1 DEF TestInv, ValuesApart
    <3> QED BY <3>1, <3>2
  <2> QED BY <2>2, <2>4 DEF ValuesApart
<1>16. \A k \in DOMAIN evaluated' : evaluated'[k].entrypoint = T!Entrypoints[k]
  BY <1>3, <1>11, <1>12
<1> QED BY <1>2, <1>3, <1>11, <1>12, <1>13, <1>14, <1>15, <1>16 DEF Evaluations, Evaluated

(* The entry points from the second on use what those before left.         *)
LEMMA StackFacts ==
  ASSUME TestInv, ~T!Panics
  PROVE  /\ testPc \in {"calculate-io", "handle-io", "post"} =>
              /\ stacks.pre \in Stacks /\ Len(stacks.pre) >= 3
              /\ T!OutputCap \in Nat /\ T!OutputToken \in Nat /\ T!InputToken \in Nat
         /\ testPc \in {"handle-io", "post"} =>
              /\ stacks.calculate \in Stacks /\ Len(stacks.calculate) >= 2
              /\ T!MaxOutput \in Nat /\ T!IoRatio \in Nat /\ T!Decrease \in Nat
<1>1. /\ testPc = "calculate-io" => Len(evaluated) = 1
      /\ testPc = "handle-io" => Len(evaluated) = 2
      /\ testPc = "post" => Len(evaluated) = 3
  <2>1. /\ T!Entrypoints[2] = "calculate-io" /\ T!Entrypoints[3] = "handle-io"
        /\ T!Entrypoints[4] = "post"
    BY DEF T!Entrypoints
  <2>2. \A i \in 1 .. 4 : testPc = T!Entrypoints[i] => Len(evaluated) = i - 1
    BY DEF TestInv, InOrder
  <2>3. testPc = T!Entrypoints[2] => Len(evaluated) = 1
    <3>1. 2 \in 1 .. 4 /\ 2 - 1 = 1
      OBVIOUS
    <3>2. testPc = T!Entrypoints[2] => Len(evaluated) = 2 - 1
      BY <2>2, <3>1, Zenon
    <3> QED BY <3>1, <3>2
  <2>4. testPc = T!Entrypoints[3] => Len(evaluated) = 2
    <3>1. 3 \in 1 .. 4 /\ 3 - 1 = 2
      OBVIOUS
    <3>2. testPc = T!Entrypoints[3] => Len(evaluated) = 3 - 1
      BY <2>2, <3>1, Zenon
    <3> QED BY <3>1, <3>2
  <2>5. testPc = T!Entrypoints[4] => Len(evaluated) = 3
    <3>1. 4 \in 1 .. 4 /\ 4 - 1 = 3
      OBVIOUS
    <3>2. testPc = T!Entrypoints[4] => Len(evaluated) = 4 - 1
      BY <2>2, <3>1, Zenon
    <3> QED BY <3>1, <3>2
  <2> QED BY <2>1, <2>3, <2>4, <2>5
<1>2. \A s \in Stacks : s \in Seq(Nat)
  BY ToolsAssumption DEF T!UnitTestsAssumption
<1>3. testPc \in {"calculate-io", "handle-io", "post"} =>
        stacks.pre \in Stacks /\ Len(stacks.pre) >= 3
  <2> SUFFICES ASSUME testPc \in {"calculate-io", "handle-io", "post"}
      PROVE  stacks.pre \in Stacks /\ Len(stacks.pre) >= 3
    OBVIOUS
  <2>1. stacks.pre \in Stacks /\ (Len(evaluated) >= 2 => Len(stacks.pre) >= 3)
    <3>1. Len(evaluated) >= 1
      BY <1>1
    <3> QED BY <3>1 DEF TestInv, Told
  <2>2. Len(stacks.pre) \in Nat
    <3>1. stacks.pre \in Seq(Nat)
      BY <1>2, <2>1
    <3> QED BY <3>1
  <2> QED BY <1>1, <2>1, <2>2 DEF T!Panics
<1>4. testPc \in {"handle-io", "post"} =>
        stacks.calculate \in Stacks /\ Len(stacks.calculate) >= 2
  <2> SUFFICES ASSUME testPc \in {"handle-io", "post"}
      PROVE  stacks.calculate \in Stacks /\ Len(stacks.calculate) >= 2
    OBVIOUS
  <2>1. stacks.calculate \in Stacks /\ (testPc = "post" => Len(stacks.calculate) >= 2)
    <3>1. Len(evaluated) >= 2 /\ (testPc = "post" => Len(evaluated) >= 3)
      BY <1>1
    <3> QED BY <3>1 DEF TestInv, Told
  <2>2. Len(stacks.calculate) \in Nat
    BY <1>2, <2>1
  <2> QED BY <1>1, <2>1, <2>2 DEF T!Panics
<1>5. \A s \in Stacks, k \in Nat \ {0} : Len(s) >= k => s[k] \in Nat
  <2> TAKE s \in Stacks, k \in Nat \ {0}
  <2>1. s \in Seq(Nat)
    BY <1>2
  <2> QED BY <2>1
<1>6. testPc \in {"calculate-io", "handle-io", "post"} =>
        T!OutputCap \in Nat /\ T!OutputToken \in Nat /\ T!InputToken \in Nat
  <2> SUFFICES ASSUME testPc \in {"calculate-io", "handle-io", "post"}
      PROVE  stacks.pre[1] \in Nat /\ stacks.pre[2] \in Nat /\ stacks.pre[3] \in Nat
    BY DEF T!OutputCap, T!OutputToken, T!InputToken
  <2>1. Len(stacks.pre) \in Nat
    BY <1>2, <1>3
  <2> QED BY <1>3, <1>5, <2>1
<1>7. testPc \in {"handle-io", "post"} => T!MaxOutput \in Nat /\ T!IoRatio \in Nat
  <2> SUFFICES ASSUME testPc \in {"handle-io", "post"}
      PROVE  stacks.calculate[1] \in Nat /\ stacks.calculate[2] \in Nat
    BY DEF T!MaxOutput, T!IoRatio
  <2>1. Len(stacks.calculate) \in Nat
    BY <1>2, <1>4
  <2> QED BY <1>4, <1>5, <2>1
<1> QED BY <1>3, <1>4, <1>6, <1>7 DEF T!Decrease

LEMMA RunPreStep == ASSUME TestInv, T!RunPre PROVE TestInv'
<1>1. PICK stack \in Stacks : stacks' = [stacks EXCEPT !.pre = stack]
  BY DEF T!RunPre
<1>2. T!Entrypoints[1] = "pre" /\ KeysOf(1) = TestKeys /\ T!NoContext \in Context
  BY DEF T!Entrypoints, KeysOf, T!NoContext, Context
<1>3. T!Run(T!Entrypoints[1], KeysOf(1), T!NoContext, "calculate-io")
  BY <1>2 DEF T!RunPre
<1>4. /\ block' = block /\ testPc' = "calculate-io"
      /\ runner' \in [test : Tests, drawn : Nat, fork : Nat \cup {None}, block : Nat]
      /\ Len(evaluated') = 1 /\ evaluated' \in Seq(Evaluation)
      /\ \A k \in DOMAIN evaluated' : evaluated'[k].entrypoint = T!Entrypoints[k]
      /\ ValuesApart' /\ OnItsBlock'
  <2>1. 1 \in 1 .. 4
    OBVIOUS
  <2>2. Evaluated(1, T!NoContext, "calculate-io")
    BY <1>2, <1>3, <2>1, RunFacts, Zenon
  <2> QED BY <2>2 DEF Evaluated
<1>5. /\ stacks \in [pre : Stacks \cup {None}, calculate : Stacks \cup {None}]
      /\ stacks' \in [pre : Stacks \cup {None}, calculate : Stacks \cup {None}]
      /\ stacks'.pre \in Stacks
  BY <1>1 DEF TestInv, TestTypes
<1>6. TestTypes'
  BY <1>4, <1>5 DEF TestInv, TestTypes, T!Entrypoints
<1>7. InOrder'
  BY <1>4 DEF InOrder, T!Entrypoints
<1>8. Told'
  BY <1>4, <1>5 DEF Told
<1> QED BY <1>4, <1>6, <1>7, <1>8 DEF TestInv

LEMMA RunCalculateStep == ASSUME TestInv, T!RunCalculate PROVE TestInv'
<1> DEFINE context == [T!NoContext EXCEPT !.maxOutput = T!OutputCap, !.input = T!InputToken,
                                        !.output = T!OutputToken]
<1>1. PICK stack \in Stacks : stacks' = [stacks EXCEPT !.calculate = stack]
  BY DEF T!RunCalculate
<1>2. ~T!Panics /\ testPc = "calculate-io"
  BY DEF T!RunCalculate, T!Run
<1>3. /\ stacks.pre \in Stacks /\ Len(stacks.pre) >= 3
      /\ T!OutputCap \in Nat /\ T!OutputToken \in Nat /\ T!InputToken \in Nat
  BY <1>2, StackFacts
<1>4. /\ T!Entrypoints[2] = "calculate-io" /\ KeysOf(2) = MainKeys /\ context \in Context
      /\ context.output = T!OutputToken /\ context.input = T!InputToken
  <2>1. T!NoContext \in Context
    BY DEF T!NoContext, Context
  <2>2. context \in Context /\ context.output = T!OutputToken /\ context.input = T!InputToken
    BY <1>3, <2>1 DEF Context
  <2> QED BY <2>2 DEF T!Entrypoints, KeysOf
<1>5. T!Run(T!Entrypoints[2], KeysOf(2), context, "handle-io")
  BY <1>4 DEF T!RunCalculate
<1> HIDE DEF context
<1>6. /\ block' = block /\ testPc' = "handle-io"
      /\ runner' \in [test : Tests, drawn : Nat, fork : Nat \cup {None}, block : Nat]
      /\ Len(evaluated') = 2 /\ evaluated' \in Seq(Evaluation)
      /\ evaluated'[2].context = context
      /\ \A k \in DOMAIN evaluated' : evaluated'[k].entrypoint = T!Entrypoints[k]
      /\ ValuesApart' /\ OnItsBlock'
  <2>1. 2 \in 1 .. 4
    OBVIOUS
  <2>2. Evaluated(2, context, "handle-io")
    BY <1>4, <1>5, <2>1, RunFacts, Zenon
  <2> QED BY <2>2 DEF Evaluated
<1>7. /\ stacks \in [pre : Stacks \cup {None}, calculate : Stacks \cup {None}]
      /\ stacks' \in [pre : Stacks \cup {None}, calculate : Stacks \cup {None}]
      /\ stacks'.pre = stacks.pre /\ stacks'.calculate \in Stacks
  BY <1>1 DEF TestInv, TestTypes
<1>8. TestTypes'
  BY <1>6, <1>7 DEF TestInv, TestTypes, T!Entrypoints
<1>9. InOrder'
  BY <1>6 DEF InOrder, T!Entrypoints
<1>10. Told'
  BY <1>3, <1>4, <1>6, <1>7 DEF Told, T!OutputToken, T!InputToken
<1> QED BY <1>6, <1>8, <1>9, <1>10 DEF TestInv

LEMMA RunHandleStep == ASSUME TestInv, T!RunHandle PROVE TestInv'
<1> DEFINE context == [T!NoContext EXCEPT !.decrease = T!Decrease]
<1>1. ~T!Panics /\ testPc = "handle-io" /\ stacks' = stacks
  BY DEF T!RunHandle, T!Run
<1>2. /\ stacks.pre \in Stacks /\ Len(stacks.pre) >= 3
      /\ stacks.calculate \in Stacks /\ Len(stacks.calculate) >= 2 /\ T!Decrease \in Nat
  BY <1>1, StackFacts
<1>3. /\ T!Entrypoints[3] = "handle-io" /\ KeysOf(3) = MainKeys /\ context \in Context
      /\ context.decrease = T!Decrease
  BY <1>2 DEF T!Entrypoints, KeysOf, T!NoContext, Context
<1>4. T!Run(T!Entrypoints[3], KeysOf(3), context, "post")
  BY <1>3 DEF T!RunHandle
<1> HIDE DEF context
<1>5. /\ block' = block /\ testPc' = "post"
      /\ runner' \in [test : Tests, drawn : Nat, fork : Nat \cup {None}, block : Nat]
      /\ Len(evaluated) = 2 /\ Len(evaluated') = 3 /\ evaluated' \in Seq(Evaluation)
      /\ evaluated'[2] = evaluated[2] /\ evaluated'[3].context = context
      /\ \A k \in DOMAIN evaluated' : evaluated'[k].entrypoint = T!Entrypoints[k]
      /\ ValuesApart' /\ OnItsBlock'
  <2>1. 3 - 1 = 2 /\ 2 \in 1 .. 3 - 1 /\ 3 \in 1 .. 4
    OBVIOUS
  <2>2. Evaluated(3, context, "post")
    BY <1>3, <1>4, <2>1, RunFacts, Zenon
  <2> QED BY <2>1, <2>2 DEF Evaluated
<1>6. TestTypes'
  BY <1>1, <1>5 DEF TestInv, TestTypes, T!Entrypoints
<1>7. InOrder'
  BY <1>5 DEF InOrder, T!Entrypoints
<1>8. Told'
  <2>1. /\ evaluated'[2].context.output = T!OutputToken
        /\ evaluated'[2].context.input = T!InputToken
    BY <1>5 DEF TestInv, Told
  <2>2. evaluated'[3].context.decrease = T!Decrease
    BY <1>3, <1>5
  <2>3. /\ T!OutputToken' = T!OutputToken /\ T!InputToken' = T!InputToken
        /\ T!Decrease' = T!Decrease
    BY <1>1 DEF T!OutputToken, T!InputToken, T!Decrease, T!MaxOutput, T!OutputCap
  <2> QED BY <1>1, <1>2, <1>5, <2>1, <2>2, <2>3 DEF Told
<1> QED BY <1>5, <1>6, <1>7, <1>8 DEF TestInv

LEMMA RunPostStep == ASSUME TestInv, T!RunPost PROVE TestInv'
<1> DEFINE context == [input |-> T!InputToken, output |-> T!OutputToken,
                       maxOutput |-> T!MaxOutput, ratio |-> T!IoRatio, decrease |-> T!Decrease]
<1>1. testPc = "post" /\ stacks' = stacks
  BY DEF T!RunPost, T!Run
<1>2. ~T!Panics
  BY <1>1 DEF T!Panics
<1>3. /\ stacks.pre \in Stacks /\ Len(stacks.pre) >= 3
      /\ stacks.calculate \in Stacks /\ Len(stacks.calculate) >= 2
      /\ context \in Context
  BY <1>1, <1>2, StackFacts DEF Context
<1>4. /\ T!Entrypoints[4] = "post" /\ KeysOf(4) = TestKeys
  BY DEF T!Entrypoints, KeysOf
<1>5. T!Run(T!Entrypoints[4], KeysOf(4), context, "done")
  BY <1>4 DEF T!RunPost
<1>6. context' = context
  BY <1>1 DEF T!OutputToken, T!InputToken, T!Decrease, T!MaxOutput, T!OutputCap, T!IoRatio
<1> HIDE DEF context
<1>7. /\ block' = block /\ testPc' = "done"
      /\ runner' \in [test : Tests, drawn : Nat, fork : Nat \cup {None}, block : Nat]
      /\ Len(evaluated) = 3 /\ Len(evaluated') = 4 /\ evaluated' \in Seq(Evaluation)
      /\ evaluated'[2] = evaluated[2] /\ evaluated'[3] = evaluated[3]
      /\ evaluated'[4].context = context
      /\ \A k \in DOMAIN evaluated' : evaluated'[k].entrypoint = T!Entrypoints[k]
      /\ ValuesApart' /\ OnItsBlock'
  <2>1. 4 \in 1 .. 4 /\ 4 - 1 = 3 /\ 2 \in 1 .. 4 - 1 /\ 3 \in 1 .. 4 - 1
    OBVIOUS
  <2>2. Evaluated(4, context, "done")
    BY <1>3, <1>5, <2>1, RunFacts, Zenon
  <2> QED BY <2>1, <2>2 DEF Evaluated
<1>8. TestTypes'
  BY <1>1, <1>7 DEF TestInv, TestTypes, T!Entrypoints
<1>9. InOrder'
  BY <1>7 DEF InOrder, T!Entrypoints
<1>10. Told'
  <2>1. /\ evaluated'[2].context.output = T!OutputToken
        /\ evaluated'[2].context.input = T!InputToken
        /\ evaluated'[3].context.decrease = T!Decrease
    BY <1>7 DEF TestInv, Told
  <2>2. /\ T!OutputToken' = T!OutputToken /\ T!InputToken' = T!InputToken
        /\ T!Decrease' = T!Decrease
    BY <1>1 DEF T!OutputToken, T!InputToken, T!Decrease, T!MaxOutput, T!OutputCap
  <2>3. evaluated'[4].context = context'
    BY <1>6, <1>7
  <2> QED BY <1>1, <1>3, <1>7, <2>1, <2>2, <2>3 DEF Told, context
<1> QED BY <1>7, <1>8, <1>9, <1>10 DEF TestInv

LEMMA TestMineStep == ASSUME TestInv, T!Mine PROVE TestInv'
<1>1. /\ block' \in 0 .. LastBlock /\ block <= block'
      /\ UNCHANGED <<runner, stacks, evaluated, testPc>>
  BY ToolsAssumption DEF T!Mine, TestInv, TestTypes, T!UnitTestsAssumption
<1>2. TestTypes' /\ InOrder' /\ ValuesApart'
  BY <1>1 DEF TestInv, TestTypes, InOrder, ValuesApart
<1>3. Told'
  BY <1>1 DEF TestInv, Told, T!OutputToken, T!InputToken, T!MaxOutput, T!IoRatio,
      T!Decrease, T!OutputCap
<1>4. OnItsBlock'
  <2>1. block \in Nat /\ block' \in Nat /\ runner.block \in Nat
    BY <1>1, ToolsAssumption DEF TestInv, TestTypes, T!UnitTestsAssumption
  <2> QED BY <1>1, <2>1 DEF TestInv, OnItsBlock
<1> QED BY <1>2, <1>3, <1>4 DEF TestInv

LEMMA TestNextInv == TestInv /\ [T!Next]_T!vars => TestInv'
<1> SUFFICES ASSUME TestInv, [T!Next]_T!vars PROVE TestInv'
  OBVIOUS
<1>1. CASE T!FindBlock
  BY <1>1, FindBlockStep
<1>2. CASE T!RunPre
  BY <1>2, RunPreStep
<1>3. CASE T!RunCalculate
  BY <1>3, RunCalculateStep
<1>4. CASE T!RunHandle
  BY <1>4, RunHandleStep
<1>5. CASE T!RunPost
  BY <1>5, RunPostStep
<1>6. CASE T!Panic
  BY <1>6, TestStopStep DEF T!Panic, T!Panics
<1>7. CASE T!RollFails
  BY <1>7, TestStopStep DEF T!RollFails
<1>8. CASE T!Fails
  BY <1>8, TestStopStep DEF T!Fails
<1>9. CASE T!Mine
  BY <1>9, TestMineStep
<1>10. CASE UNCHANGED T!vars
  <2>1. UNCHANGED <<block, runner, stacks, evaluated, testPc>>
    BY <1>10 DEF T!vars
  <2>2. TestTypes' /\ InOrder' /\ ValuesApart' /\ OnItsBlock'
    BY <2>1 DEF TestInv, TestTypes, InOrder, ValuesApart, OnItsBlock
  <2>3. Told'
    BY <2>1 DEF TestInv, Told, T!OutputToken, T!InputToken, T!MaxOutput, T!IoRatio,
      T!Decrease, T!OutputCap
  <2> QED BY <2>2, <2>3 DEF TestInv
<1> QED
  BY <1>1, <1>2, <1>3, <1>4, <1>5, <1>6, <1>7, <1>8, <1>9, <1>10 DEF T!Next, T!Runner

-----------------------------------------------------------------------------
(* What the invariant shows *)

(* The state of the runner of unit tests has the form that it should have. *)
LEMMA TestTypeFacts == TestInv => T!TypeOK
BY DEF TestInv, TestTypes, InOrder, T!TypeOK

LEMMA OneBlock == TestInv => T!AtOneBlock
<1> SUFFICES ASSUME TestInv PROVE T!AtOneBlock
  OBVIOUS
<1>1. \A i \in DOMAIN evaluated : evaluated[i].fork = runner.block /\ runner.block <= block
  BY DEF TestInv, OnItsBlock
<1>2. ASSUME NEW i \in DOMAIN evaluated, runner.test.blocks # None
      PROVE  runner.block = T!ToBlockNumber(runner.test.blocks.range.start, block)
  <2>1. evaluated # <<>>
    BY <1>2 DEF TestInv, TestTypes
  <2>2. runner.block = T!ToBlockNumber(runner.test.blocks.range.start, 0)
    BY <1>2, <2>1 DEF TestInv, OnItsBlock
  <2>3. /\ runner.test.blocks.range.start \in Nat \cup {Genesis}
        /\ Genesis # Latest /\ Latest \notin Nat
    BY <1>2, ToolsAssumption DEF TestInv, TestTypes, T!UnitTestsAssumption, T!BlocksAssumption
  <2> QED BY <2>2, <2>3 DEF T!ToBlockNumber
<1> QED BY <1>1, <1>2 DEF T!AtOneBlock

LEMMA Elements ==
  ASSUME NEW s \in Seq(Nat), NEW n \in Nat, Len(s) >= n
  PROVE  \A i \in 1 .. n : s[i] \in Nat
<1>1. Len(s) \in Nat
  OBVIOUS
<1>2. \A i \in 1 .. n : i \in 1 .. Len(s)
  BY <1>1
<1> QED BY <1>2

LEMMA Pair ==
  ASSUME NEW s, NEW m \in Nat, s[m] \in Nat, s[m + 1] \in Nat
  PROVE  SubSeq(s, m, m + 1) = <<s[m], s[m + 1]>>
<1>1. \A i \in m .. m + 1 : s[i] \in Nat
  OBVIOUS
<1> DEFINE t == SubSeq(s, m, m + 1)
           p == <<s[m], s[m + 1]>>
<1>2. /\ t \in Seq(Nat) /\ Len(t) = 2
      /\ \A i \in 1 .. 2 : t[i] = s[m + i - 1]
  <2>1. m \in Int /\ m + 1 \in Int /\ m <= m + 1 /\ m + 1 - m + 1 = 2
    OBVIOUS
  <2>2. t \in Seq(Nat)
    BY <1>1, <2>1, SubSeqProperties
  <2>3. Len(t) = IF m <= m + 1 THEN m + 1 - m + 1 ELSE 0
    BY <1>1, <2>1, SubSeqProperties
  <2>4. \A i \in 1 .. m + 1 - m + 1 : t[i] = s[m + i - 1]
    BY <1>1, <2>1, SubSeqProperties
  <2> HIDE DEF t
  <2> QED BY <2>1, <2>2, <2>3, <2>4
<1> HIDE DEF t
<1>3. p \in Seq(Nat) /\ Len(p) = 2 /\ p[1] = s[m] /\ p[2] = s[m + 1]
  OBVIOUS
<1>4. t[1] = p[1] /\ t[2] = p[2]
  BY <1>2, <1>3
<1> HIDE DEF p
<1>5. t = p
  <2>1. \A i \in 1 .. 2 : i = 1 \/ i = 2
    OBVIOUS
  <2>2. \A i \in 1 .. Len(t) : t[i] = p[i]
    BY <1>2, <1>4, <2>1
  <2> QED BY <1>2, <1>3, <2>2, SeqEqual
<1> QED BY <1>5 DEF t, p

LEMMA TradeSeen == TestInv => T!PostSeesTheTrade
<1> SUFFICES ASSUME TestInv, Len(evaluated) = 4 PROVE T!PostSeesTheTrade
  BY DEF T!PostSeesTheTrade
<1>1. /\ stacks.pre \in Stacks /\ Len(stacks.pre) >= 3
      /\ stacks.calculate \in Stacks /\ Len(stacks.calculate) >= 2
      /\ evaluated[2].context.output = T!OutputToken
      /\ evaluated[2].context.input = T!InputToken
      /\ evaluated[3].context.decrease = T!Decrease
      /\ evaluated[4].context =
           [input |-> T!InputToken, output |-> T!OutputToken, maxOutput |-> T!MaxOutput,
            ratio |-> T!IoRatio, decrease |-> T!Decrease]
  BY DEF TestInv, Told
<1>2. stacks.pre \in Seq(Nat) /\ stacks.calculate \in Seq(Nat)
  BY <1>1, ToolsAssumption DEF T!UnitTestsAssumption
<1>3. /\ SubSeq(stacks.calculate, 1, 2) = <<T!IoRatio, T!MaxOutput>>
      /\ SubSeq(stacks.pre, 2, 3) = <<T!OutputToken, T!InputToken>>
  <2>1. stacks.calculate[1] \in Nat /\ stacks.calculate[2] \in Nat
    <3>1. \A i \in 1 .. 2 : stacks.calculate[i] \in Nat
      BY <1>1, <1>2, Elements
    <3>2. 1 \in 1 .. 2 /\ 2 \in 1 .. 2
      OBVIOUS
    <3> QED BY <3>1, <3>2, Zenon
  <2>2. stacks.pre[2] \in Nat /\ stacks.pre[3] \in Nat
    <3>1. \A i \in 1 .. 3 : stacks.pre[i] \in Nat
      BY <1>1, <1>2, Elements
    <3>2. 2 \in 1 .. 3 /\ 3 \in 1 .. 3
      OBVIOUS
    <3> QED BY <3>1, <3>2, Zenon
  <2>3. 1 \in Nat /\ 2 \in Nat /\ 1 + 1 = 2 /\ 2 + 1 = 3
    OBVIOUS
  <2>4. SubSeq(stacks.calculate, 1, 1 + 1) = <<stacks.calculate[1], stacks.calculate[1 + 1]>>
    BY <2>1, <2>3, Pair
  <2>5. SubSeq(stacks.pre, 2, 2 + 1) = <<stacks.pre[2], stacks.pre[2 + 1]>>
    BY <2>2, <2>3, Pair
  <2> QED BY <2>3, <2>4, <2>5 DEF T!IoRatio, T!MaxOutput, T!OutputToken, T!InputToken
<1>4. /\ T!Decrease \in {T!OutputCap, T!MaxOutput}
      /\ T!Decrease <= T!OutputCap /\ T!Decrease <= T!MaxOutput
  <2>1. \A i \in 1 .. 3 : stacks.pre[i] \in Nat
    BY <1>1, <1>2, Elements
  <2>2. \A i \in 1 .. 2 : stacks.calculate[i] \in Nat
    BY <1>1, <1>2, Elements
  <2>3. 1 \in 1 .. 3 /\ 2 \in 1 .. 2
    OBVIOUS
  <2>4. T!OutputCap \in Nat /\ T!MaxOutput \in Nat
    BY <2>1, <2>2, <2>3, Zenon DEF T!OutputCap, T!MaxOutput
  <2> QED BY <2>4 DEF T!Decrease
<1>9. /\ evaluated[4].context.ratio = T!IoRatio /\ evaluated[4].context.maxOutput = T!MaxOutput
      /\ evaluated[4].context.output = T!OutputToken
      /\ evaluated[4].context.input = T!InputToken
  BY <1>1
<1>5. <<evaluated[4].context.ratio, evaluated[4].context.maxOutput>>
        = SubSeq(stacks.calculate, 1, 2)
  BY <1>3, <1>9, Zenon
<1>6. <<evaluated[4].context.output, evaluated[4].context.input>> = SubSeq(stacks.pre, 2, 3)
  BY <1>3, <1>9, Zenon
<1>7. /\ <<evaluated[4].context.output, evaluated[4].context.input>> =
           <<evaluated[2].context.output, evaluated[2].context.input>>
      /\ evaluated[4].context.decrease = evaluated[3].context.decrease
  BY <1>1
<1>8. /\ evaluated[4].context.decrease \in {stacks.pre[1], evaluated[4].context.maxOutput}
      /\ evaluated[4].context.decrease <= stacks.pre[1]
      /\ evaluated[4].context.decrease <= evaluated[4].context.maxOutput
  BY <1>1, <1>4 DEF T!OutputCap
<1> QED BY <1>5, <1>6, <1>7, <1>8 DEF T!PostSeesTheTrade

LEMMA DocumentsBindings == TestInv => T!BindingsOfDocument
BY DEF TestInv, ValuesApart, T!BindingsOfDocument, DrawnFor, KeysOf

(* The entry points of a test are evaluated on one trade: at one block,    *)
(* with the context of the ones before, each with its own document.        *)
LEMMA TradeFacts == TestInv => T!OneTradeTested
BY OneBlock, TradeSeen, DocumentsBindings DEF T!OneTradeTested

-----------------------------------------------------------------------------
(* Words: the inductive invariant *)

(* Every address that may be asked for its words, and every answer         *)
Addresses ==
  {Zero} \cup {Scenarios[s].deployer : s \in DOMAIN Scenarios}
    \cup {Deployers[d].address : d \in DOMAIN Deployers}
    \cup UNION {{Scenarios[s].bindings[k] : k \in DOMAIN Scenarios[s].bindings} :
                  s \in DOMAIN Scenarios}
Answers == {W!Failed} \cup {W!AuthoringMeta(m[1], m[2]) : m \in Metas}
WordsAnswered == [address : Addresses, words : Answers]

WordsCall ==
  [args : AskedCalls, scenario : DOMAIN Scenarios \cup {None},
   left : SUBSET DOMAIN Scenarios, addresses : Seq(Addresses),
   answers : Seq(Answers \cup {None}),
   rows : Seq([scenario : DOMAIN Scenarios, words : Seq(WordsAnswered)]),
   output : Seq(WordsAnswered),
   pc : {"begin", "next", "pragmas", "fetch", "done", "error"}]

WordsTypes ==
  /\ asked \in WordsCall /\ Len(asked.answers) = Len(asked.addresses)
  /\ boards = [n \in DOMAIN boards |-> boards[n]]

(* Only the app goes on to a next scenario, a deployer has none.           *)
Places ==
  /\ asked.pc = "next" => asked.args.source = "app"
  /\ asked.pc = "pragmas" => asked.scenario # None /\ asked.args.source # "deployer"
                              /\ asked.args.only # "deployer"
  /\ asked.pc = "fetch" => (asked.scenario = None) = (asked.args.source = "deployer")

Fresh ==
  asked.pc = "begin" =>
    asked.scenario = None /\ asked.answers = <<>> /\ asked.addresses = <<>> /\ asked.rows = <<>>

(* The metaboard that is given is that of the scenario's network.          *)
Overridden ==
  /\ \A n \in DOMAIN boards : boards[n] = asked.args.board \/ n \in DOMAIN Metaboards
  /\ asked.args.board = None => boards = Metaboards
  /\ asked.args.board # None /\ asked.scenario # None =>
       LET network == Scenarios[asked.scenario].network
       IN  network \in DOMAIN boards /\ boards[network] = asked.args.board

(* The requests are for the contracts of the scenario.                     *)
AskedFor ==
  /\ asked.pc = "pragmas" => asked.addresses = <<Scenarios[asked.scenario].deployer>>
  /\ asked.pc = "fetch" /\ asked.scenario # None =>
       asked.addresses = W!Contracts(asked.args, asked.scenario, asked.args.only)
  /\ asked.pc = "fetch" /\ asked.scenario = None => Len(asked.addresses) = 1

(* An answer with words is of the contract that was asked.                 *)
WordsOwn(args, scenario, address, words) ==
  words.status = "ok" =>
    /\ words.of = address
    /\ args.board # None => words.board = args.board
    /\ args.board = None /\ scenario # None =>
         words.board = Metaboards[Scenarios[scenario].network]
AnswersOwn ==
  \A i \in DOMAIN asked.answers :
    \/ asked.answers[i] = None
    \/ WordsOwn(asked.args, asked.scenario, asked.addresses[i], asked.answers[i])

Printed ==
  /\ asked.pc # "done" \/ asked.args.source = "app" => asked.output = <<>>
  /\ asked.pc = "done" => W!Shown(asked.args, asked.scenario, asked.output)
  /\ W!PrintedIsComplete

InProgress == IF asked.pc \in {"pragmas", "fetch"} THEN {asked.scenario} ELSE {}
RowsOfScenarios == {asked.rows[r].scenario : r \in DOMAIN asked.rows}

(* What the app has shown, what it is at and what is left are all scenarios*)
Progress ==
  asked.args.source = "app" /\ asked.pc \notin {"begin", "error"} =>
    /\ W!ScenariosOf(asked.args) = asked.left \cup InProgress \cup RowsOfScenarios
    /\ Cardinality(W!ScenariosOf(asked.args))
         = Cardinality(asked.left) + Cardinality(InProgress) + Len(asked.rows)
    /\ asked.pc = "done" => asked.left = {}

RowsShown ==
  \A r \in DOMAIN asked.rows :
    /\ W!Shown(asked.args, asked.rows[r].scenario, asked.rows[r].words)
    /\ [i \in DOMAIN asked.rows[r].words |-> asked.rows[r].words[i].address] =
         W!Contracts(asked.args, asked.rows[r].scenario, "all")

WordsInv ==
  /\ WordsTypes /\ Fresh /\ Places /\ Overridden /\ AskedFor
  /\ AnswersOwn /\ Printed /\ Progress /\ RowsShown

-----------------------------------------------------------------------------
(* The operators *)

LEMMA ComposeType ==
  ASSUME NEW args \in AskedCalls, NEW s \in DOMAIN Scenarios
  PROVE  W!ComposeToRainlang(args, s) \in Seq(Addresses)
<1> DEFINE keys == W!PragmasOf(args)
           K == {Pragmas[i] : i \in DOMAIN Pragmas}
<1>1. keys \in Seq(K)
  BY ToolsAssumption DEF W!WordsAssumption, W!PragmasOf
<1>2. DOMAIN keys = 1..Len(keys) /\ Len(keys) \in Nat
  BY <1>1
<1>3. \A i \in DOMAIN keys : W!ComposeToRainlang(args, s)[i] \in Addresses
  BY DEF W!ComposeToRainlang, Addresses
<1>4. W!ComposeToRainlang(args, s) = [i \in 1..Len(keys) |-> W!ComposeToRainlang(args, s)[i]]
  BY <1>2 DEF W!ComposeToRainlang
<1> HIDE DEF keys
<1> QED BY <1>2, <1>3, <1>4, IsASeq

LEMMA DeployerAddress ==
  /\ \A s \in DOMAIN Scenarios : <<Scenarios[s].deployer>> \in Seq(Addresses)
  /\ \A d \in DOMAIN Deployers : <<Deployers[d].address>> \in Seq(Addresses)
BY DEF Addresses

(* A contract has the answer of its own address and metaboard, or none.    *)
LEMMA MetaType ==
  ASSUME NEW a, NEW b
  PROVE  /\ W!AuthoringMeta(a, b) \in Answers
         /\ W!AuthoringMeta(a, b).status = "ok" =>
              W!AuthoringMeta(a, b).of = a /\ W!AuthoringMeta(a, b).board = b
<1>1. CASE <<a, b>> \in Metas
  <2>1. W!AuthoringMeta(<<a, b>>[1], <<a, b>>[2]) \in Answers
    BY <1>1 DEF Answers
  <2> QED BY <1>1, <2>1 DEF W!AuthoringMeta
<1>2. CASE <<a, b>> \notin Metas
  BY <1>2 DEF W!AuthoringMeta, Answers, W!Failed
<1> QED BY <1>1, <1>2

LEMMA AnswerStatus ==
  ASSUME NEW x \in Answers
  PROVE  x.status \in {"ok", "error"}
<1>1. W!Failed.status = "error"
  BY DEF W!Failed
<1>2. CASE \E m \in Metas : x = W!AuthoringMeta(m[1], m[2])
  <2>1. PICK m \in Metas : x = W!AuthoringMeta(m[1], m[2])
    BY <1>2
  <2> QED BY <1>1, <2>1 DEF W!AuthoringMeta
<1> QED BY <1>1, <1>2 DEF Answers

LEMMA FailedType == W!Failed \in Answers /\ W!Failed.status = "error"
BY DEF Answers, W!Failed

(* The words of a row are of the addresses in their order.                 *)
Paired(words, addresses, answers) ==
  /\ DOMAIN words = DOMAIN addresses
  /\ \A i \in DOMAIN words :
       words[i].address = addresses[i] /\ words[i].words = answers[i]

(* Whichever words are asked for, each stands with its own contract.       *)
LEMMA RowWords ==
  ASSUME NEW scenario, NEW only \in {"all", "deployer", "pragma"},
         NEW addresses \in Seq(Addresses), NEW answers \in Seq(Answers),
         Len(answers) = Len(addresses), only = "deployer" => Len(addresses) = 1,
         only = "all" => Len(addresses) > 0
  PROVE  /\ W!Row(scenario, only, addresses, answers).words \in Seq(WordsAnswered)
         /\ Paired(W!Row(scenario, only, addresses, answers).words, addresses, answers)
<1> DEFINE words == W!Row(scenario, only, addresses, answers).words
           w(i) == W!ContractWords(addresses[i], answers[i])
<1>1. /\ Len(addresses) \in Nat
      /\ DOMAIN addresses = 1..Len(addresses) /\ DOMAIN answers = 1..Len(addresses)
  OBVIOUS
<1>2. ASSUME NEW i \in DOMAIN addresses
      PROVE  /\ w(i) \in WordsAnswered
             /\ w(i).address = addresses[i] /\ w(i).words = answers[i]
  BY <1>1, <1>2 DEF W!ContractWords, WordsAnswered
<1>3. CASE only = "deployer"
  <2>1. words = <<w(1)>>
    BY <1>3 DEF W!Row, W!DeployerWords
  <2>2. 1 \in DOMAIN addresses
    BY <1>1, <1>3
  <2> HIDE DEF words, w
  <2>3. words \in Seq(WordsAnswered) /\ Paired(words, addresses, answers)
    BY <1>1, <1>2, <1>3, <2>1, <2>2 DEF Paired
  <2> QED BY <2>3 DEF words
<1>4. CASE only # "deployer"
  <2>1. words = [i \in DOMAIN addresses |-> w(i)]
    <3>1. CASE only = "pragma"
      BY <3>1 DEF W!Row, W!PragmaWords
    <3>2. CASE only = "all"
      <4> DEFINE pragmas == Tail(answers)
                 rest == [i \in DOMAIN pragmas |-> w(i + 1)]
      <4>1. /\ pragmas \in Seq(Answers) /\ Len(pragmas) = Len(addresses) - 1
            /\ \A i \in 1..(Len(addresses) - 1) : pragmas[i] = answers[i + 1]
        BY <1>1, <3>2
      <4> HIDE DEF pragmas
      <4>2. DOMAIN pragmas = 1..(Len(addresses) - 1)
        BY <4>1
      <4>3. words = <<w(1)>> \o [i \in DOMAIN pragmas |->
                       W!ContractWords(addresses[i + 1], pragmas[i])]
        BY <3>2 DEF W!Row, W!AllWords, W!DeployerWords, pragmas
      <4>4. words = <<w(1)>> \o rest
        BY <4>1, <4>2, <4>3
      <4>5. \A i \in 1..(Len(addresses) - 1) : rest[i] \in WordsAnswered
        BY <1>1, <1>2, <4>2
      <4>6. rest \in Seq(WordsAnswered) /\ Len(rest) = Len(addresses) - 1
            /\ \A i \in 1..(Len(addresses) - 1) : rest[i] = w(i + 1)
        BY <1>1, <3>2, <4>2, <4>5, IsASeq
      <4>7. <<w(1)>> \in Seq(WordsAnswered)
        BY <1>1, <1>2, <3>2
      <4> HIDE DEF words, w, rest
      <4>8. <<w(1)>> \o rest = [i \in 1..Len(addresses) |-> w(i)]
        <5> DEFINE first == <<w(1)>>
        <5>0. Len(first) = 1 /\ first[1] = w(1) /\ first \in Seq(WordsAnswered)
          BY <4>7
        <5> HIDE DEF first
        <5>1. /\ Len(first \o rest) = Len(addresses)
              /\ \A i \in 1..Len(addresses) : (first \o rest)[i] =
                   IF i = 1 THEN w(1) ELSE rest[i - 1]
          <6>1. /\ Len(first \o rest) = Len(first) + Len(rest)
                /\ \A i \in 1..(Len(first) + Len(rest)) : (first \o rest)[i] =
                     IF i <= Len(first) THEN first[i] ELSE rest[i - Len(first)]
            BY <4>6, <5>0, ConcatProperties
          <6>2. Len(first) + Len(rest) = Len(addresses)
            BY <1>1, <4>6, <5>0
          <6>3. ASSUME NEW i \in 1..Len(addresses)
                PROVE  (first \o rest)[i] = IF i = 1 THEN w(1) ELSE rest[i - 1]
            <7>1. (first \o rest)[i] =
                    IF i <= Len(first) THEN first[i] ELSE rest[i - Len(first)]
              BY <6>1, <6>2
            <7>2. i <= 1 <=> i = 1
              OBVIOUS
            <7> QED BY <5>0, <7>1, <7>2
          <6> QED BY <6>1, <6>2, <6>3
        <5>2. \A i \in 2..Len(addresses) :
                i - 1 \in 1..(Len(addresses) - 1) /\ (i - 1) + 1 = i
          BY <1>1
        <5>3. ASSUME NEW i \in 1..Len(addresses) PROVE (first \o rest)[i] = w(i)
          <6>1. CASE i = 1
            BY <5>1, <6>1
          <6>2. CASE i # 1
            <7>1. i \in 2..Len(addresses)
              BY <1>1, <6>2
            <7>2. rest[i - 1] = w((i - 1) + 1)
              BY <4>6, <5>2, <7>1
            <7> QED BY <5>1, <5>2, <6>2, <7>1, <7>2
          <6> QED BY <6>1, <6>2
        <5>4. first \o rest \in Seq(WordsAnswered)
          BY <4>6, <5>0, ConcatProperties
        <5> DEFINE all == [i \in 1..Len(addresses) |-> w(i)]
        <5>6. all \in Seq(WordsAnswered) /\ Len(all) = Len(addresses)
              /\ \A i \in 1..Len(addresses) : all[i] = w(i)
          BY <1>1, <1>2, IsASeq
        <5> HIDE DEF all
        <5>7. first \o rest = all
          <6> DEFINE both == first \o rest
          <6>1. both \in Seq(WordsAnswered) /\ Len(both) = Len(all)
                /\ \A i \in 1..Len(both) : both[i] = all[i]
            BY <5>1, <5>3, <5>4, <5>6
          <6> HIDE DEF both
          <6>2. both = all
            BY <5>6, <6>1, SeqEqual
          <6> QED BY <6>2 DEF both
        <5>5. first \o rest = [i \in 1..Len(addresses) |-> w(i)]
          BY <5>7 DEF all
        <5> QED BY <5>5 DEF first
      <4> QED BY <1>1, <4>4, <4>8
    <3> QED BY <1>4, <3>1, <3>2
  <2> HIDE DEF words, w
  <2>2. \A i \in 1..Len(addresses) : words[i] \in WordsAnswered
    BY <1>1, <1>2, <2>1
  <2>3. words \in Seq(WordsAnswered)
    BY <1>1, <2>1, <2>2, IsASeq
  <2>4. Paired(words, addresses, answers)
    BY <1>2, <2>1 DEF Paired
  <2> QED BY <2>3, <2>4 DEF words
<1> QED BY <1>3, <1>4

LEMMA ScenariosAsked ==
  ASSUME NEW args \in AskedCalls
  PROVE  /\ W!ScenariosOf(args) \subseteq DOMAIN Scenarios
         /\ IsFiniteSet(W!ScenariosOf(args))
<1>1. W!ScenariosOf(args) \subseteq DOMAIN Scenarios
  BY ToolsAssumption DEF W!WordsAssumption, W!ScenariosOf
<1> QED BY <1>1, ToolsAssumption, WordsSets, FS_Subset DEF W!WordsAssumption

-----------------------------------------------------------------------------
(* Steps *)

LEMMA ArgsFacts ==
  ASSUME WordsTypes
  PROVE  /\ asked.args \in AskedCalls
         /\ asked.args.source \in {"scenario", "deployment", "deployer", "app"}
         /\ asked.args.only \in {"all", "deployer", "pragma"}
         /\ asked.args.source = "app" => asked.args.only = "all" /\ asked.args.board = None
BY ToolsAssumption DEF WordsTypes, WordsCall, W!WordsAssumption

LEMMA RowsKept ==
  ASSUME RowsShown, asked'.args = asked.args, asked'.rows = asked.rows
  PROVE  RowsShown'
BY DEF RowsShown

LEMMA WordsInitInv == W!Init => WordsInv
<1> SUFFICES ASSUME W!Init PROVE WordsInv
  OBVIOUS
<1>1. PICK args \in AskedCalls :
        asked = [args |-> args, scenario |-> None, left |-> {}, addresses |-> <<>>,
                 answers |-> <<>>, rows |-> <<>>, output |-> <<>>, pc |-> "begin"]
  BY DEF W!Init
<1>2. boards = Metaboards
  BY DEF W!Init
<1>3. asked \in WordsCall
  BY <1>1 DEF WordsCall
<1>4. WordsTypes /\ Fresh /\ Places /\ Overridden /\ AskedFor /\ AnswersOwn
  BY <1>1, <1>2, <1>3, ToolsAssumption
     DEF WordsTypes, Fresh, Places, Overridden, AskedFor, AnswersOwn, W!WordsAssumption
<1>5. Printed /\ Progress /\ RowsShown
  BY <1>1 DEF Printed, W!PrintedIsComplete, W!Shown, Progress, RowsShown
<1> QED BY <1>4, <1>5 DEF WordsInv

(* A call that is refused shows nothing more.                              *)
LEMMA RefuseInv ==
  ASSUME WordsInv, asked.pc # "done", W!Refuse
  PROVE  WordsInv'
<1>1. /\ asked \in WordsCall /\ asked' = [asked EXCEPT !.pc = "error"]
      /\ boards' = boards
  BY DEF WordsInv, WordsTypes, W!Refuse
<1>2. asked' \in WordsCall
  BY <1>1 DEF WordsCall
<1>3. /\ asked'.pc = "error" /\ asked'.args = asked.args /\ asked'.scenario = asked.scenario
      /\ asked'.answers = asked.answers /\ asked'.addresses = asked.addresses
      /\ asked'.rows = asked.rows /\ asked'.output = asked.output
  BY <1>1 DEF WordsCall
<1>4. WordsTypes' /\ Places' /\ Overridden' /\ AskedFor'
  BY <1>1, <1>2, <1>3 DEF WordsInv, WordsTypes, Places, Overridden, AskedFor
<1>5. AnswersOwn'
  BY <1>3 DEF WordsInv, AnswersOwn, WordsOwn
<1>6. Printed' /\ Progress'
  BY <1>3 DEF WordsInv, Printed, W!PrintedIsComplete, Progress
<1>7. RowsShown'
  BY <1>3, RowsKept DEF WordsInv
<1> QED BY <1>3, <1>4, <1>5, <1>6, <1>7 DEF WordsInv, Fresh

(* A call is for a scenario of the document from here on.                  *)
LEMMA ForScenarioInv ==
  ASSUME WordsInv, asked.pc = "begin", asked.args.source \in {"scenario", "deployment"},
         NEW s \in DOMAIN Scenarios, W!ForScenario(s)
  PROVE  WordsInv'
<1> DEFINE next == IF asked.args.only = "deployer" THEN "fetch" ELSE "pragmas"
           addresses == <<Scenarios[s].deployer>>
<1>1. /\ asked \in WordsCall
      /\ asked' = [asked EXCEPT !.scenario = s, !.pc = next, !.addresses = addresses,
                               !.answers = <<None>>]
  BY DEF WordsInv, WordsTypes, W!ForScenario
<1>2. addresses \in Seq(Addresses) /\ Len(addresses) = 1
  BY DeployerAddress
<1>3. /\ asked'.args = asked.args /\ asked'.pc = next /\ asked'.rows = asked.rows
      /\ asked'.scenario = s /\ asked'.output = asked.output
      /\ asked'.addresses = addresses /\ asked'.answers = <<None>>
  BY <1>1 DEF WordsCall
<1>4. asked' \in WordsCall
  <2>1. <<None>> \in Seq(Answers \cup {None})
    OBVIOUS
  <2> HIDE DEF addresses
  <2> QED BY <1>1, <1>2, <2>1 DEF WordsCall
<1>5. s # None
  BY ToolsAssumption DEF W!WordsAssumption
<1>6. Overridden' /\ boards' = [n \in DOMAIN boards' |-> boards'[n]]
  BY <1>3 DEF WordsInv, WordsTypes, Overridden, W!ForScenario, W!Override
<1>7. WordsTypes' /\ Places'
  BY <1>2, <1>3, <1>4, <1>5, <1>6 DEF WordsTypes, Places
<1>8. AskedFor'
  <2>1. asked.args.only = "deployer" => W!Contracts(asked.args, s, asked.args.only) = addresses
    BY DEF W!Contracts
  <2>2. W!Contracts(asked.args, s, asked.args.only)'
          = W!Contracts(asked.args, s, asked'.args.only)
    BY <1>3 DEF W!Contracts, W!ComposeToRainlang, W!PragmasOf
  <2> QED BY <1>3, <1>5, <2>1, <2>2 DEF AskedFor, W!Contracts
<1>9. AnswersOwn'
  BY <1>3 DEF AnswersOwn
<1>10. Printed' /\ Progress'
  BY <1>3 DEF WordsInv, Printed, W!PrintedIsComplete, Progress
<1>11. RowsShown'
  BY <1>3, RowsKept DEF WordsInv
<1> QED BY <1>3, <1>6, <1>7, <1>8, <1>9, <1>10, <1>11 DEF WordsInv, Fresh

LEMMA BeginInv ==
  ASSUME WordsInv, W!BeginScenario \/ W!BeginDeployment
  PROVE  WordsInv'
<1>1. asked.args.name \in W!ScenariosOf(asked.args) => asked.args.name \in DOMAIN Scenarios
  BY ArgsFacts, ScenariosAsked DEF WordsInv
<1>2. asked.args.name \in DOMAIN Deployments =>
        Deployments[asked.args.name] \in DOMAIN Scenarios
  BY ToolsAssumption DEF W!WordsAssumption
<1> QED BY <1>1, <1>2, ForScenarioInv, RefuseInv DEF W!BeginScenario, W!BeginDeployment

LEMMA BeginDeployerInv == ASSUME WordsInv, W!BeginDeployer PROVE WordsInv'
<1> DEFINE d == asked.args.name
           addresses == <<Deployers[d].address>>
<1>1. asked.pc = "begin" /\ asked.args.source = "deployer" /\ asked \in WordsCall
  BY DEF W!BeginDeployer, WordsInv, WordsTypes
<1>2. CASE W!Refuse
  BY <1>1, <1>2, RefuseInv
<1>3. CASE ~W!Refuse
  <2>1. /\ d \in DOMAIN Deployers /\ boards' = boards
        /\ asked' = [asked EXCEPT !.pc = "fetch", !.addresses = addresses,
                                 !.answers = <<None>>]
    BY <1>3 DEF W!BeginDeployer
  <2>2. addresses \in Seq(Addresses) /\ Len(addresses) = 1
    BY <2>1, DeployerAddress
  <2> HIDE DEF d, addresses
  <2>3. /\ asked'.args = asked.args /\ asked'.pc = "fetch" /\ asked'.rows = asked.rows
        /\ asked'.scenario = asked.scenario /\ asked'.output = asked.output
        /\ asked'.addresses = addresses /\ asked'.answers = <<None>>
    BY <1>1, <2>1 DEF WordsCall
  <2>4. asked' \in WordsCall
    <3>1. <<None>> \in Seq(Answers \cup {None})
      OBVIOUS
    <3> QED BY <1>1, <2>1, <2>2, <3>1 DEF WordsCall
  <2>5. asked.scenario = None
    BY <1>1 DEF WordsInv, Fresh
  <2>6. WordsTypes' /\ Places' /\ Overridden' /\ AskedFor'
    BY <1>1, <2>1, <2>2, <2>3, <2>4, <2>5 DEF WordsInv, WordsTypes, Places, Overridden, AskedFor
  <2>7. AnswersOwn'
    BY <2>3 DEF AnswersOwn
  <2>8. Printed' /\ Progress'
    BY <1>1, <2>3 DEF WordsInv, Printed, W!PrintedIsComplete, Progress
  <2>9. RowsShown'
    BY <2>3, RowsKept DEF WordsInv
  <2> QED BY <2>3, <2>6, <2>7, <2>8, <2>9 DEF WordsInv, Fresh
<1> QED BY <1>2, <1>3

LEMMA BeginAppInv == ASSUME WordsInv, W!BeginApp PROVE WordsInv'
<1>1. /\ asked.pc = "begin" /\ asked.args.source = "app" /\ asked \in WordsCall
      /\ asked' = [asked EXCEPT !.pc = "next", !.left = W!ScenariosOf(asked.args)]
      /\ boards' = boards
  BY DEF W!BeginApp, WordsInv, WordsTypes
<1>2. W!ScenariosOf(asked.args) \in SUBSET DOMAIN Scenarios
  BY ArgsFacts, ScenariosAsked DEF WordsInv
<1>3. /\ asked'.args = asked.args /\ asked'.pc = "next" /\ asked'.rows = asked.rows
      /\ asked'.scenario = asked.scenario /\ asked'.output = asked.output
      /\ asked'.addresses = asked.addresses /\ asked'.answers = asked.answers
      /\ asked'.left = W!ScenariosOf(asked.args)
  BY <1>1 DEF WordsCall
<1>4. asked' \in WordsCall
  BY <1>1, <1>2 DEF WordsCall
<1>5. WordsTypes' /\ Fresh' /\ Places' /\ Overridden' /\ AskedFor'
  BY <1>1, <1>3, <1>4 DEF WordsInv, WordsTypes, Fresh, Places, Overridden, AskedFor
<1>6. AnswersOwn' /\ Printed'
  BY <1>1, <1>3 DEF WordsInv, Fresh, AnswersOwn, Printed, W!PrintedIsComplete
<1>7. Progress'
  <2>1. W!ScenariosOf(asked.args)' = W!ScenariosOf(asked.args)
    BY <1>3 DEF W!ScenariosOf
  <2>2. asked'.rows = <<>> /\ InProgress' = {} /\ RowsOfScenarios' = {}
    BY <1>1, <1>3 DEF WordsInv, Fresh, InProgress, RowsOfScenarios
  <2>3. Cardinality({}) = 0 /\ Cardinality(W!ScenariosOf(asked.args)) \in Nat
    BY ArgsFacts, ScenariosAsked, FS_EmptySet, FS_CardinalityType DEF WordsInv
  <2> QED BY <1>3, <2>1, <2>2, <2>3 DEF Progress
<1>8. RowsShown'
  BY <1>3, RowsKept DEF WordsInv
<1> QED BY <1>5, <1>6, <1>7, <1>8 DEF WordsInv

(* One scenario less is left, and is in progress instead.                  *)
LEMMA NextScenarioInv == ASSUME WordsInv, W!NextScenario PROVE WordsInv'
<1>1. /\ asked.pc = "next" /\ asked.args.source = "app" /\ asked \in WordsCall
      /\ boards' = boards
  BY DEF W!NextScenario, WordsInv, WordsTypes, Places
<1>2. /\ W!ScenariosOf(asked.args) = asked.left \cup RowsOfScenarios
      /\ Cardinality(W!ScenariosOf(asked.args)) = Cardinality(asked.left) + Len(asked.rows)
      /\ IsFiniteSet(asked.left) /\ Cardinality(asked.left) \in Nat
      /\ Len(asked.rows) \in Nat
  <2>1. IsFiniteSet(asked.left)
    BY <1>1, ToolsAssumption, WordsSets, FS_Subset DEF W!WordsAssumption, WordsCall
  <2>2. Cardinality(asked.left) \in Nat /\ Len(asked.rows) \in Nat
    BY <1>1, <2>1, FS_CardinalityType DEF WordsCall
  <2>3. InProgress = {} /\ Cardinality({}) = 0
    BY <1>1, FS_EmptySet DEF InProgress
  <2> QED BY <1>1, <2>1, <2>2, <2>3 DEF WordsInv, Progress
<1>3. CASE asked.left = {}
  <2>1. asked' = [asked EXCEPT !.pc = "done"]
    BY <1>3 DEF W!NextScenario
  <2>2. /\ asked'.args = asked.args /\ asked'.pc = "done" /\ asked'.rows = asked.rows
        /\ asked'.scenario = asked.scenario /\ asked'.output = asked.output
        /\ asked'.addresses = asked.addresses /\ asked'.answers = asked.answers
        /\ asked'.left = asked.left
    BY <1>1, <2>1 DEF WordsCall
  <2>3. asked' \in WordsCall
    BY <1>1, <2>1 DEF WordsCall
  <2>4. WordsTypes' /\ Fresh' /\ Places' /\ Overridden' /\ AskedFor'
    BY <1>1, <2>2, <2>3 DEF WordsInv, WordsTypes, Fresh, Places, Overridden, AskedFor
  <2>5. AnswersOwn'
    BY <2>2 DEF WordsInv, AnswersOwn, WordsOwn
  <2>6. Printed'
    BY <1>1, <2>2 DEF WordsInv, Printed, W!PrintedIsComplete, W!Shown
  <2>7. Progress'
    <3>1. /\ W!ScenariosOf(asked.args)' = W!ScenariosOf(asked.args)
          /\ InProgress' = {} /\ RowsOfScenarios' = RowsOfScenarios
          /\ Cardinality({}) = 0
      BY <2>2, FS_EmptySet DEF W!ScenariosOf, InProgress, RowsOfScenarios
    <3>2. W!ScenariosOf(asked.args)' = (asked.left \cup InProgress \cup RowsOfScenarios)'
      BY <1>2, <2>2, <3>1
    <3>3. Cardinality(W!ScenariosOf(asked.args))'
            = (Cardinality(asked.left) + Cardinality(InProgress) + Len(asked.rows))'
      <4>1. /\ Cardinality(W!ScenariosOf(asked.args))' = Cardinality(W!ScenariosOf(asked.args))
            /\ Cardinality(InProgress)' = 0 /\ Len(asked.rows)' = Len(asked.rows)
            /\ Cardinality(asked.left)' = Cardinality(asked.left)
        BY <2>2, <3>1, Zenon
      <4> QED BY <1>2, <4>1
    <3> QED BY <1>3, <2>2, <3>2, <3>3 DEF Progress
  <2>8. RowsShown'
    BY <2>2, RowsKept DEF WordsInv
  <2> QED BY <2>4, <2>5, <2>6, <2>7, <2>8 DEF WordsInv
<1>4. CASE asked.left # {}
  <2>1. PICK s \in asked.left :
          asked' = [asked EXCEPT !.pc = "pragmas", !.left = @ \ {s}, !.scenario = s,
                      !.addresses = <<Scenarios[s].deployer>>, !.answers = <<None>>]
    BY <1>4 DEF W!NextScenario
  <2>2. s \in DOMAIN Scenarios /\ s # None
    BY <1>1, ToolsAssumption DEF WordsCall, W!WordsAssumption
  <2> DEFINE addresses == <<Scenarios[s].deployer>>
  <2>3. addresses \in Seq(Addresses) /\ Len(addresses) = 1
    BY <2>2, DeployerAddress
  <2>4. /\ asked'.args = asked.args /\ asked'.pc = "pragmas" /\ asked'.rows = asked.rows
        /\ asked'.scenario = s /\ asked'.output = asked.output
        /\ asked'.addresses = addresses /\ asked'.answers = <<None>>
        /\ asked'.left = asked.left \ {s}
    BY <1>1, <2>1 DEF WordsCall
  <2>5. asked' \in WordsCall
    <3>1. <<None>> \in Seq(Answers \cup {None}) /\ asked.left \ {s} \in SUBSET DOMAIN Scenarios
      BY <1>1 DEF WordsCall
    <3>2. asked' = [asked EXCEPT !.pc = "pragmas", !.left = asked.left \ {s}, !.scenario = s,
                      !.addresses = addresses, !.answers = <<None>>]
      BY <1>1, <2>1 DEF WordsCall
    <3> HIDE DEF addresses
    <3> QED BY <1>1, <2>2, <2>3, <3>1, <3>2 DEF WordsCall
  <2>6. WordsTypes' /\ Fresh' /\ Places' /\ Overridden' /\ AskedFor'
    <3>1. asked.args.only = "all" /\ asked.args.board = None
      BY <1>1, ArgsFacts DEF WordsInv
    <3> QED BY <1>1, <2>2, <2>3, <2>4, <2>5, <3>1
            DEF WordsInv, WordsTypes, Fresh, Places, Overridden, AskedFor
  <2>7. AnswersOwn'
    BY <2>4 DEF AnswersOwn
  <2>8. Printed'
    BY <1>1, <2>4 DEF WordsInv, Printed, W!PrintedIsComplete, W!Shown
  <2>9. Progress'
    <3>1. /\ W!ScenariosOf(asked.args)' = W!ScenariosOf(asked.args)
          /\ InProgress' = {s} /\ RowsOfScenarios' = RowsOfScenarios
      BY <2>4 DEF W!ScenariosOf, InProgress, RowsOfScenarios
    <3>2. Cardinality({s}) = 1 /\ Cardinality(asked.left \ {s}) = Cardinality(asked.left) - 1
      BY <1>2, FS_Singleton, FS_RemoveElement
    <3>3. W!ScenariosOf(asked.args)' = (asked.left \cup InProgress \cup RowsOfScenarios)'
      BY <1>2, <2>4, <3>1
    <3>4. Cardinality(W!ScenariosOf(asked.args))'
            = (Cardinality(asked.left) + Cardinality(InProgress) + Len(asked.rows))'
      <4>1. /\ Cardinality(W!ScenariosOf(asked.args))' = Cardinality(W!ScenariosOf(asked.args))
            /\ Cardinality(InProgress)' = 1 /\ Len(asked.rows)' = Len(asked.rows)
            /\ Cardinality(asked.left)' = Cardinality(asked.left) - 1
        BY <2>4, <3>1, <3>2, Zenon
      <4> QED BY <1>2, <4>1
    <3> QED BY <2>4, <3>3, <3>4 DEF Progress
  <2>10. RowsShown'
    BY <2>4, RowsKept DEF WordsInv
  <2> QED BY <2>6, <2>7, <2>8, <2>9, <2>10 DEF WordsInv
<1> QED BY <1>3, <1>4

(* What the steps of a scenario in progress leave alone                    *)
LEMMA ProgressKept ==
  ASSUME Progress, asked.pc \in {"pragmas", "fetch"}, asked'.pc \in {"pragmas", "fetch"},
         asked'.args = asked.args, asked'.scenario = asked.scenario,
         asked'.left = asked.left, asked'.rows = asked.rows
  PROVE  Progress'
<1>1. /\ W!ScenariosOf(asked.args)' = W!ScenariosOf(asked.args)
      /\ InProgress' = InProgress /\ RowsOfScenarios' = RowsOfScenarios
  BY DEF W!ScenariosOf, InProgress, RowsOfScenarios
<1>2. asked'.args.source = "app" =>
        /\ W!ScenariosOf(asked.args)' = (asked.left \cup InProgress \cup RowsOfScenarios)'
        /\ Cardinality(W!ScenariosOf(asked.args))'
              = (Cardinality(asked.left) + Cardinality(InProgress) + Len(asked.rows))'
  <2>1. asked.pc \notin {"begin", "error"}
    OBVIOUS
  <2> QED BY <1>1, <2>1, Zenon DEF Progress
<1> QED BY <1>2 DEF Progress

LEMMA ReadPragmasInv == ASSUME WordsInv, W!ReadPragmas PROVE WordsInv'
<1> DEFINE s == asked.scenario
           pragmas == W!ComposeToRainlang(asked.args, s)
           addresses ==
             (IF asked.args.only = "pragma" THEN <<>> ELSE asked.addresses) \o pragmas
           answers == [i \in DOMAIN addresses |-> None]
<1>1. /\ asked.pc = "pragmas" /\ asked \in WordsCall /\ boards' = boards
      /\ asked' = [asked EXCEPT !.pc = "fetch", !.addresses = addresses, !.answers = answers]
      /\ s # None /\ asked.args.source # "deployer" /\ asked.args.only # "deployer"
  BY DEF WordsInv, WordsTypes, Places, W!ReadPragmas, W!ComposeScenario
<1>2. pragmas \in Seq(Addresses)
  BY <1>1, ComposeType, ArgsFacts DEF WordsInv, WordsCall
<1>3. addresses \in Seq(Addresses)
  <2>1. asked.addresses \in Seq(Addresses)
    BY <1>1 DEF WordsCall
  <2> HIDE DEF pragmas
  <2> QED BY <1>2, <2>1
<1>4. addresses = W!Contracts(asked.args, s, asked.args.only)
  BY <1>1 DEF WordsInv, AskedFor, W!Contracts
<1> HIDE DEF addresses
<1>5. /\ Len(addresses) \in Nat /\ DOMAIN addresses = 1..Len(addresses)
      /\ answers \in Seq(Answers \cup {None}) /\ Len(answers) = Len(addresses)
  BY <1>3
<1>6. \A i \in DOMAIN answers : answers[i] = None
  OBVIOUS
<1> HIDE DEF answers
<1>7. /\ asked'.args = asked.args /\ asked'.pc = "fetch" /\ asked'.rows = asked.rows
      /\ asked'.scenario = s /\ asked'.output = asked.output /\ asked'.left = asked.left
      /\ asked'.addresses = addresses /\ asked'.answers = answers
  BY <1>1 DEF WordsCall
<1>8. asked' \in WordsCall
  BY <1>1, <1>3, <1>5 DEF WordsCall
<1>9. WordsTypes' /\ Fresh' /\ Places' /\ Overridden'
  BY <1>1, <1>5, <1>7, <1>8 DEF WordsInv, WordsTypes, Fresh, Places, Overridden
<1>10. AskedFor'
  BY <1>1, <1>4, <1>7 DEF AskedFor
<1>11. AnswersOwn'
  BY <1>6, <1>7 DEF AnswersOwn
<1>12. Printed'
  BY <1>1, <1>7 DEF WordsInv, Printed, W!PrintedIsComplete
<1>13. Progress' /\ RowsShown'
  BY <1>1, <1>7, ProgressKept, RowsKept DEF WordsInv
<1> QED BY <1>9, <1>10, <1>11, <1>12, <1>13 DEF WordsInv

(* An answer is put where its request was made, whenever it comes.         *)
LEMMA AnswerInv ==
  ASSUME WordsInv, asked.pc = "fetch", NEW i \in DOMAIN asked.answers, NEW x \in Answers,
         WordsOwn(asked.args, asked.scenario, asked.addresses[i], x),
         asked' = [asked EXCEPT !.answers[i] = x], UNCHANGED boards
  PROVE  WordsInv'
<1> DEFINE answers == [asked.answers EXCEPT ![i] = x]
<1>1. asked \in WordsCall /\ Len(asked.answers) = Len(asked.addresses)
  BY DEF WordsInv, WordsTypes
<1>2. asked.answers \in Seq(Answers \cup {None})
  BY <1>1 DEF WordsCall
<1>3. answers \in Seq(Answers \cup {None}) /\ Len(answers) = Len(asked.answers)
  BY <1>2, ExceptSeq
<1>4. asked' = [asked EXCEPT !.answers = answers]
  BY <1>1 DEF WordsCall
<1>5. \A j \in DOMAIN answers :
        j \in DOMAIN asked.answers /\ answers[j] = IF j = i THEN x ELSE asked.answers[j]
  BY <1>2
<1> HIDE DEF answers
<1>6. /\ asked'.args = asked.args /\ asked'.pc = "fetch" /\ asked'.rows = asked.rows
      /\ asked'.scenario = asked.scenario /\ asked'.output = asked.output
      /\ asked'.left = asked.left /\ asked'.addresses = asked.addresses
      /\ asked'.answers = answers
  BY <1>1, <1>4 DEF WordsCall
<1>7. asked' \in WordsCall
  BY <1>1, <1>3, <1>4 DEF WordsCall
<1>8. WordsTypes' /\ Fresh' /\ Places' /\ Overridden'
  BY <1>1, <1>3, <1>6, <1>7 DEF WordsInv, WordsTypes, Fresh, Places, Overridden
<1>9. AskedFor'
  BY <1>6 DEF WordsInv, AskedFor
<1>10. AnswersOwn'
  <2>1. \A j \in DOMAIN answers :
          \/ answers[j] = None
          \/ WordsOwn(asked.args, asked.scenario, asked.addresses[j], answers[j])
    BY <1>5 DEF WordsInv, AnswersOwn
  <2> QED BY <1>6, <2>1 DEF AnswersOwn
<1>11. Printed'
  BY <1>6 DEF WordsInv, Printed, W!PrintedIsComplete
<1>12. Progress' /\ RowsShown'
  BY <1>6, ProgressKept, RowsKept DEF WordsInv
<1> QED BY <1>8, <1>9, <1>10, <1>11, <1>12 DEF WordsInv

LEMMA FetchInv ==
  ASSUME WordsInv, NEW i \in DOMAIN asked.answers, W!Fetch(i)
  PROVE  WordsInv'
<1> DEFINE a == asked.addresses[i]
           board == IF asked.args.source # "deployer"
                      THEN boards[Scenarios[asked.scenario].network]
                    ELSE IF asked.args.board # None THEN asked.args.board
                    ELSE boards[Deployers[asked.args.name].network]
           x == IF asked.args.source # "deployer" THEN W!Fetched(asked.scenario, a)
                ELSE W!AuthoringMeta(a, board)
<1>1. /\ asked.pc = "fetch" /\ asked' = [asked EXCEPT !.answers[i] = x] /\ UNCHANGED boards
      /\ (asked.scenario = None) = (asked.args.source = "deployer")
  BY DEF W!Fetch, WordsInv, Places
<1>2. /\ x \in Answers
      /\ x.status = "ok" => x.of = a /\ x.board = board
  <2>1. CASE x = W!Failed
    BY <2>1, FailedType
  <2>2. CASE x # W!Failed
    <3>1. x = W!AuthoringMeta(a, board)
      BY <2>2 DEF W!Fetched
    <3> HIDE DEF x, board, a
    <3> QED BY <3>1, MetaType
  <2> QED BY <2>1, <2>2
<1>3. /\ asked.args.board # None => board = asked.args.board
      /\ asked.args.board = None /\ asked.scenario # None =>
           board = Metaboards[Scenarios[asked.scenario].network]
  BY <1>1 DEF WordsInv, Overridden
<1>4. WordsOwn(asked.args, asked.scenario, a, x)
  <2> HIDE DEF x, board, a
  <2> QED BY <1>2, <1>3 DEF WordsOwn
<1> HIDE DEF x
<1> QED BY <1>1, <1>2, <1>4, AnswerInv

LEMMA WordsRequestFailsInv == ASSUME WordsInv, W!RequestFails PROVE WordsInv'
<1>1. CASE asked.pc = "pragmas" /\ W!Refuse
  BY <1>1, RefuseInv
<1>2. CASE ~(asked.pc = "pragmas" /\ W!Refuse)
  <2>1. PICK i \in DOMAIN asked.answers : asked' = [asked EXCEPT !.answers[i] = W!Failed]
    BY <1>2 DEF W!RequestFails
  <2>2. WordsOwn(asked.args, asked.scenario, asked.addresses[i], W!Failed)
    BY FailedType DEF WordsOwn
  <2> QED BY <1>2, <2>1, <2>2, FailedType, AnswerInv DEF W!RequestFails
<1> QED BY <1>1, <1>2

(* What is made of the answers when all are there                          *)
LEMMA RowMade ==
  ASSUME WordsInv, W!AllAnswered, NEW words,
         words = W!Row(asked.scenario, asked.args.only, asked.addresses, asked.answers).words
  PROVE  /\ words \in Seq(WordsAnswered)
         /\ W!Shown(asked.args, asked.scenario, words)
         /\ [i \in DOMAIN words |-> words[i].address] = asked.addresses
         /\ \A i \in DOMAIN words : words[i].words.status \in {"ok", "error"}
<1>1. /\ asked.addresses \in Seq(Addresses) /\ asked.answers \in Seq(Answers \cup {None})
      /\ Len(asked.answers) = Len(asked.addresses) /\ asked.pc = "fetch"
  BY DEF WordsInv, WordsTypes, WordsCall, W!AllAnswered
<1>2. \A i \in DOMAIN asked.answers :
        /\ asked.answers[i] \in Answers
        /\ WordsOwn(asked.args, asked.scenario, asked.addresses[i], asked.answers[i])
  BY <1>1 DEF W!AllAnswered, WordsInv, AnswersOwn
<1>3. asked.answers \in Seq(Answers)
  BY <1>1, <1>2
<1>4. asked.args.only = "deployer" => Len(asked.addresses) = 1
  <2>1. CASE asked.scenario = None
    BY <1>1, <2>1 DEF WordsInv, AskedFor
  <2>2. CASE asked.scenario # None /\ asked.args.only = "deployer"
    <3>1. asked.addresses = W!Contracts(asked.args, asked.scenario, "deployer")
      BY <1>1, <2>2 DEF WordsInv, AskedFor
    <3>2. W!Contracts(asked.args, asked.scenario, "deployer")
            = <<Scenarios[asked.scenario].deployer>>
      BY DEF W!Contracts
    <3> QED BY <3>1, <3>2
  <2> QED BY <2>1, <2>2
<1>5. words \in Seq(WordsAnswered) /\ Paired(words, asked.addresses, asked.answers)
  <2>1. asked.args.only = "all" => Len(asked.addresses) > 0
    <3>1. CASE asked.scenario = None
      <4>1. Len(asked.addresses) = 1
        BY <1>1, <3>1 DEF WordsInv, AskedFor
      <4> QED BY <4>1
    <3>2. CASE asked.scenario # None /\ asked.args.only = "all"
      <4>1. asked.scenario \in DOMAIN Scenarios /\ asked.args \in AskedCalls
        BY <3>2 DEF WordsInv, WordsTypes, WordsCall
      <4> DEFINE d == <<Scenarios[asked.scenario].deployer>>
                 c == W!ComposeToRainlang(asked.args, asked.scenario)
      <4>2. d \in Seq(Addresses) /\ c \in Seq(Addresses) /\ Len(d) = 1
        BY <4>1, ComposeType, DeployerAddress
      <4>3. asked.addresses = d \o c
        BY <1>1, <3>2 DEF WordsInv, AskedFor, W!Contracts
      <4> HIDE DEF d, c
      <4>4. Len(d \o c) = Len(d) + Len(c) /\ Len(c) \in Nat
        <5>1. \A s, t \in Seq(Addresses) : Len(s \o t) = Len(s) + Len(t) /\ Len(t) \in Nat
          OBVIOUS
        <5> QED BY <4>2, <5>1
      <4> QED BY <4>2, <4>3, <4>4
    <3> QED BY <3>1, <3>2
  <2> QED BY <1>1, <1>3, <1>4, <2>1, RowWords, ArgsFacts DEF WordsInv
<1>6. DOMAIN asked.answers = DOMAIN asked.addresses
  BY <1>1
<1>7. \A i \in DOMAIN words :
        /\ words[i].words.status \in {"ok", "error"}
        /\ WordsOwn(asked.args, asked.scenario, words[i].address, words[i].words)
  BY <1>2, <1>5, <1>6, AnswerStatus DEF Paired
<1>8. W!Shown(asked.args, asked.scenario, words)
  BY <1>7 DEF W!Shown, WordsOwn
<1>9. asked.addresses = [i \in DOMAIN asked.addresses |-> asked.addresses[i]]
  BY <1>1
<1>10. [i \in DOMAIN words |-> words[i].address] = asked.addresses
  BY <1>5, <1>9 DEF Paired
<1> QED BY <1>5, <1>7, <1>8, <1>10

LEMMA PrintWordsInv == ASSUME WordsInv, W!PrintWords PROVE WordsInv'
<1> DEFINE words == W!Row(asked.scenario, asked.args.only, asked.addresses, asked.answers).words
<1>1. /\ W!AllAnswered /\ asked.pc = "fetch" /\ asked.args.source # "app"
      /\ boards' = boards /\ asked \in WordsCall
  BY DEF W!PrintWords, W!AllAnswered, WordsInv, WordsTypes
<1>2. CASE \E i \in DOMAIN words : words[i].words.status = "error"
  BY <1>1, <1>2, RefuseInv DEF W!PrintWords, W!Refuse
<1>3. CASE ~\E i \in DOMAIN words : words[i].words.status = "error"
  <2>1. asked' = [asked EXCEPT !.pc = "done", !.output = words]
    BY <1>3 DEF W!PrintWords
  <2> HIDE DEF words
  <2>2. /\ words \in Seq(WordsAnswered)
        /\ W!Shown(asked.args, asked.scenario, words)
        /\ [i \in DOMAIN words |-> words[i].address] = asked.addresses
        /\ \A i \in DOMAIN words : words[i].words.status = "ok"
    <3>1. \A i \in DOMAIN words : words[i].words.status \in {"ok", "error"}
      BY <1>1, RowMade DEF words
    <3> QED BY <1>1, <1>3, <3>1, RowMade DEF words
  <2>3. /\ asked'.args = asked.args /\ asked'.pc = "done" /\ asked'.rows = asked.rows
        /\ asked'.scenario = asked.scenario /\ asked'.output = words
        /\ asked'.addresses = asked.addresses /\ asked'.answers = asked.answers
    BY <1>1, <2>1 DEF WordsCall
  <2>4. asked' \in WordsCall
    BY <1>1, <2>1, <2>2 DEF WordsCall
  <2>5. WordsTypes' /\ Fresh' /\ Places' /\ Overridden' /\ AskedFor'
    BY <1>1, <2>3, <2>4 DEF WordsInv, WordsTypes, Fresh, Places, Overridden, AskedFor
  <2>6. AnswersOwn'
    BY <2>3 DEF WordsInv, AnswersOwn
  <2>7. Printed'
    <3>1. asked.scenario # None =>
            asked.addresses = W!Contracts(asked.args, asked.scenario, asked.args.only)
      BY <1>1 DEF WordsInv, AskedFor
    <3> QED BY <1>1, <2>2, <2>3, <3>1 DEF Printed, W!PrintedIsComplete
  <2>8. Progress' /\ RowsShown'
    BY <1>1, <2>3, RowsKept DEF WordsInv, Progress
  <2> QED BY <2>5, <2>6, <2>7, <2>8 DEF WordsInv
<1> QED BY <1>2, <1>3

(* The scenario that was in progress is shown.                             *)
LEMMA ShowInv == ASSUME WordsInv, W!Show PROVE WordsInv'
<1> DEFINE words == W!Row(asked.scenario, "all", asked.addresses, asked.answers).words
           row == [scenario |-> asked.scenario, words |-> words]
           rows == Append(asked.rows, row)
           Rows == [scenario : DOMAIN Scenarios, words : Seq(WordsAnswered)]
<1>1. /\ W!AllAnswered /\ asked.pc = "fetch" /\ asked.args.source = "app"
      /\ boards' = boards /\ asked \in WordsCall
      /\ asked.args.only = "all" /\ asked.scenario # None
  BY ArgsFacts DEF W!Show, W!AllAnswered, WordsInv, WordsTypes, Places
<1>2. asked' = [asked EXCEPT !.pc = "next", !.rows = rows]
  BY <1>1 DEF W!Show, W!Row, WordsCall
<1>3. words = W!Row(asked.scenario, asked.args.only, asked.addresses, asked.answers).words
  BY <1>1
<1> HIDE DEF words
<1>4. /\ words \in Seq(WordsAnswered)
      /\ W!Shown(asked.args, asked.scenario, words)
      /\ [i \in DOMAIN words |-> words[i].address]
           = W!Contracts(asked.args, asked.scenario, "all")
  BY <1>1, <1>3, RowMade DEF WordsInv, AskedFor
<1>5. row \in Rows /\ row.scenario = asked.scenario /\ row.words = words
  BY <1>1, <1>4 DEF WordsCall
<1>6. asked.rows \in Seq(Rows) /\ Len(asked.rows) \in Nat
  BY <1>1 DEF WordsCall
<1> HIDE DEF row, Rows
<1>7. /\ rows \in Seq(Rows) /\ Len(rows) = Len(asked.rows) + 1
      /\ DOMAIN rows = DOMAIN asked.rows \cup {Len(rows)} /\ rows[Len(rows)] = row
      /\ \A r \in DOMAIN asked.rows : rows[r] = asked.rows[r]
  BY <1>5, <1>6
<1> HIDE DEF rows
<1>8. /\ asked'.args = asked.args /\ asked'.pc = "next" /\ asked'.rows = rows
      /\ asked'.scenario = asked.scenario /\ asked'.output = asked.output
      /\ asked'.addresses = asked.addresses /\ asked'.answers = asked.answers
      /\ asked'.left = asked.left
  BY <1>1, <1>2 DEF WordsCall
<1>9. asked' \in WordsCall
  BY <1>1, <1>2, <1>7 DEF WordsCall, Rows
<1>10. WordsTypes' /\ Fresh' /\ Places' /\ Overridden' /\ AskedFor'
  BY <1>1, <1>8, <1>9 DEF WordsInv, WordsTypes, Fresh, Places, Overridden, AskedFor
<1>11. AnswersOwn' /\ Printed'
  BY <1>1, <1>8 DEF WordsInv, AnswersOwn, Printed, W!PrintedIsComplete
<1>12. Progress'
  <2>1. /\ W!ScenariosOf(asked.args)' = W!ScenariosOf(asked.args)
        /\ InProgress' = {} /\ InProgress = {asked.scenario}
        /\ Cardinality({}) = 0 /\ Cardinality({asked.scenario}) = 1
    BY <1>1, <1>8, FS_EmptySet, FS_Singleton DEF W!ScenariosOf, InProgress
  <2>2. RowsOfScenarios' = RowsOfScenarios \cup {asked.scenario}
    BY <1>5, <1>7, <1>8 DEF RowsOfScenarios
  <2>3. /\ W!ScenariosOf(asked.args) = asked.left \cup InProgress \cup RowsOfScenarios
        /\ Cardinality(W!ScenariosOf(asked.args))
             = Cardinality(asked.left) + Cardinality(InProgress) + Len(asked.rows)
    BY <1>1 DEF WordsInv, Progress
  <2>4. W!ScenariosOf(asked.args)' = (asked.left \cup InProgress \cup RowsOfScenarios)'
    BY <1>8, <2>1, <2>2, <2>3
  <2>5. Cardinality(W!ScenariosOf(asked.args))'
          = (Cardinality(asked.left) + Cardinality(InProgress) + Len(asked.rows))'
    <3>1. /\ Cardinality(W!ScenariosOf(asked.args))' = Cardinality(W!ScenariosOf(asked.args))
          /\ Cardinality(InProgress)' = 0 /\ Cardinality(InProgress) = 1
          /\ Cardinality(asked.left)' = Cardinality(asked.left)
          /\ Len(asked.rows)' = Len(rows)
      BY <1>8, <2>1, Zenon
    <3>2. Cardinality(asked.left) \in Nat
      <4>1. asked.left \in SUBSET DOMAIN Scenarios
        BY <1>1 DEF WordsCall
      <4> QED BY <4>1, ToolsAssumption, WordsSets, FS_Subset, FS_CardinalityType
               DEF W!WordsAssumption
    <3>3. Cardinality(W!ScenariosOf(asked.args)) = Cardinality(asked.left) + 1 + Len(asked.rows)
      BY <2>3, <3>1
    <3>4. Len(rows) = Len(asked.rows) + 1 /\ Len(asked.rows) \in Nat
      BY <1>6, <1>7
    <3>5. Cardinality(W!ScenariosOf(asked.args)) = Cardinality(asked.left) + 0 + Len(rows)
      BY <3>2, <3>3, <3>4
    <3> QED BY <3>1, <3>5, Zenon
  <2> QED BY <1>8, <2>4, <2>5 DEF Progress
<1>13. RowsShown'
  <2>1. ASSUME NEW r \in DOMAIN rows
        PROVE  /\ W!Shown(asked.args, rows[r].scenario, rows[r].words)
               /\ [i \in DOMAIN rows[r].words |-> rows[r].words[i].address] =
                    W!Contracts(asked.args, rows[r].scenario, "all")
    <3>1. CASE r = Len(rows)
      BY <1>4, <1>5, <1>7, <3>1
    <3>2. CASE r # Len(rows)
      BY <1>7, <3>2 DEF WordsInv, RowsShown
    <3> QED BY <3>1, <3>2
  <2> QED BY <1>8, <2>1 DEF RowsShown
<1> QED BY <1>10, <1>11, <1>12, <1>13 DEF WordsInv

LEMMA WordsNextInv == WordsInv /\ [W!Next]_W!vars => WordsInv'
<1> SUFFICES ASSUME WordsInv, [W!Next]_W!vars PROVE WordsInv'
  OBVIOUS
<1>1. CASE W!BeginScenario \/ W!BeginDeployment
  BY <1>1, BeginInv
<1>2. CASE W!BeginDeployer
  BY <1>2, BeginDeployerInv
<1>3. CASE W!BeginApp
  BY <1>3, BeginAppInv
<1>4. CASE W!NextScenario
  BY <1>4, NextScenarioInv
<1>5. CASE W!ReadPragmas
  BY <1>5, ReadPragmasInv
<1>6. CASE W!PrintWords
  BY <1>6, PrintWordsInv
<1>7. CASE W!Show
  BY <1>7, ShowInv
<1>8. CASE \E i \in DOMAIN asked.answers : W!Fetch(i)
  BY <1>8, FetchInv
<1>9. CASE W!RequestFails
  BY <1>9, WordsRequestFailsInv
<1>10. CASE UNCHANGED W!vars
  <2>1. asked' = asked /\ boards' = boards
    BY <1>10 DEF W!vars
  <2> QED BY <2>1 DEF WordsInv, WordsTypes, Fresh, Places, Overridden, AskedFor, AnswersOwn,
            Printed, W!PrintedIsComplete, Progress, InProgress, RowsOfScenarios, RowsShown
<1> QED BY <1>1, <1>2, <1>3, <1>4, <1>5, <1>6, <1>7, <1>8, <1>9, <1>10 DEF W!Next, W!Client

LEMMA WordsTypeFacts == WordsInv => W!TypeOK
<1> SUFFICES ASSUME WordsInv PROVE W!TypeOK
  OBVIOUS
<1>1. /\ asked \in WordsCall /\ Len(asked.answers) = Len(asked.addresses)
  BY DEF WordsInv, WordsTypes
<1>2. asked.answers \in Seq(Answers \cup {None}) /\ asked.addresses \in Seq(Addresses)
  BY <1>1 DEF WordsCall
<1> QED BY <1>1, <1>2 DEF WordsInv, Overridden, W!TypeOK, WordsCall

LEMMA WordsFacts == WordsInv => W!WordsAsAsked
<1> SUFFICES ASSUME WordsInv PROVE W!WordsAsAsked
  OBVIOUS
<1>1. W!WordsOfTheirContract
  BY DEF WordsInv, Printed, RowsShown, W!WordsOfTheirContract
<1>2. W!PrintedIsComplete
  BY DEF WordsInv, Printed
<1>3. W!AppShowsAll
  <2> SUFFICES ASSUME asked.pc = "done", asked.args.source = "app"
               PROVE  /\ RowsOfScenarios = W!ScenariosOf(asked.args)
                      /\ Len(asked.rows) = Cardinality(W!ScenariosOf(asked.args))
    BY WordsSets DEF W!AppShowsAll, RowsOfScenarios, WordsInv, RowsShown
  <2>1. asked.left = {} /\ InProgress = {} /\ Cardinality({}) = 0
    BY FS_EmptySet DEF WordsInv, Progress, InProgress
  <2>2. Len(asked.rows) \in Nat
    BY DEF WordsInv, WordsTypes, WordsCall
  <2>3. /\ W!ScenariosOf(asked.args) = asked.left \cup InProgress \cup RowsOfScenarios
        /\ Cardinality(W!ScenariosOf(asked.args))
             = Cardinality(asked.left) + Cardinality(InProgress) + Len(asked.rows)
    BY DEF WordsInv, Progress
  <2>4. Cardinality(asked.left) = 0 /\ Cardinality(InProgress) = 0
    BY <2>1, Zenon
  <2> QED BY <2>1, <2>2, <2>3, <2>4
<1> QED BY <1>1, <1>2, <1>3 DEF W!WordsAsAsked

-----------------------------------------------------------------------------
(* All tools at the same time *)

(* A block is mined by a step of either runner, which is a step of both.   *)
LEMMA FuzzSteps == ASSUME F!Next PROVE block' = block \/ F!Mine
BY DEF F!Next, F!Runner, F!NextChart, F!Finish, F!ReadBlocks, F!CreateFork, F!RollFork,
   F!Spawn, F!Await, F!InsertData, F!Tasks, F!Evaluate, F!RequestFails, F!Goto

LEMMA TestSteps == ASSUME T!Next PROVE block' = block \/ T!Mine
BY DEF T!Next, T!Runner, T!FindBlock, T!RunPre, T!RunCalculate, T!RunHandle, T!RunPost,
   T!Run, T!Panic, T!RollFails, T!Fails

LEMMA StepsOfAll ==
  ASSUME [ToolsNext]_toolsVars
  PROVE  [Next]_vars /\ [F!Next]_F!vars /\ [T!Next]_T!vars /\ [W!Next]_W!vars
<1> USE DEF vars, F!vars, T!vars, W!vars, fuzzVars, testVars, wordsVars
<1>1. CASE ParsingStep
  BY <1>1 DEF ParsingStep
<1>2. CASE FuzzStep
  <2>1. F!Mine => T!Mine
    BY <1>2 DEF FuzzStep, F!Mine, T!Mine
  <2> QED BY <1>2, <2>1, FuzzSteps DEF FuzzStep, T!Next
<1>3. CASE TestStep
  <2>1. T!Mine => F!Mine
    BY <1>3 DEF TestStep, F!Mine, T!Mine
  <2> QED BY <1>3, <2>1, TestSteps DEF TestStep, F!Next
<1>4. CASE WordsStep
  BY <1>4 DEF WordsStep
<1>5. CASE UNCHANGED toolsVars
  BY <1>5 DEF toolsVars
<1> QED BY <1>1, <1>2, <1>3, <1>4, <1>5 DEF ToolsNext

ToolsInv == IInv /\ Mutex /\ FuzzInv /\ TestInv /\ WordsInv

LEMMA ToolsInvHolds == ToolsSpec => []ToolsInv
<1>1. ToolsInit => ToolsInv
  BY InitInv, MutexInit, FuzzInitInv, TestInitInv, WordsInitInv DEF ToolsInit, ToolsInv
<1>2. ToolsInv /\ [ToolsNext]_toolsVars => ToolsInv'
  BY StepsOfAll, NextInv, MutexNext, FuzzNextInv, TestNextInv, WordsNextInv DEF ToolsInv
<1> QED BY <1>1, <1>2, PTL DEF ToolsSpec

(* The state of each tool has the form that it should have: the mutex has  *)
(* those calls that wait for it, the runner of charts is never changed, no *)
(* task is on a block that is not there, and a contract has one answer.    *)
THEOREM ToolsTypesOK == ToolsSpec => []TypesOK
<1>1. ToolsInv => TypesOK
  BY ParsingTypeFacts, FuzzTypeFacts, TestTypeFacts, WordsTypeFacts DEF ToolsInv, TypesOK
<1> QED BY <1>1, ToolsInvHolds, PTL

(* A call of parse_rainlang_on_fork is answered for what it asked, whatever*)
(* the others do to the fork meanwhile, and silent only when all is well.  *)
THEOREM AnswersAlwaysHold == ToolsSpec => []AnswersHold
<1>1. ToolsInv => AnswersHold
  BY AnswersFacts DEF ToolsInv
<1> QED BY <1>1, ToolsInvHolds, PTL

(* Every chart of make_chart_data has the rows it should have, on the      *)
(* blocks that its scenario means, with the values of the seed, in whatever*)
(* order the runs ended.                                                   *)
THEOREM ChartsAreAsAsked == ToolsSpec => []ChartsAsAsked
<1>1. ToolsInv => ChartsAsAsked
  BY ChartsFacts DEF ToolsInv, ChartsAsAsked
<1> QED BY <1>1, ToolsInvHolds, PTL

(* The entry points of run_unit_test are evaluated on one trade: at one    *)
(* block, with the context of the ones before, each with the bindings of   *)
(* its own document.                                                       *)
THEOREM OneTrade == ToolsSpec => []OneTradeTested
<1>1. ToolsInv => OneTradeTested
  BY TradeFacts DEF ToolsInv, OneTradeTested
<1> QED BY <1>1, ToolsInvHolds, PTL

(* The words command and the app show for a contract its own words, from   *)
(* the metaboard that was asked, and leave out no contract.                *)
THEOREM WordsAreThoseAsked == ToolsSpec => []WordsAsAsked
<1>1. ToolsInv => WordsAsAsked
  BY WordsFacts DEF ToolsInv, WordsAsAsked
<1> QED BY <1>1, ToolsInvHolds, PTL

=============================================================================
