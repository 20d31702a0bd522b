------------------------------- MODULE Quotes ------------------------------
(***************************************************************************)
(* Quotes of orders: the CLI, the desktop app and the web app ask what an  *)
(* order would give now. Its parameters come from a subgraph that lags     *)
(* behind the chain, the quotes from a multicall at one block, while blocks*)
(* are added. A call is a batch of targets or specs, or all pairs of some  *)
(* orders, or one target that is run in a fork.                            *)
(***************************************************************************)
EXTENDS Integers, Sequences, FiniteSets

CONSTANTS
  Orders,       \* the orders
  Tokens,       \* the tokens of their inputs and outputs
  Reverting,    \* orders whose expression reverts
  Unreadable,   \* orders whose bytes in the subgraph cannot be decoded
  Book,         \* the order book they are in
  Calls,        \* the calls that may be made
  DefaultFirst, \* first of a query that does not give it, 100 in the schema
  MaxBlocks,    \* bound: blocks of the chain
  None          \* Option::None

ASSUME QuotesAssumption ==
  /\ \A o \in Orders : {"inputs", "outputs"} \subseteq DOMAIN Tokens[o]
  /\ DefaultFirst \in Nat \ {0} /\ MaxBlocks \in Nat \ {0}

VARIABLES
  chain,  \* its blocks: the orders that are live, and those with funds
  index,  \* the orders that the subgraph has seen
  call    \* the call, and where it is

vars == <<chain, index, call>>

Latest == Len(chain)
EverLive == UNION {chain[b].live : b \in DOMAIN chain}

NewBlock ==
  /\ Latest < MaxBlocks
  /\ \E live, funded \in SUBSET Orders :
       chain' = Append(chain, [live |-> live, funded |-> funded])
  /\ UNCHANGED <<index, call>>

Index == index' = EverLive /\ UNCHANGED <<chain, call>>

-----------------------------------------------------------------------------
(* Targets *)

Failure(what) == [status |-> what]
Value(t, funded) ==
  [status |-> "ok", order |-> t.order, input |-> t.input, output |-> t.output,
   outputMax |-> IF t.order \in funded THEN 1 ELSE 0]

(* QuoteTarget::validate: the indexes, which count from 1 here             *)
Valid(t) ==
  t.input \in DOMAIN Tokens[t.order].inputs /\ t.output \in DOMAIN Tokens[t.order].outputs

(* OrderBook.quote *)
QuoteAt(t, b) ==
  IF t.book # Book THEN Failure("empty")
  ELSE IF t.order \notin chain[b].live THEN [status |-> "exists", exists |-> FALSE]
  ELSE IF ~Valid(t) \/ t.order \in Reverting THEN Failure("reverted")
  ELSE IF Tokens[t.order].inputs[t.input] = Tokens[t.order].outputs[t.output]
    THEN Failure("reverted")
  ELSE Value(t, chain[b].funded)

(* What batch_quote makes of one result of the multicall; the selector of a*)
(* revert is looked up in a registry, which may fail.                      *)
Decoded(t, b, registered) ==
  LET r == QuoteAt(t, b)
  IN  CASE r.status = "ok" -> r
        [] r.status = "exists" -> Failure("NonExistent")
        [] r.status = "reverted" ->
             Failure(IF registered THEN "RevertError" ELSE "RevertErrorDecodeFailed")
        [] r.status = "empty" -> Failure("CorruptReturnData")

(* batch_quote, with the positions whose revert the registry decodes       *)
BatchQuote(targets, b, registered) ==
  [i \in DOMAIN targets |-> Decoded(targets[i], b, i \in registered)]

(* One quote target of a spec, from the orders that were found             *)
TargetOf(spec, found) ==
  IF spec.book = Book /\ spec.order \in found \ Unreadable THEN spec ELSE None

Some(targets) == SelectSeq(targets, LAMBDA t : t # None)

(* Mutation: the results are put at the beginning.                         *)
FilledUp(targets, quotes) ==
  [i \in DOMAIN targets |->
     IF i \in DOMAIN quotes THEN quotes[i] ELSE Failure("NonExistent")]

(* BatchQuoteSpec::do_quote puts the results where their specs are.        *)
FilledIn(targets, quotes) ==
  [i \in DOMAIN targets |->
     IF targets[i] = None THEN Failure("NonExistent")
     ELSE quotes[Len(Some(SubSeq(targets, 1, i)))]]

(* Mutation: the pair of a token with itself is kept as a pair, and is not *)
(* quoted.                                                                 *)
AllPairs(o) ==
  LET n == Len(Tokens[o].outputs)
  IN  [k \in 1 .. Len(Tokens[o].inputs) * n |->
         [book |-> Book, order |-> o, input |-> (k - 1) \div n + 1,
          output |-> ((k - 1) % n) + 1]]

(* The pairs of an order, outputs within inputs, without those of one token*)
Pairs(o) ==
  LET n == Len(Tokens[o].outputs)
      all == [k \in 1 .. Len(Tokens[o].inputs) * n |->
                [book |-> Book, order |-> o, input |-> (k - 1) \div n + 1,
                 output |-> ((k - 1) % n) + 1]]
  IN  SelectSeq(all, LAMBDA t : Tokens[o].inputs[t.input] # Tokens[o].outputs[t.output])

-----------------------------------------------------------------------------
(* What a call is given *)

(* parse_input: whole pieces of 54 bytes, at least one                     *)
ParseInput(bytes) ==
  IF bytes.rest \/ bytes.pieces = <<>> THEN None
  ELSE [kind |-> "specs", batch |-> bytes.pieces]

(* --target and --spec: groups of four values, at least one                *)
ParseTargets(values) ==
  IF values.rest \/ values.pieces = <<>> THEN None
  ELSE [kind |-> "targets", batch |-> values.pieces]

ParseSpecs(values) ==
  IF values.rest \/ values.pieces = <<>> THEN None
  ELSE [kind |-> "specs", batch |-> values.pieces]

(* read_content                                                            *)
ReadContent(input) ==
  LET given == {f \in {"input", "target", "spec"} : input[f] # None}
  IN  IF Cardinality(given) # 1 THEN None
      ELSE CASE "input" \in given -> ParseInput(input.input)
             [] "target" \in given -> ParseTargets(input.target)
             [] "spec" \in given -> ParseSpecs(input.spec)

(* Quoter::run: specs need a subgraph.                                     *)
RunQuoter(input, subgraph, block) ==
  LET content == ReadContent(input)
  IN  IF content = None \/ (content.kind = "specs" /\ ~subgraph)
      THEN [kind |-> "bad", batch |-> <<>>, block |-> block]
      ELSE [kind |-> content.kind, batch |-> content.batch, block |-> block]

(* The functions of the web app                                            *)
DoQuoteTargets(targets, block) ==
  [kind |-> "targets", batch |-> targets, block |-> block]
DoQuoteSpecs(specs, block) == [kind |-> "specs", batch |-> specs, block |-> block]
GetOrderQuote(orders, block) == [kind |-> "orders", batch |-> orders, block |-> block]

(* The commands of the desktop app                                         *)
BatchOrderQuotes(orders, block) == GetOrderQuote(orders, block)
DebugOrderQuote(target, block) ==
  [kind |-> "debug", batch |-> <<target>>, block |-> block]

-----------------------------------------------------------------------------
(* The call *)

Init ==
  /\ \E live \in SUBSET Orders : chain = <<[live |-> live, funded |-> live]>>
  /\ index \in SUBSET EverLive
  /\ \E c \in Calls :
       call = [args |-> c, known |-> index, targets |-> <<>>, block |-> None,
               left |-> c.batch, results |-> <<>>,
               pc |-> CASE c.kind = "bad" -> "error"
                        [] c.kind = "specs" -> "fetch"
                        [] c.kind = "targets" -> "quote"
                        [] c.kind = "orders" -> "order"
                        [] c.kind = "debug" -> "fork"]

World == UNCHANGED <<chain, index>>
BlockAsked == IF call.args.block = None THEN Latest ELSE call.args.block

(* get_batch_quote_target_from_subgraph; the query has no first.           *)
FetchTargets ==
  LET specs == call.args.batch
      wanted == {specs[i].order : i \in {j \in DOMAIN specs : specs[j].book = Book}} \cap index
  IN  /\ call.pc = "fetch"
      /\ \E found \in SUBSET wanted :
           /\ Cardinality(found) = IF Cardinality(wanted) < DefaultFirst
                                   THEN Cardinality(wanted) ELSE DefaultFirst
           /\ call' = [call EXCEPT !.pc = "quote",
                         !.targets = [i \in DOMAIN specs |-> TargetOf(specs[i], found)]]
      /\ World

(* The multicall of the targets, or of the specs that have become targets  *)
QuoteBatch ==
  LET targets == IF call.args.kind = "targets" THEN call.args.batch ELSE call.targets
  IN  /\ call.pc = "quote" /\ call.args.kind \in {"targets", "specs"}
      /\ \E registered \in SUBSET DOMAIN targets :
           call' = [call EXCEPT !.pc = "done", !.targets = targets, !.block = BlockAsked,
                      !.results = FilledIn(targets,
                                    BatchQuote(Some(targets), BlockAsked, registered))]
      /\ World

(* get_order_quotes takes the next order, whose bytes must be readable.    *)
NextOrder ==
  /\ call.pc = "order"
  /\ call' = CASE call.left = <<>> -> [call EXCEPT !.pc = "done"]
               [] call.left # <<>> /\ Head(call.left) \in Unreadable ->
                    [call EXCEPT !.pc = "error"]
               [] OTHER -> [call EXCEPT !.pc = "block"]
  /\ World

(* The number of the latest block is read even when a block was given.     *)
ReadBlock ==
  /\ call.pc = "block"
  /\ call' = [call EXCEPT !.pc = "quote", !.block = BlockAsked]
  /\ World

(* All pairs of an order at that block; if the request fails, each of them *)
(* is a row with the error.                                                *)
QuotePairs(answered) ==
  LET pairs == Pairs(Head(call.left))
  IN  /\ call.pc = "quote" /\ call.args.kind = "orders"
      /\ \E registered \in SUBSET DOMAIN pairs :
           LET quotes == BatchQuote(pairs, call.block, registered)
           IN  call' = [call EXCEPT !.pc = "order", !.left = Tail(@),
                          !.results = @ \o [i \in DOMAIN pairs |->
                            [pair |-> pairs[i], block |-> call.block,
                             result |-> IF answered THEN quotes[i]
                                        ELSE Failure("RpcCallError")]]]
      /\ World

(* QuoteDebugger: the chain is forked, and the target checked and run.     *)
Fork ==
  /\ call.pc = "fork"
  /\ call' = [call EXCEPT !.pc = "debug", !.block = BlockAsked]
  /\ World

Debug ==
  LET t == Head(call.args.batch)
  IN  /\ call.pc = "debug"
      /\ call' = IF ~Valid(t) THEN [call EXCEPT !.pc = "error"]
                 ELSE [call EXCEPT !.pc = "done", !.results = <<QuoteAt(t, call.block)>>]
      /\ World

(* A request fails: to the subgraph, the multicall of a batch, the number  *)
(* of the block, or the fork.                                              *)
RequestFails ==
  /\ call.pc \in {"fetch", "block", "fork"} \/
     (call.pc = "quote" /\ call.args.kind \in {"targets", "specs"})
  /\ call' = [call EXCEPT !.pc = "error"]
  /\ World

Next ==
  \/ NewBlock \/ Index
  \/ FetchTargets \/ QuoteBatch \/ NextOrder \/ ReadBlock
  \/ \E answered \in BOOLEAN : QuotePairs(answered)
  \/ Fork \/ Debug \/ RequestFails

Spec == Init /\ [][Next]_vars

-----------------------------------------------------------------------------
(* Properties *)

(* The state has the form that it should have: only orders that were live  *)
(* are indexed, and no quote is of a block that is not there yet.          *)
TypeOK ==
  /\ Latest \in 1 .. MaxBlocks
  /\ index \subseteq EverLive /\ call.known \subseteq index
  /\ call.pc \in {"fetch", "order", "block", "quote", "fork", "debug", "done", "error"}
  /\ call.block \in {None} \cup DOMAIN chain
  /\ \A i \in DOMAIN call.targets : call.targets[i] \in {None, call.args.batch[i]}

Batch == call.pc = "done" /\ call.args.kind \in {"targets", "specs"}

(* Result i of a batch (quote.rs) is what the chain says of target i at the*)
(* block of the multicall, however many specs before it have no target.    *)
ResultsAligned ==
  Batch =>
    /\ DOMAIN call.results = DOMAIN call.args.batch
    /\ \A i \in DOMAIN call.results :
         LET result == call.results[i]
             said == QuoteAt(call.args.batch[i], call.block)
         IN  \/ result = said
             \/ result.status = "NonExistent"
                /\ (call.targets[i] = None \/ said.status = "exists")
             \/ result.status \in {"RevertError", "RevertErrorDecodeFailed"}
                /\ said.status = "reverted"
             \/ result.status = "CorruptReturnData" /\ said.status = "empty"

(* "Order does not exist" (error.rs) is only said of an order that is not  *)
(* live at the block that was quoted, that the subgraph did not know when  *)
(* the call began, or whose bytes it cannot give.                          *)
NonExistentIsNot ==
  Batch =>
    \A i \in DOMAIN call.results :
      LET t == call.args.batch[i]
      IN  call.results[i].status = "NonExistent" =>
            \/ t.order \notin chain[call.block].live
            \/ call.args.kind = "specs"
               /\ (t.order \notin call.known \/ t.order \in Unreadable \/ t.book # Book)

(* Every target of a batch has the answer that is its own.                 *)
BatchAnswered == TypeOK /\ ResultsAligned /\ NonExistentIsNot

(* get_order_quotes has a row for every pair of different tokens of an     *)
(* order, each time the order is asked for and no more often, and no row of*)
(* another pair; each row is of its own pair at its own block, the same for*)
(* all rows of an order and the one that was asked for if one was; orders  *)
(* come in the order they were given, and later ones are not quoted earlier*)
(* than those before.                                                      *)
PairsQuoted ==
  call.pc = "done" /\ call.args.kind = "orders" =>
    LET rows == call.results
        batch == call.args.batch
        asked(o) == {n \in DOMAIN batch : batch[n] = o}
        pairs(o) ==
          {<<i, j>> \in (DOMAIN Tokens[o].inputs) \X (DOMAIN Tokens[o].outputs) :
             Tokens[o].inputs[i] # Tokens[o].outputs[j]}
        ofOrder(o) == {n \in DOMAIN rows : rows[n].pair.order = o}
        ofPair(o, p) ==
          {n \in ofOrder(o) : <<rows[n].pair.input, rows[n].pair.output>> = p}
    IN  /\ \A o \in Orders :
             /\ \A p \in pairs(o) : Cardinality(ofPair(o, p)) = Cardinality(asked(o))
             /\ \A n \in ofOrder(o) : \E p \in pairs(o) : n \in ofPair(o, p)
             /\ Cardinality({rows[n].block : n \in ofOrder(o)}) <= Cardinality(asked(o))
        /\ \A n \in DOMAIN rows :
             LET said == QuoteAt(rows[n].pair, rows[n].block)
             IN  /\ call.args.block # None => rows[n].block = call.args.block
                 /\ rows[n].result.status = "ok" => rows[n].result = said
                 /\ said.status = "ok" =>
                      rows[n].result.status \in {"ok", "RpcCallError"}
        /\ \A m, n \in DOMAIN rows : m < n =>
             /\ rows[m].block <= rows[n].block
             /\ \E k \in asked(rows[m].pair.order), l \in asked(rows[n].pair.order) : k <= l

=============================================================================
