-------------------------------- MODULE Runs --------------------------------
(***************************************************************************)
(* What the fuzz runner and the unit test runner have in common: the       *)
(* blocks of a scenario, as a text and as a list of numbers, and the       *)
(* bindings of one run, where those that the document elides are drawn.    *)
(***************************************************************************)
EXTENDS Integers, Sequences, FiniteSets

CONSTANTS
  Genesis, Latest, \* the blocks that are no number
  None,            \* Option::None, and an empty end of a range
  Error, Endless   \* outcomes of expanding blocks that are no list

BlocksAssumption == Genesis # Latest /\ {Genesis, Latest, None} \cap Nat = {}

(* Block::to_block_number                                                  *)
ToBlockNumber(block, latest) ==
  CASE block = Genesis -> 0
    [] block = Latest -> latest
    [] OTHER -> block

(* The text a..b, whose ends may be empty: parse_range, and serialize      *)
ParseRange(text) ==
  [start |-> IF text.start = None THEN Genesis ELSE text.start,
   end |-> IF text.end = None THEN Latest ELSE text.end]

Serialize(range) ==
  [end \in {"start", "end"} |-> IF range[end] \in {Genesis, Latest} THEN None ELSE range[end]]

(* BlockRange::validate                                                    *)
Validate(range, latest) ==
  ToBlockNumber(range.start, latest) <= ToBlockNumber(range.end, latest)

(* Blocks::expand_to_block_numbers; the loop over an interval of 0 pushes  *)
(* the same block for ever.                                                *)
ExpandToBlockNumbers(blocks, latest) ==
  LET start == ToBlockNumber(blocks.range.start, latest)
      end == ToBlockNumber(blocks.range.end, latest)
      interval == IF blocks.interval = None THEN 1 ELSE blocks.interval
  IN  IF ~Validate(blocks.range, latest) THEN Error
      ELSE IF interval = 0 THEN Endless
      ELSE [i \in 1 .. (end - start) \div interval + 1 |-> start + (i - 1) * interval]

(* A scenario without blocks runs at the latest.                           *)
BlocksOf(blocks, latest) ==
  IF blocks = None THEN <<latest>> ELSE ExpandToBlockNumbers(blocks, latest)

(* The keys of a document whose bindings are elided, in the order of its   *)
(* namespace, which is that of a hash map                                  *)
Elided(keys, bound) ==
  {order \in [1 .. Cardinality(keys \ bound) -> keys \ bound] :
     \A i, j \in DOMAIN order : order[i] = order[j] => i = j}

(* The bindings of one run: those of the scenario, and for every elided key*)
(* the next of the values that the random number generator gives           *)
FinalBindings(order, bound, drawn) ==
  [key \in bound \cup {order[i] : i \in DOMAIN order} |->
     IF key \in bound THEN "bound"
     ELSE drawn + (CHOOSE i \in DOMAIN order : order[i] = key)]
=============================================================================
