------------------------------ MODULE MCQuotes -----------------------------
(* Quotes of three orders: one with two inputs and two outputs, one of a   *)
(* token with itself, and one that reverts or has bytes that are not read. *)
EXTENDS Quotes

CONSTANTS o1, o2, o3, other, t1, t2

MCTokens ==
  [o \in Orders |->
     CASE o = o1 -> [inputs |-> <<t1, t2>>, outputs |-> <<t1, t2>>]
       [] o = o2 -> [inputs |-> <<t1>>, outputs |-> <<t1>>]
       [] OTHER -> [inputs |-> <<t1>>, outputs |-> <<t2>>]]

At(book, o, i, j) == [book |-> book, order |-> o, input |-> i, output |-> j]
Specs == <<At(Book, o2, 1, 1), At(Book, o1, 1, 2), At(other, o1, 1, 2),
           At(Book, o3, 1, 1), At(Book, o1, 2, 1)>>
Given(pieces, rest) == [pieces |-> pieces, rest |-> rest]
NoInput == [input |-> None, target |-> None, spec |-> None]

MCCalls ==
  {RunQuoter([NoInput EXCEPT !.input = Given(Specs, FALSE)], TRUE, None),
   RunQuoter([NoInput EXCEPT !.input = Given(Specs, TRUE)], TRUE, None),
   RunQuoter([NoInput EXCEPT !.target = Given(Specs, FALSE)], FALSE, None),
   RunQuoter([NoInput EXCEPT !.spec = Given(Specs, FALSE)], FALSE, 1),
   RunQuoter([NoInput EXCEPT !.spec = Given(<<At(Book, o3, 2, 1)>>, FALSE)], TRUE, 1),
   RunQuoter(NoInput, TRUE, 1),
   DoQuoteTargets(<<At(Book, o3, 1, 2)>>, 1), DoQuoteSpecs(Specs, 1),
   GetOrderQuote(<<o1, o2>>, None), GetOrderQuote(<<o2, o3>>, 1),
   BatchOrderQuotes(<<o1, o2, o1>>, None), BatchOrderQuotes(<<o2, o1>>, 1),
   DebugOrderQuote(At(Book, o1, 1, 2), None), DebugOrderQuote(At(Book, o3, 2, 1), 1)}

=============================================================================
