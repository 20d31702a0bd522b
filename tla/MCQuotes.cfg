CONSTANTS
  o1 = o1
  o2 = o2
  o3 = o3
  other = other
  t1 = t1
  t2 = t2
  Book = Book
  None = None
  Orders = {o1, o2, o3}
  Tokens <- MCTokens
  Reverting = {o3}
  Unreadable = {o3}
  Calls <- MCCalls
  DefaultFirst = 3
  MaxBlocks = 2
SPECIFICATION Spec
INVARIANTS
  BatchAnswered
  PairsQuoted
