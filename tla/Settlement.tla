----------------------------- MODULE Settlement -----------------------------
(***************************************************************************)
(* One settlement: an order filled by takeOrders2, or two orders cleared   *)
(* by clear2, for arbitrary vault balances, token decimals and outcomes of *)
(* the order expressions.  The state is the pending trade and, once        *)
(* settled, the amounts that would move; the properties relate the two.    *)
(***************************************************************************)
EXTENDS OrderMath

CONSTANTS
  Amounts,       \* vault balances and limits of the taker, in token units
  OutputMaxes,   \* output limits an expression may return, 18 decimals
  Ratios,        \* ratios an expression may return, 18 decimals
  Decimals       \* decimals an order may declare for a token

ASSUME SettlementAssumption ==
  /\ Amounts \subseteq 0..MaxUint
  /\ OutputMaxes \subseteq 0..MaxUint
  /\ Ratios \subseteq 0..MaxUint
  /\ Decimals \subseteq 0..MaxDecimals

VARIABLES trade, result

vars == <<trade, result>>

(* A fill in takeOrders2: `remaining` is what the taker still wants. *)
Takes == [kind : {"take"}, outputMax : OutputMaxes, ratio : Ratios,
          balance : Amounts, remaining : Amounts \ {0},
          outDecimals : Decimals, inDecimals : Decimals]

(* A clear: alice's output token is bob's input token and vice versa. *)
Clears == [kind : {"clear"}, aliceMax : OutputMaxes, aliceRatio : Ratios,
           aliceBalance : Amounts, aliceDecimals : Decimals,
           bobMax : OutputMaxes, bobRatio : Ratios,
           bobBalance : Amounts, bobDecimals : Decimals]

Pending == [status |-> "pending"]

Reverted == [status |-> "reverted"]

Init == trade \in Takes \cup Clears /\ result = Pending

-----------------------------------------------------------------------------

(* The vault capped limit of the order being taken. *)
TakeMax(t) == CapOutputMax(t.outputMax, t.balance, t.outDecimals)

Taken18(t) == TakerInput18(TakeMax(t), t.remaining, t.outDecimals)

(* An order of zero outputMax is skipped, which moves nothing. *)
SettleTake ==
  /\ result = Pending
  /\ trade.kind = "take"
  /\ LET input18 == Taken18(trade)
         input   == TakerInput(input18, trade.outDecimals)
         output  == TakerOutput(input18, trade.ratio, trade.inDecimals)
     IN  result' = IF TakeMax(trade) = 0
                     THEN [status |-> "skipped"]
                   ELSE IF /\ Fits(Scale18(trade.balance, trade.outDecimals))
                           /\ TakeFits(input18, trade.ratio, trade.inDecimals)
                           /\ RecordFits(output, trade.inDecimals,
                                         input, trade.outDecimals)
                     THEN [status |-> "taken", takerInput |-> input,
                           takerOutput |-> output]
                     ELSE Reverted
  /\ UNCHANGED trade

AliceMax(t) == CapOutputMax(t.aliceMax, t.aliceBalance, t.aliceDecimals)

BobMax(t) == CapOutputMax(t.bobMax, t.bobBalance, t.bobDecimals)

ClearStateChange(t) ==
  LET alice18 == ClearOutput18(AliceMax(t), BobMax(t), t.bobRatio)
      bob18   == ClearOutput18(BobMax(t), AliceMax(t), t.aliceRatio)
  IN  [status      |-> "cleared",
       aliceOutput |-> ClearOutput(alice18, t.aliceDecimals),
       aliceInput  |-> ClearInput(alice18, t.aliceRatio, t.bobDecimals),
       bobOutput   |-> ClearOutput(bob18, t.bobDecimals),
       bobInput    |-> ClearInput(bob18, t.bobRatio, t.aliceDecimals)]

ClearAmountsFit(t) ==
  LET alice18 == ClearOutput18(AliceMax(t), BobMax(t), t.bobRatio)
      bob18   == ClearOutput18(BobMax(t), AliceMax(t), t.aliceRatio)
  IN  /\ Fits(Scale18(t.aliceBalance, t.aliceDecimals))
      /\ Fits(Scale18(t.bobBalance, t.bobDecimals))
      /\ ClearFits(AliceMax(t), alice18, t.aliceRatio, t.bobDecimals,
                   t.aliceDecimals)
      /\ ClearFits(BobMax(t), bob18, t.bobRatio, t.aliceDecimals,
                   t.bobDecimals)

(* Mutation: the bounties are not checked for underflow. *)
BountiesUnchecked(c) == TRUE

(* The two checked subtractions that compute the bounties of the clearer.  *)
BountiesFit(c) == c.aliceOutput >= c.bobInput /\ c.bobOutput >= c.aliceInput

SettleClear ==
  /\ result = Pending
  /\ trade.kind = "clear"
  /\ LET c == ClearStateChange(trade)
     IN  result' = IF /\ ClearAmountsFit(trade)
                      /\ RecordFits(c.aliceInput, trade.bobDecimals,
                                    c.aliceOutput, trade.aliceDecimals)
                      /\ RecordFits(c.bobInput, trade.aliceDecimals,
                                    c.bobOutput, trade.bobDecimals)
                      /\ BountiesFit(c)
                     THEN c
                     ELSE Reverted
  /\ UNCHANGED trade

Next == SettleTake \/ SettleClear

Spec == Init /\ [][Next]_vars

-----------------------------------------------------------------------------
(* Properties *)

(* An amount in units of the finest token, so that amounts of tokens with  *)
(* different decimals, and 18 decimal amounts, compare exactly.            *)
Exact(x, decimals) == x * Scale[MaxDecimals - decimals]

(* A fill never takes more than the vault holds nor more than the taker    *)
(* still wants, and a clear no more than either vault holds, whatever the  *)
(* decimals and however the rescaling rounds or saturates: the checked     *)
(* subtractions of recordVaultIO and of remainingTakerInput cannot panic   *)
(* and abort the whole takeOrders2 batch.                                  *)
NeverOverdraws ==
  /\ result.status = "taken" =>
       /\ result.takerInput <= trade.balance
       /\ result.takerInput <= trade.remaining
  /\ result.status = "cleared" =>
       /\ result.aliceOutput <= trade.aliceBalance
       /\ result.bobOutput <= trade.bobBalance

(* The owner of a taken order is paid at least its ratio times what leaves *)
(* its vault, after both roundings ("Always round IO calculations up so    *)
(* the taker pays more", OrderBook.sol).  What they cost the taker is      *)
(* bounded: less than the price of one unit of the token it buys plus one  *)
(* unit of the token it pays in plus one 18 decimal unit.                  *)
TakePaysRatio ==
  result.status = "taken" =>
    LET paid == Exact(result.takerOutput, trade.inDecimals) * One
        bought == Exact(result.takerInput, trade.outDecimals)
    IN  /\ paid >= bought * trade.ratio
        /\ paid < (bought + Exact(1, trade.outDecimals)) * trade.ratio
                  + (Exact(1, trade.inDecimals) + Exact(1, FpDecimals)) * One

(* Both owners of a clear receive at least their own ratio of what they    *)
(* give, although each side's amounts are computed independently.          *)
ClearPaysRatios ==
  result.status = "cleared" =>
    /\ Exact(result.aliceInput, trade.bobDecimals) * One
         >= Exact(result.aliceOutput, trade.aliceDecimals) * trade.aliceRatio
    /\ Exact(result.bobInput, trade.aliceDecimals) * One
         >= Exact(result.bobOutput, trade.bobDecimals) * trade.bobRatio

(* Owners get their ratio, in takes and in clears (calculateOrderIO and    *)
(* the roundings of takeOrders2 and calculateClearStateAlice).             *)
PaysRatios == TakePaysRatio /\ ClearPaysRatios

(* "At least one of these will overflow due to negative bounties if there  *)
(* is a spread between the orders" (OrderBook.sol, clear2): when the       *)
(* ratios do not cross, a clear never settles, provided both orders have   *)
(* something to give.  (With an empty side it settles, and moves nothing.) *)
SpreadNeverClears ==
  /\ result.status = "cleared"
  /\ trade.aliceRatio * trade.bobRatio > One * One
  => /\ AliceMax(trade) = 0 \/ BobMax(trade) = 0
     /\ result.aliceOutput = 0 /\ result.bobOutput = 0
     /\ result.aliceInput = 0 /\ result.bobInput = 0

(* The balance diffs an order's handle IO sees in its context are the      *)
(* amounts that moved: the input rounded down, the output rounded up, each *)
(* by less than one 18 decimal unit ("This only happens if the token has   *)
(* more than 18 decimals", OrderBook.sol, recordVaultIO).                  *)
ContextDiffsMatch(in, inDecimals, out, outDecimals) ==
  /\ Exact(InputDiff18(in, inDecimals), FpDecimals) <= Exact(in, inDecimals)
  /\ Exact(in, inDecimals)
       < Exact(InputDiff18(in, inDecimals) + 1, FpDecimals)
  /\ Exact(OutputDiff18(out, outDecimals), FpDecimals)
       >= Exact(out, outDecimals)
  /\ Exact(out, outDecimals)
       > Exact(OutputDiff18(out, outDecimals) - 1, FpDecimals)

(* The context is right for every token of at most 18 decimals. *)
ContextDiffsMatchUpTo18 ==
  /\ result.status = "taken"
  /\ trade.inDecimals <= FpDecimals
  /\ trade.outDecimals <= FpDecimals
  => ContextDiffsMatch(result.takerOutput, trade.inDecimals,
                       result.takerInput, trade.outDecimals)

(* The context is right for every token, those of more than 18 decimals    *)
(* included, as the rounding recordVaultIO asks for them supposes.         *)
ContextDiffsMatchAnyDecimals ==
  result.status = "taken" =>
    ContextDiffsMatch(result.takerOutput, trade.inDecimals,
                      result.takerInput, trade.outDecimals)

=============================================================================
