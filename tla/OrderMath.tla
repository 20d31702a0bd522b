------------------------------ MODULE OrderMath ------------------------------
(***************************************************************************)
(* The amounts OrderBook.sol computes when orders trade: the vault cap of  *)
(* calculateOrderIO, one iteration of the takeOrders2 loop, the two sides  *)
(* of calculateClearStateChange, and the balance diffs recordVaultIO adds  *)
(* to the context of an order.                                             *)
(*                                                                         *)
(* An amount named ...18 is in the common 18 decimal representation, every *)
(* other amount in units of its token.  `ratio` is input per output from   *)
(* the point of view of the order.                                         *)
(***************************************************************************)
EXTENDS FixedPoint

CONSTANT
  ContextMod     \* 2^64: the width in which `decimals * 1e18` is computed

(* 18 * 10^18 is less than 2^64. *)
ASSUME ContextModAssumption ==
  /\ ContextMod \in Nat \ {0}
  /\ FpDecimals * One < ContextMod

-----------------------------------------------------------------------------
(* calculateOrderIO *)

(* The owner sends at most the smaller of the vault balance and the limit  *)
(* its expression computed.                                                *)
CapOutputMax(outputMax18, balance, decimals) ==
  Smaller(outputMax18, Scale18(balance, decimals))

(* The decimals an order is told about and recordVaultIO divides out again.*)
(* A uint8 times the literal 1e18 is a uint64 in an unchecked block.       *)
ContextDecimals(decimals) == DivDown((decimals * One) % ContextMod, One)

(* Both vault balances are rescaled for the context with overflow errors.  *)
CalculateFits(inBalance, inDecimals, outBalance, outDecimals) ==
  /\ Fits(Scale18(inBalance, inDecimals))
  /\ Fits(Scale18(outBalance, outDecimals))

-----------------------------------------------------------------------------
(* takeOrders2, the body of the loop for an order that is filled *)

(* Mutation: the input still wanted does not cap the fill. *)
TakerInput18Uncapped(outputMax18, remaining, outDecimals) == outputMax18

TakerInput18(outputMax18, remaining, outDecimals) ==
  Smaller(outputMax18, Saturate(Scale18(remaining, outDecimals)))

TakerInput(takerInput18, outDecimals) ==
  Saturate(ScaleN(takerInput18, outDecimals))

(* Mutation: the product is rounded up, its rescaling is not. *)
TakerOutputRoundedDown(takerInput18, ratio, inDecimals) ==
  ScaleN(MulUp(takerInput18, ratio), inDecimals)

TakerOutput(takerInput18, ratio, inDecimals) ==
  ScaleNUp(MulUp(takerInput18, ratio), inDecimals)

TakeFits(takerInput18, ratio, inDecimals) ==
  /\ Fits(MulUp(takerInput18, ratio))
  /\ Fits(TakerOutput(takerInput18, ratio, inDecimals))

-----------------------------------------------------------------------------
(* calculateClearStateAlice, called once for each side *)

(* An order gives no more than the counterparty's greatest input. *)
ClearOutput18(outputMax18, theirMax18, theirRatio) ==
  Smaller(outputMax18, MulUp(theirMax18, theirRatio))

ClearOutput(output18, outDecimals) == ScaleN(output18, outDecimals)

ClearInput(output18, ratio, inDecimals) ==
  ScaleNUp(MulUp(output18, ratio), inDecimals)

ClearFits(outputMax18, output18, ratio, inDecimals, outDecimals) ==
  /\ Fits(MulUp(outputMax18, ratio))
  /\ Fits(ScaleN(output18, outDecimals))
  /\ Fits(ClearInput(output18, ratio, inDecimals))

-----------------------------------------------------------------------------
(* recordVaultIO, the balance diffs of the context *)

(* Mutation: the diff is left in units of the token. *)
InputDiff18Unscaled(input, inDecimals) == input

InputDiff18(input, inDecimals) == Scale18(input, ContextDecimals(inDecimals))

OutputDiff18(output, outDecimals) ==
  Scale18Up(output, ContextDecimals(outDecimals))

RecordFits(input, inDecimals, output, outDecimals) ==
  /\ Fits(InputDiff18(input, inDecimals))
  /\ Fits(OutputDiff18(output, outDecimals))

=============================================================================
