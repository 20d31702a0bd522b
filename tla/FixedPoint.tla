----------------------------- MODULE FixedPoint -----------------------------
(***************************************************************************)
(* Unsigned fixed point arithmetic as the order book uses it: amounts in   *)
(* token units are rescaled to and from FpDecimals (18) decimals, with a   *)
(* rounding direction and a saturation flag, and multiplied as fixed point *)
(* numbers rounding up.  The library lives in a git submodule, so the      *)
(* operators are modelled from its call sites in OrderBook.sol.            *)
(*                                                                         *)
(* The operators return exact naturals.  Where the code errors on overflow *)
(* the caller adds Fits(x) to its guard; where it saturates the caller     *)
(* applies Saturate.                                                       *)
(***************************************************************************)
EXTENDS Integers

CONSTANTS
  FpDecimals,    \* decimals of the common representation: 18 in the code
  MaxDecimals,   \* largest decimals of a token: 255 (uint8) in the code
  Scale,         \* Scale[k] is 10^k in the code
  MaxUint        \* 2^256 - 1 in the code

ASSUME FixedPointAssumption ==
  /\ FpDecimals \in Nat
  /\ MaxDecimals \in Nat
  /\ FpDecimals <= MaxDecimals
  /\ Scale \in [0..MaxDecimals -> Nat \ {0}]
  /\ MaxUint \in Nat

(* The scales are the powers of one base. *)
ASSUME ScaleAssumption ==
  \A a, b \in 0..MaxDecimals :
    a + b <= MaxDecimals => Scale[a + b] = Scale[a] * Scale[b]

-----------------------------------------------------------------------------

(* 1.0 in the common representation. *)
One == Scale[FpDecimals]

Fits(x) == x <= MaxUint

Saturate(x) == IF Fits(x) THEN x ELSE MaxUint

Smaller(x, y) == IF x < y THEN x ELSE y

DivDown(x, y) == x \div y

DivUp(x, y) == (x + y - 1) \div y

(* Token units to 18 decimals; only a token of more decimals is rounded.   *)
Scale18(x, decimals) ==
  IF decimals <= FpDecimals THEN x * Scale[FpDecimals - decimals]
                            ELSE DivDown(x, Scale[decimals - FpDecimals])

Scale18Up(x, decimals) ==
  IF decimals <= FpDecimals THEN x * Scale[FpDecimals - decimals]
                            ELSE DivUp(x, Scale[decimals - FpDecimals])

(* 18 decimals to token units; only a token of fewer decimals is rounded.  *)
ScaleN(x, decimals) ==
  IF decimals <= FpDecimals THEN DivDown(x, Scale[FpDecimals - decimals])
                            ELSE x * Scale[decimals - FpDecimals]

ScaleNUp(x, decimals) ==
  IF decimals <= FpDecimals THEN DivUp(x, Scale[FpDecimals - decimals])
                            ELSE x * Scale[decimals - FpDecimals]

(* The product is taken in 512 bits, so only the result has to fit.        *)
MulUp(x, y) == DivUp(x * y, One)

=============================================================================
