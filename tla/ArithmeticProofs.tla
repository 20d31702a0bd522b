--------------------------- MODULE ArithmeticProofs ---------------------------
(***************************************************************************)
(* Facts that the proofs of several components rest on: how sums change    *)
(* when a summand does, and the arithmetic of orders, for every scale,     *)
(* width and amount.                                                       *)
(***************************************************************************)
EXTENDS OrderMath, Totals, FiniteSetTheorems, TLAPS

-----------------------------------------------------------------------------
(* Totals. A sum is a number of units, so these are facts about the        *)
(* cardinality of disjoint unions.                                         *)

(* The units of one key are as many as its value.                          *)
LEMMA UnitsOfKey ==
  ASSUME NEW k, NEW n \in Nat
  PROVE  /\ IsFiniteSet({k} \X (1..n))
         /\ Cardinality({k} \X (1..n)) = n
<1>1. IsFiniteSet({k}) /\ Cardinality({k}) = 1
  BY FS_Singleton
<1>2. IsFiniteSet(1..n) /\ Cardinality(1..n) = n
  <2>1. 1 \in Int /\ n \in Int
    OBVIOUS
  <2>2. /\ IsFiniteSet(1..n)
        /\ Cardinality(1..n) = IF 1 > n THEN 0 ELSE n - 1 + 1
    BY <2>1, FS_Interval
  <2> QED BY <2>2
<1>3. /\ IsFiniteSet({k} \X (1..n))
      /\ Cardinality({k} \X (1..n)) = Cardinality({k}) * Cardinality(1..n)
  BY <1>1, <1>2, FS_Product
<1> QED BY <1>1, <1>2, <1>3

(* Finitely many keys have finitely many units, so a total is a number.    *)
LEMMA TotalType ==
  ASSUME NEW K, IsFiniteSet(K), NEW f, \A k \in K : f[k] \in Nat
  PROVE  IsFiniteSet(Units(f, K)) /\ Total(f, K) \in Nat
<1> DEFINE g == [k \in K |-> {k} \X (1..f[k])]
           T == {{k} \X (1..f[k]) : k \in K}
<1>1. g \in Surjection(K, T)
  BY DEF Surjection
<1>2. IsFiniteSet(T)
  BY <1>1, FS_Surjection
<1>3. ASSUME NEW S \in T PROVE IsFiniteSet(S)
  <2>1. PICK k \in K : S = {k} \X (1..f[k])
    OBVIOUS
  <2>2. f[k] \in Nat
    OBVIOUS
  <2> QED BY <2>1, <2>2, UnitsOfKey
<1>4. IsFiniteSet(UNION T)
  BY <1>2, <1>3, FS_UNION
<1>5. IsFiniteSet(Units(f, K))
  BY <1>4 DEF Units
<1> QED BY <1>5, FS_CardinalityType DEF Total

(* A total depends on the values of its keys only.                         *)
LEMMA TotalSame ==
  ASSUME NEW K, NEW f, NEW g, \A k \in K : f[k] = g[k]
  PROVE  Total(f, K) = Total(g, K)
<1>1. Units(f, K) = Units(g, K)
  BY DEF Units
<1> QED BY <1>1 DEF Total

(* One key can be taken out of a total.                                    *)
LEMMA TotalSplit ==
  ASSUME NEW K, IsFiniteSet(K), NEW f, \A j \in K : f[j] \in Nat,
         NEW k \in K
  PROVE  Total(f, K) = Total(f, K \ {k}) + f[k]
<1> DEFINE A == Units(f, K \ {k})
           B == {k} \X (1..f[k])
<1>1. IsFiniteSet(K \ {k})
  BY FS_Difference
<1>2. IsFiniteSet(A) /\ Cardinality(A) \in Nat
  BY <1>1, TotalType DEF Total
<1>3. IsFiniteSet(B) /\ Cardinality(B) = f[k]
  BY UnitsOfKey
<1>4. Units(f, K) = A \cup B
  BY DEF Units
<1>5. A \cap B = {}
  BY DEF Units
<1>6. Cardinality(A \cup B) = Cardinality(A) + Cardinality(B)
                                - Cardinality(A \cap B)
  BY <1>2, <1>3, FS_Union
<1>7. Cardinality(A \cap B) = 0
  BY <1>5, FS_EmptySet
<1>8. f[k] \in Nat
  OBVIOUS
<1> QED BY <1>2, <1>3, <1>4, <1>6, <1>7, <1>8 DEF Total

(* Changing one value changes a total by the difference.                   *)
LEMMA TotalUpdate ==
  ASSUME NEW K, IsFiniteSet(K), NEW k \in K, NEW f, NEW g,
         \A j \in K : f[j] \in Nat /\ g[j] \in Nat,
         \A j \in K \ {k} : f[j] = g[j]
  PROVE  Total(g, K) = Total(f, K) - f[k] + g[k]
<1>1. Total(f, K \ {k}) = Total(g, K \ {k})
  BY TotalSame
<1>2. Total(f, K) = Total(f, K \ {k}) + f[k]
  BY TotalSplit
<1>3. Total(g, K) = Total(g, K \ {k}) + g[k]
  BY TotalSplit
<1>4. IsFiniteSet(K \ {k})
  BY FS_Difference
<1>5. Total(f, K \ {k}) \in Nat /\ f[k] \in Nat /\ g[k] \in Nat
  BY <1>4, TotalType
<1> QED BY <1>1, <1>2, <1>3, <1>5

(* A function that is zero everywhere has total zero.                      *)
LEMMA TotalZero ==
  ASSUME NEW K, NEW f, \A k \in K : f[k] = 0
  PROVE  Total(f, K) = 0
<1>1. \A k \in K : {k} \X (1..f[k]) = {}
  <2> SUFFICES ASSUME NEW k \in K PROVE {k} \X (1..f[k]) = {}
    OBVIOUS
  <2>1. f[k] = 0
    OBVIOUS
  <2>2. 1..f[k] = {}
    BY <2>1
  <2> QED BY <2>2
<1>2. Units(f, K) = {}
  BY <1>1 DEF Units
<1> QED BY <1>2, FS_EmptySet DEF Total

(* No summand is more than the total.                                      *)
LEMMA TotalBounds ==
  ASSUME NEW K, IsFiniteSet(K), NEW f, \A j \in K : f[j] \in Nat,
         NEW k \in K
  PROVE  f[k] <= Total(f, K)
<1>1. Total(f, K) = Total(f, K \ {k}) + f[k]
  BY TotalSplit
<1>2. IsFiniteSet(K \ {k})
  BY FS_Difference
<1>3. Total(f, K \ {k}) \in Nat /\ f[k] \in Nat
  BY <1>2, TotalType
<1> QED BY <1>1, <1>3

-----------------------------------------------------------------------------
(* The arithmetic of orders *)

LEMMA ProductType ==
  ASSUME NEW x \in Nat, NEW y \in Nat
  PROVE  x * y \in Nat
OBVIOUS

LEMMA DivType ==
  ASSUME NEW x \in Nat, NEW y \in Nat \ {0}
  PROVE  DivDown(x, y) \in Nat /\ DivUp(x, y) \in Nat
<1>1. x \div y \in Nat
  OBVIOUS
<1>2. (x + y - 1) \in Nat
  OBVIOUS
<1>3. (x + y - 1) \div y \in Nat
  BY <1>2
<1> QED BY <1>1, <1>3 DEF DivDown, DivUp

LEMMA ScaleType ==
  ASSUME NEW d \in 0..MaxDecimals
  PROVE  /\ d <= FpDecimals => Scale[FpDecimals - d] \in Nat \ {0}
         /\ ~(d <= FpDecimals) => Scale[d - FpDecimals] \in Nat \ {0}
         /\ One \in Nat \ {0}
BY FixedPointAssumption DEF One

(* Rescaling a natural in any direction gives a natural. *)
LEMMA RescaleType ==
  ASSUME NEW x \in Nat, NEW d \in 0..MaxDecimals
  PROVE  /\ Scale18(x, d) \in Nat
         /\ Scale18Up(x, d) \in Nat
         /\ ScaleN(x, d) \in Nat
         /\ ScaleNUp(x, d) \in Nat
<1>1. CASE d <= FpDecimals
  <2> DEFINE s == Scale[FpDecimals - d]
  <2>1. s \in Nat \ {0}
    BY <1>1, ScaleType
  <2>2. x * s \in Nat /\ DivDown(x, s) \in Nat /\ DivUp(x, s) \in Nat
    BY <2>1, ProductType, DivType
  <2> QED BY <1>1, <2>2 DEF Scale18, Scale18Up, ScaleN, ScaleNUp
<1>2. CASE ~(d <= FpDecimals)
  <2> DEFINE s == Scale[d - FpDecimals]
  <2>1. s \in Nat \ {0}
    BY <1>2, ScaleType
  <2>2. x * s \in Nat /\ DivDown(x, s) \in Nat /\ DivUp(x, s) \in Nat
    BY <2>1, ProductType, DivType
  <2> QED BY <1>2, <2>2 DEF Scale18, Scale18Up, ScaleN, ScaleNUp
<1> QED BY <1>1, <1>2

LEMMA MulUpType ==
  ASSUME NEW x \in Nat, NEW y \in Nat
  PROVE  MulUp(x, y) \in Nat
<1>1. x * y \in Nat
  BY ProductType
<1>2. One \in Nat \ {0}
  BY FixedPointAssumption DEF One
<1> QED BY <1>1, <1>2, DivType DEF MulUp

LEMMA SmallerType ==
  ASSUME NEW x \in Nat, NEW y \in Nat
  PROVE  Smaller(x, y) \in Nat /\ Smaller(x, y) <= x /\ Smaller(x, y) <= y
BY DEF Smaller

LEMMA SaturateType ==
  ASSUME NEW x \in Nat
  PROVE  Saturate(x) \in Nat /\ Saturate(x) <= x
BY FixedPointAssumption DEF Saturate, Fits

(* Every amount of a trade is a natural.                                   *)
LEMMA TradeTypes ==
  ASSUME NEW max \in Nat, NEW amount \in Nat, NEW ratio \in Nat,
         NEW inDecimals \in 0..MaxDecimals, NEW outDecimals \in 0..MaxDecimals
  PROVE  /\ CapOutputMax(max, amount, outDecimals) \in Nat
         /\ TakerInput18(max, amount, outDecimals) \in Nat
         /\ TakerInput(max, outDecimals) \in Nat
         /\ TakerOutput(max, ratio, inDecimals) \in Nat
         /\ ClearOutput18(max, amount, ratio) \in Nat
         /\ ClearOutput(max, outDecimals) \in Nat
         /\ ClearInput(max, ratio, inDecimals) \in Nat
<1>1. CapOutputMax(max, amount, outDecimals) \in Nat
  BY RescaleType, SmallerType DEF CapOutputMax
<1>2. TakerInput18(max, amount, outDecimals) \in Nat
  BY RescaleType, SmallerType, SaturateType DEF TakerInput18
<1>3. TakerInput(max, outDecimals) \in Nat
  BY RescaleType, SaturateType DEF TakerInput
<1>4. MulUp(max, ratio) \in Nat /\ MulUp(amount, ratio) \in Nat
  BY MulUpType
<1>5. TakerOutput(max, ratio, inDecimals) \in Nat
  BY <1>4, RescaleType DEF TakerOutput
<1>6. ClearOutput18(max, amount, ratio) \in Nat
  BY <1>4, SmallerType DEF ClearOutput18
<1>7. ClearOutput(max, outDecimals) \in Nat
  BY RescaleType DEF ClearOutput
<1>8. ClearInput(max, ratio, inDecimals) \in Nat
  BY <1>4, RescaleType DEF ClearInput
<1> QED BY <1>1, <1>2, <1>3, <1>5, <1>6, <1>7, <1>8

LEMMA ClearOutputType ==
  ASSUME NEW amount \in Nat, NEW decimals \in 0..MaxDecimals
  PROVE  ClearOutput(amount, decimals) \in Nat
BY TradeTypes

LEMMA ClearInputType ==
  ASSUME NEW amount \in Nat, NEW ratio \in Nat,
         NEW decimals \in 0..MaxDecimals
  PROVE  ClearInput(amount, ratio, decimals) \in Nat
BY TradeTypes

-----------------------------------------------------------------------------
(* Products and quotients *)

LEMMA ProductMono ==
  ASSUME NEW x \in Nat, NEW y \in Nat, NEW z \in Nat, x <= y
  PROVE  x * z <= y * z
OBVIOUS

LEMMA ProductStrict ==
  ASSUME NEW x \in Nat, NEW y \in Nat, NEW z \in Nat \ {0}, x < y
  PROVE  x * z < y * z
OBVIOUS

LEMMA ProductCancel ==
  ASSUME NEW x \in Nat, NEW y \in Nat, NEW z \in Nat \ {0}, x * z <= y * z
  PROVE  x <= y
<1>1. ~(y < x)
  BY ProductStrict
<1> QED BY <1>1

LEMMA ProductRegroup ==
  ASSUME NEW x \in Nat, NEW y \in Nat, NEW z \in Nat
  PROVE  /\ (x * y) * z = x * (y * z)
         /\ (x * y) * z = (x * z) * y
         /\ (x + y) * z = x * z + y * z
OBVIOUS

(* The quotient rounded down, and up, is within one of the exact one.      *)
LEMMA DivBounds ==
  ASSUME NEW x \in Nat, NEW y \in Nat \ {0}
  PROVE  /\ DivDown(x, y) * y <= x
         /\ x < DivDown(x, y) * y + y
         /\ x <= DivUp(x, y) * y
         /\ DivUp(x, y) * y < x + y
<1>1. ASSUME NEW n \in Nat
      PROVE  (n \div y) * y <= n /\ n < (n \div y) * y + y
  OBVIOUS
<1>2. x + y - 1 \in Nat
  OBVIOUS
<1>3. /\ DivUp(x, y) * y <= x + y - 1
      /\ x + y - 1 < DivUp(x, y) * y + y
  BY <1>1, <1>2 DEF DivUp
<1>4. DivUp(x, y) * y \in Nat
  BY DivType
<1> QED BY <1>1, <1>3, <1>4 DEF DivDown

-----------------------------------------------------------------------------
(* What rescaling does to the exact value of an amount.  Amounts compare   *)
(* in units of the finest token there may be.                              *)

(* A unit of a token of d decimals. *)
Unit(d) == Scale[MaxDecimals - d]

LEMMA UnitType ==
  ASSUME NEW d \in 0..MaxDecimals
  PROVE  /\ Unit(d) \in Nat \ {0} /\ Unit(FpDecimals) \in Nat \ {0}
         /\ One \in Nat \ {0}
BY FixedPointAssumption DEF Unit, One

(* A unit of fewer decimals is a whole number of units of more. *)
LEMMA UnitScale ==
  ASSUME NEW d \in 0..MaxDecimals
  PROVE  /\ d <= FpDecimals =>
              Unit(d) = Scale[FpDecimals - d] * Unit(FpDecimals)
         /\ ~(d <= FpDecimals) =>
              Unit(FpDecimals) = Scale[d - FpDecimals] * Unit(d)
<1>1. CASE d <= FpDecimals
  <2> DEFINE a == FpDecimals - d
             b == MaxDecimals - FpDecimals
  <2>1. a \in 0..MaxDecimals /\ b \in 0..MaxDecimals /\ a + b <= MaxDecimals
        /\ MaxDecimals - d = a + b
    BY <1>1, FixedPointAssumption
  <2> HIDE DEF a, b
  <2>2. Scale[a + b] = Scale[a] * Scale[b]
    BY <2>1, ScaleAssumption
  <2> QED BY <1>1, <2>1, <2>2 DEF Unit, a, b
<1>2. CASE ~(d <= FpDecimals)
  <2> DEFINE a == d - FpDecimals
             b == MaxDecimals - d
  <2>1. a \in 0..MaxDecimals /\ b \in 0..MaxDecimals /\ a + b <= MaxDecimals
        /\ MaxDecimals - FpDecimals = a + b
    BY <1>2, FixedPointAssumption
  <2> HIDE DEF a, b
  <2>2. Scale[a + b] = Scale[a] * Scale[b]
    BY <2>1, ScaleAssumption
  <2> QED BY <1>2, <2>1, <2>2 DEF Unit, a, b
<1> QED BY <1>1, <1>2

(* A quotient of units s of the finer one u, for x of the coarser one. *)
LEMMA QuotientExact ==
  ASSUME NEW x \in Nat, NEW s \in Nat \ {0}, NEW u \in Nat \ {0}
  PROVE  /\ DivDown(x, s) * (s * u) <= x * u
         /\ x * u < (DivDown(x, s) + 1) * (s * u)
         /\ x * u <= DivUp(x, s) * (s * u)
         /\ DivUp(x, s) * (s * u) < x * u + s * u
<1> DEFINE down == DivDown(x, s)
           up == DivUp(x, s)
<1>1. /\ down \in Nat /\ up \in Nat
      /\ down * s <= x /\ x < down * s + s
      /\ x <= up * s /\ up * s < x + s
  BY DivType, DivBounds
<1> HIDE DEF down, up
<1>2. down * s \in Nat /\ up * s \in Nat /\ (down + 1) * s \in Nat
      /\ (down + 1) * s = down * s + s
  BY <1>1, ProductType
<1>3. /\ (down * s) * u <= x * u
      /\ x * u < ((down + 1) * s) * u
      /\ x * u <= (up * s) * u
      /\ (up * s) * u < (x + s) * u
  BY <1>1, <1>2, ProductMono, ProductStrict
<1>4. /\ (down * s) * u = down * (s * u)
      /\ ((down + 1) * s) * u = (down + 1) * (s * u)
      /\ (up * s) * u = up * (s * u)
      /\ (x + s) * u = x * u + s * u
  BY <1>1, ProductRegroup
<1> QED BY <1>3, <1>4 DEF down, up

(* Rescaling to 18 decimals loses less than one 18 decimal unit. *)
LEMMA Scale18Exact ==
  ASSUME NEW x \in Nat, NEW d \in 0..MaxDecimals
  PROVE  /\ Scale18(x, d) * Unit(FpDecimals) <= x * Unit(d)
         /\ x * Unit(d) < (Scale18(x, d) + 1) * Unit(FpDecimals)
<1>1. Unit(d) \in Nat \ {0} /\ Unit(FpDecimals) \in Nat \ {0}
  BY UnitType
<1>2. CASE d <= FpDecimals
  <2> DEFINE s == Scale[FpDecimals - d]
  <2>1. s \in Nat \ {0} /\ Unit(d) = s * Unit(FpDecimals)
        /\ Scale18(x, d) = x * s
    BY <1>2, ScaleType, UnitScale DEF Scale18
  <2> HIDE DEF s
  <2>2. x * s \in Nat /\ x * Unit(d) \in Nat
        /\ (x * s) * Unit(FpDecimals) = x * Unit(d)
    BY <1>1, <2>1, ProductType, ProductRegroup
  <2>3. (x * s + 1) * Unit(FpDecimals)
          = (x * s) * Unit(FpDecimals) + Unit(FpDecimals)
    BY <1>1, <2>2
  <2> QED BY <1>1, <2>1, <2>2, <2>3
<1>3. CASE ~(d <= FpDecimals)
  <2> DEFINE s == Scale[d - FpDecimals]
  <2>1. s \in Nat \ {0} /\ Unit(FpDecimals) = s * Unit(d)
        /\ Scale18(x, d) = DivDown(x, s)
    BY <1>3, ScaleType, UnitScale DEF Scale18
  <2> HIDE DEF s
  <2> QED BY <1>1, <2>1, QuotientExact
<1> QED BY <1>2, <1>3

(* Rescaling from 18 decimals loses less than a unit of the token. *)
LEMMA ScaleNExact ==
  ASSUME NEW x \in Nat, NEW d \in 0..MaxDecimals
  PROVE  /\ ScaleN(x, d) * Unit(d) <= x * Unit(FpDecimals)
         /\ x * Unit(FpDecimals) < (ScaleN(x, d) + 1) * Unit(d)
         /\ ~(d <= FpDecimals) =>
              ScaleN(x, d) * Unit(d) = x * Unit(FpDecimals)
<1>1. Unit(d) \in Nat \ {0} /\ Unit(FpDecimals) \in Nat \ {0}
  BY UnitType
<1>2. CASE d <= FpDecimals
  <2> DEFINE s == Scale[FpDecimals - d]
  <2>1. s \in Nat \ {0} /\ Unit(d) = s * Unit(FpDecimals)
        /\ ScaleN(x, d) = DivDown(x, s)
    BY <1>2, ScaleType, UnitScale DEF ScaleN
  <2> HIDE DEF s
  <2> QED BY <1>1, <1>2, <2>1, QuotientExact
<1>3. CASE ~(d <= FpDecimals)
  <2> DEFINE s == Scale[d - FpDecimals]
  <2>1. s \in Nat \ {0} /\ Unit(FpDecimals) = s * Unit(d)
        /\ ScaleN(x, d) = x * s
    BY <1>3, ScaleType, UnitScale DEF ScaleN
  <2> HIDE DEF s
  <2>2. x * s \in Nat /\ x * Unit(FpDecimals) \in Nat
        /\ (x * s) * Unit(d) = x * Unit(FpDecimals)
    BY <1>1, <2>1, ProductType, ProductRegroup
  <2>3. (x * s + 1) * Unit(d) = (x * s) * Unit(d) + Unit(d)
    BY <1>1, <2>2
  <2> QED BY <1>1, <2>1, <2>2, <2>3
<1> QED BY <1>2, <1>3

(* Rescaling from 18 decimals upwards gains less than a unit of the token. *)
LEMMA ScaleNUpExact ==
  ASSUME NEW x \in Nat, NEW d \in 0..MaxDecimals
  PROVE  /\ x * Unit(FpDecimals) <= ScaleNUp(x, d) * Unit(d)
         /\ ScaleNUp(x, d) * Unit(d) < x * Unit(FpDecimals) + Unit(d)
<1>1. Unit(d) \in Nat \ {0} /\ Unit(FpDecimals) \in Nat \ {0}
  BY UnitType
<1>2. CASE d <= FpDecimals
  <2> DEFINE s == Scale[FpDecimals - d]
  <2>1. s \in Nat \ {0} /\ Unit(d) = s * Unit(FpDecimals)
        /\ ScaleNUp(x, d) = DivUp(x, s)
    BY <1>2, ScaleType, UnitScale DEF ScaleNUp
  <2> HIDE DEF s
  <2> QED BY <1>1, <2>1, QuotientExact
<1>3. CASE ~(d <= FpDecimals)
  <2> DEFINE s == Scale[d - FpDecimals]
  <2>1. s \in Nat \ {0} /\ Unit(FpDecimals) = s * Unit(d)
        /\ ScaleNUp(x, d) = x * s
    BY <1>3, ScaleType, UnitScale DEF ScaleNUp
  <2> HIDE DEF s
  <2>2. x * s \in Nat /\ x * Unit(FpDecimals) \in Nat
        /\ (x * s) * Unit(d) = x * Unit(FpDecimals)
    BY <1>1, <2>1, ProductType, ProductRegroup
  <2> QED BY <1>1, <2>1, <2>2
<1> QED BY <1>2, <1>3

(* The fixed point product gains less than one 18 decimal unit. *)
LEMMA MulUpExact ==
  ASSUME NEW x \in Nat, NEW y \in Nat
  PROVE  x * y <= MulUp(x, y) * One /\ MulUp(x, y) * One < x * y + One
<1>1. x * y \in Nat /\ One \in Nat \ {0}
  BY ProductType, FixedPointAssumption DEF One
<1> QED BY <1>1, DivBounds DEF MulUp

-----------------------------------------------------------------------------
(* What trades pay *)

(* Whoever gives the amount x18, rounded down to units of its token, and   *)
(* receives its ratio times x18, rounded up to units of the other, is paid *)
(* the ratio; what the roundings cost the counterparty is bounded.         *)
LEMMA PaidForExact ==
  ASSUME NEW x18 \in Nat, NEW ratio \in Nat,
         NEW inDecimals \in 0..MaxDecimals
  PROVE  LET paid == ScaleNUp(MulUp(x18, ratio), inDecimals)
                       * Unit(inDecimals) * One
             worth == x18 * Unit(FpDecimals) * ratio
         IN  /\ worth <= paid
             /\ paid < worth + (Unit(inDecimals) + Unit(FpDecimals)) * One
<1> DEFINE y == MulUp(x18, ratio)
           z == ScaleNUp(y, inDecimals)
           u == Unit(inDecimals)
           p == Unit(FpDecimals)
<1>1. u \in Nat \ {0} /\ p \in Nat \ {0} /\ One \in Nat \ {0}
  BY UnitType
<1>2. y \in Nat /\ x18 * ratio <= y * One /\ y * One < x18 * ratio + One
  BY MulUpExact, MulUpType
<1>3. z \in Nat /\ y * p <= z * u /\ z * u < y * p + u
  BY <1>2, ScaleNUpExact, RescaleType
<1> HIDE DEF y, z, u, p
<1>4. /\ x18 * ratio \in Nat /\ y * One \in Nat /\ y * p \in Nat
      /\ z * u \in Nat /\ x18 * p \in Nat
  BY <1>1, <1>2, <1>3, ProductType
<1>5. /\ (x18 * ratio) * p <= (y * One) * p
      /\ (y * One) * p < (x18 * ratio + One) * p
  BY <1>1, <1>2, <1>4, ProductMono, ProductStrict
<1>6. /\ (y * p) * One <= (z * u) * One
      /\ (z * u) * One < (y * p + u) * One
  BY <1>1, <1>3, <1>4, ProductMono, ProductStrict
<1>7. /\ (x18 * ratio) * p = (x18 * p) * ratio
      /\ (y * One) * p = (y * p) * One
      /\ (x18 * ratio + One) * p = (x18 * p) * ratio + p * One
      /\ (y * p + u) * One = (y * p) * One + u * One
      /\ (u + p) * One = u * One + p * One
  BY <1>1, <1>2, <1>4, ProductRegroup
<1>8. /\ (x18 * p) * ratio \in Nat /\ (y * p) * One \in Nat
      /\ (z * u) * One \in Nat /\ u * One \in Nat /\ p * One \in Nat
  BY <1>1, <1>4, ProductType
<1>9. /\ (x18 * p) * ratio <= (z * u) * One
      /\ (z * u) * One < (x18 * p) * ratio + (u + p) * One
  BY <1>5, <1>6, <1>7, <1>8
<1> QED BY <1>9 DEF y, z, u, p

(* What leaves a vault is at most the 18 decimal amount meant, and less    *)
(* than one unit of the token short of it.                                 *)
LEMMA SentOfExact ==
  ASSUME NEW x18 \in Nat, NEW ratio \in Nat, NEW d \in 0..MaxDecimals,
         NEW sent \in Nat, sent * Unit(d) <= x18 * Unit(FpDecimals),
         x18 * Unit(FpDecimals) < (sent + 1) * Unit(d)
  PROVE  /\ sent * Unit(d) * ratio <= x18 * Unit(FpDecimals) * ratio
         /\ x18 * Unit(FpDecimals) * ratio
              <= (sent * Unit(d) + Unit(d)) * ratio
<1> DEFINE a == sent * Unit(d)
           b == x18 * Unit(FpDecimals)
           c == (sent + 1) * Unit(d)
<1>1. Unit(d) \in Nat \ {0} /\ Unit(FpDecimals) \in Nat \ {0}
  BY UnitType
<1>2. a \in Nat /\ b \in Nat /\ c \in Nat /\ c = a + Unit(d)
  BY <1>1, ProductType, ProductRegroup
<1>3. a <= b /\ b <= c
  BY <1>2
<1> HIDE DEF a, b, c
<1>4. a * ratio <= b * ratio /\ b * ratio <= c * ratio
  BY <1>2, <1>3, ProductMono
<1> QED BY <1>2, <1>4 DEF a, b

(* What rescaling made of n units does not rescale to more than n units.   *)
LEMMA RoundTrip ==
  ASSUME NEW x18 \in Nat, NEW n \in Nat, NEW d \in 0..MaxDecimals,
         x18 <= Scale18(n, d)
  PROVE  ScaleN(x18, d) <= n
<1>1. Unit(d) \in Nat \ {0} /\ Unit(FpDecimals) \in Nat \ {0}
  BY UnitType
<1>2. Scale18(n, d) \in Nat /\ ScaleN(x18, d) \in Nat
  BY RescaleType
<1>3. x18 * Unit(FpDecimals) <= Scale18(n, d) * Unit(FpDecimals)
  BY <1>1, <1>2, ProductMono
<1>4. /\ ScaleN(x18, d) * Unit(d) \in Nat
      /\ x18 * Unit(FpDecimals) \in Nat
      /\ Scale18(n, d) * Unit(FpDecimals) \in Nat
      /\ n * Unit(d) \in Nat
  BY <1>1, <1>2, ProductType
<1>5. ScaleN(x18, d) * Unit(d) <= n * Unit(d)
  <2>1. ScaleN(x18, d) * Unit(d) <= x18 * Unit(FpDecimals)
    BY ScaleNExact
  <2>2. Scale18(n, d) * Unit(FpDecimals) <= n * Unit(d)
    BY Scale18Exact
  <2> QED BY <1>3, <1>4, <2>1, <2>2
<1> QED BY <1>1, <1>2, <1>5, ProductCancel

(* The taker's input never saturates: it was capped by an amount in units  *)
(* of its token that fits.  So it never exceeds that amount either.        *)
LEMMA TakerInputExact ==
  ASSUME NEW x18 \in Nat, NEW d \in 0..MaxDecimals, NEW remaining \in Nat,
         Fits(remaining), x18 <= Saturate(Scale18(remaining, d))
  PROVE  /\ TakerInput(x18, d) = ScaleN(x18, d)
         /\ TakerInput(x18, d) \in Nat /\ TakerInput(x18, d) <= remaining
<1>1. Scale18(remaining, d) \in Nat /\ ScaleN(x18, d) \in Nat
  BY RescaleType
<1>2. x18 <= Scale18(remaining, d)
  BY <1>1, SaturateType
<1>3. ScaleN(x18, d) <= remaining
  BY <1>2, RoundTrip
<1> QED BY <1>1, <1>3, FixedPointAssumption DEF TakerInput, Saturate, Fits

(* What a take pays for one fill, against the ratio its taker accepts.     *)
LEMMA FillWithinRatio ==
  ASSUME NEW x18 \in Nat, NEW ratio \in Nat, NEW limit \in Nat,
         ratio <= limit, NEW inDecimals \in 0..MaxDecimals,
         NEW outDecimals \in 0..MaxDecimals, NEW remaining \in Nat,
         Fits(remaining), x18 <= Saturate(Scale18(remaining, outDecimals))
  PROVE  TakerOutput(x18, ratio, inDecimals) * Unit(inDecimals) * One
           <= (TakerInput(x18, outDecimals) + 1) * Unit(outDecimals) * limit
              + (Unit(inDecimals) + Unit(FpDecimals)) * One
<1> DEFINE sent == TakerInput(x18, outDecimals)
           paid == TakerOutput(x18, ratio, inDecimals)
           u == Unit(inDecimals)
           w == Unit(outDecimals)
           p == Unit(FpDecimals)
<1>1. /\ u \in Nat \ {0} /\ w \in Nat \ {0} /\ p \in Nat \ {0}
      /\ One \in Nat \ {0}
  BY UnitType
<1>2. sent \in Nat /\ sent * w <= x18 * p /\ x18 * p < (sent + 1) * w
  BY TakerInputExact, ScaleNExact
<1>3. x18 * p * ratio <= (sent * w + w) * ratio
  BY <1>2, SentOfExact
<1>4. paid * u * One < x18 * p * ratio + (u + p) * One
  BY PaidForExact DEF TakerOutput
<1>5. paid \in Nat
  BY TradeTypes
<1> HIDE DEF sent, paid, u, w, p
<1>6. (sent + 1) * w \in Nat /\ (sent + 1) * w = sent * w + w
  BY <1>1, <1>2, ProductType, ProductRegroup
<1>7. ((sent + 1) * w) * ratio <= ((sent + 1) * w) * limit
  BY <1>6
<1>8. /\ paid * u * One \in Nat /\ x18 * p * ratio \in Nat
      /\ (u + p) * One \in Nat /\ ((sent + 1) * w) * ratio \in Nat
      /\ ((sent + 1) * w) * limit \in Nat
  BY <1>1, <1>2, <1>5, <1>6, ProductType
<1>9. paid * u * One <= ((sent + 1) * w) * limit + (u + p) * One
  BY <1>3, <1>4, <1>6, <1>7, <1>8
<1> QED BY <1>9 DEF sent, paid, u, w, p

=============================================================================
