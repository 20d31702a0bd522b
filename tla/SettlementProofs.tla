-------------------------- MODULE SettlementProofs --------------------------
(***************************************************************************)
(* A settlement overdraws no vault, pays every owner its ratio, does not   *)
(* clear orders whose ratios do not cross, and tells orders what moved:    *)
(* for every width, base and number of decimals, and every trade.          *)
(*                                                                         *)
(* The invariant is what the two settling steps leave: a trade and the     *)
(* amounts computed from it.  The rest is arithmetic, about one 18 decimal *)
(* amount for each side of the trade.                                      *)
(***************************************************************************)
EXTENDS Settlement, ArithmeticProofs

(* The amounts of the taken order t come from one 18 decimal amount, which *)
(* neither the vault nor the wish of the taker falls short of.             *)
TakenFrom(t, r, x18) ==
  /\ x18 <= Scale18(t.balance, t.outDecimals)
  /\ x18 <= Saturate(Scale18(t.remaining, t.outDecimals))
  /\ r.takerInput = TakerInput(x18, t.outDecimals)
  /\ r.takerOutput = TakerOutput(x18, t.ratio, t.inDecimals)

SInv ==
  /\ trade \in Takes \cup Clears
  /\ result.status = "taken" =>
       /\ trade \in Takes
       /\ \E x18 \in Nat : TakenFrom(trade, result, x18)
  /\ result.status = "cleared" =>
       /\ trade \in Clears
       /\ result = ClearStateChange(trade)
       /\ BountiesFit(result)

-----------------------------------------------------------------------------
(* The two steps *)

LEMMA AmountTypes ==
  /\ Amounts \subseteq Nat /\ OutputMaxes \subseteq Nat
  /\ Ratios \subseteq Nat
  /\ \A n \in Amounts : Fits(n)
BY SettlementAssumption, FixedPointAssumption DEF Fits

LEMMA TakeTypes ==
  ASSUME NEW t \in Takes
  PROVE  /\ t.outputMax \in Nat /\ t.ratio \in Nat /\ t.balance \in Nat
         /\ t.remaining \in Nat /\ Fits(t.remaining)
         /\ t.outDecimals \in 0..MaxDecimals
         /\ t.inDecimals \in 0..MaxDecimals
BY AmountTypes, SettlementAssumption DEF Takes

LEMMA ClearTypes ==
  ASSUME NEW t \in Clears
  PROVE  /\ t.aliceMax \in Nat /\ t.aliceRatio \in Nat
         /\ t.aliceBalance \in Nat /\ t.aliceDecimals \in 0..MaxDecimals
         /\ t.bobMax \in Nat /\ t.bobRatio \in Nat
         /\ t.bobBalance \in Nat /\ t.bobDecimals \in 0..MaxDecimals
BY AmountTypes, SettlementAssumption DEF Clears

(* The vault caps what an order offers. *)
LEMMA CapBounds ==
  ASSUME NEW max \in Nat, NEW balance \in Nat, NEW d \in 0..MaxDecimals
  PROVE  /\ CapOutputMax(max, balance, d) \in Nat
         /\ CapOutputMax(max, balance, d) <= Scale18(balance, d)
BY RescaleType, SmallerType DEF CapOutputMax

LEMMA TakeStep ==
  ASSUME SInv, SettleTake
  PROVE  SInv'
<1>1. trade \in Takes /\ trade' = trade
  BY DEF SInv, SettleTake, Takes, Clears
<1> DEFINE x18 == Taken18(trade)
           input == TakerInput(x18, trade.outDecimals)
           output == TakerOutput(x18, trade.ratio, trade.inDecimals)
           taken == [status |-> "taken", takerInput |-> input,
                     takerOutput |-> output]
<1>2. result' \in {[status |-> "skipped"], taken, Reverted}
  BY DEF SettleTake
<1>3. /\ x18 \in Nat /\ x18 <= Scale18(trade.balance, trade.outDecimals)
      /\ x18 <= Saturate(Scale18(trade.remaining, trade.outDecimals))
  <2> DEFINE cap == TakeMax(trade)
             rest == Saturate(Scale18(trade.remaining, trade.outDecimals))
             all == Scale18(trade.balance, trade.outDecimals)
  <2>1. cap \in Nat /\ cap <= all /\ all \in Nat
    BY <1>1, TakeTypes, CapBounds, RescaleType DEF TakeMax
  <2>2. rest \in Nat
    BY <1>1, TakeTypes, RescaleType, SaturateType
  <2>3. x18 = Smaller(cap, rest)
    BY DEF Taken18, TakerInput18
  <2> HIDE DEF cap, rest, all, x18
  <2>4. x18 \in Nat /\ x18 <= all /\ x18 <= rest
    BY <2>1, <2>2, <2>3, SmallerType
  <2> QED BY <2>4 DEF rest, all
<1> HIDE DEF x18
<1>4. TakenFrom(trade, taken, x18)
  BY <1>3 DEF TakenFrom
<1> HIDE DEF taken
<1>5. taken.status = "taken"
  BY DEF taken
<1>6. CASE result' = taken
  BY <1>1, <1>3, <1>4, <1>5, <1>6 DEF SInv, TakenFrom
<1>7. CASE result' \in {[status |-> "skipped"], Reverted}
  <2>1. result'.status \notin {"taken", "cleared"}
    BY <1>7 DEF Reverted
  <2> QED BY <1>1, <2>1 DEF SInv
<1> QED BY <1>2, <1>6, <1>7

LEMMA ClearStep ==
  ASSUME SInv, SettleClear
  PROVE  SInv'
<1>1. trade \in Clears /\ trade' = trade
  BY DEF SInv, SettleClear, Takes, Clears
<1> DEFINE c == ClearStateChange(trade)
<1>2. c.status = "cleared"
  BY DEF ClearStateChange
<1>3. result' = Reverted \/ (result' = c /\ BountiesFit(c))
  BY DEF SettleClear
<1> HIDE DEF c
<1>4. CASE result' = Reverted
  <2>1. result'.status \notin {"taken", "cleared"}
    BY <1>4 DEF Reverted
  <2> QED BY <1>1, <2>1 DEF SInv
<1>5. CASE result' = c /\ BountiesFit(c)
  <2>1. result' = ClearStateChange(trade')
    BY <1>1, <1>5 DEF c
  <2>2. (result = ClearStateChange(trade))'
    BY <2>1 DEF ClearStateChange
  <2>3. BountiesFit(result)'
    BY <1>5 DEF BountiesFit
  <2>4. (trade \in Clears)' /\ (trade \in Takes \cup Clears)'
    BY <1>1
  <2>5. result'.status = "cleared"
    BY <1>2, <1>5
  <2> QED BY <2>2, <2>3, <2>4, <2>5 DEF SInv
<1> QED BY <1>3, <1>4, <1>5

LEMMA Settling == Spec => []SInv
<1>1. Init => SInv
  BY DEF Init, SInv, Pending
<1>2. SInv /\ [Next]_vars => SInv'
  <2> SUFFICES ASSUME SInv, [Next]_vars PROVE SInv'
    OBVIOUS
  <2>1. CASE UNCHANGED vars
    BY <2>1 DEF vars, SInv, TakenFrom, BountiesFit, ClearStateChange
  <2> QED BY <2>1, TakeStep, ClearStep DEF Next
<1> QED BY <1>1, <1>2, PTL DEF Spec

-----------------------------------------------------------------------------
(* What a take moves *)

LEMMA TakeExact ==
  ASSUME NEW t \in Takes, NEW r, NEW x18 \in Nat, TakenFrom(t, r, x18)
  PROVE  /\ r.takerInput \in Nat /\ r.takerOutput \in Nat
         /\ r.takerInput <= t.balance /\ r.takerInput <= t.remaining
         /\ r.takerInput * Unit(t.outDecimals) <= x18 * Unit(FpDecimals)
         /\ x18 * Unit(FpDecimals)
              < (r.takerInput + 1) * Unit(t.outDecimals)
<1>1. /\ t.balance \in Nat /\ t.remaining \in Nat /\ Fits(t.remaining)
      /\ t.ratio \in Nat /\ t.outDecimals \in 0..MaxDecimals
      /\ t.inDecimals \in 0..MaxDecimals
  BY TakeTypes
<1>2. /\ r.takerInput = ScaleN(x18, t.outDecimals)
      /\ r.takerInput \in Nat /\ r.takerInput <= t.remaining
  BY <1>1, TakerInputExact DEF TakenFrom
<1>3. r.takerInput <= t.balance
  BY <1>1, <1>2, RoundTrip DEF TakenFrom
<1>4. r.takerOutput \in Nat
  <2>1. MulUp(x18, t.ratio) \in Nat
    BY <1>1, MulUpType
  <2>2. TakerOutput(x18, t.ratio, t.inDecimals) \in Nat
    BY <1>1, <2>1, RescaleType DEF TakerOutput
  <2> QED BY <2>2 DEF TakenFrom
<1> QED BY <1>1, <1>2, <1>3, <1>4, ScaleNExact

LEMMA TakePays ==
  ASSUME SInv
  PROVE  TakePaysRatio
<1> SUFFICES ASSUME result.status = "taken" PROVE TakePaysRatio
  BY DEF TakePaysRatio
<1>1. trade \in Takes
  BY DEF SInv
<1>2. PICK x18 \in Nat : TakenFrom(trade, result, x18)
  BY DEF SInv
<1> DEFINE u == Unit(trade.inDecimals)
           w == Unit(trade.outDecimals)
           p == Unit(FpDecimals)
           sent == result.takerInput
           paid == result.takerOutput
<1>3. /\ trade.ratio \in Nat /\ trade.inDecimals \in 0..MaxDecimals
      /\ trade.outDecimals \in 0..MaxDecimals
  BY <1>1, TakeTypes
<1>4. /\ u \in Nat \ {0} /\ w \in Nat \ {0} /\ p \in Nat \ {0}
      /\ One \in Nat \ {0}
  BY <1>3, UnitType
<1>5. /\ sent \in Nat /\ paid \in Nat
      /\ sent * w <= x18 * p /\ x18 * p < (sent + 1) * w
  BY <1>1, <1>2, TakeExact
<1>6. /\ x18 * p * trade.ratio <= paid * u * One
      /\ paid * u * One < x18 * p * trade.ratio + (u + p) * One
  BY <1>2, <1>3, PaidForExact DEF TakenFrom, TakerOutput
<1>7. /\ sent * w * trade.ratio <= x18 * p * trade.ratio
      /\ x18 * p * trade.ratio <= (sent * w + w) * trade.ratio
  BY <1>3, <1>5, SentOfExact
<1>8. /\ Exact(paid, trade.inDecimals) = paid * u
      /\ Exact(sent, trade.outDecimals) = sent * w
      /\ Exact(1, trade.inDecimals) = u
      /\ Exact(1, trade.outDecimals) = w
      /\ Exact(1, FpDecimals) = p
  BY <1>4, ProductRegroup DEF Exact, Unit
<1> HIDE DEF u, w, p, sent, paid
<1>9. /\ x18 * p * trade.ratio \in Nat /\ paid * u * One \in Nat
      /\ sent * w * trade.ratio \in Nat /\ (u + p) * One \in Nat
      /\ (sent * w + w) * trade.ratio \in Nat
  <2>1. sent * w \in Nat /\ x18 * p \in Nat /\ paid * u \in Nat
    BY <1>4, <1>5, ProductType
  <2>2. sent * w + w \in Nat /\ u + p \in Nat
    BY <1>4, <2>1
  <2> QED BY <1>3, <1>4, <2>1, <2>2, ProductType
<1>10. /\ paid * u * One >= sent * w * trade.ratio
       /\ paid * u * One < (sent * w + w) * trade.ratio + (u + p) * One
  BY <1>6, <1>7, <1>9
<1> QED BY <1>8, <1>10 DEF TakePaysRatio, sent, paid

-----------------------------------------------------------------------------
(* What a clear moves *)

(* One side of a clear: an order that offers max of a token of d decimals, *)
(* kept in a vault of that balance, and gives x18 of it at its ratio to an *)
(* order that takes it.                                                    *)
LEMMA SideExact ==
  ASSUME NEW x18 \in Nat, NEW ratio \in Nat, NEW balance \in Nat,
         NEW d \in 0..MaxDecimals, NEW inDecimals \in 0..MaxDecimals,
         x18 <= Scale18(balance, d)
  PROVE  /\ ClearOutput(x18, d) \in Nat /\ ClearOutput(x18, d) <= balance
         /\ ClearInput(x18, ratio, inDecimals) \in Nat
         /\ ClearOutput(x18, d) * Unit(d) * ratio
              <= ClearInput(x18, ratio, inDecimals) * Unit(inDecimals) * One
<1> DEFINE sent == ClearOutput(x18, d)
           paid == ClearInput(x18, ratio, inDecimals)
           u == Unit(inDecimals)
           w == Unit(d)
           p == Unit(FpDecimals)
<1>1. sent \in Nat /\ paid \in Nat
  BY TradeTypes
<1>2. sent <= balance
  BY RoundTrip DEF ClearOutput
<1>3. sent * w <= x18 * p /\ x18 * p < (sent + 1) * w
  BY ScaleNExact DEF ClearOutput
<1>4. sent * w * ratio <= x18 * p * ratio
  BY <1>1, <1>3, SentOfExact
<1>5. x18 * p * ratio <= paid * u * One
  BY PaidForExact DEF ClearInput
<1>6. u \in Nat \ {0} /\ w \in Nat \ {0} /\ p \in Nat \ {0}
      /\ One \in Nat \ {0}
  BY UnitType
<1> HIDE DEF sent, paid, u, w, p
<1>7. /\ sent * w * ratio \in Nat /\ x18 * p * ratio \in Nat
      /\ paid * u * One \in Nat
  BY <1>1, <1>6, ProductType
<1>8. sent * w * ratio <= paid * u * One
  BY <1>4, <1>5, <1>7
<1> QED BY <1>1, <1>2, <1>8 DEF sent, paid, u, w

Alice18(t) == ClearOutput18(AliceMax(t), BobMax(t), t.bobRatio)

Bob18(t) == ClearOutput18(BobMax(t), AliceMax(t), t.aliceRatio)

LEMMA SidesType ==
  ASSUME NEW t \in Clears
  PROVE  /\ AliceMax(t) \in Nat /\ BobMax(t) \in Nat
         /\ Alice18(t) \in Nat /\ Alice18(t) <= AliceMax(t)
         /\ Bob18(t) \in Nat /\ Bob18(t) <= BobMax(t)
         /\ Alice18(t) <= Scale18(t.aliceBalance, t.aliceDecimals)
         /\ Bob18(t) <= Scale18(t.bobBalance, t.bobDecimals)
<1>1. /\ t.aliceMax \in Nat /\ t.aliceRatio \in Nat
      /\ t.aliceBalance \in Nat /\ t.aliceDecimals \in 0..MaxDecimals
      /\ t.bobMax \in Nat /\ t.bobRatio \in Nat
      /\ t.bobBalance \in Nat /\ t.bobDecimals \in 0..MaxDecimals
  BY ClearTypes
<1> DEFINE a == AliceMax(t)
           b == BobMax(t)
           allOfAlice == Scale18(t.aliceBalance, t.aliceDecimals)
           allOfBob == Scale18(t.bobBalance, t.bobDecimals)
<1>2. /\ a \in Nat /\ a <= allOfAlice /\ b \in Nat /\ b <= allOfBob
      /\ allOfAlice \in Nat /\ allOfBob \in Nat
  BY <1>1, CapBounds, RescaleType DEF AliceMax, BobMax
<1>3. /\ Alice18(t) = Smaller(a, MulUp(b, t.bobRatio))
      /\ Bob18(t) = Smaller(b, MulUp(a, t.aliceRatio))
  BY DEF Alice18, Bob18, ClearOutput18
<1> HIDE DEF a, b, allOfAlice, allOfBob
<1>4. MulUp(b, t.bobRatio) \in Nat /\ MulUp(a, t.aliceRatio) \in Nat
  BY <1>1, <1>2, MulUpType
<1>5. /\ Alice18(t) \in Nat /\ Alice18(t) <= a
      /\ Bob18(t) \in Nat /\ Bob18(t) <= b
  BY <1>2, <1>3, <1>4, SmallerType
<1>6. Alice18(t) <= allOfAlice /\ Bob18(t) <= allOfBob
  BY <1>2, <1>5
<1> QED BY <1>2, <1>5, <1>6 DEF a, b, allOfAlice, allOfBob

LEMMA ClearExact ==
  ASSUME SInv, result.status = "cleared"
  PROVE  /\ trade \in Clears
         /\ result.aliceOutput = ClearOutput(Alice18(trade), trade.aliceDecimals)
         /\ result.aliceInput = ClearInput(Alice18(trade), trade.aliceRatio,
                                           trade.bobDecimals)
         /\ result.bobOutput = ClearOutput(Bob18(trade), trade.bobDecimals)
         /\ result.bobInput = ClearInput(Bob18(trade), trade.bobRatio,
                                         trade.aliceDecimals)
         /\ BountiesFit(result)
BY DEF SInv, ClearStateChange, Alice18, Bob18

LEMMA ClearPays ==
  ASSUME SInv
  PROVE  /\ ClearPaysRatios
         /\ result.status = "cleared" =>
              /\ result.aliceOutput <= trade.aliceBalance
              /\ result.bobOutput <= trade.bobBalance
<1> SUFFICES ASSUME result.status = "cleared"
             PROVE  /\ ClearPaysRatios
                    /\ result.aliceOutput <= trade.aliceBalance
                    /\ result.bobOutput <= trade.bobBalance
  BY DEF ClearPaysRatios
<1>1. /\ trade \in Clears
      /\ result.aliceOutput = ClearOutput(Alice18(trade), trade.aliceDecimals)
      /\ result.aliceInput = ClearInput(Alice18(trade), trade.aliceRatio,
                                        trade.bobDecimals)
      /\ result.bobOutput = ClearOutput(Bob18(trade), trade.bobDecimals)
      /\ result.bobInput = ClearInput(Bob18(trade), trade.bobRatio,
                                      trade.aliceDecimals)
  BY ClearExact
<1>2. /\ result.aliceOutput <= trade.aliceBalance
      /\ result.aliceOutput * Unit(trade.aliceDecimals) * trade.aliceRatio
           <= result.aliceInput * Unit(trade.bobDecimals) * One
      /\ result.aliceOutput \in Nat /\ result.aliceInput \in Nat
  <2>1. /\ Alice18(trade) \in Nat /\ trade.aliceRatio \in Nat
        /\ trade.aliceBalance \in Nat /\ trade.aliceDecimals \in 0..MaxDecimals
        /\ trade.bobDecimals \in 0..MaxDecimals
        /\ Alice18(trade) <= Scale18(trade.aliceBalance, trade.aliceDecimals)
    BY <1>1, ClearTypes, SidesType
  <2> DEFINE sent == ClearOutput(Alice18(trade), trade.aliceDecimals)
             paid == ClearInput(Alice18(trade), trade.aliceRatio,
                                trade.bobDecimals)
  <2>2. /\ sent \in Nat /\ sent <= trade.aliceBalance /\ paid \in Nat
        /\ sent * Unit(trade.aliceDecimals) * trade.aliceRatio
             <= paid * Unit(trade.bobDecimals) * One
    BY <2>1, SideExact
  <2>3. result.aliceOutput = sent /\ result.aliceInput = paid
    BY <1>1
  <2> HIDE DEF sent, paid
  <2> QED BY <2>2, <2>3
<1>3. /\ result.bobOutput <= trade.bobBalance
      /\ result.bobOutput * Unit(trade.bobDecimals) * trade.bobRatio
           <= result.bobInput * Unit(trade.aliceDecimals) * One
      /\ result.bobOutput \in Nat /\ result.bobInput \in Nat
  <2>1. /\ Bob18(trade) \in Nat /\ trade.bobRatio \in Nat
        /\ trade.bobBalance \in Nat /\ trade.bobDecimals \in 0..MaxDecimals
        /\ trade.aliceDecimals \in 0..MaxDecimals
        /\ Bob18(trade) <= Scale18(trade.bobBalance, trade.bobDecimals)
    BY <1>1, ClearTypes, SidesType
  <2> DEFINE sent == ClearOutput(Bob18(trade), trade.bobDecimals)
             paid == ClearInput(Bob18(trade), trade.bobRatio,
                                trade.aliceDecimals)
  <2>2. /\ sent \in Nat /\ sent <= trade.bobBalance /\ paid \in Nat
        /\ sent * Unit(trade.bobDecimals) * trade.bobRatio
             <= paid * Unit(trade.aliceDecimals) * One
    BY <2>1, SideExact
  <2>3. result.bobOutput = sent /\ result.bobInput = paid
    BY <1>1
  <2> HIDE DEF sent, paid
  <2> QED BY <2>2, <2>3
<1>4. /\ trade.aliceRatio \in Nat /\ trade.bobRatio \in Nat
      /\ Unit(trade.aliceDecimals) \in Nat /\ Unit(trade.bobDecimals) \in Nat
      /\ One \in Nat
  BY <1>1, ClearTypes, UnitType
<1>5. ClearPaysRatios
  <2>1. /\ result.aliceInput * Unit(trade.bobDecimals) * One
             >= result.aliceOutput * Unit(trade.aliceDecimals) * trade.aliceRatio
        /\ result.bobInput * Unit(trade.aliceDecimals) * One
             >= result.bobOutput * Unit(trade.bobDecimals) * trade.bobRatio
    BY <1>2, <1>3
  <2> QED BY <2>1 DEF ClearPaysRatios, Exact, Unit
<1> QED BY <1>2, <1>3, <1>5

-----------------------------------------------------------------------------
(* A spread *)

(* When what comes in on a side, rounded up, is covered by what goes out,  *)
(* rounded down, the 18 decimal amounts are in the same order.             *)
LEMMA CoveredExact ==
  ASSUME NEW x18 \in Nat, NEW y18 \in Nat, NEW ratio \in Nat,
         NEW d \in 0..MaxDecimals, ClearOutput(x18, d) >= ClearInput(y18, ratio, d)
  PROVE  y18 * ratio <= x18 * One
<1> DEFINE sent == ClearOutput(x18, d)
           z == MulUp(y18, ratio)
           paid == ClearInput(y18, ratio, d)
           u == Unit(d)
           p == Unit(FpDecimals)
<1>1. u \in Nat \ {0} /\ p \in Nat \ {0} /\ One \in Nat \ {0}
  BY UnitType
<1>2. sent \in Nat /\ paid \in Nat /\ z \in Nat /\ paid <= sent
  BY TradeTypes, MulUpType
<1>3. sent * u <= x18 * p
  BY ScaleNExact DEF ClearOutput
<1>4. z * p <= paid * u
  BY <1>2, ScaleNUpExact DEF ClearInput
<1>5. y18 * ratio <= z * One
  BY MulUpExact
<1> HIDE DEF sent, z, paid, u, p
<1>6. paid * u <= sent * u
  BY <1>1, <1>2, ProductMono
<1>7. /\ z * p \in Nat /\ paid * u \in Nat /\ sent * u \in Nat
      /\ x18 * p \in Nat
  BY <1>1, <1>2, ProductType
<1>8. z * p <= x18 * p
  BY <1>3, <1>4, <1>6, <1>7
<1>9. z <= x18
  BY <1>1, <1>2, <1>8, ProductCancel
<1>10. z * One <= x18 * One
  BY <1>1, <1>2, <1>9, ProductMono
<1>11. y18 * ratio \in Nat /\ z * One \in Nat /\ x18 * One \in Nat
  BY <1>1, <1>2, ProductType
<1> QED BY <1>5, <1>10, <1>11

(* Nothing clears at two ratios that ask for more than there is. *)
LEMMA NothingAtASpread ==
  ASSUME NEW a \in Nat, NEW b \in Nat, NEW r \in Nat, NEW q \in Nat,
         NEW one \in Nat \ {0},
         a * r <= b * one, b * q <= a * one, r * q > one * one
  PROVE  a = 0 /\ b = 0
<1>1. /\ a * r \in Nat /\ b * q \in Nat /\ a * one \in Nat /\ b * one \in Nat
      /\ r * q \in Nat /\ one * one \in Nat
  BY ProductType
<1>2. (a * r) * q <= (b * one) * q
  BY <1>1, ProductMono
<1>3. (b * q) * one <= (a * one) * one
  BY <1>1, ProductMono
<1>4. /\ (a * r) * q = a * (r * q)
      /\ (b * one) * q = (b * q) * one
      /\ (a * one) * one = a * (one * one)
  BY ProductRegroup
<1>5. a * (r * q) \in Nat /\ a * (one * one) \in Nat /\ (b * q) * one \in Nat
  BY <1>1, ProductType
<1>6. a * (r * q) <= a * (one * one)
  BY <1>2, <1>3, <1>4, <1>5
<1>7. a = 0
  <2> SUFFICES ASSUME a # 0 PROVE FALSE
    OBVIOUS
  <2>1. (one * one) * a < (r * q) * a
    BY <1>1, ProductStrict
  <2>2. (one * one) * a = a * (one * one) /\ (r * q) * a = a * (r * q)
    BY <1>1
  <2> QED BY <1>5, <1>6, <2>1, <2>2
<1>8. r # 0 /\ q # 0
  <2>1. one * one >= 0
    BY <1>1
  <2>2. r = 0 \/ q = 0 => r * q = 0
    OBVIOUS
  <2> QED BY <1>1, <2>1, <2>2
<1>9. b * q <= 0
  BY <1>7
<1>10. b = 0
  <2> SUFFICES ASSUME b # 0 PROVE FALSE
    OBVIOUS
  <2>1. 0 * q < b * q
    BY <1>8, ProductStrict
  <2> QED BY <1>1, <1>9, <2>1
<1> QED BY <1>7, <1>10

(* Nothing rescales and multiplies to nothing, in both directions.         *)
LEMMA NothingMoves ==
  ASSUME NEW ratio \in Nat, NEW d \in 0..MaxDecimals
  PROVE  ClearOutput(0, d) = 0 /\ ClearInput(0, ratio, d) = 0
<1>1. Unit(d) \in Nat \ {0} /\ Unit(FpDecimals) \in Nat \ {0}
      /\ One \in Nat \ {0}
  BY UnitType
<1>2. MulUp(0, ratio) = 0
  <2>1. MulUp(0, ratio) \in Nat /\ MulUp(0, ratio) * One < 0 * ratio + One
    BY MulUpExact, MulUpType
  <2>2. MulUp(0, ratio) * One < 1 * One
    BY <1>1, <2>1
  <2> QED BY <1>1, <2>1, <2>2, ProductMono
<1>3. ScaleN(0, d) = 0
  <2>1. ScaleN(0, d) \in Nat
    BY RescaleType
  <2>2. 0 <= Scale18(0, d)
    BY RescaleType
  <2> QED BY <2>1, <2>2, RoundTrip
<1>4. ScaleNUp(0, d) = 0
  <2>1. /\ ScaleNUp(0, d) \in Nat
        /\ ScaleNUp(0, d) * Unit(d) < 0 * Unit(FpDecimals) + Unit(d)
    BY ScaleNUpExact, RescaleType
  <2>2. ScaleNUp(0, d) * Unit(d) < 1 * Unit(d)
    BY <1>1, <2>1
  <2> QED BY <1>1, <2>1, <2>2, ProductMono
<1> QED BY <1>2, <1>3, <1>4 DEF ClearOutput, ClearInput

LEMMA SpreadStops ==
  ASSUME SInv
  PROVE  SpreadNeverClears
<1> SUFFICES ASSUME result.status = "cleared",
                    trade.aliceRatio * trade.bobRatio > One * One
             PROVE  /\ AliceMax(trade) = 0 \/ BobMax(trade) = 0
                    /\ result.aliceOutput = 0 /\ result.bobOutput = 0
                    /\ result.aliceInput = 0 /\ result.bobInput = 0
  BY DEF SpreadNeverClears
<1> DEFINE a == Alice18(trade)
           b == Bob18(trade)
           r == trade.aliceRatio
           q == trade.bobRatio
<1>1. /\ trade \in Clears
      /\ result.aliceOutput = ClearOutput(a, trade.aliceDecimals)
      /\ result.aliceInput = ClearInput(a, r, trade.bobDecimals)
      /\ result.bobOutput = ClearOutput(b, trade.bobDecimals)
      /\ result.bobInput = ClearInput(b, q, trade.aliceDecimals)
      /\ BountiesFit(result)
  BY ClearExact
<1>2. /\ a \in Nat /\ b \in Nat /\ r \in Nat /\ q \in Nat
      /\ AliceMax(trade) \in Nat /\ BobMax(trade) \in Nat
      /\ trade.aliceDecimals \in 0..MaxDecimals
      /\ trade.bobDecimals \in 0..MaxDecimals
  BY <1>1, ClearTypes, SidesType
<1>3. One \in Nat \ {0}
  BY <1>2, UnitType
<1>4. a = Smaller(AliceMax(trade), MulUp(BobMax(trade), q))
  BY DEF Alice18, ClearOutput18
<1> HIDE DEF a, b, r, q
<1>5. b * q <= a * One
  <2>1. ClearOutput(a, trade.aliceDecimals)
          >= ClearInput(b, q, trade.aliceDecimals)
    BY <1>1 DEF BountiesFit
  <2> QED BY <1>2, <2>1, CoveredExact
<1>6. a * r <= b * One
  <2>1. ClearOutput(b, trade.bobDecimals)
          >= ClearInput(a, r, trade.bobDecimals)
    BY <1>1 DEF BountiesFit
  <2> QED BY <1>2, <2>1, CoveredExact
<1>7. r * q > One * One
  BY DEF r, q
<1>8. a = 0 /\ b = 0
  BY <1>2, <1>3, <1>5, <1>6, <1>7, NothingAtASpread
<1>9. /\ result.aliceOutput = 0 /\ result.bobOutput = 0
      /\ result.aliceInput = 0 /\ result.bobInput = 0
  BY <1>1, <1>2, <1>8, NothingMoves
<1>10. AliceMax(trade) = 0 \/ BobMax(trade) = 0
  <2> DEFINE m == MulUp(BobMax(trade), q)
  <2>1. m \in Nat /\ BobMax(trade) * q <= m * One
    BY <1>2, MulUpType, MulUpExact
  <2>2. AliceMax(trade) = 0 \/ m = 0
    BY <1>2, <1>4, <1>8, <2>1 DEF Smaller
  <2>3. ASSUME m = 0 PROVE BobMax(trade) = 0
    <3>1. BobMax(trade) * q <= 0
      BY <1>3, <2>1, <2>3
    <3>2. q # 0
      <4>1. One * One \in Nat
        BY <1>3, ProductType
      <4>2. q = 0 => r * q = 0
        BY <1>2
      <4> QED BY <1>7, <4>1, <4>2
    <3> SUFFICES ASSUME BobMax(trade) # 0 PROVE FALSE
      OBVIOUS
    <3>3. 0 * q < BobMax(trade) * q
      BY <1>2, <3>2, ProductStrict
    <3> QED BY <1>2, <3>1, <3>3
  <2> QED BY <2>2, <2>3
<1> QED BY <1>9, <1>10

-----------------------------------------------------------------------------
(* The balance diffs of the context *)

(* Up to 18 decimals the context's `decimals * 1e18` does not wrap. *)
LEMMA ContextDecimalsExact ==
  ASSUME NEW d \in 0..MaxDecimals, d <= FpDecimals
  PROVE  ContextDecimals(d) = d
<1>1. One \in Nat \ {0} /\ d \in Nat /\ FpDecimals \in Nat
  BY UnitType, FixedPointAssumption
<1>2. d * One \in Nat /\ d * One <= FpDecimals * One
      /\ FpDecimals * One \in Nat
  BY <1>1, ProductType, ProductMono
<1>3. d * One < ContextMod /\ ContextMod \in Nat \ {0}
  BY <1>2, ContextModAssumption
<1>4. (d * One) % ContextMod = d * One
  BY <1>2, <1>3
<1> DEFINE e == DivDown(d * One, One)
<1>5. e \in Nat /\ e * One <= d * One /\ d * One < e * One + One
  BY <1>1, <1>2, DivType, DivBounds
<1> HIDE DEF e
<1>6. (e + 1) * One = e * One + One
  BY <1>1, <1>5, ProductRegroup
<1>7. e <= d
  BY <1>1, <1>5, ProductCancel
<1>8. ~(e + 1 <= d)
  <2> SUFFICES ASSUME e + 1 <= d PROVE FALSE
    OBVIOUS
  <2>1. (e + 1) * One <= d * One
    BY <1>1, <1>5, ProductMono
  <2>2. e * One \in Nat
    BY <1>1, <1>5, ProductType
  <2> QED BY <1>1, <1>2, <1>5, <1>6, <2>1, <2>2
<1>9. e = d
  BY <1>1, <1>5, <1>7, <1>8
<1> QED BY <1>4, <1>9 DEF ContextDecimals, e

LEMMA DiffsExact ==
  ASSUME NEW in \in Nat, NEW inDecimals \in 0..MaxDecimals,
         NEW out \in Nat, NEW outDecimals \in 0..MaxDecimals,
         inDecimals <= FpDecimals, outDecimals <= FpDecimals
  PROVE  ContextDiffsMatch(in, inDecimals, out, outDecimals)
<1> DEFINE p == Unit(FpDecimals)
           s == Scale[FpDecimals - inDecimals]
           z == Scale[FpDecimals - outDecimals]
<1>1. /\ p \in Nat \ {0} /\ s \in Nat \ {0} /\ z \in Nat \ {0}
      /\ Unit(inDecimals) = s * p /\ Unit(outDecimals) = z * p
  BY UnitType, ScaleType, UnitScale
<1>2. InputDiff18(in, inDecimals) = in * s
  BY ContextDecimalsExact DEF InputDiff18, Scale18
<1>3. OutputDiff18(out, outDecimals) = out * z
  BY ContextDecimalsExact DEF OutputDiff18, Scale18Up
<1> HIDE DEF p, s, z
<1>4. in * s \in Nat /\ out * z \in Nat
  BY <1>1, ProductType
<1>5. /\ (in * s) * p = in * (s * p) /\ (out * z) * p = out * (z * p)
      /\ (in * s + 1) * p = (in * s) * p + p
      /\ (out * z - 1) * p = (out * z) * p - p
      /\ (in * s) * p \in Nat /\ (out * z) * p \in Nat
  <2>1. (out * z - 1) * p = (out * z) * p - p
    BY <1>1, <1>4
  <2>2. 1 * p = p
    BY <1>1
  <2> QED BY <1>1, <1>4, <2>1, <2>2, ProductRegroup, ProductType
<1>6. /\ (in * s) * p <= in * (s * p)
      /\ in * (s * p) < (in * s + 1) * p
      /\ (out * z) * p >= out * (z * p)
      /\ out * (z * p) > (out * z - 1) * p
  BY <1>1, <1>5
<1>7. /\ Exact(in, inDecimals) = in * (s * p)
      /\ Exact(out, outDecimals) = out * (z * p)
      /\ \A n \in Int : Exact(n, FpDecimals) = n * p
  BY <1>1 DEF Exact, Unit, p
<1>8. /\ Exact(in * s, FpDecimals) = (in * s) * p
      /\ Exact(in * s + 1, FpDecimals) = (in * s + 1) * p
      /\ Exact(out * z, FpDecimals) = (out * z) * p
      /\ Exact(out * z - 1, FpDecimals) = (out * z - 1) * p
  <2>1. /\ in * s \in Int /\ in * s + 1 \in Int
        /\ out * z \in Int /\ out * z - 1 \in Int
    BY <1>4
  <2> QED BY <1>7, <2>1
<1> QED BY <1>2, <1>3, <1>6, <1>7, <1>8 DEF ContextDiffsMatch

-----------------------------------------------------------------------------
(* The theorems *)

(* A fill takes neither more than the vault holds nor more than the taker  *)
(* wants, a clear no more than the vaults hold, however amounts round.     *)
THEOREM VaultsCoverSettlements == Spec => []NeverOverdraws
<1>1. SInv => NeverOverdraws
  <2> SUFFICES ASSUME SInv PROVE NeverOverdraws
    OBVIOUS
  <2>1. ASSUME result.status = "taken"
        PROVE  /\ result.takerInput <= trade.balance
               /\ result.takerInput <= trade.remaining
    BY <2>1, TakeExact DEF SInv
  <2> QED BY <2>1, ClearPays DEF NeverOverdraws
<1> QED BY <1>1, Settling, PTL

(* Owners are paid their ratio for what leaves their vaults, by takers and *)
(* by each other, and takers pay for the rounding less than the price of   *)
(* one unit of what they buy, a unit of what they pay and an 18 decimal one*)
THEOREM OwnersArePaid == Spec => []PaysRatios
<1>1. SInv => PaysRatios
  BY TakePays, ClearPays DEF PaysRatios
<1> QED BY <1>1, Settling, PTL

(* Two orders whose ratios do not cross never clear, unless one has        *)
(* nothing to give, and then nothing moves.                                *)
THEOREM SpreadsDoNotClear == Spec => []SpreadNeverClears
<1>1. SInv => SpreadNeverClears
  BY SpreadStops
<1> QED BY <1>1, Settling, PTL

(* What the context tells an order about tokens of up to 18 decimals is    *)
(* what moved.                                                             *)
THEOREM ContextTellsWhatMoved == Spec => []ContextDiffsMatchUpTo18
<1>1. SInv => ContextDiffsMatchUpTo18
  <2> SUFFICES ASSUME SInv, result.status = "taken",
                      trade.inDecimals <= FpDecimals,
                      trade.outDecimals <= FpDecimals
               PROVE  ContextDiffsMatch(result.takerOutput, trade.inDecimals,
                                        result.takerInput, trade.outDecimals)
    BY DEF ContextDiffsMatchUpTo18
  <2>1. /\ result.takerInput \in Nat /\ result.takerOutput \in Nat
        /\ trade \in Takes
    BY TakeExact DEF SInv
  <2> QED BY <2>1, TakeTypes, DiffsExact
<1> QED BY <1>1, Settling, PTL

=============================================================================
