--------------------------- MODULE OrderBookProofs ---------------------------
(***************************************************************************)
(* The order book is type correct, never drains a token it owes, and is    *)
(* solvent between transactions: for all users, tokens, vaults, orders,    *)
(* amounts, expression outcomes and depths of nesting.                     *)
(*                                                                         *)
(* A step pushes a call, changes the innermost call, pops it, or leaves    *)
(* the stack alone.  The lemmas Chain... say what each of the four has to  *)
(* do to the slack of a token; the step proofs only compute slacks.        *)
(***************************************************************************)
EXTENDS OrderBook, ArithmeticProofs, SequenceTheorems

-----------------------------------------------------------------------------
(* The vaults and the accounts of a token are finitely many.               *)

LEMMA FiniteVaults ==
  ASSUME NEW t
  PROVE  IsFiniteSet(VaultsOf(t)) /\ VaultsOf(t) \subseteq VaultKeys
<1> DEFINE P == Users \X (Tokens \X VaultIds)
           g == [p \in P |-> <<p[1], p[2][1], p[2][2]>>]
<1>1. IsFiniteSet(P)
  BY LedgerAssumption, FS_Product
<1>2. g \in [P -> VaultKeys]
  BY DEF VaultKeys
<1>3. \A k \in VaultKeys : \E p \in P : g[p] = k
  <2> SUFFICES ASSUME NEW k \in VaultKeys PROVE \E p \in P : g[p] = k
    OBVIOUS
  <2>1. <<k[1], <<k[2], k[3]>>>> \in P
    BY DEF VaultKeys
  <2>2. g[<<k[1], <<k[2], k[3]>>>>] = k
    BY <2>1 DEF VaultKeys
  <2> QED BY <2>1, <2>2
<1>4. g \in Surjection(P, VaultKeys)
  BY <1>2, <1>3 DEF Surjection
<1>5. IsFiniteSet(VaultKeys)
  BY <1>1, <1>4, FS_Surjection
<1> QED BY <1>5, FS_Subset DEF VaultsOf

LEMMA FiniteHolders ==
  ASSUME NEW t
  PROVE  IsFiniteSet(Accounts \X {t})
<1>1. IsFiniteSet(Accounts)
  BY LedgerAssumption, FS_AddElement DEF Accounts
<1>2. IsFiniteSet({t})
  BY FS_Singleton
<1> QED BY <1>1, <1>2, FS_Product

LEMMA OwedType ==
  ASSUME NEW v \in Vaults, NEW t
  PROVE  Owed(v, t) \in Nat
<1>1. \A k \in VaultsOf(t) : v[k] \in Nat
  BY DEF Vaults, VaultsOf
<1> QED BY <1>1, FiniteVaults, TotalType DEF Owed

LEMMA SlackType ==
  ASSUME NEW v \in Vaults, NEW b \in Balances, NEW t \in Tokens
  PROVE  Slack(v, b, t) \in Int
<1>1. b[<<OB, t>>] \in Nat
  BY DEF Balances, Accounts
<1> QED BY <1>1, OwedType DEF Slack

(* A change of one vault changes what is owed in its token by the          *)
(* difference, and in no other token.                                      *)
LEMMA OwedChange ==
  ASSUME NEW v \in Vaults, NEW w \in Vaults, NEW k \in VaultKeys, NEW t,
         \A j \in VaultKeys \ {k} : v[j] = w[j]
  PROVE  Owed(w, t) = IF k[2] = t THEN Owed(v, t) - v[k] + w[k]
                                  ELSE Owed(v, t)
<1> DEFINE K == VaultsOf(t)
<1>1. IsFiniteSet(K) /\ K \subseteq VaultKeys
  BY FiniteVaults
<1>2. \A j \in K : v[j] \in Nat /\ w[j] \in Nat
  BY <1>1 DEF Vaults
<1>3. CASE k[2] = t
  <2>1. k \in K
    BY <1>3 DEF VaultsOf
  <2>2. \A j \in K \ {k} : v[j] = w[j]
    BY <1>1
  <2>3. Total(w, K) = Total(v, K) - v[k] + w[k]
    BY <1>1, <1>2, <2>1, <2>2, TotalUpdate
  <2> QED BY <1>3, <2>3 DEF Owed
<1>4. CASE k[2] # t
  <2>1. k \notin K
    BY <1>4 DEF VaultsOf
  <2>2. \A j \in K : w[j] = v[j]
    BY <1>1, <2>1
  <2>3. Total(w, K) = Total(v, K)
    BY <2>2, TotalSame
  <2> QED BY <1>4, <2>3 DEF Owed
<1> QED BY <1>3, <1>4

LEMMA OwedCredit ==
  ASSUME NEW v \in Vaults, NEW k \in VaultKeys, NEW n \in Nat
  PROVE  /\ Credit(v, k, n) \in Vaults
         /\ \A t : Owed(Credit(v, k, n), t)
                    = Owed(v, t) + (IF k[2] = t THEN n ELSE 0)
<1> DEFINE w == Credit(v, k, n)
<1>1. v[k] \in Nat /\ w[k] = v[k] + n /\ w \in Vaults
  BY DEF Vaults, Credit
<1>2. \A j \in VaultKeys \ {k} : v[j] = w[j]
  BY DEF Vaults, Credit
<1>3. ASSUME NEW t
      PROVE  Owed(w, t) = Owed(v, t) + (IF k[2] = t THEN n ELSE 0)
  <2>1. Owed(w, t) = IF k[2] = t THEN Owed(v, t) - v[k] + w[k]
                                 ELSE Owed(v, t)
    BY <1>1, <1>2, OwedChange
  <2> HIDE DEF w
  <2> QED BY <1>1, <2>1, OwedType
<1> QED BY <1>1, <1>3

LEMMA OwedDebit ==
  ASSUME NEW v \in Vaults, NEW k \in VaultKeys, NEW n \in Nat, n <= v[k]
  PROVE  /\ Debit(v, k, n) \in Vaults
         /\ \A t : Owed(Debit(v, k, n), t)
                    = Owed(v, t) - (IF k[2] = t THEN n ELSE 0)
<1> DEFINE w == Debit(v, k, n)
<1>1. v[k] \in Nat /\ w[k] = v[k] - n /\ w \in Vaults
  BY DEF Vaults, Debit
<1>2. \A j \in VaultKeys \ {k} : v[j] = w[j]
  BY DEF Vaults, Debit
<1>3. ASSUME NEW t
      PROVE  Owed(w, t) = Owed(v, t) - (IF k[2] = t THEN n ELSE 0)
  <2>1. Owed(w, t) = IF k[2] = t THEN Owed(v, t) - v[k] + w[k]
                                 ELSE Owed(v, t)
    BY <1>1, <1>2, OwedChange
  <2> HIDE DEF w
  <2> QED BY <1>1, <2>1, OwedType
<1> QED BY <1>1, <1>3

(* A transfer keeps balances naturals when the payer can pay, and moves    *)
(* the balance of the order book by what it is paid.                       *)
LEMMA TransferType ==
  ASSUME NEW b \in Balances, NEW from \in Accounts, NEW to \in Accounts,
         NEW t \in Tokens, NEW n \in Nat, CanPay(b, from, t, n)
  PROVE  Transfer(b, from, to, t, n) \in Balances
<1>1. b[<<from, t>>] \in Nat /\ b[<<to, t>>] \in Nat /\ n <= b[<<from, t>>]
  BY DEF Balances, CanPay
<1> QED BY <1>1 DEF Transfer, Balances, Credit, Debit

LEMMA TransferOB ==
  ASSUME NEW b \in Balances, NEW from \in Accounts, NEW to \in Accounts,
         from # to, NEW t \in Tokens, NEW n \in Nat, NEW s \in Tokens
  PROVE  Transfer(b, from, to, t, n)[<<OB, s>>]
           = IF s = t /\ from = OB THEN b[<<OB, s>>] - n
             ELSE IF s = t /\ to = OB THEN b[<<OB, s>>] + n
             ELSE b[<<OB, s>>]
<1>1. <<OB, s>> \in Accounts \X Tokens
  BY DEF Accounts
<1> QED BY <1>1 DEF Transfer, Balances, Credit, Debit

(* A transfer neither creates nor destroys tokens.                         *)
LEMMA TransferSupply ==
  ASSUME NEW b \in Balances, NEW from \in Accounts, NEW to \in Accounts,
         NEW t \in Tokens, NEW n \in Nat, CanPay(b, from, t, n),
         NEW s \in Tokens
  PROVE  Supply(Transfer(b, from, to, t, n), s) = Supply(b, s)
<1> DEFINE K == Accounts \X {s}
           p == <<from, t>>
           q == <<to, t>>
           m == Debit(b, p, n)
           c == Transfer(b, from, to, t, n)
<1>1. p \in Accounts \X Tokens /\ q \in Accounts \X Tokens
  OBVIOUS
<1>2. b[p] \in Nat /\ n <= b[p]
  BY <1>1 DEF Balances, CanPay
<1>3. m \in Balances /\ m[p] = b[p] - n
  BY <1>1, <1>2 DEF Balances, Debit
<1>4. \A j \in (Accounts \X Tokens) \ {p} : b[j] = m[j]
  BY <1>1 DEF Balances, Debit
<1>5. c = Credit(m, q, n)
  BY DEF Transfer
<1>6. c \in Balances /\ c[q] = m[q] + n /\ m[q] \in Nat
  BY <1>1, <1>3, <1>5 DEF Balances, Credit
<1>7. \A j \in (Accounts \X Tokens) \ {q} : m[j] = c[j]
  BY <1>1, <1>3, <1>5 DEF Balances, Credit
<1>8. K \subseteq Accounts \X Tokens
  OBVIOUS
<1> HIDE DEF m, c
<1>9. \A j \in K : b[j] \in Nat /\ m[j] \in Nat /\ c[j] \in Nat
  BY <1>3, <1>6, <1>8 DEF Balances
<1>10. CASE s = t
  <2>1. p \in K /\ q \in K
    BY <1>10
  <2>2. IsFiniteSet(K)
    BY FiniteHolders
  <2> HIDE DEF K, p, q
  <2>3. Total(m, K) = Total(b, K) - b[p] + m[p]
    BY <1>4, <1>8, <1>9, <2>1, <2>2, TotalUpdate
  <2>4. Total(c, K) = Total(m, K) - m[q] + c[q]
    BY <1>7, <1>8, <1>9, <2>1, <2>2, TotalUpdate
  <2>5. Total(b, K) \in Nat
    BY <1>9, <2>2, TotalType
  <2>6. Total(c, K) = Total(b, K)
    BY <1>2, <1>3, <1>6, <2>3, <2>4, <2>5
  <2> QED BY <2>6 DEF K, Supply, c
<1>11. CASE s # t
  <2>1. p \notin K /\ q \notin K
    BY <1>11
  <2>2. \A j \in K : c[j] = b[j]
    BY <1>4, <1>7, <1>8, <2>1
  <2>3. Total(c, K) = Total(b, K)
    BY <2>2, TotalSame
  <2> QED BY <2>3 DEF Supply, c
<1> QED BY <1>10, <1>11

-----------------------------------------------------------------------------
(* Stacks of frames *)

LEMMA StackPush ==
  ASSUME NEW s \in Seq(Frame), NEW f \in Frame
  PROVE  /\ Append(s, f) \in Seq(Frame)
         /\ Len(Append(s, f)) = Len(s) + 1
         /\ \A i \in 1..Len(s) : Append(s, f)[i] = s[i]
         /\ Append(s, f)[Len(s) + 1] = f
OBVIOUS

LEMMA StackTop ==
  ASSUME NEW s \in Seq(Frame), s # <<>>
  PROVE  Len(s) \in Nat \ {0} /\ Len(s) \in 1..Len(s) /\ s[Len(s)] \in Frame
OBVIOUS

LEMMA StackBecome ==
  ASSUME NEW s \in Seq(Frame), s # <<>>, NEW f \in Frame
  PROVE  LET r == [s EXCEPT ![Len(s)] = f]
         IN  /\ r \in Seq(Frame)
             /\ Len(r) = Len(s)
             /\ \A i \in 1..Len(s) : r[i] = IF i = Len(s) THEN f ELSE s[i]
OBVIOUS

LEMMA StackPop ==
  ASSUME NEW s \in Seq(Frame), s # <<>>
  PROVE  LET r == SubSeq(s, 1, Len(s) - 1)
         IN  /\ r \in Seq(Frame)
             /\ Len(r) = Len(s) - 1
             /\ \A i \in 1..Len(r) : r[i] = s[i]
<1> DEFINE n == Len(s) - 1
           r == SubSeq(s, 1, n)
<1>1. 1 \in Int /\ n \in Nat /\ \A i \in 1..n : s[i] \in Frame
  BY StackTop
<1>2. /\ r \in Seq(Frame)
      /\ Len(r) = IF 1 <= n THEN n - 1 + 1 ELSE 0
      /\ \A i \in 1..(n - 1 + 1) : r[i] = s[1 + i - 1]
  BY <1>1, SubSeqProperties
<1> HIDE DEF n, r
<1>3. Len(r) = n
  BY <1>1, <1>2
<1>4. ASSUME NEW i \in 1..n PROVE r[i] = s[i]
  <2>1. i \in 1..(n - 1 + 1) /\ 1 + i - 1 = i
    BY <1>1
  <2> QED BY <1>2, <2>1
<1> QED BY <1>2, <1>3, <1>4 DEF n, r

-----------------------------------------------------------------------------
(* What an outstanding amount and a slack are *)

LEMMA OutstandingType ==
  ASSUME NEW f \in Frame, NEW t
  PROVE  Outstanding(f, t) \in Int
<1>1. f.in.amount \in Nat /\ f.out.amount \in Nat
  BY DEF Frame, FrameRecord, Payment
<1> QED BY <1>1 DEF Outstanding

LEMMA SavedType ==
  ASSUME NEW f \in Frame
  PROVE  f.saved.vault \in Vaults /\ f.saved.balance \in Balances
         /\ f.saved.live \in SUBSET Orders /\ f.saved.locked \in BOOLEAN
BY DEF Frame, FrameRecord, Snapshot

LEMMA SlackWhenCalledType ==
  ASSUME NEW s \in Seq(Frame), NEW v \in Vaults, NEW b \in Balances,
         NEW i \in Nat \ {0}, NEW t \in Tokens
  PROVE  SlackWhenCalled(s, v, b, i, t) \in Int
<1>1. CASE i <= Len(s)
  <2>1. s[i] \in Frame
    BY <1>1
  <2> QED BY <1>1, <2>1, SavedType, SlackType DEF SlackWhenCalled
<1>2. CASE ~(i <= Len(s))
  BY <1>2, SlackType DEF SlackWhenCalled
<1> QED BY <1>1, <1>2

-----------------------------------------------------------------------------
(* The four ways a step may change the stack *)

(* A call may begin when what it has done so far and what it still has to  *)
(* do leave the slack no smaller.                                          *)
LEMMA ChainPush ==
  ASSUME NEW s \in Seq(Frame), NEW f \in Frame, NEW t \in Tokens,
         NEW v \in Vaults, NEW b \in Balances,
         NEW w \in Vaults, NEW c \in Balances,
         DrainFree(s, v, b, t),
         f.saved.vault = v, f.saved.balance = b,
         Slack(w, c, t) + Outstanding(f, t) >= Slack(v, b, t)
  PROVE  DrainFree(Append(s, f), w, c, t)
<1> DEFINE r == Append(s, f)
<1>1. /\ Len(r) = Len(s) + 1 /\ Len(s) \in Nat
      /\ \A i \in 1..Len(s) : r[i] = s[i]
      /\ r[Len(s) + 1] = f
  BY StackPush
<1> HIDE DEF r
<1>2. \A i \in 1..(Len(s) + 1) :
        SlackWhenCalled(r, w, c, i, t) = SlackWhenCalled(s, v, b, i, t)
  BY <1>1 DEF SlackWhenCalled
<1>3. SlackWhenCalled(r, w, c, Len(r) + 1, t) = Slack(w, c, t)
  BY <1>1 DEF SlackWhenCalled
<1>4. SlackWhenCalled(r, w, c, Len(r), t) = Slack(v, b, t)
  BY <1>1 DEF SlackWhenCalled
<1>5. SlackWhenCalled(r, w, c, 1, t) >= 0
  BY <1>1, <1>2 DEF DrainFree
<1>6. ASSUME NEW i \in 1..Len(r)
      PROVE  SlackWhenCalled(r, w, c, i + 1, t) + Outstanding(r[i], t)
               >= SlackWhenCalled(r, w, c, i, t)
  <2>1. CASE i = Len(r)
    BY <1>1, <1>3, <1>4, <2>1
  <2>2. CASE i # Len(r)
    <3>1. i \in 1..Len(s) /\ i + 1 \in 1..(Len(s) + 1) /\ r[i] = s[i]
      BY <1>1, <2>2
    <3>2. SlackWhenCalled(s, v, b, i + 1, t) + Outstanding(s[i], t)
            >= SlackWhenCalled(s, v, b, i, t)
      BY <3>1 DEF DrainFree
    <3> QED BY <1>1, <1>2, <3>1, <3>2
  <2> QED BY <2>1, <2>2
<1> QED BY <1>5, <1>6 DEF DrainFree, r

(* A call may go on when what it does to the slack is what it had          *)
(* outstanding.                                                            *)
LEMMA ChainBecome ==
  ASSUME NEW s \in Seq(Frame), s # <<>>, NEW f \in Frame, NEW t \in Tokens,
         NEW v \in Vaults, NEW b \in Balances,
         NEW w \in Vaults, NEW c \in Balances,
         DrainFree(s, v, b, t),
         f.saved = s[Len(s)].saved,
         Slack(w, c, t) + Outstanding(f, t)
           >= Slack(v, b, t) + Outstanding(s[Len(s)], t)
  PROVE  DrainFree([s EXCEPT ![Len(s)] = f], w, c, t)
<1> DEFINE r == [s EXCEPT ![Len(s)] = f]
           n == Len(s)
<1>1. /\ Len(r) = n /\ n \in Nat \ {0}
      /\ \A i \in 1..n : r[i] = IF i = n THEN f ELSE s[i]
  BY StackBecome, StackTop
<1> HIDE DEF r
<1>2. \A i \in 1..n :
        SlackWhenCalled(r, w, c, i, t) = SlackWhenCalled(s, v, b, i, t)
  BY <1>1 DEF SlackWhenCalled
<1>3. /\ SlackWhenCalled(r, w, c, n + 1, t) = Slack(w, c, t)
      /\ SlackWhenCalled(s, v, b, n + 1, t) = Slack(v, b, t)
  BY <1>1 DEF SlackWhenCalled
<1>4. SlackWhenCalled(r, w, c, 1, t) >= 0
  BY <1>1, <1>2 DEF DrainFree
<1>5. ASSUME NEW i \in 1..n
      PROVE  SlackWhenCalled(r, w, c, i + 1, t) + Outstanding(r[i], t)
               >= SlackWhenCalled(r, w, c, i, t)
  <2>1. SlackWhenCalled(s, v, b, i + 1, t) + Outstanding(s[i], t)
          >= SlackWhenCalled(s, v, b, i, t)
    BY DEF DrainFree
  <2>2. CASE i = n
    <3>1. /\ Slack(w, c, t) \in Int /\ Slack(v, b, t) \in Int
          /\ Outstanding(f, t) \in Int /\ Outstanding(s[n], t) \in Int
          /\ SlackWhenCalled(s, v, b, n, t) \in Int
      BY <1>1, SlackType, OutstandingType, StackTop, SlackWhenCalledType
    <3>2. /\ r[n] = f
          /\ SlackWhenCalled(r, w, c, n, t) = SlackWhenCalled(s, v, b, n, t)
          /\ Slack(v, b, t) + Outstanding(s[n], t)
               >= SlackWhenCalled(s, v, b, n, t)
      BY <1>1, <1>2, <1>3, <2>1, <2>2
    <3> QED BY <1>3, <2>2, <3>1, <3>2
  <2>3. CASE i # n
    <3>1. i + 1 \in 1..n /\ r[i] = s[i]
      BY <1>1, <2>3
    <3> QED BY <1>1, <1>2, <2>1, <3>1
  <2> QED BY <2>2, <2>3
<1> QED BY <1>1, <1>4, <1>5 DEF DrainFree, r

(* A call may end when the slack is no smaller than when it began.         *)
LEMMA ChainPop ==
  ASSUME NEW s \in Seq(Frame), s # <<>>, NEW t \in Tokens,
         NEW v \in Vaults, NEW b \in Balances,
         NEW w \in Vaults, NEW c \in Balances,
         DrainFree(s, v, b, t),
         Slack(w, c, t) >= Slack(s[Len(s)].saved.vault,
                                 s[Len(s)].saved.balance, t)
  PROVE  DrainFree(SubSeq(s, 1, Len(s) - 1), w, c, t)
<1> DEFINE r == SubSeq(s, 1, Len(s) - 1)
           n == Len(s)
<1>1. /\ Len(r) = n - 1 /\ n \in Nat \ {0}
      /\ \A i \in 1..Len(r) : r[i] = s[i]
  BY StackPop, StackTop
<1> HIDE DEF r
<1>2. \A i \in 1..(n - 1) :
        SlackWhenCalled(r, w, c, i, t) = SlackWhenCalled(s, v, b, i, t)
  BY <1>1 DEF SlackWhenCalled
<1>3. SlackWhenCalled(r, w, c, n, t) >= SlackWhenCalled(s, v, b, n, t)
  BY <1>1 DEF SlackWhenCalled
<1>4. \A i \in 1..n : SlackWhenCalled(s, v, b, i, t) \in Int
                      /\ SlackWhenCalled(r, w, c, i, t) \in Int
  <2>1. r \in Seq(Frame)
    BY StackPop DEF r
  <2>2. SUFFICES ASSUME NEW i \in 1..n
                 PROVE  /\ SlackWhenCalled(s, v, b, i, t) \in Int
                        /\ SlackWhenCalled(r, w, c, i, t) \in Int
    OBVIOUS
  <2>3. i \in Nat \ {0}
    BY <1>1
  <2>4. SlackWhenCalled(s, v, b, i, t) \in Int
    BY <2>3, SlackWhenCalledType
  <2>5. SlackWhenCalled(r, w, c, i, t) \in Int
    BY <2>1, <2>3, SlackWhenCalledType
  <2> QED BY <2>4, <2>5
<1>5. SlackWhenCalled(r, w, c, 1, t) >= 0
  <2>1. SlackWhenCalled(s, v, b, 1, t) >= 0
    BY DEF DrainFree
  <2>2. CASE n = 1
    BY <1>1, <1>3, <1>4, <2>1, <2>2
  <2>3. CASE n # 1
    BY <1>1, <1>2, <2>1, <2>3
  <2> QED BY <2>2, <2>3
<1>6. ASSUME NEW i \in 1..(n - 1)
      PROVE  SlackWhenCalled(r, w, c, i + 1, t) + Outstanding(r[i], t)
               >= SlackWhenCalled(r, w, c, i, t)
  <2>1. /\ i \in 1..n /\ i + 1 \in 1..n /\ r[i] = s[i] /\ s[i] \in Frame
    BY <1>1
  <2>2. SlackWhenCalled(s, v, b, i + 1, t) + Outstanding(s[i], t)
          >= SlackWhenCalled(s, v, b, i, t)
    BY <2>1 DEF DrainFree
  <2>3. SlackWhenCalled(r, w, c, i + 1, t)
          >= SlackWhenCalled(s, v, b, i + 1, t)
    <3>1. CASE i + 1 = n
      BY <1>3, <3>1
    <3>2. CASE i + 1 # n
      <4>1. i + 1 \in 1..(n - 1)
        BY <1>1, <3>2
      <4> QED BY <1>2, <1>4, <2>1, <4>1
    <3> QED BY <3>1, <3>2
  <2>4. Outstanding(s[i], t) \in Int
    BY <2>1, OutstandingType
  <2> QED BY <1>2, <1>4, <2>1, <2>2, <2>3, <2>4
<1> QED BY <1>1, <1>5, <1>6 DEF DrainFree, r

(* Outside a call's own steps the slack may only grow.                     *)
LEMMA ChainSame ==
  ASSUME NEW s \in Seq(Frame), NEW t \in Tokens,
         NEW v \in Vaults, NEW b \in Balances,
         NEW w \in Vaults, NEW c \in Balances,
         DrainFree(s, v, b, t),
         Slack(w, c, t) >= Slack(v, b, t)
  PROVE  DrainFree(s, w, c, t)
<1> DEFINE n == Len(s)
<1>1. n \in Nat
  OBVIOUS
<1>2. \A i \in 1..n :
        SlackWhenCalled(s, w, c, i, t) = SlackWhenCalled(s, v, b, i, t)
  BY DEF SlackWhenCalled
<1>3. SlackWhenCalled(s, w, c, n + 1, t) >= SlackWhenCalled(s, v, b, n + 1, t)
  BY <1>1 DEF SlackWhenCalled
<1>4. \A i \in 1..(n + 1) : SlackWhenCalled(s, v, b, i, t) \in Int
                            /\ SlackWhenCalled(s, w, c, i, t) \in Int
  BY SlackWhenCalledType
<1>5. \A i \in 1..(n + 1) :
        SlackWhenCalled(s, w, c, i, t) >= SlackWhenCalled(s, v, b, i, t)
  BY <1>1, <1>2, <1>3, <1>4
<1>6. ASSUME NEW i \in 1..n
      PROVE  SlackWhenCalled(s, w, c, i + 1, t) + Outstanding(s[i], t)
               >= SlackWhenCalled(s, w, c, i, t)
  <2>1. i \in 1..(n + 1) /\ i + 1 \in 1..(n + 1) /\ s[i] \in Frame
    BY <1>1
  <2>2. SlackWhenCalled(s, v, b, i + 1, t) + Outstanding(s[i], t)
          >= SlackWhenCalled(s, v, b, i, t)
    BY DEF DrainFree
  <2>3. Outstanding(s[i], t) \in Int
    BY <2>1, OutstandingType
  <2> QED BY <1>2, <1>4, <1>5, <2>1, <2>2, <2>3
<1>7. SlackWhenCalled(s, w, c, 1, t) >= 0
  <2>1. 1 \in 1..(n + 1)
    BY <1>1
  <2> QED BY <1>4, <1>5, <2>1 DEF DrainFree
<1> QED BY <1>6, <1>7 DEF DrainFree

-----------------------------------------------------------------------------
(* The same four, for the variables *)

IInv == TypeOK /\ NoCallDrains

LEMMA StepPush ==
  ASSUME IInv, NEW f \in Frame, Push(f), f.saved = Now,
         vault' \in Vaults, balance' \in Balances,
         live' \in SUBSET Orders, locked' \in BOOLEAN,
         \A t \in Tokens : Slack(vault', balance', t) + Outstanding(f, t)
                             >= Slack(vault, balance, t)
  PROVE  IInv'
<1>1. /\ stack \in Seq(Frame) /\ vault \in Vaults /\ balance \in Balances
      /\ stack' = Append(stack, f)
      /\ f.saved.vault = vault /\ f.saved.balance = balance
  BY DEF IInv, TypeOK, Push, Now
<1>2. stack' \in Seq(Frame)
  BY <1>1
<1>3. ASSUME NEW t \in Tokens PROVE DrainFree(stack', vault', balance', t)
  <2>1. DrainFree(stack, vault, balance, t)
    BY DEF IInv, NoCallDrains
  <2> QED BY <1>1, <2>1, ChainPush
<1> QED BY <1>2, <1>3 DEF IInv, TypeOK, NoCallDrains

LEMMA StepBecome ==
  ASSUME IInv, stack # <<>>, NEW f \in Frame, Become(f), f.saved = Top.saved,
         vault' \in Vaults, balance' \in Balances,
         live' \in SUBSET Orders, locked' \in BOOLEAN,
         \A t \in Tokens : Slack(vault', balance', t) + Outstanding(f, t)
                             >= Slack(vault, balance, t) + Outstanding(Top, t)
  PROVE  IInv'
<1>1. /\ stack \in Seq(Frame) /\ vault \in Vaults /\ balance \in Balances
      /\ stack' = [stack EXCEPT ![Len(stack)] = f]
      /\ f.saved = stack[Len(stack)].saved
  BY DEF IInv, TypeOK, Become, Top
<1>2. stack' \in Seq(Frame)
  BY <1>1, StackBecome
<1>3. ASSUME NEW t \in Tokens PROVE DrainFree(stack', vault', balance', t)
  <2>1. DrainFree(stack, vault, balance, t)
    BY DEF IInv, NoCallDrains
  <2>2. Slack(vault', balance', t) + Outstanding(f, t)
          >= Slack(vault, balance, t) + Outstanding(stack[Len(stack)], t)
    BY DEF Top
  <2> QED BY <1>1, <2>1, <2>2, ChainBecome
<1> QED BY <1>2, <1>3 DEF IInv, TypeOK, NoCallDrains

LEMMA StepPop ==
  ASSUME IInv, stack # <<>>, Pop,
         vault' \in Vaults, balance' \in Balances,
         live' \in SUBSET Orders, locked' \in BOOLEAN,
         \A t \in Tokens : Slack(vault', balance', t)
                   >= Slack(Top.saved.vault, Top.saved.balance, t)
  PROVE  IInv'
<1>1. /\ stack \in Seq(Frame) /\ vault \in Vaults /\ balance \in Balances
      /\ stack' = SubSeq(stack, 1, Len(stack) - 1)
  BY DEF IInv, TypeOK, Pop
<1>2. stack' \in Seq(Frame)
  BY <1>1, StackPop
<1>3. ASSUME NEW t \in Tokens PROVE DrainFree(stack', vault', balance', t)
  <2>1. DrainFree(stack, vault, balance, t)
    BY DEF IInv, NoCallDrains
  <2>2. Slack(vault', balance', t)
          >= Slack(stack[Len(stack)].saved.vault,
                   stack[Len(stack)].saved.balance, t)
    BY DEF Top
  <2> QED BY <1>1, <2>1, <2>2, ChainPop
<1> QED BY <1>2, <1>3 DEF IInv, TypeOK, NoCallDrains

-----------------------------------------------------------------------------
(* Types of what the actions build *)

LEMMA CallType ==
  ASSUME TypeOK, NEW fn \in Guarded \cup {"flashLoan"}, NEW u \in Users,
         NEW pc \in Phases
  PROVE  /\ Call(fn, u, pc) \in FrameRecord
         /\ Call(fn, u, pc).fn = fn
         /\ Call(fn, u, pc).pc = pc
         /\ Call(fn, u, pc).in.amount = 0
         /\ Call(fn, u, pc).out.amount = 0
         /\ Call(fn, u, pc).saved = Now
<1>1. (CHOOSE t \in Tokens : TRUE) \in Tokens
  BY OrderBookAssumption
<1>2. (CHOOSE i \in VaultIds : TRUE) \in VaultIds
  BY OrderBookAssumption
<1>3. NoTake \in Take
  BY DEF NoTake, Take
<1>4. Now \in Snapshot
  BY DEF Now, Snapshot, TypeOK
<1> QED BY <1>1, <1>2, <1>3, <1>4 DEF Call, FrameRecord, Payment

(* A call of clear2, with the orders it clears. *)
ClearCall(u, a, b) ==
  [Call("clear2", u, "post") EXCEPT !.take.orders = <<a, b>>]

LEMMA ClearCallType ==
  ASSUME TypeOK, NEW u \in Users, NEW a \in TakeOrders, NEW b \in TakeOrders
  PROVE  /\ ClearCall(u, a, b) \in FrameRecord
         /\ ClearCall(u, a, b).fn = "clear2"
         /\ ClearCall(u, a, b).pc = "post"
         /\ ClearCall(u, a, b).saved = Now
         /\ ClearCall(u, a, b).take.orders = <<a, b>>
<1> DEFINE g == Call("clear2", u, "post")
<1>1. g \in FrameRecord /\ g.fn = "clear2" /\ g.pc = "post" /\ g.saved = Now
  BY CallType DEF Guarded, Phases
<1> HIDE DEF g
<1>2. g.take \in Take /\ g \in FrameRecord
  BY <1>1 DEF FrameRecord
<1>3. <<a, b>> \in Seq(TakeOrders)
  OBVIOUS
<1> DEFINE t == [g.take EXCEPT !.orders = <<a, b>>]
<1>4. t \in Take /\ t.orders = <<a, b>>
  BY <1>2, <1>3 DEF Take
<1> HIDE DEF t
<1>5. [g EXCEPT !.take = t] \in FrameRecord
      /\ [g EXCEPT !.take = t].fn = "clear2"
      /\ [g EXCEPT !.take = t].pc = "post"
      /\ [g EXCEPT !.take = t].saved = Now
      /\ [g EXCEPT !.take = t].take = t
  BY <1>1, <1>2, <1>4 DEF FrameRecord
<1>6. ClearCall(u, a, b) = [g EXCEPT !.take = t]
  BY DEF ClearCall, g, t
<1> QED BY <1>4, <1>5, <1>6

LEMMA TakeOrderType ==
  ASSUME NEW c \in TakeOrders
  PROVE  /\ c.order \in Orders
         /\ InputIO(c) \in IO /\ OutputIO(c) \in IO
         /\ InputKey(c) \in VaultKeys /\ OutputKey(c) \in VaultKeys
         /\ InputKey(c)[2] = InputIO(c).token
         /\ OutputKey(c)[2] = OutputIO(c).token
<1>1. c.order \in Orders /\ c.order \in Order
  BY OrderBookAssumption DEF TakeOrders, TakeOrder
<1>2. InputIO(c) \in IO /\ OutputIO(c) \in IO
  BY <1>1 DEF TakeOrders, IsTakeOrder, InputIO, OutputIO, Order
<1>3. c.order.owner \in Users
  BY <1>1 DEF Order
<1> QED BY <1>1, <1>2, <1>3 DEF InputKey, OutputKey, VaultKeys, IO

LEMMA TopType ==
  ASSUME TypeOK, stack # <<>>
  PROVE  /\ Top \in Frame /\ Top \in FrameRecord /\ InItsPhase(Top)
BY StackTop DEF TypeOK, Top, Frame

(* What recordVaultIO does to the amounts owed. *)
LEMMA RecordOwed ==
  ASSUME NEW v \in Vaults, NEW c \in TakeOrders, NEW input \in Nat,
         NEW output \in Nat, RecordOk(v, c, input, output)
  PROVE  /\ RecordVaultIO(v, c, input, output) \in Vaults
         /\ \A t : Owed(RecordVaultIO(v, c, input, output), t)
                     = Owed(v, t)
                       + (IF InputIO(c).token = t THEN input ELSE 0)
                       - (IF OutputIO(c).token = t THEN output ELSE 0)
<1> DEFINE m == Credit(v, InputKey(c), input)
<1>1. /\ m \in Vaults
      /\ \A t : Owed(m, t)
                  = Owed(v, t) + (IF InputIO(c).token = t THEN input ELSE 0)
  BY OwedCredit, TakeOrderType
<1>2. output <= m[OutputKey(c)]
  <2>1. m[OutputKey(c)] \in Nat
    BY <1>1, TakeOrderType DEF Vaults
  <2> QED BY <2>1 DEF RecordOk
<1> HIDE DEF m
<1>3. /\ Debit(m, OutputKey(c), output) \in Vaults
      /\ \A t : Owed(Debit(m, OutputKey(c), output), t)
                  = Owed(m, t) - (IF OutputIO(c).token = t THEN output ELSE 0)
  BY <1>1, <1>2, OwedDebit, TakeOrderType
<1>4. RecordVaultIO(v, c, input, output) = Debit(m, OutputKey(c), output)
  BY DEF RecordVaultIO, m
<1>5. ASSUME NEW t
      PROVE  Owed(RecordVaultIO(v, c, input, output), t)
               = Owed(v, t)
                 + (IF InputIO(c).token = t THEN input ELSE 0)
                 - (IF OutputIO(c).token = t THEN output ELSE 0)
  <2>1. Owed(v, t) \in Nat
    BY OwedType
  <2>2. Owed(m, t)
          = Owed(v, t) + (IF InputIO(c).token = t THEN input ELSE 0)
    BY <1>1
  <2>3. Owed(Debit(m, OutputKey(c), output), t)
          = Owed(m, t) - (IF OutputIO(c).token = t THEN output ELSE 0)
    BY <1>3
  <2> QED BY <1>4, <2>1, <2>2, <2>3
<1> QED BY <1>3, <1>4, <1>5

LEMMA CappedType ==
  ASSUME TypeOK, NEW c \in TakeOrders, NEW max \in OutputMaxes
  PROVE  VaultCapped(c, max) \in Nat
<1>1. OutputIO(c).decimals \in 0..MaxDecimals
  BY TakeOrderType DEF IO
<1>2. vault[OutputKey(c)] \in Nat
  BY TakeOrderType DEF TypeOK, Vaults
<1>3. max \in Nat
  BY OrderBookAssumption
<1> QED BY <1>1, <1>2, <1>3, TradeTypes DEF VaultCapped

(* The order a take fills next is one, and what the fill moves are naturals*)
LEMMA FillAmounts ==
  ASSUME TypeOK, stack # <<>>, LoopsOn(Top),
         NEW ratio \in Ratios, NEW outputMax \in OutputMaxes
  PROVE  LET c       == Current(Top)
             input18 == TakerInput18(VaultCapped(c, outputMax),
                                     RemainingTakerInput(Top),
                                     OutputIO(c).decimals)
         IN  /\ c \in TakeOrders
             /\ RemainingTakerInput(Top) \in Nat
             /\ VaultCapped(c, outputMax) \in Nat /\ input18 \in Nat
             /\ TakerInput(input18, OutputIO(c).decimals) \in Nat
             /\ TakerOutput(input18, ratio, InputIO(c).decimals) \in Nat
<1> DEFINE c == Current(Top)
           input18 == TakerInput18(VaultCapped(c, outputMax),
                                   RemainingTakerInput(Top),
                                   OutputIO(c).decimals)
<1>1. /\ Top.take.orders \in Seq(TakeOrders)
      /\ Top.take.next \in 1..Len(Top.take.orders)
      /\ RemainingTakerInput(Top) \in Nat
  BY TopType DEF LoopsOn, FrameRecord, Take, Payment, RemainingTakerInput
<1>2. c \in TakeOrders
  BY <1>1 DEF Current
<1> HIDE DEF c
<1>3. /\ InputIO(c).decimals \in 0..MaxDecimals
      /\ OutputIO(c).decimals \in 0..MaxDecimals
  BY <1>2, TakeOrderType DEF IO
<1>4. ratio \in Nat /\ VaultCapped(c, outputMax) \in Nat
  BY <1>2, CappedType, OrderBookAssumption
<1>5. input18 \in Nat
  BY <1>1, <1>3, <1>4, TradeTypes
<1> HIDE DEF input18
<1>6. /\ TakerInput(input18, OutputIO(c).decimals) \in Nat
      /\ TakerOutput(input18, ratio, InputIO(c).decimals) \in Nat
  BY <1>3, <1>4, <1>5, TradeTypes
<1> QED BY <1>1, <1>2, <1>4, <1>5, <1>6 DEF c, input18

(* What a clear moves are naturals. *)
LEMMA ClearAmounts ==
  ASSUME TypeOK, NEW a \in TakeOrders, NEW b \in TakeOrders,
         NEW aRatio \in Ratios, NEW bRatio \in Ratios,
         NEW aOutputMax \in OutputMaxes, NEW bOutputMax \in OutputMaxes
  PROVE  LET c == ClearStateChange(a, b, VaultCapped(a, aOutputMax), aRatio,
                                   VaultCapped(b, bOutputMax), bRatio)
         IN  /\ c.aliceInput \in Nat /\ c.aliceOutput \in Nat
             /\ c.bobInput \in Nat /\ c.bobOutput \in Nat
<1> DEFINE aMax == VaultCapped(a, aOutputMax)
           bMax == VaultCapped(b, bOutputMax)
           aOut18 == ClearOutput18(aMax, bMax, bRatio)
           bOut18 == ClearOutput18(bMax, aMax, aRatio)
<1>1. aMax \in Nat /\ bMax \in Nat /\ aRatio \in Nat /\ bRatio \in Nat
  BY CappedType, OrderBookAssumption
<1>2. /\ InputIO(a).decimals \in 0..MaxDecimals
      /\ OutputIO(a).decimals \in 0..MaxDecimals
      /\ InputIO(b).decimals \in 0..MaxDecimals
      /\ OutputIO(b).decimals \in 0..MaxDecimals
  BY TakeOrderType DEF IO
<1> HIDE DEF aMax, bMax
<1>3. aOut18 \in Nat /\ bOut18 \in Nat
  <2>1. aOut18 \in Nat
    BY <1>1, <1>2, TradeTypes
  <2>2. bOut18 \in Nat
    BY <1>1, <1>2, TradeTypes
  <2> QED BY <2>1, <2>2
<1> HIDE DEF aOut18, bOut18
<1>4. /\ ClearOutput(aOut18, OutputIO(a).decimals) \in Nat
      /\ ClearOutput(bOut18, OutputIO(b).decimals) \in Nat
      /\ ClearInput(aOut18, aRatio, OutputIO(b).decimals) \in Nat
      /\ ClearInput(bOut18, bRatio, OutputIO(a).decimals) \in Nat
  <2>1. ClearOutput(aOut18, OutputIO(a).decimals) \in Nat
    BY <1>1, <1>2, <1>3, ClearOutputType
  <2>2. ClearOutput(bOut18, OutputIO(b).decimals) \in Nat
    BY <1>1, <1>2, <1>3, ClearOutputType
  <2>3. ClearInput(aOut18, aRatio, OutputIO(b).decimals) \in Nat
    BY <1>1, <1>2, <1>3, ClearInputType
  <2>4. ClearInput(bOut18, bRatio, OutputIO(a).decimals) \in Nat
    BY <1>1, <1>2, <1>3, ClearInputType
  <2> QED BY <2>1, <2>2, <2>3, <2>4
<1> QED BY <1>4 DEF ClearStateChange, aMax, bMax, aOut18, bOut18

(* A clear moves four natural amounts between the vaults of the two owners *)
(* and pays the clearer what is left of the two outputs.                   *)
LEMMA ClearMoves ==
  ASSUME TypeOK, NEW u \in Users, NEW a \in TakeOrders, NEW b \in TakeOrders,
         NEW aBountyId \in VaultIds, NEW bBountyId \in VaultIds,
         Clear2(u, a, b, aBountyId, bBountyId)
  PROVE  \E aIn, aOut, bIn, bOut \in Nat :
           LET v1 == RecordVaultIO(vault, a, aIn, aOut)
               v2 == RecordVaultIO(v1, b, bIn, bOut)
               aKey == <<u, OutputIO(a).token, aBountyId>>
               bKey == <<u, OutputIO(b).token, bBountyId>>
           IN  /\ RecordOk(vault, a, aIn, aOut) /\ RecordOk(v1, b, bIn, bOut)
               /\ aOut >= bIn /\ bOut >= aIn
               /\ vault' = Credit(Credit(v2, aKey, aOut - bIn),
                                  bKey, bOut - aIn)
<1>1. PICK aRatio \in Ratios, bRatio \in Ratios,
           aOutputMax \in OutputMaxes, bOutputMax \in OutputMaxes :
       LET c == ClearStateChange(a, b, VaultCapped(a, aOutputMax), aRatio,
                                 VaultCapped(b, bOutputMax), bRatio)
           afterAlice == RecordVaultIO(vault, a, c.aliceInput, c.aliceOutput)
           afterBob == RecordVaultIO(afterAlice, b, c.bobInput, c.bobOutput)
           bounties == Bounties(c.aliceOutput, c.bobInput,
                                c.bobOutput, c.aliceInput)
           aBountyKey == <<u, OutputIO(a).token, aBountyId>>
           bBountyKey == <<u, OutputIO(b).token, bBountyId>>
       IN  /\ c.fits
           /\ RecordOk(vault, a, c.aliceInput, c.aliceOutput)
           /\ RecordOk(afterAlice, b, c.bobInput, c.bobOutput)
           /\ c.aliceOutput >= c.bobInput
           /\ c.bobOutput >= c.aliceInput
           /\ Fits(afterBob[aBountyKey] + bounties[1])
           /\ Fits(afterBob[bBountyKey] + bounties[2])
           /\ vault' = Credit(Credit(afterBob, aBountyKey, bounties[1]),
                              bBountyKey, bounties[2])
  BY DEF Clear2
<1> DEFINE c == ClearStateChange(a, b, VaultCapped(a, aOutputMax), aRatio,
                                 VaultCapped(b, bOutputMax), bRatio)
<1>2. /\ c.aliceInput \in Nat /\ c.aliceOutput \in Nat
      /\ c.bobInput \in Nat /\ c.bobOutput \in Nat
  BY ClearAmounts
<1>3. /\ RecordOk(vault, a, c.aliceInput, c.aliceOutput)
      /\ RecordOk(RecordVaultIO(vault, a, c.aliceInput, c.aliceOutput), b,
                  c.bobInput, c.bobOutput)
      /\ c.aliceOutput >= c.bobInput /\ c.bobOutput >= c.aliceInput
      /\ vault' = Credit(Credit(RecordVaultIO(
                           RecordVaultIO(vault, a, c.aliceInput, c.aliceOutput),
                           b, c.bobInput, c.bobOutput),
                         <<u, OutputIO(a).token, aBountyId>>,
                         c.aliceOutput - c.bobInput),
                         <<u, OutputIO(b).token, bBountyId>>,
                         c.bobOutput - c.aliceInput)
  BY <1>1 DEF Bounties
<1> HIDE DEF c
<1> QED BY <1>2, <1>3

-----------------------------------------------------------------------------
(* The calls that begin *)

(* A call that begins without touching a balance. *)
LEMMA StepEnter ==
  ASSUME IInv, NEW f \in Frame, Push(f), f.saved = Now,
         vault' = vault, balance' = balance,
         live' \in SUBSET Orders, locked' \in BOOLEAN,
         \A t \in Tokens : Outstanding(f, t) = 0
  PROVE  IInv'
<1>1. vault \in Vaults /\ balance \in Balances
  BY DEF IInv, TypeOK
<1>2. ASSUME NEW t \in Tokens
      PROVE  Slack(vault', balance', t) + Outstanding(f, t)
               >= Slack(vault, balance, t)
  BY <1>1, SlackType
<1> QED BY <1>1, <1>2, StepPush

LEMMA Deposit2Step ==
  ASSUME IInv, NEW u \in Users, NEW t \in Tokens, NEW id \in VaultIds,
         NEW n \in DepositAmounts, Deposit2(u, t, id, n)
  PROVE  IInv'
<1> DEFINE g == Call("deposit2", u, "pull")
           f == [g EXCEPT !.in = [token |-> t, amount |-> n],
                          !.vaultId = id]
<1>1. n \in Nat
  BY OrderBookAssumption
<1>2. g \in FrameRecord /\ g.fn = "deposit2" /\ g.pc = "pull"
      /\ g.out.amount = 0 /\ g.saved = Now
  BY CallType DEF IInv, Guarded, Phases
<1>3. Push(f) /\ vault' = vault /\ balance' = balance
      /\ live' \in SUBSET Orders /\ locked' \in BOOLEAN
  BY DEF Deposit2, NonReentrant, IInv, TypeOK
<1> HIDE DEF g
<1>4. /\ f \in FrameRecord /\ f.fn = "deposit2" /\ f.pc = "pull"
      /\ f.in.amount = n /\ f.out.amount = 0 /\ f.saved = Now
  BY <1>1, <1>2 DEF FrameRecord, Payment
<1> HIDE DEF f
<1>5. f \in Frame
  BY <1>4 DEF Frame, InItsPhase
<1>6. \A s \in Tokens : Outstanding(f, s) = 0
  BY <1>1, <1>4 DEF Outstanding
<1> QED BY <1>3, <1>4, <1>5, <1>6, StepEnter

LEMMA Withdraw2Step ==
  ASSUME IInv, NEW u \in Users, NEW t \in Tokens, NEW id \in VaultIds,
         NEW n \in WithdrawAmounts, Withdraw2(u, t, id, n)
  PROVE  IInv'
<1> DEFINE k == <<u, t, id>>
           a == WithdrawAmount(n, vault[k])
           g == Call("withdraw2", u, "send")
           f == [g EXCEPT !.out = [token |-> t, amount |-> a]]
<1>1. k \in VaultKeys /\ vault \in Vaults /\ vault[k] \in Nat /\ k[2] = t
      /\ balance \in Balances
  BY DEF VaultKeys, IInv, TypeOK, Vaults
<1>2. a \in Nat /\ a <= vault[k]
  BY <1>1, OrderBookAssumption, SmallerType DEF WithdrawAmount
<1>3. /\ vault' = Debit(vault, k, a) /\ Push(f) /\ balance' = balance
      /\ live' \in SUBSET Orders /\ locked' \in BOOLEAN
  BY DEF Withdraw2, NonReentrant, IInv, TypeOK
<1>4. g \in FrameRecord /\ g.fn = "withdraw2" /\ g.pc = "send"
      /\ g.in.amount = 0 /\ g.saved = Now
  BY CallType DEF IInv, Guarded, Phases
<1> HIDE DEF k, a, g
<1>5. /\ f \in FrameRecord /\ f.fn = "withdraw2" /\ f.pc = "send"
      /\ f.in.amount = 0 /\ f.out.token = t /\ f.out.amount = a
      /\ f.saved = Now
  BY <1>2, <1>4 DEF FrameRecord, Payment
<1> HIDE DEF f
<1>6. f \in Frame
  BY <1>5 DEF Frame, InItsPhase
<1>7. vault' \in Vaults /\ \A s : Owed(vault', s)
                                    = Owed(vault, s) - (IF t = s THEN a ELSE 0)
  BY <1>1, <1>2, <1>3, OwedDebit
<1>8. ASSUME NEW s \in Tokens
      PROVE  Slack(vault', balance', s) + Outstanding(f, s)
               >= Slack(vault, balance, s)
  <2>1. Outstanding(f, s) = - (IF t = s THEN a ELSE 0)
    BY <1>2, <1>5 DEF Outstanding
  <2>2. Owed(vault, s) \in Nat /\ balance[<<OB, s>>] \in Nat
    BY <1>1, OwedType DEF Balances, Accounts
  <2> QED BY <1>2, <1>3, <1>7, <2>1, <2>2 DEF Slack
<1> QED BY <1>1, <1>3, <1>5, <1>6, <1>7, <1>8, StepPush

(* addOrder2, removeOrder2 and entask only run their post tasks. *)
LEMMA PostOnlyStep ==
  ASSUME IInv, NEW fn \in Guarded, NEW u \in Users,
         Push(Call(fn, u, "post")), vault' = vault, balance' = balance,
         live' \in SUBSET Orders, locked' \in BOOLEAN
  PROVE  IInv'
<1> DEFINE f == Call(fn, u, "post")
<1>1. f \in FrameRecord /\ f.pc = "post" /\ f.saved = Now
  BY CallType DEF IInv, Phases
<1> HIDE DEF f
<1>2. f \in Frame
  BY <1>1 DEF Frame, InItsPhase
<1>3. \A t \in Tokens : Outstanding(f, t) = 0
  BY <1>1 DEF Outstanding
<1> QED BY <1>1, <1>2, <1>3, StepEnter DEF f

LEMMA OrderStep ==
  ASSUME IInv, NEW u \in Users, NEW o \in Orders,
         AddOrder2(u, o) \/ RemoveOrder2(u, o)
  PROVE  IInv'
<1>1. live \in SUBSET Orders
  BY DEF IInv, TypeOK
<1>2. CASE AddOrder2(u, o)
  BY <1>1, <1>2, PostOnlyStep DEF AddOrder2, NonReentrant, Guarded
<1>3. CASE RemoveOrder2(u, o)
  BY <1>1, <1>3, PostOnlyStep DEF RemoveOrder2, NonReentrant, Guarded
<1> QED BY <1>2, <1>3

LEMMA EntaskStep ==
  ASSUME IInv, NEW u \in Users, Entask(u)
  PROVE  IInv'
<1>1. live \in SUBSET Orders
  BY DEF IInv, TypeOK
<1> QED BY <1>1, PostOnlyStep DEF Entask, NonReentrant, Guarded

LEMMA TakeOrders2Step ==
  ASSUME IInv, NEW u \in Users, NEW list \in TakeLists,
         NEW minimumInput \in TakeAmounts \cup {0},
         NEW maximumInput \in TakeAmounts, NEW maximumIORatio \in Ratios,
         TakeOrders2(u, list, minimumInput, maximumInput, maximumIORatio)
  PROVE  IInv'
<1> DEFINE g == Call("takeOrders2", u, "loop")
           take == [orders |-> list, next |-> 1,
                    minimumInput |-> minimumInput,
                    maximumInput |-> maximumInput,
                    maximumIORatio |-> maximumIORatio]
           out == [token |-> OutputIO(list[1]).token, amount |-> 0]
           in == [token |-> InputIO(list[1]).token, amount |-> 0]
           f == [g EXCEPT !.out = out, !.in = in, !.take = take]
<1>1. /\ Push(f) /\ balance' = balance /\ vault' = vault
      /\ live' \in SUBSET Orders /\ locked' \in BOOLEAN
  BY DEF TakeOrders2, NonReentrant, IInv, TypeOK
<1>2. list \in Seq(TakeOrders) /\ list # <<>> /\ list[1] \in TakeOrders
  BY OrderBookAssumption
<1>3. take \in Take
  BY <1>2, OrderBookAssumption DEF Take
<1>4. out \in Payment /\ in \in Payment
  BY <1>2, TakeOrderType DEF Payment, IO
<1>5. g \in FrameRecord /\ g.fn = "takeOrders2" /\ g.pc = "loop"
      /\ g.saved = Now
  BY CallType DEF IInv, Guarded, Phases
<1> HIDE DEF g, take, out, in
<1>6. /\ f \in FrameRecord /\ f.fn = "takeOrders2" /\ f.pc = "loop"
      /\ f.in = in /\ f.out = out /\ f.take = take /\ f.saved = Now
  BY <1>3, <1>4, <1>5 DEF FrameRecord
<1> HIDE DEF f
<1>7. f \in Frame
  BY <1>2, <1>6 DEF Frame, InItsPhase, take, in, out
<1>8. \A t \in Tokens : Outstanding(f, t) = 0
  BY <1>6 DEF Outstanding, in, out
<1> QED BY <1>1, <1>6, <1>7, <1>8, StepEnter

LEMMA FlashLoanStep ==
  ASSUME IInv, NEW u \in Users, NEW receiver \in Users, NEW t \in Tokens,
         NEW n \in LoanAmounts, FlashLoan(u, receiver, t, n)
  PROVE  IInv'
<1> DEFINE g == Call("flashLoan", u, "send")
           loan == [token |-> t, amount |-> n]
           f == [g EXCEPT !.party = receiver, !.out = loan, !.in = loan]
<1>1. loan \in Payment /\ loan.amount \in Nat
  BY OrderBookAssumption DEF Payment
<1>2. g \in FrameRecord /\ g.fn = "flashLoan" /\ g.pc = "send"
      /\ g.saved = Now
  BY CallType DEF IInv, Guarded, Phases
<1>3. /\ Push(f) /\ vault' = vault /\ balance' = balance
      /\ live' \in SUBSET Orders /\ locked' \in BOOLEAN
  BY DEF FlashLoan, IInv, TypeOK
<1> HIDE DEF g, loan
<1>4. /\ f \in FrameRecord /\ f.fn = "flashLoan" /\ f.pc = "send"
      /\ f.in = loan /\ f.out = loan /\ f.saved = Now
  BY <1>1, <1>2 DEF FrameRecord
<1> HIDE DEF f
<1>5. f \in Frame
  BY <1>4 DEF Frame, InItsPhase, HasCallback
<1>6. \A s \in Tokens : Outstanding(f, s) = 0
  BY <1>1, <1>4 DEF Outstanding
<1> QED BY <1>3, <1>4, <1>5, <1>6, StepEnter

(* What a clear moves between the vaults of the two owners and the clearer *)
(* cancels out for both tokens.                                            *)
LEMMA Clear2Step ==
  ASSUME IInv, NEW u \in Users, NEW a \in TakeOrders, NEW b \in TakeOrders,
         NEW aBountyId \in VaultIds, NEW bBountyId \in VaultIds,
         Clear2(u, a, b, aBountyId, bBountyId)
  PROVE  IInv'
<1>1. PICK aIn, aOut, bIn, bOut \in Nat :
          LET v1 == RecordVaultIO(vault, a, aIn, aOut)
              v2 == RecordVaultIO(v1, b, bIn, bOut)
              aKey == <<u, OutputIO(a).token, aBountyId>>
              bKey == <<u, OutputIO(b).token, bBountyId>>
          IN  /\ RecordOk(vault, a, aIn, aOut) /\ RecordOk(v1, b, bIn, bOut)
              /\ aOut >= bIn /\ bOut >= aIn
              /\ vault' = Credit(Credit(v2, aKey, aOut - bIn),
                                 bKey, bOut - aIn)
  BY ClearMoves DEF IInv
<1> DEFINE v1 == RecordVaultIO(vault, a, aIn, aOut)
           v2 == RecordVaultIO(v1, b, bIn, bOut)
           aKey == <<u, OutputIO(a).token, aBountyId>>
           bKey == <<u, OutputIO(b).token, bBountyId>>
           v3 == Credit(v2, aKey, aOut - bIn)
           f == ClearCall(u, a, b)
<1>2. aIn \in Nat /\ aOut \in Nat /\ bIn \in Nat /\ bOut \in Nat
  OBVIOUS
<1>3. /\ RecordOk(vault, a, aIn, aOut) /\ RecordOk(v1, b, bIn, bOut)
      /\ aOut >= bIn /\ bOut >= aIn
      /\ vault' = Credit(v3, bKey, bOut - aIn)
  BY <1>1
<1>4. /\ OutputIO(a).token = InputIO(b).token
      /\ OutputIO(b).token = InputIO(a).token
  BY DEF Clear2, SameClearTokens
<1>5. aKey \in VaultKeys /\ bKey \in VaultKeys
      /\ aKey[2] = OutputIO(a).token /\ bKey[2] = OutputIO(b).token
  BY TakeOrderType DEF VaultKeys, IO
<1>6. Push(f) /\ balance' = balance
      /\ live' \in SUBSET Orders /\ locked' \in BOOLEAN
  BY DEF Clear2, ClearCall, NonReentrant, IInv, TypeOK
<1>7. vault \in Vaults /\ balance \in Balances
  BY DEF IInv, TypeOK
<1> HIDE DEF aKey, bKey
<1>8. aOut - bIn \in Nat /\ bOut - aIn \in Nat
  BY <1>2, <1>3
<1> DEFINE x1 == aOut - bIn
           x2 == bOut - aIn
<1> HIDE DEF v1, v2, v3, x1, x2, f
<1>9. v1 \in Vaults /\ \A t : Owed(v1, t) = Owed(vault, t)
                          + (IF InputIO(a).token = t THEN aIn ELSE 0)
                          - (IF OutputIO(a).token = t THEN aOut ELSE 0)
  BY <1>2, <1>3, <1>7, RecordOwed DEF v1
<1>10. v2 \in Vaults /\ \A t : Owed(v2, t) = Owed(v1, t)
                          + (IF InputIO(b).token = t THEN bIn ELSE 0)
                          - (IF OutputIO(b).token = t THEN bOut ELSE 0)
  BY <1>2, <1>3, <1>9, RecordOwed DEF v2
<1>11. v3 \in Vaults /\ \A t : Owed(v3, t) = Owed(v2, t)
                          + (IF OutputIO(a).token = t THEN x1 ELSE 0)
  BY <1>5, <1>8, <1>10, OwedCredit DEF v3, x1
<1>12. vault' \in Vaults /\ \A t : Owed(vault', t) = Owed(v3, t)
                          + (IF OutputIO(b).token = t THEN x2 ELSE 0)
  BY <1>3, <1>5, <1>8, <1>11, OwedCredit DEF x2
<1>13. \A t : Owed(vault', t) = Owed(vault, t)
  <2> SUFFICES ASSUME NEW t PROVE Owed(vault', t) = Owed(vault, t)
    OBVIOUS
  <2>1. Owed(vault, t) \in Nat
    BY <1>7, OwedType
  <2>2. Owed(v1, t) = Owed(vault, t)
                        + (IF OutputIO(b).token = t THEN aIn ELSE 0)
                        - (IF OutputIO(a).token = t THEN aOut ELSE 0)
    BY <1>4, <1>9
  <2>3. Owed(v2, t) = Owed(v1, t)
                        + (IF OutputIO(a).token = t THEN bIn ELSE 0)
                        - (IF OutputIO(b).token = t THEN bOut ELSE 0)
    BY <1>4, <1>10
  <2>4. x1 = aOut - bIn /\ x2 = bOut - aIn
    BY DEF x1, x2
  <2> QED BY <1>2, <1>11, <1>12, <2>1, <2>2, <2>3, <2>4
<1>14. f \in FrameRecord /\ f.pc = "post" /\ f.saved = Now
  BY ClearCallType DEF IInv, f
<1>15. f \in Frame
  BY <1>14 DEF Frame, InItsPhase
<1>16. ASSUME NEW t \in Tokens
       PROVE  Slack(vault', balance', t) + Outstanding(f, t)
                >= Slack(vault, balance, t)
  <2>1. Outstanding(f, t) = 0
    BY <1>14 DEF Outstanding
  <2>2. Slack(vault', balance', t) = Slack(vault, balance, t)
    BY <1>6, <1>13 DEF Slack
  <2> QED BY <1>7, <2>1, <2>2, SlackType
<1> QED BY <1>6, <1>7, <1>12, <1>14, <1>15, <1>16, StepPush

LEMMA AccountCallStep ==
  ASSUME IInv, NEW u \in Users, AccountCall(u)
  PROVE  IInv'
<1>1. CASE \E t \in Tokens, id \in VaultIds :
             \/ \E n \in DepositAmounts : Deposit2(u, t, id, n)
             \/ \E n \in WithdrawAmounts : Withdraw2(u, t, id, n)
  BY <1>1, Deposit2Step, Withdraw2Step
<1>2. CASE \E o \in Orders : AddOrder2(u, o) \/ RemoveOrder2(u, o)
  BY <1>2, OrderStep
<1>3. CASE Entask(u)
  BY <1>3, EntaskStep
<1>4. CASE \E list \in TakeLists, minimumInput \in TakeAmounts \cup {0},
              maximumInput \in TakeAmounts, maximumIORatio \in Ratios :
             TakeOrders2(u, list, minimumInput, maximumInput, maximumIORatio)
  BY <1>4, TakeOrders2Step
<1>5. CASE \E a, b \in TakeOrders, aBountyId, bBountyId \in VaultIds :
             Clear2(u, a, b, aBountyId, bBountyId)
  BY <1>5, Clear2Step
<1>6. CASE \E receiver \in Users, t \in Tokens, n \in LoanAmounts :
             FlashLoan(u, receiver, t, n)
  BY <1>6, FlashLoanStep
<1> QED BY <1>1, <1>2, <1>3, <1>4, <1>5, <1>6 DEF AccountCall

-----------------------------------------------------------------------------
(* The phases of the innermost call *)

(* A call that moves to another phase keeps everything else. *)
LEMMA GotoFrame ==
  ASSUME TypeOK, stack # <<>>, NEW pc \in Phases
  PROVE  LET f == [Top EXCEPT !.pc = pc]
         IN  /\ f \in FrameRecord
             /\ f.pc = pc /\ f.fn = Top.fn /\ f.in = Top.in /\ f.out = Top.out
             /\ f.take = Top.take /\ f.saved = Top.saved
BY TopType DEF FrameRecord

LEMMA TopFields ==
  ASSUME TypeOK, stack # <<>>
  PROVE  /\ Top.sender \in Users /\ Top.party \in Users
         /\ Top.in.token \in Tokens /\ Top.in.amount \in Nat
         /\ Top.out.token \in Tokens /\ Top.out.amount \in Nat
         /\ Top.vaultId \in VaultIds
         /\ Top.fn \in Guarded \cup {"flashLoan"}
         /\ Top.take \in Take
BY TopType DEF FrameRecord, Payment

(* A phase that changes no balance and nothing that is outstanding. *)
LEMMA StepGoto ==
  ASSUME IInv, stack # <<>>, NEW f \in Frame, Become(f), f.saved = Top.saved,
         vault' = vault, balance' = balance, live' = live, locked' = locked,
         \A t \in Tokens : Outstanding(f, t) = Outstanding(Top, t)
  PROVE  IInv'
<1>1. /\ vault \in Vaults /\ balance \in Balances
      /\ live \in SUBSET Orders /\ locked \in BOOLEAN /\ Top \in Frame
  BY TopType DEF IInv, TypeOK
<1>2. ASSUME NEW t \in Tokens
      PROVE  Slack(vault', balance', t) + Outstanding(f, t)
               >= Slack(vault, balance, t) + Outstanding(Top, t)
  <2>1. Slack(vault, balance, t) + Outstanding(Top, t) \in Int
    BY <1>1, SlackType, OutstandingType
  <2> QED BY <2>1
<1> QED BY <1>1, <1>2, StepBecome

LEMMA SkipOrderStep ==
  ASSUME IInv, SkipOrder
  PROVE  IInv'
<1> DEFINE take == [Top.take EXCEPT !.next = @ + 1]
           f == [Top EXCEPT !.take.next = @ + 1]
<1>1. /\ stack # <<>> /\ LoopsOn(Top) /\ Become(f)
      /\ vault' = vault /\ balance' = balance
      /\ live' = live /\ locked' = locked
  BY DEF SkipOrder
<1>2. Top \in FrameRecord /\ InItsPhase(Top)
  BY <1>1, TopType DEF IInv
<1>3. take \in Take /\ take.orders = Top.take.orders
  BY <1>2 DEF FrameRecord, Take
<1>4. /\ f \in FrameRecord /\ f.pc = Top.pc /\ f.fn = Top.fn
      /\ f.in = Top.in /\ f.out = Top.out /\ f.saved = Top.saved
      /\ f.take.orders = Top.take.orders
  BY <1>2, <1>3 DEF FrameRecord
<1> HIDE DEF f
<1>5. f \in Frame
  BY <1>2, <1>4 DEF Frame, InItsPhase, HasCallback
<1>6. \A t \in Tokens : Outstanding(f, t) = Outstanding(Top, t)
  BY <1>4 DEF Outstanding
<1> QED BY <1>1, <1>4, <1>5, <1>6, StepGoto

LEMMA FinishLoopStep ==
  ASSUME IInv, FinishLoop
  PROVE  IInv'
<1> DEFINE f == [Top EXCEPT !.pc = "send"]
<1>1. /\ stack # <<>> /\ Top.pc = "loop" /\ Become(f)
      /\ vault' = vault /\ balance' = balance
      /\ live' = live /\ locked' = locked
  BY DEF FinishLoop, At, Goto
<1>2. Top \in FrameRecord /\ InItsPhase(Top)
  BY <1>1, TopType DEF IInv
<1>3. /\ f \in FrameRecord /\ f.pc = "send" /\ f.fn = Top.fn
      /\ f.in = Top.in /\ f.out = Top.out /\ f.saved = Top.saved
  BY <1>1, GotoFrame DEF IInv, Phases
<1> HIDE DEF f
<1>4. f \in Frame
  BY <1>1, <1>2, <1>3 DEF Frame, InItsPhase, HasCallback
<1>5. f.fn # "deposit2"
  BY <1>1, <1>2, <1>3 DEF InItsPhase
<1>6. \A t \in Tokens : Outstanding(f, t) = Outstanding(Top, t)
  BY <1>1, <1>3, <1>5 DEF Outstanding
<1> QED BY <1>1, <1>3, <1>4, <1>6, StepGoto

LEMMA ReturnCallbackStep ==
  ASSUME IInv, ReturnCallback
  PROVE  IInv'
<1> DEFINE f == [Top EXCEPT !.pc = "pull"]
<1>1. /\ stack # <<>> /\ Top.pc = "call" /\ Become(f)
      /\ vault' = vault /\ balance' = balance
      /\ live' = live /\ locked' = locked
  BY DEF ReturnCallback, At, Goto
<1>2. InItsPhase(Top)
  BY <1>1, TopType DEF IInv
<1>3. /\ f \in FrameRecord /\ f.pc = "pull" /\ f.fn = Top.fn
      /\ f.in = Top.in /\ f.out = Top.out /\ f.saved = Top.saved
  BY <1>1, GotoFrame DEF IInv, Phases
<1> HIDE DEF f
<1>4. f \in Frame
  BY <1>1, <1>2, <1>3 DEF Frame, InItsPhase, HasCallback
<1>5. f.fn # "deposit2" /\ Top.fn # "deposit2"
  BY <1>1, <1>2, <1>3 DEF InItsPhase, HasCallback
<1>6. \A t \in Tokens : Outstanding(f, t) = Outstanding(Top, t)
  BY <1>1, <1>3, <1>5 DEF Outstanding
<1> QED BY <1>1, <1>3, <1>4, <1>6, StepGoto

(* A fill moves between the slack and the outstanding payments what it     *)
(* moves between the vaults of the owner.                                  *)
LEMMA FillOrderStep ==
  ASSUME IInv, NEW ratio \in Ratios, NEW outputMax \in OutputMaxes,
         FillOrder(ratio, outputMax)
  PROVE  IInv'
<1> DEFINE c       == Current(Top)
           first   == Top.take.orders[1]
           input18 == TakerInput18(VaultCapped(c, outputMax),
                                   RemainingTakerInput(Top),
                                   OutputIO(c).decimals)
           input   == TakerInput(input18, OutputIO(c).decimals)
           output  == TakerOutput(input18, ratio, InputIO(c).decimals)
           f       == [Top EXCEPT !.take.next = @ + 1,
                                  !.out.amount = @ + input,
                                  !.in.amount = @ + output]
<1>1. /\ stack # <<>> /\ LoopsOn(Top) /\ Become(f)
      /\ RecordOk(vault, c, output, input)
      /\ vault' = RecordVaultIO(vault, c, output, input)
      /\ live' = live /\ locked' = locked /\ balance' = balance
  BY DEF FillOrder
<1>2. /\ vault \in Vaults /\ balance \in Balances
      /\ live \in SUBSET Orders /\ locked \in BOOLEAN
      /\ Top \in FrameRecord /\ InItsPhase(Top)
  BY <1>1, TopType DEF IInv, TypeOK
<1>3. /\ Top.pc = "loop" /\ Top.take.orders \in Seq(TakeOrders)
      /\ Top.take.next \in 1..Len(Top.take.orders)
  <2>1. Top.take \in Take
    BY <1>2 DEF FrameRecord
  <2>2. /\ Top.take.orders \in Seq(TakeOrders)
        /\ Top.take.next \in Nat \ {0}
    BY <2>1 DEF Take
  <2>3. Top.pc = "loop" /\ Top.take.next <= Len(Top.take.orders)
    BY <1>1 DEF LoopsOn
  <2> QED BY <2>2, <2>3
<1>4. c \in TakeOrders /\ input \in Nat /\ output \in Nat
  BY <1>1, FillAmounts DEF IInv
<1>5. /\ Top.in.token = InputIO(c).token
      /\ Top.out.token = OutputIO(c).token
  BY <1>1, <1>2, <1>3 DEF LoopsOn, InItsPhase
<1> HIDE DEF c, input, output
<1>6. /\ f \in FrameRecord /\ f.pc = "loop" /\ f.fn = Top.fn
      /\ f.take.orders = Top.take.orders /\ f.saved = Top.saved
      /\ f.in.token = Top.in.token /\ f.out.token = Top.out.token
      /\ f.in.amount = Top.in.amount + output
      /\ f.out.amount = Top.out.amount + input
  <2>1. /\ Top.take \in Take /\ Top.out \in Payment /\ Top.in \in Payment
    BY <1>2 DEF FrameRecord
  <2>2. Top.take.next + 1 \in Nat \ {0}
    BY <2>1 DEF Take
  <2>3. Top.out.amount + input \in Nat /\ Top.in.amount + output \in Nat
    BY <1>4, <2>1 DEF Payment
  <2>4. [Top.take EXCEPT !.next = @ + 1] \in Take
    BY <2>1, <2>2 DEF Take
  <2>5. [Top.out EXCEPT !.amount = @ + input] \in Payment
    BY <2>1, <2>3 DEF Payment
  <2>6. [Top.in EXCEPT !.amount = @ + output] \in Payment
    BY <2>1, <2>3 DEF Payment
  <2> QED BY <1>2, <1>3, <2>1, <2>4, <2>5, <2>6 DEF FrameRecord, Take, Payment
<1> HIDE DEF f
<1>7. f \in Frame
  BY <1>2, <1>3, <1>6 DEF Frame, InItsPhase
<1>8. vault' \in Vaults /\ \A t : Owed(vault', t) = Owed(vault, t)
                          + (IF InputIO(c).token = t THEN output ELSE 0)
                          - (IF OutputIO(c).token = t THEN input ELSE 0)
  BY <1>1, <1>2, <1>4, RecordOwed
<1>9. ASSUME NEW t \in Tokens
       PROVE  Slack(vault', balance', t) + Outstanding(f, t)
                >= Slack(vault, balance, t) + Outstanding(Top, t)
  <2>1. Top.in.amount \in Nat /\ Top.out.amount \in Nat
    BY <1>1, TopFields DEF IInv
  <2>2. Outstanding(f, t)
          = (IF InputIO(c).token = t THEN Top.in.amount + output ELSE 0)
            - (IF OutputIO(c).token = t THEN Top.out.amount + input ELSE 0)
    BY <1>4, <1>5, <1>6, <2>1 DEF Outstanding
  <2>3. Outstanding(Top, t)
          = (IF InputIO(c).token = t THEN Top.in.amount ELSE 0)
            - (IF OutputIO(c).token = t THEN Top.out.amount ELSE 0)
    BY <1>3, <1>5, <2>1 DEF Outstanding
  <2>4. Owed(vault, t) \in Nat /\ balance[<<OB, t>>] \in Nat
    BY <1>2, OwedType DEF Balances, Accounts
  <2>5. Owed(vault', t) = Owed(vault, t)
                          + (IF InputIO(c).token = t THEN output ELSE 0)
                          - (IF OutputIO(c).token = t THEN input ELSE 0)
    BY <1>8
  <2>6. Slack(vault', balance', t)
          = Slack(vault, balance, t)
            - (IF InputIO(c).token = t THEN output ELSE 0)
            + (IF OutputIO(c).token = t THEN input ELSE 0)
    BY <1>1, <1>4, <2>4, <2>5 DEF Slack
  <2>7. Slack(vault, balance, t) \in Int
    BY <1>2, SlackType
  <2> QED BY <1>4, <2>1, <2>2, <2>3, <2>6, <2>7
<1> QED BY <1>1, <1>2, <1>6, <1>7, <1>8, <1>9, StepBecome

(* A transfer of the order book to another account, or the other way       *)
(* round, lowers or raises the slack of its token by the amount.           *)
LEMMA TransferSlack ==
  ASSUME NEW v \in Vaults, NEW b \in Balances, NEW u \in Users,
         NEW t \in Tokens, NEW n \in Nat, NEW s \in Tokens
  PROVE  /\ Slack(v, Transfer(b, OB, u, t, n), s)
              = Slack(v, b, s) - (IF t = s THEN n ELSE 0)
         /\ Slack(v, Transfer(b, u, OB, t, n), s)
              = Slack(v, b, s) + (IF t = s THEN n ELSE 0)
<1>1. u # OB /\ u \in Accounts /\ OB \in Accounts
  BY LedgerAssumption DEF Accounts
<1>2. /\ Transfer(b, OB, u, t, n)[<<OB, s>>]
           = IF s = t THEN b[<<OB, s>>] - n ELSE b[<<OB, s>>]
      /\ Transfer(b, u, OB, t, n)[<<OB, s>>]
           = IF s = t THEN b[<<OB, s>>] + n ELSE b[<<OB, s>>]
  BY <1>1, TransferOB
<1>3. Owed(v, s) \in Nat /\ b[<<OB, s>>] \in Nat
  BY OwedType DEF Balances, Accounts
<1> QED BY <1>2, <1>3 DEF Slack

LEMMA SendStep ==
  ASSUME IInv, Send
  PROVE  IInv'
<1> DEFINE pc == IF HasCallback(Top) THEN "call" ELSE "post"
           f == [Top EXCEPT !.pc = pc]
<1>1. /\ stack # <<>> /\ Top.pc = "send" /\ Become(f)
      /\ CanPay(balance, OB, Top.out.token, Top.out.amount)
      /\ balance' = Transfer(balance, OB, Top.party, Top.out.token,
                             Top.out.amount)
      /\ vault' = vault /\ live' = live /\ locked' = locked
  BY DEF Send, At, Goto
<1>2. /\ vault \in Vaults /\ balance \in Balances /\ InItsPhase(Top)
      /\ live \in SUBSET Orders /\ locked \in BOOLEAN /\ Top \in Frame
  BY <1>1, TopType DEF IInv, TypeOK
<1>3. /\ Top.party \in Users /\ Top.party \in Accounts /\ OB \in Accounts
      /\ Top.out.token \in Tokens /\ Top.out.amount \in Nat
      /\ Top.in.amount \in Nat
  BY <1>1, TopFields DEF IInv, Accounts
<1>4. balance' \in Balances
  BY <1>1, <1>2, <1>3, TransferType
<1>5. pc \in Phases /\ pc \in {"call", "post"} /\ (pc = "call" <=> HasCallback(Top))
  BY DEF Phases
<1> HIDE DEF pc
<1>6. /\ f \in FrameRecord /\ f.pc = pc /\ f.fn = Top.fn
      /\ f.in = Top.in /\ f.out = Top.out /\ f.saved = Top.saved
  BY <1>1, <1>5, GotoFrame DEF IInv
<1> HIDE DEF f
<1>7. f \in Frame
  BY <1>5, <1>6 DEF Frame, InItsPhase, HasCallback
<1>8. ASSUME NEW t \in Tokens
      PROVE  Slack(vault', balance', t) + Outstanding(f, t)
               >= Slack(vault, balance, t) + Outstanding(Top, t)
  <2>1. Slack(vault', balance', t)
          = Slack(vault, balance, t)
            - (IF Top.out.token = t THEN Top.out.amount ELSE 0)
    BY <1>1, <1>2, <1>3, TransferSlack
  <2>2. Outstanding(Top, t)
          = (IF Top.in.token = t THEN Top.in.amount ELSE 0)
            - (IF Top.out.token = t THEN Top.out.amount ELSE 0)
    BY <1>1, <1>3 DEF Outstanding
  <2>3. pc = "post" => Top.in.amount = 0
    BY <1>1, <1>2, <1>5 DEF InItsPhase
  <2>4. Outstanding(f, t) = (IF Top.in.token = t THEN Top.in.amount ELSE 0)
    BY <1>3, <1>5, <1>6, <2>3 DEF Outstanding
  <2>5. Slack(vault, balance, t) \in Int
    BY <1>2, SlackType
  <2> QED BY <1>3, <2>1, <2>2, <2>4, <2>5
<1> QED BY <1>1, <1>2, <1>4, <1>6, <1>7, <1>8, StepBecome

LEMMA PullStep ==
  ASSUME IInv, Pull
  PROVE  IInv'
<1> DEFINE pc == IF Top.fn = "deposit2" THEN "credit" ELSE "post"
           f == [Top EXCEPT !.pc = pc]
<1>1. /\ stack # <<>> /\ Top.pc = "pull" /\ Become(f)
      /\ CanPay(balance, Top.party, Top.in.token, Top.in.amount)
      /\ balance' = Transfer(balance, Top.party, OB, Top.in.token,
                             Top.in.amount)
      /\ vault' = vault /\ live' = live /\ locked' = locked
  BY DEF Pull, Pulled, At, Goto
<1>2. /\ vault \in Vaults /\ balance \in Balances
      /\ live \in SUBSET Orders /\ locked \in BOOLEAN /\ Top \in Frame
  BY <1>1, TopType DEF IInv, TypeOK
<1>3. /\ Top.party \in Users /\ Top.party \in Accounts /\ OB \in Accounts
      /\ Top.in.token \in Tokens /\ Top.in.amount \in Nat
  BY <1>1, TopFields DEF IInv, Accounts
<1>4. balance' \in Balances
  BY <1>1, <1>2, <1>3, TransferType
<1>5. pc \in Phases /\ pc \in {"credit", "post"}
      /\ (pc = "credit" <=> Top.fn = "deposit2")
  BY DEF Phases
<1> HIDE DEF pc
<1>6. /\ f \in FrameRecord /\ f.pc = pc /\ f.fn = Top.fn
      /\ f.in = Top.in /\ f.out = Top.out /\ f.saved = Top.saved
  BY <1>1, <1>5, GotoFrame DEF IInv
<1> HIDE DEF f
<1>7. f \in Frame
  BY <1>5, <1>6 DEF Frame, InItsPhase
<1>8. ASSUME NEW t \in Tokens
      PROVE  Slack(vault', balance', t) + Outstanding(f, t)
               >= Slack(vault, balance, t) + Outstanding(Top, t)
  <2> DEFINE due == IF Top.in.token = t THEN Top.in.amount ELSE 0
             deposit == IF Top.fn = "deposit2" THEN due ELSE 0
  <2>1. Slack(vault', balance', t) = Slack(vault, balance, t) + due
    BY <1>1, <1>2, <1>3, TransferSlack
  <2>2. Outstanding(Top, t) = due - deposit
    BY <1>1, <1>3 DEF Outstanding
  <2>3. Outstanding(f, t) = 0 - deposit
    BY <1>3, <1>5, <1>6 DEF Outstanding
  <2>4. Slack(vault, balance, t) \in Int /\ due \in Nat /\ deposit \in Nat
    BY <1>2, <1>3, SlackType
  <2> HIDE DEF due, deposit
  <2> QED BY <2>1, <2>2, <2>3, <2>4
<1> QED BY <1>1, <1>2, <1>4, <1>6, <1>7, <1>8, StepBecome

LEMMA CreditDepositStep ==
  ASSUME IInv, CreditDeposit
  PROVE  IInv'
<1> DEFINE f == [Top EXCEPT !.pc = "post"]
           k == DepositKey(Top)
<1>1. /\ stack # <<>> /\ Top.pc = "credit" /\ Become(f)
      /\ vault' = Credit(vault, k, Top.in.amount)
      /\ balance' = balance /\ live' = live /\ locked' = locked
  BY DEF CreditDeposit, At, Goto
<1>2. /\ vault \in Vaults /\ balance \in Balances /\ InItsPhase(Top)
      /\ live \in SUBSET Orders /\ locked \in BOOLEAN /\ Top \in Frame
  BY <1>1, TopType DEF IInv, TypeOK
<1>3. /\ k \in VaultKeys /\ k[2] = Top.in.token /\ Top.in.amount \in Nat
      /\ Top.fn = "deposit2"
  BY <1>1, <1>2, TopFields DEF IInv, DepositKey, VaultKeys, InItsPhase
<1>4. /\ f \in FrameRecord /\ f.pc = "post" /\ f.fn = Top.fn
      /\ f.in = Top.in /\ f.out = Top.out /\ f.saved = Top.saved
  BY <1>1, GotoFrame DEF IInv, Phases
<1> HIDE DEF f, k
<1>5. f \in Frame
  BY <1>4 DEF Frame, InItsPhase
<1>6. vault' \in Vaults
      /\ \A t : Owed(vault', t)
                  = Owed(vault, t)
                    + (IF Top.in.token = t THEN Top.in.amount ELSE 0)
  BY <1>1, <1>2, <1>3, OwedCredit
<1>7. ASSUME NEW t \in Tokens
      PROVE  Slack(vault', balance', t) + Outstanding(f, t)
               >= Slack(vault, balance, t) + Outstanding(Top, t)
  <2> DEFINE due == IF Top.in.token = t THEN Top.in.amount ELSE 0
  <2>1. Outstanding(Top, t) = 0 - due
    BY <1>1, <1>3 DEF Outstanding
  <2>2. Outstanding(f, t) = 0
    BY <1>4 DEF Outstanding
  <2>3. Owed(vault, t) \in Nat /\ balance[<<OB, t>>] \in Nat /\ due \in Nat
    BY <1>2, <1>3, OwedType DEF Balances, Accounts
  <2>4. Owed(vault', t) = Owed(vault, t) + due
    BY <1>6
  <2> HIDE DEF due
  <2> QED BY <1>1, <2>1, <2>2, <2>3, <2>4 DEF Slack
<1> QED BY <1>1, <1>2, <1>4, <1>5, <1>6, <1>7, StepBecome

LEMMA ReturnStep ==
  ASSUME IInv, Return
  PROVE  IInv'
<1>1. /\ stack # <<>> /\ Top.pc = "post" /\ Pop
      /\ vault' = vault /\ live' = live /\ balance' = balance
      /\ locked' \in BOOLEAN
  BY DEF Return, At
<1>2. /\ vault \in Vaults /\ balance \in Balances
      /\ live \in SUBSET Orders /\ stack \in Seq(Frame)
  BY DEF IInv, TypeOK
<1>3. ASSUME NEW t \in Tokens
      PROVE  Slack(vault', balance', t)
               >= Slack(Top.saved.vault, Top.saved.balance, t)
  <2>1. Len(stack) \in 1..Len(stack)
    BY <1>1, <1>2, StackTop
  <2>2. SlackWhenCalled(stack, vault, balance, Len(stack) + 1, t)
          + Outstanding(Top, t)
          >= SlackWhenCalled(stack, vault, balance, Len(stack), t)
    BY <2>1 DEF IInv, NoCallDrains, DrainFree, Top
  <2>3. Outstanding(Top, t) = 0
    BY <1>1 DEF Outstanding
  <2>4. /\ SlackWhenCalled(stack, vault, balance, Len(stack) + 1, t)
             = Slack(vault, balance, t)
        /\ SlackWhenCalled(stack, vault, balance, Len(stack), t)
             = Slack(Top.saved.vault, Top.saved.balance, t)
    BY <2>1 DEF SlackWhenCalled, Top
  <2> QED BY <1>1, <1>2, <2>2, <2>3, <2>4, SlackType
<1> QED BY <1>1, <1>2, <1>3, StepPop

LEMMA RevertStep ==
  ASSUME IInv, Revert
  PROVE  IInv'
<1>1. /\ stack # <<>> /\ Pop
      /\ vault' = Top.saved.vault /\ balance' = Top.saved.balance
      /\ live' = Top.saved.live /\ locked' = Top.saved.locked
  BY DEF Revert, RevertsTo
<1>2. Top \in Frame
  BY <1>1, TopType DEF IInv
<1>3. /\ vault' \in Vaults /\ balance' \in Balances
      /\ live' \in SUBSET Orders /\ locked' \in BOOLEAN
  BY <1>1, <1>2, SavedType
<1>4. ASSUME NEW t \in Tokens
      PROVE  Slack(vault', balance', t)
               >= Slack(Top.saved.vault, Top.saved.balance, t)
  BY <1>1, <1>3, SlackType
<1> QED BY <1>1, <1>3, <1>4, StepPop

LEMMA PhaseStep ==
  ASSUME IInv, Phase
  PROVE  IInv'
BY SkipOrderStep, FillOrderStep, FinishLoopStep, SendStep,
   ReturnCallbackStep, PullStep, CreditDepositStep, ReturnStep, RevertStep
   DEF Phase

(* Transfers between others do not touch the order book, and its slack can *)
(* only gain from those to it.                                             *)
LEMMA MoveTokensSlack ==
  ASSUME IInv, NEW u \in Users, NEW to \in Accounts, NEW t \in Tokens,
         NEW n \in MoveAmounts, MoveTokens(u, to, t, n)
  PROVE  /\ balance' \in Balances
         /\ \A s \in Tokens :
              /\ Slack(vault', balance', s) >= Slack(vault, balance, s)
              /\ Supply(balance', s) = Supply(balance, s)
<1>1. /\ CanPay(balance, u, t, n)
      /\ balance' = Transfer(balance, u, to, t, n)
      /\ vault' = vault
  BY DEF MoveTokens
<1>2. vault \in Vaults /\ balance \in Balances
  BY DEF IInv, TypeOK
<1>3. n \in Nat /\ u \in Accounts /\ u # OB
  BY OrderBookAssumption, LedgerAssumption DEF Accounts
<1>4. balance' \in Balances
  BY <1>1, <1>2, <1>3, TransferType
<1>5. ASSUME NEW s \in Tokens
      PROVE  Slack(vault', balance', s) >= Slack(vault, balance, s)
  <2>1. balance'[<<OB, s>>] >= balance[<<OB, s>>]
    <3>1. <<OB, s>> \in Accounts \X Tokens /\ balance[<<OB, s>>] \in Nat
      BY <1>2 DEF Balances, Accounts
    <3>2. CASE u = to
      <4> DEFINE k == <<u, t>>
                 j == <<OB, s>>
                 d == Debit(balance, k, n)
      <4>1. k # j /\ balance' = Credit(d, k, n)
        BY <1>1, <1>3, <3>2 DEF Transfer
      <4> HIDE DEF k, j
      <4>2. d[j] = balance[j] /\ Credit(d, k, n)[j] = d[j]
        BY <1>2, <3>1, <4>1 DEF Credit, Debit, Balances, j
      <4> QED BY <3>1, <4>1, <4>2 DEF j
    <3>3. CASE u # to
      BY <1>1, <1>2, <1>3, <3>1, <3>3, TransferOB
    <3> QED BY <3>2, <3>3
  <2>2. Owed(vault, s) \in Nat
    BY <1>2, OwedType
  <2>3. balance[<<OB, s>>] \in Nat /\ balance'[<<OB, s>>] \in Nat
    BY <1>2, <1>4 DEF Balances, Accounts
  <2> QED BY <1>1, <2>1, <2>2, <2>3 DEF Slack
<1>6. \A s \in Tokens : Supply(balance', s) = Supply(balance, s)
  BY <1>1, <1>2, <1>3, TransferSupply
<1> QED BY <1>4, <1>5, <1>6

LEMMA MoveTokensStep ==
  ASSUME IInv, NEW u \in Users, NEW to \in Accounts, NEW t \in Tokens,
         NEW n \in MoveAmounts, MoveTokens(u, to, t, n)
  PROVE  IInv'
<1>1. /\ CanPay(balance, u, t, n)
      /\ balance' = Transfer(balance, u, to, t, n)
      /\ vault' = vault /\ live' = live /\ locked' = locked /\ stack' = stack
  BY DEF MoveTokens
<1>2. /\ vault \in Vaults /\ balance \in Balances /\ stack \in Seq(Frame)
      /\ live \in SUBSET Orders /\ locked \in BOOLEAN
  BY DEF IInv, TypeOK
<1>3. n \in Nat /\ u \in Accounts /\ u # OB
  BY OrderBookAssumption, LedgerAssumption DEF Accounts
<1>4. balance' \in Balances
  BY <1>1, <1>2, <1>3, TransferType
<1>5. \A s \in Tokens :
        Slack(vault', balance', s) >= Slack(vault, balance, s)
  BY MoveTokensSlack
<1>6. ASSUME NEW s \in Tokens PROVE DrainFree(stack', vault', balance', s)
  <2>1. DrainFree(stack, vault, balance, s)
    BY DEF IInv, NoCallDrains
  <2> QED BY <1>1, <1>2, <1>4, <1>5, <2>1, ChainSame
<1> QED BY <1>1, <1>2, <1>4, <1>6 DEF IInv, TypeOK, NoCallDrains

-----------------------------------------------------------------------------
(* The theorems *)

LEMMA InitIInv == Init => IInv
<1> SUFFICES ASSUME Init PROVE IInv
  OBVIOUS
<1>1. /\ vault \in Vaults /\ \A k \in VaultKeys : vault[k] = 0
      /\ stack = <<>> /\ live \in SUBSET Orders /\ locked \in BOOLEAN
      /\ balance \in Balances
  BY OrderBookAssumption DEF Init, Vaults
<1>2. ASSUME NEW t \in Tokens PROVE DrainFree(stack, vault, balance, t)
  <2>1. Owed(vault, t) = 0
    BY <1>1, TotalZero, FiniteVaults DEF Owed
  <2>2. balance[<<OB, t>>] \in Nat
    BY <1>1 DEF Balances, Accounts
  <2>3. Slack(vault, balance, t) >= 0
    BY <2>1, <2>2 DEF Slack
  <2> QED BY <1>1, <2>3 DEF DrainFree, SlackWhenCalled
<1> QED BY <1>1, <1>2 DEF IInv, TypeOK, NoCallDrains

LEMMA NextIInv == IInv /\ [Next]_vars => IInv'
<1> SUFFICES ASSUME IInv, [Next]_vars PROVE IInv'
  OBVIOUS
<1>1. CASE \E u \in Users : AccountCall(u)
  BY <1>1, AccountCallStep
<1>2. CASE Phase
  BY <1>2, PhaseStep
<1>3. CASE \E u \in Users, to \in Accounts, t \in Tokens,
              n \in MoveAmounts : MoveTokens(u, to, t, n)
  BY <1>3, MoveTokensStep
<1>4. CASE UNCHANGED vars
  BY <1>4 DEF vars, IInv, TypeOK, NoCallDrains, DrainFree, SlackWhenCalled
<1> QED BY <1>1, <1>2, <1>3, <1>4 DEF Next

(* The inductive invariant holds in every reachable state. *)
LEMMA Inductive == Spec => []IInv
BY InitIInv, NextIInv, PTL DEF Spec

(* Every state has its type: no vault and no balance is ever negative, in  *)
(* particular not while withdraw2, takeOrders2 or clear2 debit vaults.     *)
THEOREM TypeCorrect == Spec => []TypeOK
<1>1. IInv => TypeOK
  BY DEF IInv
<1> QED BY <1>1, Inductive, PTL

(* No call, however deep in the stack and whatever is nested in it, leaves *)
(* the order book poorer against its vaults than it found it.              *)
THEOREM NeverDrains == Spec => []NoCallDrains
<1>1. IInv => NoCallDrains
  BY DEF IInv
<1> QED BY <1>1, Inductive, PTL

(* Between transactions the order book holds all that its vaults are owed. *)
THEOREM AlwaysSolvent == Spec => []Solvent
<1>1. IInv => Solvent
  <2> SUFFICES ASSUME IInv, stack = <<>>, NEW t \in Tokens
               PROVE  Owed(vault, t) <= balance[<<OB, t>>]
    BY DEF Solvent
  <2>1. SlackWhenCalled(stack, vault, balance, 1, t) >= 0
    BY DEF IInv, NoCallDrains, DrainFree
  <2>2. SlackWhenCalled(stack, vault, balance, 1, t)
          = Slack(vault, balance, t)
    BY DEF SlackWhenCalled
  <2>3. Owed(vault, t) \in Nat /\ balance[<<OB, t>>] \in Nat
    BY OwedType DEF IInv, TypeOK, Balances, Accounts
  <2> QED BY <2>1, <2>2, <2>3 DEF Slack
<1> QED BY <1>1, Inductive, PTL

-----------------------------------------------------------------------------
(***************************************************************************)
(* What calls in progress can and cannot do to each other: the lock of the *)
(* order book is taken exactly while one guarded call is in progress, at   *)
(* whatever depth; nothing the world does meanwhile changes a vault or an  *)
(* order; only the owner or a live order of the owner takes from a vault;  *)
(* a take keeps to the limits of the taker; and with all that the order    *)
(* book implements the abstract custodian.                                 *)
(*                                                                         *)
(* The invariants about calls in progress say the same of what each of     *)
(* them would restore on a revert.                                         *)
(***************************************************************************)

(* The lock when the i-th call of s began; past the last, the lock itself. *)
LockWhenCalled(s, l, i) == IF i <= Len(s) THEN s[i].saved.locked ELSE l

GuardedBefore(s, i) == \E j \in 1..(i - 1) : s[j].fn \in Guarded

LockFits(s, l) ==
  /\ \A i \in 1..(Len(s) + 1) : LockWhenCalled(s, l, i) <=> GuardedBefore(s, i)
  /\ \A i \in 1..Len(s) :
       s[i].fn \in Guarded => ~LockWhenCalled(s, l, i)

LInv == IInv /\ LockFits(stack, locked)

-----------------------------------------------------------------------------
(* The three ways a step may change the stack *)

LEMMA LockPush ==
  ASSUME NEW s \in Seq(Frame), NEW f \in Frame, NEW l, NEW m,
         LockFits(s, l), f.saved.locked = l,
         f.fn \in Guarded => ~l /\ m,
         f.fn \notin Guarded => (m <=> l)
  PROVE  LockFits(Append(s, f), m)
<1> DEFINE r == Append(s, f)
<1>1. /\ Len(r) = Len(s) + 1 /\ Len(s) \in Nat
      /\ \A i \in 1..Len(s) : r[i] = s[i]
      /\ r[Len(s) + 1] = f
  BY StackPush
<1> HIDE DEF r
<1>2. ASSUME NEW i \in 1..(Len(s) + 1)
      PROVE  GuardedBefore(r, i) <=> GuardedBefore(s, i)
  <2>1. \A j \in 1..(i - 1) : j \in 1..Len(s) /\ r[j] = s[j]
    BY <1>1
  <2> QED BY <2>1 DEF GuardedBefore
<1>3. ASSUME NEW i \in 1..(Len(s) + 1)
      PROVE  LockWhenCalled(r, m, i) = LockWhenCalled(s, l, i)
  BY <1>1 DEF LockWhenCalled
<1>4. LockWhenCalled(r, m, Len(r) + 1) = m
  BY <1>1 DEF LockWhenCalled
<1>5. GuardedBefore(r, Len(r) + 1)
        <=> GuardedBefore(s, Len(s) + 1) \/ f.fn \in Guarded
  <2>1. 1..(Len(r) + 1 - 1) = 1..(Len(s) + 1 - 1) \cup {Len(s) + 1}
    BY <1>1
  <2> QED BY <1>1, <2>1 DEF GuardedBefore
<1>6. l <=> GuardedBefore(s, Len(s) + 1)
  <2>1. Len(s) + 1 \in 1..(Len(s) + 1) /\ ~(Len(s) + 1 <= Len(s))
    BY <1>1
  <2> QED BY <2>1 DEF LockFits, LockWhenCalled
<1>7. ASSUME NEW i \in 1..(Len(r) + 1)
      PROVE  LockWhenCalled(r, m, i) <=> GuardedBefore(r, i)
  <2>1. CASE i = Len(r) + 1
    BY <1>4, <1>5, <1>6, <2>1
  <2>2. CASE i # Len(r) + 1
    <3>1. i \in 1..(Len(s) + 1)
      BY <1>1, <2>2
    <3> QED BY <1>2, <1>3, <3>1 DEF LockFits
  <2> QED BY <2>1, <2>2
<1>8. ASSUME NEW i \in 1..Len(r), r[i].fn \in Guarded
      PROVE  ~LockWhenCalled(r, m, i)
  <2>1. CASE i = Len(r)
    <3>1. r[i] = f /\ LockWhenCalled(r, m, i) = l
      BY <1>1, <2>1 DEF LockWhenCalled
    <3> QED BY <1>8, <3>1
  <2>2. CASE i # Len(r)
    <3>1. i \in 1..Len(s) /\ i \in 1..(Len(s) + 1) /\ r[i] = s[i]
      BY <1>1, <2>2
    <3> QED BY <1>3, <1>8, <3>1 DEF LockFits
  <2> QED BY <2>1, <2>2
<1> QED BY <1>7, <1>8 DEF LockFits, r

(* A call that goes on is still the same function, with the same past.     *)
LEMMA LockBecome ==
  ASSUME NEW s \in Seq(Frame), s # <<>>, NEW f \in Frame, NEW l,
         LockFits(s, l),
         f.saved = s[Len(s)].saved, f.fn = s[Len(s)].fn
  PROVE  LockFits([s EXCEPT ![Len(s)] = f], l)
<1> DEFINE r == [s EXCEPT ![Len(s)] = f]
<1>1. Len(r) = Len(s) /\ Len(s) \in Nat
      /\ \A i \in 1..Len(s) : r[i].saved = s[i].saved /\ r[i].fn = s[i].fn
  BY StackBecome, StackTop
<1> HIDE DEF r
<1>2. ASSUME NEW i \in 1..(Len(s) + 1)
      PROVE  /\ GuardedBefore(r, i) <=> GuardedBefore(s, i)
             /\ LockWhenCalled(r, l, i) = LockWhenCalled(s, l, i)
  <2>1. \A j \in 1..(i - 1) : j \in 1..Len(s) /\ r[j].fn = s[j].fn
    BY <1>1
  <2> QED BY <1>1, <2>1 DEF GuardedBefore, LockWhenCalled
<1>3. \A i \in 1..Len(s) : i \in 1..(Len(s) + 1)
  BY <1>1
<1> QED BY <1>1, <1>2, <1>3 DEF LockFits, r

(* A call that ends leaves the lock as it was when the call began. *)
LEMMA LockPop ==
  ASSUME NEW s \in Seq(Frame), s # <<>>, NEW l, NEW m,
         LockFits(s, l),
         m <=> s[Len(s)].saved.locked
  PROVE  LockFits(SubSeq(s, 1, Len(s) - 1), m)
<1> DEFINE r == SubSeq(s, 1, Len(s) - 1)
<1>1. Len(r) = Len(s) - 1 /\ Len(s) \in Nat \ {0}
      /\ \A i \in 1..Len(r) : r[i] = s[i]
  BY StackPop, StackTop
<1> HIDE DEF r
<1>2. ASSUME NEW i \in 1..(Len(r) + 1)
      PROVE  GuardedBefore(r, i) <=> GuardedBefore(s, i)
  <2>1. \A j \in 1..(i - 1) : j \in 1..Len(r) /\ r[j] = s[j]
    BY <1>1
  <2> QED BY <2>1 DEF GuardedBefore
<1>3. ASSUME NEW i \in 1..(Len(r) + 1)
      PROVE  LockWhenCalled(r, m, i) <=> LockWhenCalled(s, l, i)
  <2>1. CASE i = Len(s)
    BY <1>1, <2>1 DEF LockWhenCalled
  <2>2. CASE i # Len(s)
    <3>1. i \in 1..Len(r) /\ i <= Len(r) /\ i <= Len(s)
      BY <1>1, <2>2
    <3> QED BY <1>1, <3>1 DEF LockWhenCalled
  <2> QED BY <2>1, <2>2
<1>4. \A i \in 1..(Len(r) + 1) : i \in 1..(Len(s) + 1) /\ i \in 1..Len(s)
  BY <1>1
<1>5. \A i \in 1..Len(r) : i \in 1..(Len(r) + 1)
  BY <1>1
<1> QED BY <1>1, <1>2, <1>3, <1>4, <1>5 DEF LockFits, r

-----------------------------------------------------------------------------
(* The steps.  That the new frame is one follows from the type of stack'.  *)

LEMMA PushedFrame ==
  ASSUME NEW s \in Seq(Frame), NEW f, Append(s, f) \in Seq(Frame)
  PROVE  f \in Frame
<1> DEFINE S == Frame \cup {f}
           r == Append(s, f)
<1>1. s \in Seq(S) /\ f \in S
  OBVIOUS
<1> HIDE DEF S
<1>2. Len(r) = Len(s) + 1 /\ r[Len(s) + 1] = f /\ Len(s) + 1 \in 1..Len(r)
  BY <1>1
<1> HIDE DEF r
<1>3. r \in Seq(Frame)
  BY DEF r
<1> QED BY <1>2, <1>3

LEMMA LockEnter ==
  ASSUME LInv, TypeOK', NEW f, Push(f), f.saved = Now,
         \/ f.fn \in Guarded /\ NonReentrant
         \/ f.fn \notin Guarded /\ locked' = locked
  PROVE  LockFits(stack, locked)'
<1>1. stack \in Seq(Frame) /\ stack' = Append(stack, f)
      /\ Append(stack, f) \in Seq(Frame)
  BY DEF LInv, IInv, TypeOK, Push
<1>2. f \in Frame
  BY <1>1, PushedFrame
<1>3. f.saved.locked = locked
  BY DEF Now
<1>4. f.fn \in Guarded => ~locked /\ locked'
  BY DEF NonReentrant
<1>5. f.fn \notin Guarded => (locked' <=> locked)
  OBVIOUS
<1>6. LockFits(Append(stack, f), locked')
  BY <1>1, <1>2, <1>3, <1>4, <1>5, LockPush DEF LInv
<1> QED BY <1>1, <1>6

(* What a take is when it begins. *)
TakeBegins(f) ==
  f.fn = "takeOrders2" =>
    /\ f.pc = "loop" /\ f.in.amount = 0 /\ f.out.amount = 0
    /\ f.take.orders \in TakeLists /\ f.take.next = 1
    /\ f.take.maximumInput \in TakeAmounts
    /\ f.take.maximumIORatio \in Ratios

Begins(f) ==
  /\ Push(f) /\ f.saved = Now /\ TakeBegins(f)
  /\ \/ f.fn \in Guarded /\ NonReentrant
     \/ f.fn \notin Guarded /\ locked' = locked

(* Whatever an account calls pushes a call, and takes the lock unless it   *)
(* is a flash loan.                                                        *)
LEMMA AccountCallBegins ==
  ASSUME NEW u \in Users, AccountCall(u)
  PROVE  \E f : Begins(f)
<1>1. ASSUME NEW t \in Tokens, NEW id \in VaultIds, NEW n \in DepositAmounts,
             Deposit2(u, t, id, n)
      PROVE  \E f : Begins(f)
  <2> DEFINE f == [Call("deposit2", u, "pull") EXCEPT
                     !.in = [token |-> t, amount |-> n], !.vaultId = id]
  <2>1. Push(f) /\ NonReentrant
    BY <1>1 DEF Deposit2
  <2>2. f.saved = Now /\ f.fn \in Guarded /\ TakeBegins(f)
    BY DEF Call, Guarded, TakeBegins
  <2> HIDE DEF f
  <2> QED BY <2>1, <2>2 DEF Begins
<1>2. ASSUME NEW t \in Tokens, NEW id \in VaultIds, NEW n \in WithdrawAmounts,
             Withdraw2(u, t, id, n)
      PROVE  \E f : Begins(f)
  <2> DEFINE f == [Call("withdraw2", u, "send") EXCEPT
                     !.out = [token |-> t,
                              amount |-> WithdrawAmount(n, vault[<<u, t, id>>])]]
  <2>1. Push(f) /\ NonReentrant
    BY <1>2 DEF Withdraw2
  <2>2. f.saved = Now /\ f.fn \in Guarded /\ TakeBegins(f)
    BY DEF Call, Guarded, TakeBegins
  <2> HIDE DEF f
  <2> QED BY <2>1, <2>2 DEF Begins
<1>3. ASSUME NEW o \in Orders, AddOrder2(u, o) \/ RemoveOrder2(u, o)
      PROVE  \E f : Begins(f)
  <2>1. PICK fn \in {"addOrder2", "removeOrder2"} :
          Push(Call(fn, u, "post")) /\ NonReentrant
    BY <1>3 DEF AddOrder2, RemoveOrder2
  <2> DEFINE f == Call(fn, u, "post")
  <2>2. f.saved = Now /\ f.fn \in Guarded /\ TakeBegins(f)
    BY DEF Call, Guarded, TakeBegins
  <2> QED BY <2>1, <2>2 DEF Begins
<1>4. ASSUME Entask(u) PROVE \E f : Begins(f)
  <2>1. Push(Call("entask", u, "post")) /\ NonReentrant
    BY <1>4 DEF Entask
  <2> DEFINE f == Call("entask", u, "post")
  <2>2. f.saved = Now /\ f.fn \in Guarded /\ TakeBegins(f)
    BY DEF Call, Guarded, TakeBegins
  <2> QED BY <2>1, <2>2 DEF Begins
<1>5. ASSUME NEW list \in TakeLists, NEW low \in TakeAmounts \cup {0},
             NEW high \in TakeAmounts, NEW ratio \in Ratios,
             TakeOrders2(u, list, low, high, ratio)
      PROVE  \E f : Begins(f)
  <2> DEFINE take == [orders |-> list, next |-> 1, minimumInput |-> low,
                      maximumInput |-> high, maximumIORatio |-> ratio]
             out == [token |-> OutputIO(list[1]).token, amount |-> 0]
             in == [token |-> InputIO(list[1]).token, amount |-> 0]
             f == [Call("takeOrders2", u, "loop") EXCEPT
                     !.out = out, !.in = in, !.take = take]
  <2>1. Push(f) /\ NonReentrant
    BY <1>5 DEF TakeOrders2
  <2>2. f.saved = Now /\ f.fn \in Guarded
    BY DEF Call, Guarded
  <2>3. f.pc = "loop" /\ f.out = out /\ f.in = in /\ f.take = take
    BY DEF Call
  <2>4. TakeBegins(f)
    BY <1>5, <2>3 DEF TakeBegins
  <2> HIDE DEF f
  <2> QED BY <2>1, <2>2, <2>4 DEF Begins
<1>6. ASSUME NEW a \in TakeOrders, NEW b \in TakeOrders,
             NEW aId \in VaultIds, NEW bId \in VaultIds,
             Clear2(u, a, b, aId, bId)
      PROVE  \E f : Begins(f)
  <2>1. Push(ClearCall(u, a, b)) /\ NonReentrant
    BY <1>6 DEF Clear2, ClearCall
  <2> DEFINE f == ClearCall(u, a, b)
  <2>2. f.saved = Now /\ f.fn \in Guarded /\ TakeBegins(f)
    BY DEF ClearCall, Call, Guarded, TakeBegins
  <2> QED BY <2>1, <2>2 DEF Begins
<1>7. ASSUME NEW receiver \in Users, NEW t \in Tokens, NEW n \in LoanAmounts,
             FlashLoan(u, receiver, t, n)
      PROVE  \E f : Begins(f)
  <2> DEFINE loan == [token |-> t, amount |-> n]
             f == [Call("flashLoan", u, "send") EXCEPT
                     !.party = receiver, !.out = loan, !.in = loan]
  <2>1. Push(f) /\ locked' = locked
    BY <1>7 DEF FlashLoan
  <2> HIDE DEF loan
  <2>2. f.saved = Now /\ f.fn \notin Guarded /\ TakeBegins(f)
    BY DEF Call, Guarded, TakeBegins
  <2> HIDE DEF f
  <2> QED BY <2>1, <2>2 DEF Begins
<1> QED BY <1>1, <1>2, <1>3, <1>4, <1>5, <1>6, <1>7 DEF AccountCall

LEMMA LockAccountCall ==
  ASSUME LInv, TypeOK', NEW u \in Users, AccountCall(u)
  PROVE  LockFits(stack, locked)'
<1>1. PICK f : Begins(f)
  BY AccountCallBegins
<1> QED BY <1>1, LockEnter DEF Begins

LEMMA BecomeFrame ==
  ASSUME NEW s \in Seq(Frame), s # <<>>, NEW f,
         [s EXCEPT ![Len(s)] = f] \in Seq(Frame)
  PROVE  f \in Frame
<1> DEFINE r == [s EXCEPT ![Len(s)] = f]
<1>1. Len(s) \in 1..Len(s) /\ DOMAIN s = 1..Len(s)
  BY StackTop
<1>2. r[Len(s)] = f /\ DOMAIN r = 1..Len(s)
  BY <1>1
<1> HIDE DEF r
<1>3. r \in Seq(Frame) /\ DOMAIN r = 1..Len(r)
  BY DEF r
<1> QED BY <1>1, <1>2, <1>3

LEMMA LockGoOn ==
  ASSUME LInv, TypeOK', stack # <<>>, NEW f, Become(f), locked' = locked,
         f.saved = Top.saved, f.fn = Top.fn
  PROVE  LockFits(stack, locked)'
<1>1. stack \in Seq(Frame) /\ stack' = [stack EXCEPT ![Len(stack)] = f]
      /\ [stack EXCEPT ![Len(stack)] = f] \in Seq(Frame)
  BY DEF LInv, IInv, TypeOK, Become
<1>2. f \in Frame
  BY <1>1, BecomeFrame
<1>3. LockFits([stack EXCEPT ![Len(stack)] = f], locked)
  BY <1>1, <1>2, LockBecome DEF LInv, Top
<1> QED BY <1>1, <1>3

LEMMA LockPhase ==
  ASSUME LInv, TypeOK', Phase
  PROVE  LockFits(stack, locked)'
<1>0. TypeOK /\ stack \in Seq(Frame)
  BY DEF LInv, IInv, TypeOK
<1>1. CASE SkipOrder
  <2> DEFINE f == [Top EXCEPT !.take.next = @ + 1]
  <2>1. stack # <<>> /\ Become(f) /\ locked' = locked
    BY <1>1 DEF SkipOrder
  <2>2. f.saved = Top.saved /\ f.fn = Top.fn
    BY <1>0, <2>1, TopType DEF FrameRecord
  <2> HIDE DEF f
  <2> QED BY <2>1, <2>2, LockGoOn
<1>2. CASE \E ratio \in Ratios, outputMax \in OutputMaxes :
             FillOrder(ratio, outputMax)
  <2>1. PICK input, output :
          /\ stack # <<>> /\ locked' = locked
          /\ Become([Top EXCEPT !.take.next = @ + 1,
                                !.out.amount = @ + input,
                                !.in.amount = @ + output])
    BY <1>2 DEF FillOrder
  <2> DEFINE f == [Top EXCEPT !.take.next = @ + 1, !.out.amount = @ + input,
                              !.in.amount = @ + output]
  <2>2. f.saved = Top.saved /\ f.fn = Top.fn
    BY <1>0, <2>1, TopType DEF FrameRecord
  <2> HIDE DEF f
  <2>3. Become(f)
    BY <2>1 DEF f
  <2> QED BY <2>1, <2>2, <2>3, LockGoOn
<1>3. CASE FinishLoop \/ Send \/ ReturnCallback \/ Pull \/ CreditDeposit
  <2>1. PICK pc : stack # <<>> /\ locked' = locked /\ Goto(pc)
    BY <1>3 DEF FinishLoop, Send, ReturnCallback, Pull, CreditDeposit, At
  <2> DEFINE f == [Top EXCEPT !.pc = pc]
  <2>2. f.saved = Top.saved /\ f.fn = Top.fn /\ Become(f)
    BY <1>0, <2>1, TopType DEF FrameRecord, Goto
  <2> HIDE DEF f
  <2> QED BY <2>1, <2>2, LockGoOn
<1>4. CASE Return
  <2>1. stack # <<>> /\ stack' = SubSeq(stack, 1, Len(stack) - 1)
    BY <1>4 DEF Return, At, Pop
  <2>2. Len(stack) \in 1..Len(stack) /\ Len(stack) \in Nat \ {0}
    BY <1>0, <2>1, StackTop
  <2>3. /\ Top.saved.locked <=> GuardedBefore(stack, Len(stack))
        /\ Top.fn \in Guarded => ~Top.saved.locked
    <3>1. Len(stack) \in 1..(Len(stack) + 1)
      BY <2>2
    <3> QED BY <2>2, <3>1 DEF LInv, LockFits, LockWhenCalled, Top
  <2>4. locked <=> GuardedBefore(stack, Len(stack)) \/ Top.fn \in Guarded
    <3>1. /\ Len(stack) + 1 \in 1..(Len(stack) + 1)
          /\ ~(Len(stack) + 1 <= Len(stack))
          /\ 1..(Len(stack) + 1 - 1) = 1..(Len(stack) - 1) \cup {Len(stack)}
      BY <2>2
    <3>2. locked <=> GuardedBefore(stack, Len(stack) + 1)
      BY <3>1 DEF LInv, LockFits, LockWhenCalled
    <3> QED BY <3>1, <3>2 DEF GuardedBefore, Top
  <2>5. locked' <=> stack[Len(stack)].saved.locked
    BY <1>4, <2>3, <2>4 DEF Return, Top
  <2>6. LockFits(SubSeq(stack, 1, Len(stack) - 1), locked')
    BY <1>0, <2>1, <2>5, LockPop DEF LInv
  <2> QED BY <2>1, <2>6
<1>5. CASE Revert
  <2>1. /\ stack # <<>> /\ stack' = SubSeq(stack, 1, Len(stack) - 1)
        /\ locked' = stack[Len(stack)].saved.locked
    BY <1>5 DEF Revert, RevertsTo, Pop, Top
  <2>2. LockFits(SubSeq(stack, 1, Len(stack) - 1), locked')
    BY <1>0, <2>1, LockPop DEF LInv
  <2> QED BY <2>1, <2>2
<1> QED BY <1>1, <1>2, <1>3, <1>4, <1>5 DEF Phase

-----------------------------------------------------------------------------
(* The theorem *)

LEMMA InitLInv == Init => LInv
<1> SUFFICES ASSUME Init PROVE LInv
  OBVIOUS
<1>1. stack = <<>> /\ locked = FALSE
  BY DEF Init
<1>2. LockFits(stack, locked)
  BY <1>1 DEF LockFits, LockWhenCalled, GuardedBefore
<1> QED BY <1>2, InitIInv DEF LInv

LEMMA NextLInv == LInv /\ [Next]_vars => LInv'
<1> SUFFICES ASSUME LInv, [Next]_vars PROVE LInv'
  OBVIOUS
<1>1. IInv' /\ TypeOK'
  BY NextIInv DEF LInv, IInv
<1>2. CASE \E u \in Users : AccountCall(u)
  BY <1>1, <1>2, LockAccountCall DEF LInv
<1>3. CASE Phase
  BY <1>1, <1>3, LockPhase DEF LInv
<1>4. CASE \/ \E u \in Users, to \in Accounts, t \in Tokens,
                 n \in MoveAmounts : MoveTokens(u, to, t, n)
           \/ UNCHANGED vars
  <2>1. stack' = stack /\ locked' = locked
    BY <1>4 DEF MoveTokens, vars
  <2> QED BY <1>1, <2>1 DEF LInv
<1> QED BY <1>2, <1>3, <1>4 DEF Next

(* The lock is taken exactly while a guarded call is in progress, and two  *)
(* guarded calls never are: no callback, token hook or task, nested in any *)
(* way and through any flash loans and reverts, re-enters vault or order   *)
(* accounting, and none ends with the lock left taken.                     *)
THEOREM LockIsExclusive == Spec => []LockMatchesStack
<1>1. LInv => LockMatchesStack
  <2> SUFFICES ASSUME LInv PROVE LockMatchesStack
    OBVIOUS
  <2>1. Len(stack) \in Nat
    BY DEF LInv, IInv, TypeOK
  <2>2. locked <=> \E i \in 1..Len(stack) : stack[i].fn \in Guarded
    <3>1. /\ Len(stack) + 1 \in 1..(Len(stack) + 1)
          /\ ~(Len(stack) + 1 <= Len(stack))
          /\ 1..(Len(stack) + 1 - 1) = 1..Len(stack)
      BY <2>1
    <3> QED BY <3>1 DEF LInv, LockFits, LockWhenCalled, GuardedBefore
  <2>3. ASSUME NEW i \in 1..Len(stack), NEW j \in 1..Len(stack),
               stack[i].fn \in Guarded, stack[j].fn \in Guarded
        PROVE  ~(i < j)
    <3> SUFFICES ASSUME i < j PROVE FALSE
      OBVIOUS
    <3>1. i \in 1..(j - 1) /\ j \in 1..(Len(stack) + 1)
      BY <2>1
    <3>2. LockWhenCalled(stack, locked, j)
      BY <2>3, <3>1 DEF LInv, LockFits, GuardedBefore
    <3> QED BY <2>3, <3>2 DEF LInv, LockFits
  <2>4. ASSUME NEW i \in 1..Len(stack), NEW j \in 1..Len(stack),
               stack[i].fn \in Guarded, stack[j].fn \in Guarded
        PROVE  i = j
    <3>1. ~(i < j) /\ ~(j < i)
      BY <2>3, <2>4
    <3> QED BY <2>1, <3>1
  <2> QED BY <2>2, <2>4 DEF LockMatchesStack
<1>2. Spec => []LInv
  BY InitLInv, NextLInv, PTL DEF Spec
<1> QED BY <1>1, <1>2, PTL

-----------------------------------------------------------------------------
(* What happens to vaults and orders while the lock is taken *)

LEMMA ShorterStack ==
  ASSUME TypeOK, stack # <<>>, Pop
  PROVE  Len(stack') < Len(stack)
<1>1. stack \in Seq(Frame)
  BY DEF TypeOK
<1>2. /\ Len(stack) \in Nat \ {0}
      /\ Len(SubSeq(stack, 1, Len(stack) - 1)) = Len(stack) - 1
  BY <1>1, StackPop, StackTop
<1> QED BY <1>2 DEF Pop

LEMMA FrozenStep ==
  ASSUME TypeOK, [Next]_vars, locked, vault' # vault \/ live' # live
  PROVE  \/ Len(stack') < Len(stack)
         \/ /\ Top.fn \in Guarded
            /\ Top.pc \in {"loop", "credit"}
<1>1. ASSUME NEW u \in Users, AccountCall(u) PROVE FALSE
  <2>1. ASSUME NEW t, NEW id, NEW n, Deposit2(u, t, id, n) PROVE ~locked
    BY <2>1 DEF Deposit2, NonReentrant
  <2>2. ASSUME NEW t, NEW id, NEW n, Withdraw2(u, t, id, n) PROVE ~locked
    BY <2>2 DEF Withdraw2, NonReentrant
  <2>3. ASSUME NEW o, AddOrder2(u, o) \/ RemoveOrder2(u, o) PROVE ~locked
    BY <2>3 DEF AddOrder2, RemoveOrder2, NonReentrant
  <2>4. Entask(u) => ~locked
    BY DEF Entask, NonReentrant
  <2>5. ASSUME NEW list, NEW low, NEW high, NEW ratio,
               TakeOrders2(u, list, low, high, ratio)
        PROVE  ~locked
    BY <2>5 DEF TakeOrders2, NonReentrant
  <2>6. ASSUME NEW a, NEW b, NEW aId, NEW bId, Clear2(u, a, b, aId, bId)
        PROVE  ~locked
    BY <2>6 DEF Clear2, NonReentrant
  <2>7. ASSUME NEW receiver, NEW t, NEW n, FlashLoan(u, receiver, t, n)
        PROVE  vault' = vault /\ live' = live
    BY <2>7 DEF FlashLoan
  <2> QED BY <1>1, <2>1, <2>2, <2>3, <2>4, <2>5, <2>6, <2>7 DEF AccountCall
<1>2. CASE SkipOrder \/ FinishLoop \/ Send \/ ReturnCallback \/ Pull
  BY <1>2 DEF SkipOrder, FinishLoop, Send, ReturnCallback, Pull
<1>3. ASSUME NEW ratio, NEW outputMax, FillOrder(ratio, outputMax)
      PROVE  Top.fn \in Guarded /\ Top.pc = "loop"
  <2>1. stack # <<>> /\ Top.pc = "loop"
    BY <1>3 DEF FillOrder, LoopsOn
  <2>2. InItsPhase(Top)
    BY <2>1, TopType DEF TypeOK, Frame
  <2> QED BY <2>1, <2>2 DEF InItsPhase, Guarded
<1>4. CASE CreditDeposit
  <2>1. stack # <<>> /\ Top.pc = "credit"
    BY <1>4 DEF CreditDeposit, At
  <2>2. InItsPhase(Top)
    BY <2>1, TopType DEF TypeOK, Frame
  <2> QED BY <2>1, <2>2 DEF InItsPhase, Guarded
<1>5. CASE Return \/ Revert
  BY <1>5, ShorterStack DEF Return, Revert, At
<1>6. CASE \/ \E u \in Users, to \in Accounts, t \in Tokens,
                 n \in MoveAmounts : MoveTokens(u, to, t, n)
           \/ UNCHANGED vars
  BY <1>6 DEF MoveTokens, vars
<1> QED BY <1>1, <1>2, <1>3, <1>4, <1>5, <1>6 DEF Next, Phase

(* While a guarded call is in progress nothing but its own loop, its own   *)
(* credit, and the end of a call changes a vault or the set of live orders:*)
(* what token hooks, callbacks and the stores of expressions do meanwhile, *)
(* nested flash loans included, cannot.                                    *)
THEOREM FrozenUnderLock == Spec => FrozenWhileOutside
<1>1. TypeOK /\ [Next]_vars =>
        [locked /\ (vault' # vault \/ live' # live) =>
           \/ Len(stack') < Len(stack)
           \/ /\ Top.fn \in Guarded
              /\ Top.pc \in {"loop", "credit"}]_vars
  BY FrozenStep
<1> QED BY <1>1, TypeCorrect, PTL DEF Spec, FrozenWhileOutside

-----------------------------------------------------------------------------
(* Who takes from a vault *)

(* The frame a step pushes is on top after it. *)
LEMMA PushTop ==
  ASSUME stack \in Seq(Frame), NEW f, Push(f)
  PROVE  Top' = f /\ Len(stack') > Len(stack)
<1>1. Len(stack') = Len(stack) + 1 /\ stack'[Len(stack')] = f
      /\ Len(stack) \in Nat
  BY DEF Push
<1> QED BY <1>1 DEF Top

(* The vault that is an output of a trade is the only one it takes from.   *)
LEMMA RecordDebits ==
  ASSUME NEW v \in Vaults, NEW c \in TakeOrders, NEW input \in Nat,
         NEW output \in Nat, NEW k \in VaultKeys,
         RecordVaultIO(v, c, input, output)[k] < v[k]
  PROVE  k = OutputKey(c)
<1>1. InputKey(c) \in VaultKeys /\ OutputKey(c) \in VaultKeys
  BY TakeOrderType
<1>2. SUFFICES ASSUME k # OutputKey(c) PROVE FALSE
  OBVIOUS
<1>3. v[k] \in Nat /\ v[InputKey(c)] \in Nat
  BY <1>1 DEF Vaults
<1>4. RecordVaultIO(v, c, input, output)[k]
        = IF k = InputKey(c) THEN v[k] + input ELSE v[k]
  BY <1>1, <1>2 DEF RecordVaultIO, Credit, Debit, Vaults
<1> QED BY <1>3, <1>4

LEMMA CreditRaises ==
  ASSUME NEW v \in Vaults, NEW key \in VaultKeys, NEW n \in Nat,
         NEW k \in VaultKeys
  PROVE  Credit(v, key, n)[k] >= v[k] /\ Credit(v, key, n) \in Vaults
<1>1. v[k] \in Nat /\ v[key] \in Nat
  BY DEF Vaults
<1> QED BY <1>1 DEF Credit, Vaults

(* A fill takes from the vault of the very order its loop has come to, and *)
(* exactly what it adds to what the taker is to be sent.                   *)
LEMMA FillDebits ==
  ASSUME TypeOK, NEW ratio \in Ratios, NEW outputMax \in OutputMaxes,
         FillOrder(ratio, outputMax), NEW k \in VaultKeys,
         vault[k] - vault'[k] > 0
  PROVE  Fills(k, vault[k] - vault'[k])
<1> DEFINE c       == Current(Top)
           input18 == TakerInput18(VaultCapped(c, outputMax),
                                   RemainingTakerInput(Top),
                                   OutputIO(c).decimals)
           input   == TakerInput(input18, OutputIO(c).decimals)
           output  == TakerOutput(input18, ratio, InputIO(c).decimals)
           f == [Top EXCEPT !.take.next = @ + 1,
                            !.out.amount = @ + input,
                            !.in.amount = @ + output]
<1>1. /\ stack # <<>> /\ LoopsOn(Top) /\ IsLive(c.order)
      /\ vault' = RecordVaultIO(vault, c, output, input)
      /\ RecordOk(vault, c, output, input)
      /\ Become(f)
  BY DEF FillOrder
<1>2. c \in TakeOrders /\ input \in Nat /\ output \in Nat /\ vault \in Vaults
  BY <1>1, FillAmounts DEF TypeOK
<1>3. InputIO(c).token # OutputIO(c).token
  BY <1>1 DEF LoopsOn
<1> HIDE DEF c, input, output, f
<1>4. RecordVaultIO(vault, c, output, input) \in Vaults
  BY <1>1, <1>2, RecordOwed
<1>5. vault[k] \in Nat /\ vault'[k] \in Nat
  BY <1>1, <1>2, <1>4 DEF Vaults
<1>6. k = OutputKey(c)
  BY <1>1, <1>2, <1>5, RecordDebits
<1>7. k # InputKey(c) /\ InputKey(c) \in VaultKeys
  BY <1>2, <1>3, <1>6, TakeOrderType
<1>8. vault'[k] = vault[k] - input
  BY <1>1, <1>2, <1>6, <1>7 DEF RecordVaultIO, Credit, Debit, Vaults
<1>9. vault[k] - vault'[k] = input
  BY <1>2, <1>5, <1>8
<1>10. Top \in FrameRecord /\ stack \in Seq(Frame)
  BY <1>1, TopType DEF TypeOK
<1>11. f = [Top EXCEPT !.take.next = @ + 1, !.out.amount = @ + input,
                       !.in.amount = f.in.amount]
  <2>1. Top.in \in Payment
    BY <1>10 DEF FrameRecord
  <2>2. f.in.amount = Top.in.amount + output
    BY <1>10, <2>1 DEF f, FrameRecord, Payment
  <2>3. [Top EXCEPT !.take.next = @ + 1, !.out.amount = @ + input,
                    !.in.amount = f.in.amount]
          = [Top EXCEPT !.take.next = @ + 1, !.out.amount = @ + input,
                        !.in.amount = Top.in.amount + output]
    BY <2>2
  <2> QED BY <2>3 DEF f
<1>12. Top' = f
  <2>1. Len(stack) \in Nat \ {0} /\ Len(stack) \in DOMAIN stack
    BY <1>1, <1>10
  <2>2. Len(stack') = Len(stack) /\ stack'[Len(stack)] = f
    BY <1>1, <1>10, <2>1 DEF Become
  <2> QED BY <2>2 DEF Top
<1> QED BY <1>1, <1>6, <1>9, <1>11, <1>12
       DEF Fills, LoopsOn, At, Become, IsLive, c

LEMMA ClearDebits ==
  ASSUME TypeOK, NEW u \in Users, NEW a \in TakeOrders, NEW b \in TakeOrders,
         NEW aBountyId \in VaultIds, NEW bBountyId \in VaultIds,
         Clear2(u, a, b, aBountyId, bBountyId),
         NEW k \in VaultKeys, vault[k] - vault'[k] > 0
  PROVE  Clears(k)
<1>1. PICK aIn, aOut, bIn, bOut \in Nat :
          LET v1 == RecordVaultIO(vault, a, aIn, aOut)
              v2 == RecordVaultIO(v1, b, bIn, bOut)
              aKey == <<u, OutputIO(a).token, aBountyId>>
              bKey == <<u, OutputIO(b).token, bBountyId>>
          IN  /\ RecordOk(vault, a, aIn, aOut) /\ RecordOk(v1, b, bIn, bOut)
              /\ aOut >= bIn /\ bOut >= aIn
              /\ vault' = Credit(Credit(v2, aKey, aOut - bIn),
                                 bKey, bOut - aIn)
  BY ClearMoves
<1> DEFINE v1 == RecordVaultIO(vault, a, aIn, aOut)
           v2 == RecordVaultIO(v1, b, bIn, bOut)
           aKey == <<u, OutputIO(a).token, aBountyId>>
           bKey == <<u, OutputIO(b).token, bBountyId>>
           v3 == Credit(v2, aKey, aOut - bIn)
<1>2. aIn \in Nat /\ aOut \in Nat /\ bIn \in Nat /\ bOut \in Nat
  OBVIOUS
<1>3. /\ RecordOk(vault, a, aIn, aOut) /\ RecordOk(v1, b, bIn, bOut)
      /\ aOut >= bIn /\ bOut >= aIn
      /\ vault' = Credit(v3, bKey, bOut - aIn)
  BY <1>1
<1>4. aKey \in VaultKeys /\ bKey \in VaultKeys /\ vault \in Vaults
  BY TakeOrderType DEF VaultKeys, IO, TypeOK
<1>5. IsLive(a.order) /\ IsLive(b.order)
  BY DEF Clear2
<1> HIDE DEF aKey, bKey
<1>6. aOut - bIn \in Nat /\ bOut - aIn \in Nat
  BY <1>2, <1>3
<1> HIDE DEF v1, v2, v3
<1>7. v1 \in Vaults
  BY <1>2, <1>3, <1>4, RecordOwed DEF v1
<1>8. v2 \in Vaults
  BY <1>2, <1>3, <1>7, RecordOwed DEF v2
<1>9. v3 \in Vaults /\ v3[k] >= v2[k] /\ vault'[k] >= v3[k]
  BY <1>3, <1>4, <1>6, <1>8, CreditRaises DEF v3
<1>10. vault' \in Vaults
  BY <1>3, <1>4, <1>6, <1>9, CreditRaises
<1>11. /\ vault[k] \in Nat /\ v1[k] \in Nat /\ v2[k] \in Nat
       /\ v3[k] \in Nat /\ vault'[k] \in Nat
  BY <1>4, <1>7, <1>8, <1>9, <1>10 DEF Vaults
<1>12. v1[k] < vault[k] \/ v2[k] < v1[k]
  BY <1>9, <1>11
<1>13. k = OutputKey(a) \/ k = OutputKey(b)
  <2>1. CASE v1[k] < vault[k]
    BY <1>2, <1>4, <2>1, RecordDebits DEF v1
  <2>2. CASE v2[k] < v1[k]
    BY <1>2, <1>7, <2>2, RecordDebits DEF v2
  <2> QED BY <1>12, <2>1, <2>2
<1>14. Top' = ClearCall(u, a, b) /\ Len(stack') > Len(stack)
  <2>1. Push(ClearCall(u, a, b))
    BY DEF Clear2, ClearCall
  <2> QED BY <2>1, PushTop DEF TypeOK
<1>15. Top'.fn = "clear2" /\ Top'.take.orders = <<a, b>>
  BY <1>14, ClearCallType
<1> QED BY <1>5, <1>13, <1>14, <1>15 DEF Clears, Calls, IsLive

LEMMA WithdrawDebits ==
  ASSUME TypeOK, NEW u \in Users, NEW t \in Tokens, NEW id \in VaultIds,
         NEW n \in WithdrawAmounts, Withdraw2(u, t, id, n),
         NEW k \in VaultKeys, vault[k] - vault'[k] > 0
  PROVE  Withdraws(k, vault[k] - vault'[k])
<1> DEFINE amount == WithdrawAmount(n, vault[<<u, t, id>>])
           pay == [token |-> t, amount |-> amount]
           f == [Call("withdraw2", u, "send") EXCEPT !.out = pay]
<1>1. /\ vault' = Debit(vault, <<u, t, id>>, amount) /\ Push(f)
      /\ amount > 0
  BY DEF Withdraw2
<1>2. vault[k] \in Nat /\ vault \in Vaults /\ <<u, t, id>> \in VaultKeys
  BY DEF TypeOK, Vaults, VaultKeys
<1>3. k = <<u, t, id>>
  <2>1. k # <<u, t, id>> => vault'[k] = vault[k]
    BY <1>1, <1>2 DEF Debit, Vaults
  <2> QED BY <1>2, <2>1
<1>4. vault'[k] = vault[k] - amount /\ vault[k] - vault'[k] = amount
  <2>1. amount \in Nat
    BY <1>2, OrderBookAssumption
       DEF WithdrawAmount, Smaller, Vaults
  <2>2. vault'[k] = vault[k] - amount
    BY <1>1, <1>2, <1>3 DEF Debit, Vaults
  <2> HIDE DEF amount
  <2> QED BY <1>2, <2>1, <2>2
<1> HIDE DEF pay
<1>5. f.fn = "withdraw2" /\ f.sender = u /\ f.out = pay
  BY DEF Call
<1> HIDE DEF f
<1>6. Top' = f /\ Len(stack') > Len(stack)
  BY <1>1, PushTop DEF TypeOK
<1> QED BY <1>3, <1>4, <1>5, <1>6 DEF Withdraws, Calls, pay

LEMMA DebitStep ==
  ASSUME TypeOK, [Next]_vars, NEW k \in VaultKeys, vault[k] - vault'[k] > 0
  PROVE  \/ Reverting
         \/ Withdraws(k, vault[k] - vault'[k])
         \/ Fills(k, vault[k] - vault'[k])
         \/ Clears(k)
<1>1. vault[k] \in Nat /\ vault' # vault
  <2>1. vault[k] \in Nat
    BY DEF TypeOK, Vaults
  <2> QED BY <2>1
<1>2. CASE \E u \in Users : AccountCall(u)
  <2>1. PICK u \in Users : AccountCall(u)
    BY <1>2
  <2>2. ASSUME NEW t, NEW id, NEW n, Deposit2(u, t, id, n) PROVE FALSE
    BY <1>1, <2>2 DEF Deposit2
  <2>3. ASSUME NEW o, AddOrder2(u, o) \/ RemoveOrder2(u, o) PROVE FALSE
    BY <1>1, <2>3 DEF AddOrder2, RemoveOrder2
  <2>4. ~Entask(u)
    BY <1>1 DEF Entask
  <2>5. ASSUME NEW list, NEW low, NEW high, NEW ratio,
               TakeOrders2(u, list, low, high, ratio)
        PROVE  FALSE
    BY <1>1, <2>5 DEF TakeOrders2
  <2>6. ASSUME NEW receiver, NEW t, NEW n, FlashLoan(u, receiver, t, n)
        PROVE  FALSE
    BY <1>1, <2>6 DEF FlashLoan
  <2> QED BY <2>1, <2>2, <2>3, <2>4, <2>5, <2>6, ClearDebits, WithdrawDebits
          DEF AccountCall
<1>3. CASE SkipOrder \/ FinishLoop \/ Send \/ ReturnCallback \/ Pull \/ Return
  BY <1>1, <1>3 DEF SkipOrder, FinishLoop, Send, ReturnCallback, Pull, Return
<1>4. CASE \E ratio \in Ratios, outputMax \in OutputMaxes :
             FillOrder(ratio, outputMax)
  BY <1>4, FillDebits
<1>5. CASE CreditDeposit
  <2>1. stack # <<>> /\ vault' = Credit(vault, DepositKey(Top), Top.in.amount)
    BY <1>5 DEF CreditDeposit, At
  <2>2. DepositKey(Top) \in VaultKeys /\ Top.in.amount \in Nat
    BY <2>1, TopFields DEF DepositKey, VaultKeys
  <2>3. vault \in Vaults
    BY DEF TypeOK
  <2>4. vault'[k] >= vault[k] /\ vault' \in Vaults
    BY <2>1, <2>2, <2>3, CreditRaises
  <2>5. vault'[k] \in Nat
    BY <2>4 DEF Vaults
  <2> QED BY <1>1, <2>4, <2>5
<1>6. CASE Revert
  BY <1>6, ShorterStack DEF Revert, RevertsTo, Reverting
<1>7. CASE \/ \E u \in Users, to \in Accounts, t \in Tokens,
                 n \in MoveAmounts : MoveTokens(u, to, t, n)
           \/ UNCHANGED vars
  BY <1>1, <1>7 DEF MoveTokens, vars
<1> QED BY <1>2, <1>3, <1>4, <1>5, <1>6, <1>7 DEF Next, Phase

(* Only the withdrawal of its owner, by the amount then sent; the fill of  *)
(* the live order a take has come to whose output it is, by the amount     *)
(* then owed to the taker; or the clear of two live orders of which one    *)
(* has it as output, ever lowers a vault.  The rest of what lowers one is  *)
(* the revert of a call, to what the call found.                           *)
THEOREM DebitsAuthorised == Spec => VaultDebitsAuthorised
<1>1. TypeOK /\ [Next]_vars =>
        [\A k \in VaultKeys :
           LET n == vault[k] - vault'[k]
           IN  n > 0 =>
                 Reverting \/ Withdraws(k, n) \/ Fills(k, n) \/ Clears(k)
        ]_vars
  BY DebitStep
<1> QED BY <1>1, TypeCorrect, PTL DEF Spec, VaultDebitsAuthorised

-----------------------------------------------------------------------------
(* The limits of takes *)

(* What TakerLimits says of a take, and what it needs to go on saying it:  *)
(* the list stays what it was, and the limit of the taker is a word, so no *)
(* amount of the take saturates.                                           *)
WithinLimits(f) ==
  f.fn = "takeOrders2" =>
    LET inUnit == Unit(InputIO(f.take.orders[1]).decimals)
        outUnit == Unit(OutputIO(f.take.orders[1]).decimals)
        fills == f.take.next - 1
    IN  /\ f.take.orders # <<>>
        /\ Fits(f.take.maximumInput)
        /\ f.out.amount <= f.take.maximumInput
        /\ f.pc # "loop" => f.out.amount >= f.take.minimumInput
        /\ f.in.amount * inUnit * One
             <= (f.out.amount + fills) * outUnit * f.take.maximumIORatio
                + fills * (inUnit + Unit(FpDecimals)) * One

TInv == TypeOK /\ \A i \in 1..Len(stack) : WithinLimits(stack[i])

LEMMA LimitsPush ==
  ASSUME TInv, TypeOK', NEW f, Push(f), WithinLimits(f)
  PROVE  TInv'
<1>1. /\ stack \in Seq(Frame) /\ stack' = Append(stack, f)
      /\ Append(stack, f) \in Seq(Frame)
  BY DEF TInv, TypeOK, Push
<1>2. f \in Frame
  BY <1>1, PushedFrame
<1>3. /\ Len(stack') = Len(stack) + 1 /\ Len(stack) \in Nat
      /\ \A i \in 1..Len(stack) : stack'[i] = stack[i]
      /\ stack'[Len(stack) + 1] = f
  BY <1>1, <1>2, StackPush
<1>4. ASSUME NEW i \in 1..Len(stack') PROVE WithinLimits(stack'[i])
  <2>1. i \in 1..Len(stack) \/ i = Len(stack) + 1
    BY <1>3
  <2> QED BY <1>3, <2>1 DEF TInv
<1>5. \A i \in 1..Len(stack') : WithinLimits(stack[i])'
  BY <1>4 DEF WithinLimits
<1> QED BY <1>5 DEF TInv

LEMMA LimitsBecome ==
  ASSUME TInv, TypeOK', stack # <<>>, NEW f, Become(f), WithinLimits(f)
  PROVE  TInv'
<1>1. /\ stack \in Seq(Frame) /\ stack' = [stack EXCEPT ![Len(stack)] = f]
      /\ [stack EXCEPT ![Len(stack)] = f] \in Seq(Frame)
  BY DEF TInv, TypeOK, Become
<1>2. f \in Frame
  BY <1>1, BecomeFrame
<1>3. /\ Len(stack') = Len(stack)
      /\ \A i \in 1..Len(stack) :
           stack'[i] = IF i = Len(stack) THEN f ELSE stack[i]
  BY <1>1, <1>2, StackBecome
<1>4. \A i \in 1..Len(stack') : WithinLimits(stack[i])'
  BY <1>3 DEF TInv, WithinLimits
<1> QED BY <1>4 DEF TInv

LEMMA LimitsPop ==
  ASSUME TInv, TypeOK', stack # <<>>, Pop
  PROVE  TInv'
<1>1. /\ stack \in Seq(Frame) /\ stack' = SubSeq(stack, 1, Len(stack) - 1)
  BY DEF TInv, TypeOK, Pop
<1>2. /\ Len(stack') = Len(stack) - 1 /\ Len(stack) \in Nat
      /\ \A i \in 1..Len(stack') : stack'[i] = stack[i]
  BY <1>1, StackPop, StackTop
<1>3. \A i \in 1..Len(stack') : i \in 1..Len(stack)
  BY <1>2
<1>4. \A i \in 1..Len(stack') : WithinLimits(stack[i])'
  BY <1>2, <1>3 DEF TInv, WithinLimits
<1> QED BY <1>4 DEF TInv

(* A take begins with nothing received and nothing paid. *)
LEMMA LimitsBegin ==
  ASSUME NEW f \in Frame, TakeBegins(f)
  PROVE  WithinLimits(f)
<1> SUFFICES ASSUME f.fn = "takeOrders2" PROVE WithinLimits(f)
  BY DEF WithinLimits
<1>1. /\ f.pc = "loop" /\ f.in.amount = 0 /\ f.out.amount = 0
      /\ f.take.orders \in Seq(TakeOrders) /\ f.take.orders # <<>>
      /\ f.take.next = 1 /\ Fits(f.take.maximumInput)
      /\ f.take.maximumInput \in Nat /\ f.take.maximumIORatio \in Nat
  <2>1. /\ f.pc = "loop" /\ f.in.amount = 0 /\ f.out.amount = 0
        /\ f.take.orders \in TakeLists /\ f.take.next = 1
        /\ f.take.maximumInput \in TakeAmounts
        /\ f.take.maximumIORatio \in Ratios
    BY DEF TakeBegins
  <2>2. f.take.orders \in Seq(TakeOrders) /\ f.take.orders # <<>>
    <3>1. f.take.orders \in Seq(TakeOrders) /\ Len(f.take.orders) > 0
      BY <2>1, OrderBookAssumption
    <3> QED BY <3>1
  <2>3. f.take.maximumInput \in 0..MaxUint /\ f.take.maximumIORatio \in Nat
    BY <2>1, OrderBookAssumption
  <2> QED BY <2>1, <2>2, <2>3, FixedPointAssumption DEF Fits
<1> DEFINE inUnit == Unit(InputIO(f.take.orders[1]).decimals)
           outUnit == Unit(OutputIO(f.take.orders[1]).decimals)
<1>2. f.take.orders[1] \in TakeOrders
  BY <1>1
<1>3. /\ inUnit \in Nat /\ outUnit \in Nat /\ One \in Nat
      /\ Unit(FpDecimals) \in Nat
  BY <1>2, TakeOrderType, UnitType DEF IO
<1> HIDE DEF inUnit, outUnit
<1>4. f.in.amount * inUnit * One
        <= (f.out.amount + (f.take.next - 1)) * outUnit * f.take.maximumIORatio
           + (f.take.next - 1) * (inUnit + Unit(FpDecimals)) * One
  BY <1>1, <1>3
<1> QED BY <1>1, <1>4 DEF WithinLimits, inUnit, outUnit

(* What n orders took is within the ratio of what they gave, but for the   *)
(* rounding of each: u, w and p are units of what comes in, of what goes   *)
(* out, and of 18 decimals.                                                *)
KeepsRatio(taken, given, n, u, w, p, limit) ==
  taken * u * One <= (given + n) * w * limit + n * (u + p) * One

(* One more order of the list: nothing moved, or a fill within the ratio.  *)
LEMMA OneMoreFill ==
  ASSUME NEW a \in Nat, NEW b \in Nat, NEW n \in Nat, NEW input \in Nat,
         NEW output \in Nat, NEW u \in Nat, NEW w \in Nat, NEW p \in Nat,
         NEW limit \in Nat,
         KeepsRatio(a, b, n, u, w, p, limit),
         KeepsRatio(output, input, 1, u, w, p, limit)
  PROVE  KeepsRatio(a + output, b + input, n + 1, u, w, p, limit)
<1> DEFINE one == One
<1>1. /\ a * u * one <= (b + n) * w * limit + n * (u + p) * one
      /\ output * u * one <= (input + 1) * w * limit + 1 * (u + p) * one
  BY DEF KeepsRatio
<1>2. one \in Nat
  BY FixedPointAssumption DEF One
<1> HIDE DEF one
<1> DEFINE x == w * limit
           y == (u + p) * one
           z == u * one
<1>3. x \in Nat /\ y \in Nat /\ z \in Nat
  BY <1>2, ProductType
<1>4. /\ a * u * one = a * z
      /\ output * u * one = output * z
      /\ (a + output) * u * one = (a + output) * z
      /\ (b + n) * w * limit = (b + n) * x
      /\ (input + 1) * w * limit = (input + 1) * x
      /\ (b + input + (n + 1)) * w * limit = (b + input + (n + 1)) * x
      /\ n * (u + p) * one = n * y
      /\ 1 * (u + p) * one = 1 * y
      /\ (n + 1) * (u + p) * one = (n + 1) * y
  BY <1>2, ProductRegroup
<1> HIDE DEF x, y, z
<1>5. /\ (a + output) * z = a * z + output * z
      /\ (b + input + (n + 1)) * x = (b + n) * x + (input + 1) * x
      /\ (n + 1) * y = n * y + y
  <2>1. b + input + (n + 1) = (b + n) + (input + 1)
    OBVIOUS
  <2> QED BY <1>3, <2>1, ProductRegroup
<1>6. /\ a * z \in Nat /\ output * z \in Nat /\ (b + n) * x \in Nat
      /\ (input + 1) * x \in Nat /\ n * y \in Nat
  BY <1>3, ProductType
<1>7. a * z + output * z <= (b + n) * x + n * y + (input + 1) * x + 1 * y
  BY <1>3, <1>4, <1>6, <1>1
<1>8. (a + output) * u * one <= (b + input + (n + 1)) * w * limit
                                  + (n + 1) * (u + p) * one
  BY <1>3, <1>4, <1>5, <1>6, <1>7
<1>9. b + input + (n + 1) = (b + input) + (n + 1)
  OBVIOUS
<1> QED BY <1>8, <1>9 DEF KeepsRatio, one

(* A call that goes on to a phase after the loop. *)
LEMMA LimitsGoto ==
  ASSUME TInv, TypeOK', stack # <<>>, NEW pc, Goto(pc),
         Top.pc = "loop" => MeetsMinimum(Top)
  PROVE  TInv'
<1> DEFINE f == [Top EXCEPT !.pc = pc]
<1>1. /\ Top \in FrameRecord /\ WithinLimits(Top)
  BY TopType, StackTop DEF TInv, TypeOK, Top
<1>2. /\ f.fn = Top.fn /\ f.take = Top.take /\ f.in = Top.in
      /\ f.out = Top.out
  BY <1>1 DEF FrameRecord
<1> HIDE DEF f
<1>3. WithinLimits(f)
  BY <1>1, <1>2 DEF WithinLimits, MeetsMinimum
<1>4. Become(f)
  BY DEF Goto, f
<1> QED BY <1>3, <1>4, LimitsBecome

LEMMA LimitsFill ==
  ASSUME TInv, TypeOK', NEW ratio \in Ratios, NEW outputMax \in OutputMaxes,
         FillOrder(ratio, outputMax)
  PROVE  TInv'
<1> DEFINE c       == Current(Top)
           rest    == RemainingTakerInput(Top)
           input18 == TakerInput18(VaultCapped(c, outputMax), rest,
                                   OutputIO(c).decimals)
           input   == TakerInput(input18, OutputIO(c).decimals)
           output  == TakerOutput(input18, ratio, InputIO(c).decimals)
           first   == Top.take.orders[1]
           limit   == Top.take.maximumIORatio
           u       == Unit(InputIO(first).decimals)
           w       == Unit(OutputIO(first).decimals)
           p       == Unit(FpDecimals)
           n       == Top.take.next - 1
           f       == [Top EXCEPT !.take.next = @ + 1,
                                  !.out.amount = @ + input,
                                  !.in.amount = @ + output]
<1>1. /\ stack # <<>> /\ LoopsOn(Top) /\ Become(f)
      /\ WithinMaxRatio(ratio, limit) /\ input <= rest
  BY DEF FillOrder
<1>2. /\ Top \in FrameRecord /\ InItsPhase(Top) /\ WithinLimits(Top)
      /\ Top.pc = "loop"
  BY <1>1, TopType, StackTop DEF TInv, TypeOK, Top, LoopsOn
<1>3. Top.fn = "takeOrders2"
  BY <1>2 DEF InItsPhase
<1>4. /\ c \in TakeOrders /\ rest \in Nat /\ input18 \in Nat
      /\ VaultCapped(c, outputMax) \in Nat
      /\ input \in Nat /\ output \in Nat
  BY <1>1, FillAmounts DEF TInv
<1>5. /\ InputIO(c).decimals = InputIO(first).decimals
      /\ OutputIO(c).decimals = OutputIO(first).decimals
      /\ InputIO(c).decimals \in 0..MaxDecimals
      /\ OutputIO(c).decimals \in 0..MaxDecimals
  BY <1>1, <1>4, TakeOrderType DEF LoopsOn, IO
<1>6. /\ Top.take.next \in Nat \ {0} /\ n \in Nat /\ limit \in Nat
      /\ Top.take.maximumInput \in Nat
      /\ Top.out.amount \in Nat /\ Top.in.amount \in Nat
      /\ Top.take \in Take /\ Top.out \in Payment /\ Top.in \in Payment
  BY <1>2 DEF FrameRecord, Take, Payment
<1>7. Fits(rest) /\ rest = Top.take.maximumInput - Top.out.amount
  <2>1. Fits(Top.take.maximumInput)
    BY <1>2, <1>3 DEF WithinLimits
  <2>2. rest = Top.take.maximumInput - Top.out.amount
    BY DEF RemainingTakerInput
  <2> HIDE DEF rest
  <2> QED BY <1>6, <2>1, <2>2, FixedPointAssumption DEF Fits
<1>8. input18 <= Saturate(Scale18(rest, OutputIO(c).decimals))
  <2>1. Saturate(Scale18(rest, OutputIO(c).decimals)) \in Nat
    BY <1>4, <1>5, RescaleType, SaturateType
  <2> QED BY <1>4, <2>1, SmallerType DEF TakerInput18
<1>9. ratio \in Nat /\ ratio <= limit
  BY <1>1, OrderBookAssumption DEF WithinMaxRatio
<1>10. output * u * One <= (input + 1) * w * limit + (u + p) * One
  BY <1>4, <1>5, <1>6, <1>7, <1>8, <1>9, FillWithinRatio
<1>11. u \in Nat /\ w \in Nat /\ p \in Nat /\ One \in Nat
  BY <1>5, UnitType
<1>12. /\ KeepsRatio(Top.in.amount, Top.out.amount, n, u, w, p, limit)
       /\ KeepsRatio(output, input, 1, u, w, p, limit)
  <2>1. KeepsRatio(Top.in.amount, Top.out.amount, n, u, w, p, limit)
    BY <1>2, <1>3 DEF WithinLimits, KeepsRatio
  <2>2. (u + p) * One = 1 * (u + p) * One
    BY <1>11
  <2> HIDE DEF input, output, u, w, p
  <2> QED BY <1>10, <2>1, <2>2 DEF KeepsRatio
<1>13. /\ f.fn = Top.fn /\ f.pc = Top.pc
       /\ f.take.orders = Top.take.orders /\ f.take.next = Top.take.next + 1
       /\ f.take.maximumInput = Top.take.maximumInput
       /\ f.take.minimumInput = Top.take.minimumInput
       /\ f.take.maximumIORatio = limit
       /\ f.in.amount = Top.in.amount + output
       /\ f.out.amount = Top.out.amount + input
  BY <1>2, <1>6 DEF FrameRecord, Take, Payment
<1> HIDE DEF c, rest, input18, input, output, u, w, p, n, f
<1>14. KeepsRatio(Top.in.amount + output, Top.out.amount + input, n + 1,
                  u, w, p, limit)
  BY <1>4, <1>6, <1>11, <1>12, OneMoreFill
<1>15. f.take.next - 1 = n + 1
  BY <1>6, <1>13 DEF n
<1>16. f.out.amount <= f.take.maximumInput
  <2>1. input <= Top.take.maximumInput - Top.out.amount
    BY <1>1, <1>7
  <2>2. /\ f.out.amount = Top.out.amount + input
        /\ f.take.maximumInput = Top.take.maximumInput
    BY <1>13
  <2>3. /\ input \in Nat /\ Top.out.amount \in Nat
        /\ Top.take.maximumInput \in Nat
    BY <1>4, <1>6
  <2> QED BY <2>1, <2>2, <2>3
<1>17. WithinLimits(f)
  BY <1>2, <1>3, <1>13, <1>14, <1>15, <1>16
     DEF WithinLimits, KeepsRatio, u, w, p
<1> QED BY <1>1, <1>17, LimitsBecome

LEMMA LimitsSkip ==
  ASSUME TInv, TypeOK', SkipOrder
  PROVE  TInv'
<1> DEFINE first == Top.take.orders[1]
           limit == Top.take.maximumIORatio
           u     == Unit(InputIO(first).decimals)
           w     == Unit(OutputIO(first).decimals)
           p     == Unit(FpDecimals)
           n     == Top.take.next - 1
           f     == [Top EXCEPT !.take.next = @ + 1]
<1>1. stack # <<>> /\ LoopsOn(Top) /\ Become(f)
  BY DEF SkipOrder
<1>2. /\ Top \in FrameRecord /\ InItsPhase(Top) /\ WithinLimits(Top)
      /\ Top.pc = "loop"
  BY <1>1, TopType, StackTop DEF TInv, TypeOK, Top, LoopsOn
<1>3. Top.fn = "takeOrders2" /\ Top.take.orders # <<>>
  BY <1>2 DEF InItsPhase
<1>4. /\ Top.take.next \in Nat \ {0} /\ n \in Nat /\ limit \in Nat
      /\ Top.out.amount \in Nat /\ Top.in.amount \in Nat
      /\ Top.take \in Take /\ first \in TakeOrders
  BY <1>2, <1>3 DEF FrameRecord, Take, Payment
<1>5. u \in Nat /\ w \in Nat /\ p \in Nat /\ One \in Nat
  BY <1>4, TakeOrderType, UnitType DEF IO
<1>6. KeepsRatio(Top.in.amount, Top.out.amount, n, u, w, p, limit)
  BY <1>2, <1>3 DEF WithinLimits, KeepsRatio
<1>7. /\ f.fn = Top.fn /\ f.pc = Top.pc /\ f.in = Top.in /\ f.out = Top.out
      /\ f.take.orders = Top.take.orders /\ f.take.next = Top.take.next + 1
      /\ f.take.maximumInput = Top.take.maximumInput
      /\ f.take.minimumInput = Top.take.minimumInput
      /\ f.take.maximumIORatio = limit
  BY <1>2, <1>4 DEF FrameRecord, Take
<1> HIDE DEF first, u, w, p, n, f
<1>8. KeepsRatio(0, 0, 1, u, w, p, limit)
  <2>1. (0 + 1) * w * limit \in Nat /\ 1 * (u + p) * One \in Nat
        /\ 0 * u * One = 0
    BY <1>4, <1>5, ProductType
  <2> QED BY <2>1 DEF KeepsRatio
<1>9. KeepsRatio(Top.in.amount + 0, Top.out.amount + 0, n + 1, u, w, p, limit)
  BY <1>4, <1>5, <1>6, <1>8, OneMoreFill
<1>10. f.take.next - 1 = n + 1
  BY <1>4, <1>7 DEF n
<1>11. /\ Top.in.amount + 0 = f.in.amount
       /\ Top.out.amount + 0 = f.out.amount
  BY <1>4, <1>7
<1>12. WithinLimits(f)
  BY <1>2, <1>3, <1>7, <1>9, <1>10, <1>11
     DEF WithinLimits, KeepsRatio, u, w, p, first
<1> QED BY <1>1, <1>12, LimitsBecome

LEMMA NextTInv == TInv /\ TypeOK' /\ [Next]_vars => TInv'
<1> SUFFICES ASSUME TInv, TypeOK', [Next]_vars PROVE TInv'
  OBVIOUS
<1>1. CASE \E u \in Users : AccountCall(u)
  <2>1. PICK f : Begins(f)
    BY <1>1, AccountCallBegins
  <2>2. f \in Frame
    BY <2>1, PushedFrame DEF Begins, Push, TInv, TypeOK
  <2> QED BY <2>1, <2>2, LimitsBegin, LimitsPush DEF Begins
<1>2. CASE SkipOrder
  BY <1>2, LimitsSkip
<1>3. CASE \E ratio \in Ratios, outputMax \in OutputMaxes :
             FillOrder(ratio, outputMax)
  BY <1>3, LimitsFill
<1>4. CASE FinishLoop \/ Send \/ ReturnCallback \/ Pull \/ CreditDeposit
  <2>1. PICK pc : /\ stack # <<>> /\ Goto(pc)
                  /\ Top.pc = "loop" => MeetsMinimum(Top)
    BY <1>4 DEF FinishLoop, Send, ReturnCallback, Pull, CreditDeposit, At
  <2> QED BY <2>1, LimitsGoto
<1>5. CASE Return \/ Revert
  BY <1>5, LimitsPop DEF Return, Revert, At
<1>6. CASE \/ \E u \in Users, to \in Accounts, t \in Tokens,
                 n \in MoveAmounts : MoveTokens(u, to, t, n)
           \/ UNCHANGED vars
  <2>1. stack' = stack
    BY <1>6 DEF MoveTokens, vars
  <2> QED BY <2>1 DEF TInv, WithinLimits
<1> QED BY <1>1, <1>2, <1>3, <1>4, <1>5, <1>6 DEF Next, Phase

(* A take never receives more than its taker wants, and by the time it is  *)
(* settled not less; and it never pays more than the ratio its taker set,  *)
(* up to the rounding of one unit of each token for every order it fills:  *)
(* for every list of orders, what they return, and what is nested in it.   *)
THEOREM TakesKeepLimits == Spec => []TakerLimits
<1>1. TInv => TakerLimits
  BY DEF TInv, WithinLimits, TakerLimits, Unit
<1>2. Init /\ TypeOK => TInv
  BY DEF Init, TInv
<1>3. Spec => []TInv
  BY <1>2, NextTInv, TypeCorrect, PTL DEF Spec
<1> QED BY <1>1, <1>3, PTL

-----------------------------------------------------------------------------
(* The order book implements the abstract custodian.                       *)
(*                                                                         *)
(* A call that starts or goes on leaves what the last transaction left; a  *)
(* revert of the outermost call too, as it restores that.  Its return is   *)
(* the custodian's one step: the slack is no smaller by NoCallDrains, and  *)
(* the supply is the same since no step inside changed it.                 *)

SupplyKept(s, b) ==
  \A t \in Tokens : \A i \in 1..Len(s) :
    Supply(s[i].saved.balance, t) = Supply(b, t)

CInv == IInv /\ SupplyKept(stack, balance)

SameSupply ==
  \A t \in Tokens : Supply(balance', t) = Supply(balance, t)

-----------------------------------------------------------------------------
(* What each kind of step does to the stack and to the supply *)

Enters == \E f \in Frame : Push(f) /\ f.saved = Now /\ balance' = balance

GoesOn ==
  /\ stack # <<>>
  /\ \E f \in Frame : Become(f) /\ f.saved = Top.saved
  /\ SameSupply

LEMMA EntersFrame ==
  ASSUME IInv, TypeOK', NEW f, Push(f), f.saved = Now, balance' = balance
  PROVE  Enters
<1>1. stack \in Seq(Frame) /\ Append(stack, f) \in Seq(Frame)
  BY DEF IInv, TypeOK, Push
<1> QED BY <1>1, PushedFrame DEF Enters

LEMMA AccountCallEnters ==
  ASSUME IInv, TypeOK', NEW u \in Users, AccountCall(u)
  PROVE  Enters
<1>1. ASSUME NEW t \in Tokens, NEW id \in VaultIds, NEW n \in DepositAmounts,
             Deposit2(u, t, id, n)
      PROVE  Enters
  <2> DEFINE f == [Call("deposit2", u, "pull") EXCEPT
                     !.in = [token |-> t, amount |-> n], !.vaultId = id]
  <2>1. Push(f) /\ balance' = balance /\ f.saved = Now
    BY <1>1 DEF Deposit2, Call
  <2> HIDE DEF f
  <2> QED BY <2>1, EntersFrame
<1>2. ASSUME NEW t \in Tokens, NEW id \in VaultIds, NEW n \in WithdrawAmounts,
             Withdraw2(u, t, id, n)
      PROVE  Enters
  <2> DEFINE f == [Call("withdraw2", u, "send") EXCEPT
                     !.out = [token |-> t,
                              amount |-> WithdrawAmount(n, vault[<<u, t, id>>])]]
  <2>1. Push(f) /\ balance' = balance /\ f.saved = Now
    BY <1>2 DEF Withdraw2, Call
  <2> HIDE DEF f
  <2> QED BY <2>1, EntersFrame
<1>3. ASSUME NEW fn, Push(Call(fn, u, "post")), balance' = balance
      PROVE  Enters
  <2>1. Call(fn, u, "post").saved = Now
    BY DEF Call
  <2> QED BY <1>3, <2>1, EntersFrame
<1>4. ASSUME NEW o \in Orders, AddOrder2(u, o) \/ RemoveOrder2(u, o)
      PROVE  Enters
  BY <1>3, <1>4 DEF AddOrder2, RemoveOrder2
<1>5. ASSUME Entask(u) PROVE Enters
  BY <1>3, <1>5 DEF Entask
<1>6. ASSUME NEW a \in TakeOrders, NEW b \in TakeOrders,
             NEW aId \in VaultIds, NEW bId \in VaultIds,
             Clear2(u, a, b, aId, bId)
      PROVE  Enters
  BY <1>6, ClearCallType, EntersFrame DEF Clear2, ClearCall, IInv
<1>7. ASSUME NEW list \in TakeLists, NEW low \in TakeAmounts \cup {0},
             NEW high \in TakeAmounts, NEW ratio \in Ratios,
             TakeOrders2(u, list, low, high, ratio)
      PROVE  Enters
  <2> DEFINE take == [orders |-> list, next |-> 1, minimumInput |-> low,
                      maximumInput |-> high, maximumIORatio |-> ratio]
             f == [Call("takeOrders2", u, "loop") EXCEPT
                     !.out = [token |-> OutputIO(list[1]).token, amount |-> 0],
                     !.in = [token |-> InputIO(list[1]).token, amount |-> 0],
                     !.take = take]
  <2>1. Push(f) /\ balance' = balance
    BY <1>7 DEF TakeOrders2
  <2> HIDE DEF take
  <2>2. f.saved = Now
    BY DEF Call
  <2> HIDE DEF f
  <2> QED BY <2>1, <2>2, EntersFrame
<1>8. ASSUME NEW receiver \in Users, NEW t \in Tokens, NEW n \in LoanAmounts,
             FlashLoan(u, receiver, t, n)
      PROVE  Enters
  <2> DEFINE loan == [token |-> t, amount |-> n]
             f == [Call("flashLoan", u, "send") EXCEPT
                     !.party = receiver, !.out = loan, !.in = loan]
  <2>1. Push(f) /\ balance' = balance
    BY <1>8 DEF FlashLoan
  <2> HIDE DEF loan
  <2>2. f.saved = Now
    BY DEF Call
  <2> HIDE DEF f
  <2> QED BY <2>1, <2>2, EntersFrame
<1> QED BY <1>1, <1>2, <1>4, <1>5, <1>6, <1>7, <1>8 DEF AccountCall

LEMMA GoesOnFrame ==
  ASSUME IInv, TypeOK', stack # <<>>, NEW f, Become(f),
         f.saved = Top.saved, SameSupply
  PROVE  GoesOn
<1>1. stack \in Seq(Frame) /\ [stack EXCEPT ![Len(stack)] = f] \in Seq(Frame)
  BY DEF IInv, TypeOK, Become
<1> QED BY <1>1, BecomeFrame DEF GoesOn

LEMMA PhaseGoesOn ==
  ASSUME IInv, TypeOK', Phase
  PROVE  GoesOn \/ Return \/ Revert
<1>0. TypeOK /\ balance \in Balances
  BY DEF IInv, TypeOK
<1>1. CASE SkipOrder
  <2> DEFINE f == [Top EXCEPT !.take.next = @ + 1]
  <2>1. stack # <<>> /\ Become(f) /\ SameSupply
    BY <1>1 DEF SkipOrder, SameSupply
  <2>2. f.saved = Top.saved
    BY <1>0, <2>1, TopType DEF FrameRecord
  <2> HIDE DEF f
  <2> QED BY <2>1, <2>2, GoesOnFrame
<1>2. CASE \E ratio \in Ratios, outputMax \in OutputMaxes :
             FillOrder(ratio, outputMax)
  <2>1. PICK input, output :
          /\ stack # <<>> /\ balance' = balance
          /\ Become([Top EXCEPT !.take.next = @ + 1,
                                !.out.amount = @ + input,
                                !.in.amount = @ + output])
    BY <1>2 DEF FillOrder
  <2> DEFINE f == [Top EXCEPT !.take.next = @ + 1, !.out.amount = @ + input,
                              !.in.amount = @ + output]
  <2>2. f.saved = Top.saved
    BY <1>0, <2>1, TopType DEF FrameRecord
  <2> HIDE DEF f
  <2>3. Become(f) /\ SameSupply
    BY <2>1 DEF f, SameSupply
  <2> QED BY <2>1, <2>2, <2>3, GoesOnFrame
<1>3. CASE FinishLoop \/ Send \/ ReturnCallback \/ Pull \/ CreditDeposit
  <2>1. PICK pc : stack # <<>> /\ Goto(pc)
    BY <1>3 DEF FinishLoop, Send, ReturnCallback, Pull, CreditDeposit, At
  <2>2. /\ Top.party \in Accounts /\ OB \in Accounts
        /\ Top.out.token \in Tokens /\ Top.out.amount \in Nat
        /\ Top.in.token \in Tokens /\ Top.in.amount \in Nat
    BY <1>0, <2>1, TopFields DEF Accounts
  <2>3. SameSupply
    <3>1. CASE Send
      <4>1. /\ CanPay(balance, OB, Top.out.token, Top.out.amount)
            /\ balance' = Transfer(balance, OB, Top.party, Top.out.token,
                                   Top.out.amount)
        BY <3>1 DEF Send
      <4> QED BY <1>0, <2>2, <4>1, TransferSupply DEF SameSupply
    <3>2. CASE Pull
      <4>1. /\ CanPay(balance, Top.party, Top.in.token, Top.in.amount)
            /\ balance' = Transfer(balance, Top.party, OB, Top.in.token,
                                   Top.in.amount)
        BY <3>2 DEF Pull, Pulled
      <4> QED BY <1>0, <2>2, <4>1, TransferSupply DEF SameSupply
    <3>3. CASE FinishLoop \/ ReturnCallback \/ CreditDeposit
      BY <3>3 DEF FinishLoop, ReturnCallback, CreditDeposit, SameSupply
    <3> QED BY <1>3, <3>1, <3>2, <3>3
  <2> DEFINE f == [Top EXCEPT !.pc = pc]
  <2>4. f.saved = Top.saved /\ Become(f)
    BY <1>0, <2>1, TopType DEF FrameRecord, Goto
  <2> HIDE DEF f
  <2> QED BY <2>1, <2>3, <2>4, GoesOnFrame
<1> QED BY <1>1, <1>2, <1>3 DEF Phase

-----------------------------------------------------------------------------
(* What the steps do to what the last transaction left *)

LEMMA SupplyPush ==
  ASSUME CInv, Enters
  PROVE  SupplyKept(stack, balance)' /\ Committed' = Committed
<1>1. PICK f \in Frame : Push(f) /\ f.saved = Now /\ balance' = balance
  BY DEF Enters
<1>2. stack \in Seq(Frame) /\ stack' = Append(stack, f)
  BY <1>1 DEF CInv, IInv, TypeOK, Push
<1>3. /\ Len(stack') = Len(stack) + 1 /\ Len(stack) \in Nat
      /\ \A i \in 1..Len(stack) : stack'[i] = stack[i]
      /\ stack'[Len(stack) + 1] = f
  BY <1>2, StackPush
<1>4. f.saved.balance = balance
  BY <1>1 DEF Now
<1>5. ASSUME NEW t \in Tokens, NEW i \in 1..Len(stack')
      PROVE  Supply(stack'[i].saved.balance, t) = Supply(balance', t)
  <2>1. CASE i = Len(stack) + 1
    BY <1>1, <1>3, <1>4, <2>1
  <2>2. CASE i # Len(stack) + 1
    <3>1. i \in 1..Len(stack)
      BY <1>3, <2>2
    <3> QED BY <1>1, <1>3, <3>1 DEF CInv, SupplyKept
  <2> QED BY <2>1, <2>2
<1>6. stack' # <<>>
  BY <1>3
<1>7. Committed' = stack'[1].saved
  BY <1>6 DEF Committed
<1>8. CASE stack = <<>>
  <2>1. Len(stack) + 1 = 1
    BY <1>8
  <2> QED BY <1>1, <1>3, <1>5, <1>7, <1>8, <2>1 DEF Committed, SupplyKept
<1>9. CASE stack # <<>>
  <2>1. 1 \in 1..Len(stack)
    BY <1>2, <1>9, StackTop
  <2> QED BY <1>3, <1>5, <1>7, <1>9, <2>1 DEF Committed, SupplyKept
<1> QED BY <1>8, <1>9

LEMMA SupplyGoesOn ==
  ASSUME CInv, GoesOn
  PROVE  SupplyKept(stack, balance)' /\ Committed' = Committed
<1>1. PICK f \in Frame : Become(f) /\ f.saved = Top.saved
  BY DEF GoesOn
<1>2. stack \in Seq(Frame) /\ stack # <<>>
      /\ stack' = [stack EXCEPT ![Len(stack)] = f]
  BY <1>1 DEF CInv, IInv, TypeOK, Become, GoesOn
<1>3. /\ Len(stack') = Len(stack) /\ Len(stack) \in 1..Len(stack)
      /\ \A i \in 1..Len(stack) : stack'[i].saved = stack[i].saved
  BY <1>1, <1>2, StackBecome, StackTop DEF Top
<1>4. SupplyKept(stack, balance)'
  BY <1>3 DEF CInv, SupplyKept, GoesOn, SameSupply
<1>5. 1 \in 1..Len(stack)
  BY <1>2, StackTop
<1>6. stack' # <<>>
  BY <1>3, <1>5
<1> QED BY <1>2, <1>3, <1>4, <1>5, <1>6 DEF Committed

(* A pop of a call that is not the outermost. *)
LEMMA PopInner ==
  ASSUME CInv, stack # <<>>, Pop, SameSupply
  PROVE  /\ SupplyKept(stack, balance)'
         /\ stack' # <<>> => Committed' = Committed
<1>1. stack \in Seq(Frame) /\ stack' = SubSeq(stack, 1, Len(stack) - 1)
  BY DEF CInv, IInv, TypeOK, Pop
<1>2. /\ Len(stack') = Len(stack) - 1 /\ Len(stack) \in Nat \ {0}
      /\ \A i \in 1..Len(stack') : stack'[i] = stack[i]
      /\ stack' \in Seq(Frame)
  BY <1>1, StackPop, StackTop
<1>3. \A i \in 1..Len(stack') : i \in 1..Len(stack)
  BY <1>2
<1>4. SupplyKept(stack, balance)'
  BY <1>2, <1>3 DEF CInv, SupplyKept, SameSupply
<1>5. ASSUME stack' # <<>> PROVE Committed' = Committed
  <2>1. 1 \in 1..Len(stack')
    BY <1>2, <1>5, StackTop
  <2> QED BY <1>2, <1>5, <2>1 DEF Committed
<1> QED BY <1>4, <1>5

(* The outermost call returns: with nothing outstanding in it, its part of *)
(* NoCallDrains says that the slack is at least what it was before.        *)
LEMMA ReturnOutermost ==
  ASSUME CInv, Return, stack' = <<>>, NEW t \in Tokens
  PROVE  /\ Committed'.vault = vault /\ Committed'.balance = balance
         /\ Slack(vault, balance, t)
              >= Slack(Committed.vault, Committed.balance, t)
         /\ Supply(balance, t) = Supply(Committed.balance, t)
<1>1. /\ stack # <<>> /\ Top.pc = "post" /\ stack \in Seq(Frame)
      /\ vault' = vault /\ balance' = balance
      /\ stack' = SubSeq(stack, 1, Len(stack) - 1)
  BY DEF Return, At, Pop, CInv, IInv, TypeOK
<1>2. Len(stack) - 1 = Len(stack') /\ Len(stack) \in Nat
  BY <1>1, StackPop, StackTop
<1>3. Len(stack) = 1
  BY <1>2
<1>4. 1 \in 1..Len(stack) /\ Committed = stack[1].saved
      /\ Top = stack[1]
  BY <1>1, <1>3 DEF Committed, Top
<1>5. Committed'.vault = vault /\ Committed'.balance = balance
  BY <1>1 DEF Committed, Now
<1>6. Supply(balance, t) = Supply(Committed.balance, t)
  BY <1>4 DEF CInv, SupplyKept
<1>7. Outstanding(stack[1], t) = 0
  BY <1>1, <1>4 DEF Outstanding
<1>8. SlackWhenCalled(stack, vault, balance, 1 + 1, t)
        + Outstanding(stack[1], t)
        >= SlackWhenCalled(stack, vault, balance, 1, t)
  BY <1>4 DEF CInv, IInv, NoCallDrains, DrainFree
<1>9. /\ SlackWhenCalled(stack, vault, balance, 1 + 1, t)
            = Slack(vault, balance, t)
      /\ SlackWhenCalled(stack, vault, balance, 1, t)
            = Slack(Committed.vault, Committed.balance, t)
  BY <1>3, <1>4 DEF SlackWhenCalled
<1>10. Slack(vault, balance, t) \in Int
  BY SlackType DEF CInv, IInv, TypeOK
<1> QED BY <1>5, <1>6, <1>7, <1>8, <1>9, <1>10

(* The outermost call reverts to what the last transaction left. *)
LEMMA RevertOutermost ==
  ASSUME CInv, Revert, stack' = <<>>
  PROVE  /\ Committed'.vault = Committed.vault
         /\ Committed'.balance = Committed.balance
<1>1. /\ stack # <<>> /\ stack \in Seq(Frame)
      /\ vault' = Top.saved.vault /\ balance' = Top.saved.balance
      /\ stack' = SubSeq(stack, 1, Len(stack) - 1)
  BY DEF Revert, RevertsTo, Pop, CInv, IInv, TypeOK
<1>2. Len(stack) - 1 = Len(stack') /\ Len(stack) \in Nat
  BY <1>1, StackPop, StackTop
<1>3. Len(stack) = 1
  BY <1>2
<1>4. Committed = Top.saved
  BY <1>1, <1>3 DEF Committed, Top
<1>5. Committed'.vault = vault' /\ Committed'.balance = balance'
  BY DEF Committed, Now
<1> QED BY <1>1, <1>4, <1>5

(* A revert restores a balance of the same supply. *)
LEMMA RevertSupply ==
  ASSUME CInv, Revert
  PROVE  SameSupply
<1>1. stack # <<>> /\ stack \in Seq(Frame) /\ balance' = Top.saved.balance
  BY DEF Revert, RevertsTo, CInv, IInv, TypeOK
<1>2. Len(stack) \in 1..Len(stack)
  BY <1>1, StackTop
<1> QED BY <1>1, <1>2 DEF CInv, SupplyKept, SameSupply, Top

-----------------------------------------------------------------------------
(* The refinement *)

(* The instance counts and adds up as the order book does. *)
LEMMA SameLedger ==
  ASSUME NEW v, NEW b, NEW t
  PROVE  /\ CustodyOf!Slack(v, b, t) = Slack(v, b, t)
         /\ CustodyOf!Supply(b, t) = Supply(b, t)
         /\ CustodyOf!Vaults = Vaults /\ CustodyOf!Balances = Balances
         /\ CustodyOf!VaultKeys = VaultKeys
<1>1. /\ CustodyOf!VaultKeys = VaultKeys /\ CustodyOf!Accounts = Accounts
  BY DEF CustodyOf!VaultKeys, VaultKeys, CustodyOf!Accounts, Accounts
<1>2. CustodyOf!Vaults = Vaults /\ CustodyOf!Balances = Balances
  BY <1>1 DEF CustodyOf!Vaults, Vaults, CustodyOf!Balances, Balances
<1>3. CustodyOf!VaultsOf(t) = VaultsOf(t)
  BY <1>1 DEF CustodyOf!VaultsOf, VaultsOf
<1>4. ASSUME NEW S PROVE CustodyOf!Cardinality(S) = Cardinality(S)
  BY DEF CustodyOf!Cardinality, Cardinality
<1>5. ASSUME NEW f, NEW K PROVE CustodyOf!Total(f, K) = Total(f, K)
  BY <1>4 DEF CustodyOf!Total, Total, CustodyOf!Units, Units
<1>6. CustodyOf!Owed(v, t) = Owed(v, t)
  BY <1>3, <1>5 DEF CustodyOf!Owed, Owed
<1>7. CustodyOf!Supply(b, t) = Supply(b, t)
  BY <1>1, <1>5 DEF CustodyOf!Supply, Supply
<1>8. CustodyOf!Slack(v, b, t) = Slack(v, b, t)
  BY <1>6 DEF CustodyOf!Slack, Slack
<1> QED BY <1>1, <1>2, <1>7, <1>8

LEMMA InitCustody == Init => CInv /\ CustodyOf!Init
<1> SUFFICES ASSUME Init PROVE CInv /\ CustodyOf!Init
  OBVIOUS
<1>1. /\ stack = <<>> /\ vault = [k \in VaultKeys |-> 0]
      /\ balance = InitBalances
  BY DEF Init
<1>2. SupplyKept(stack, balance)
  BY <1>1 DEF SupplyKept
<1>3. CInv
  BY <1>2, InitIInv DEF CInv
<1>4. Committed.vault = vault /\ Committed.balance = balance
  BY <1>1 DEF Committed, Now
<1>5. CustodyOf!Init
  BY <1>1, <1>4, SameLedger DEF CustodyOf!Init
<1> QED BY <1>3, <1>5

LEMMA NextCustody ==
  CInv /\ [Next]_vars => CInv' /\ [CustodyOf!Transaction]_CustodyOf!vars
<1> SUFFICES ASSUME CInv, [Next]_vars
             PROVE  CInv' /\ [CustodyOf!Transaction]_CustodyOf!vars
  OBVIOUS
<1>1. IInv /\ IInv' /\ TypeOK /\ TypeOK'
  BY NextIInv DEF CInv, IInv
<1>2. ASSUME SupplyKept(stack, balance)', Committed' = Committed
      PROVE  CInv' /\ [CustodyOf!Transaction]_CustodyOf!vars
  BY <1>1, <1>2 DEF CInv, CustodyOf!vars
<1>3. CASE \E u \in Users : AccountCall(u)
  BY <1>1, <1>2, <1>3, AccountCallEnters, SupplyPush
<1>4. CASE GoesOn
  BY <1>2, <1>4, SupplyGoesOn
<1>5. CASE Return
  <2>1. stack # <<>> /\ Pop /\ SameSupply /\ balance' = balance
        /\ vault' = vault
    BY <1>5 DEF Return, At, SameSupply
  <2>2. CASE stack' # <<>>
    BY <1>2, <2>1, <2>2, PopInner
  <2>3. CASE stack' = <<>>
    <3>1. CInv'
      BY <1>1, <2>1, PopInner DEF CInv
    <3>2. Committed'.vault = vault /\ Committed'.balance = balance
      <4>1. PICK t \in Tokens : TRUE
        BY OrderBookAssumption
      <4> QED BY <1>5, <2>3, <4>1, ReturnOutermost
    <3>3. CustodyOf!Transaction
      BY <1>1, <1>5, <2>3, <3>2, ReturnOutermost, SameLedger
         DEF CustodyOf!Transaction, TypeOK
    <3> QED BY <3>1, <3>3
  <2> QED BY <2>2, <2>3
<1>6. CASE Revert
  <2>1. stack # <<>> /\ Pop /\ SameSupply
    BY <1>6, RevertSupply DEF Revert
  <2>2. CASE stack' # <<>>
    BY <1>2, <2>1, <2>2, PopInner
  <2>3. CASE stack' = <<>>
    <3>1. CInv'
      BY <1>1, <2>1, PopInner DEF CInv
    <3>2. UNCHANGED CustodyOf!vars
      BY <1>6, <2>3, RevertOutermost DEF CustodyOf!vars
    <3> QED BY <3>1, <3>2
  <2> QED BY <2>2, <2>3
<1>7. ASSUME NEW u \in Users, NEW to \in Accounts, NEW t \in Tokens,
             NEW n \in MoveAmounts, MoveTokens(u, to, t, n)
      PROVE  CInv' /\ [CustodyOf!Transaction]_CustodyOf!vars
  <2>1. stack' = stack /\ vault' = vault
    BY <1>7 DEF MoveTokens
  <2>2. \A s \in Tokens :
          /\ Slack(vault', balance', s) >= Slack(vault, balance, s)
          /\ Supply(balance', s) = Supply(balance, s)
    BY <1>1, <1>7, MoveTokensSlack
  <2>3. CInv'
    BY <1>1, <2>1, <2>2 DEF CInv, SupplyKept
  <2>4. CASE stack # <<>>
    BY <2>1, <2>3, <2>4 DEF Committed, CustodyOf!vars
  <2>5. CASE stack = <<>>
    <3>1. /\ Committed.vault = vault /\ Committed.balance = balance
          /\ Committed'.vault = vault' /\ Committed'.balance = balance'
      BY <2>1, <2>5 DEF Committed, Now
    <3>2. CustodyOf!Transaction
      BY <1>1, <2>2, <3>1, SameLedger DEF CustodyOf!Transaction, TypeOK
    <3> QED BY <2>3, <3>2
  <2> QED BY <2>4, <2>5
<1>8. CASE UNCHANGED vars
  BY <1>1, <1>2, <1>8 DEF vars, CInv, SupplyKept, Committed, Now
<1> QED BY <1>1, <1>3, <1>4, <1>5, <1>6, <1>7, <1>8, PhaseGoesOn DEF Next

(* Seen from between the transactions the order book is the abstract       *)
(* custodian: each transaction, with all the calls nested in it and        *)
(* whichever of them revert, lowers the slack of no token and neither      *)
(* creates nor loses any, or leaves no trace.                              *)
THEOREM ImplementsCustody == Spec => Custodial
BY InitCustody, NextCustody, PTL DEF Spec, Custodial, CustodyOf!Spec

=============================================================================
