----------------------------- MODULE OrderBook -----------------------------
(***************************************************************************)
(* OrderBook.sol: deposits, withdrawals, orders, takes, clears and flash   *)
(* loans, with the calls external code makes in the middle of them.        *)
(*                                                                         *)
(* A transaction is a stack of calls.  Each frame is one external call to  *)
(* the order book, at the point `pc` where its code has got to, with the   *)
(* state a revert of the call restores.  Wherever the code hands control   *)
(* to other contracts (a token's transfer hooks, onTakeOrders,             *)
(* onFlashLoan, the store an expression writes to) the environment may     *)
(* move its tokens or make further calls, which push frames of their own.  *)
(* Expressions are evaluated by static calls, so they return arbitrary     *)
(* numbers but nothing happens while they run.                             *)
(*                                                                         *)
(* Phases of a call, each skipped by the functions that do not have it:    *)
(*   loop    takeOrders2 walks its list of orders                          *)
(*   send    tokens leave the order book                                   *)
(*   call    onTakeOrders or onFlashLoan runs                              *)
(*   pull    tokens come back, or are deposited                            *)
(*   credit  deposit2 adds what arrived to the vault                       *)
(*   post    handle IO or the post tasks run, then the call returns        *)
(***************************************************************************)
EXTENDS OrderMath, VaultLedger, Sequences

CONSTANTS
  Orders,        \* the orders that may ever be added, keyed by their hash
  Borrowers,     \* accounts whose onFlashLoan returns the success value
  InitBalances,  \* ERC20 balances before anything is deposited
  OutputMaxes,   \* output limits an expression may return, 18 decimals
  Ratios,        \* ratios an expression may return, 18 decimals
  IOIndices,     \* positions in validInputs and validOutputs
  TakeLists,     \* lists of orders takeOrders2 may be called with
  DepositAmounts, WithdrawAmounts, LoanAmounts, MoveAmounts,
  TakeAmounts,   \* bounds on the amounts that callers name
  TransferHooks, \* phases in which the tokens of the instance call out
  MaxDepth       \* bound on nested calls

(* One of the validInputs or validOutputs of an order. *)
IO == [token : Tokens, decimals : 0..MaxDecimals, vaultId : VaultIds]

Order == [owner : Users, validInputs : Seq(IO), validOutputs : Seq(IO),
          nonce : Nat]

(* An order of a take, with the inputs and outputs of it that are meant.   *)
TakeOrder == [order : Orders, inputIOIndex : IOIndices,
              outputIOIndex : IOIndices]

InputIO(c) == c.order.validInputs[c.inputIOIndex]

OutputIO(c) == c.order.validOutputs[c.outputIOIndex]

IsTakeOrder(c) ==
  /\ c.inputIOIndex \in 1..Len(c.order.validInputs)
  /\ c.outputIOIndex \in 1..Len(c.order.validOutputs)

TakeOrders == {c \in TakeOrder : IsTakeOrder(c)}

ASSUME OrderBookAssumption ==
  /\ Tokens # {} /\ VaultIds # {}
  /\ Orders \subseteq Order
  /\ Borrowers \subseteq Users
  /\ InitBalances \in Balances
  /\ OutputMaxes \subseteq Nat
  /\ Ratios \subseteq Nat
  /\ \A list \in TakeLists :
       list \in Seq(TakeOrders) /\ Len(list) > 0
  /\ IOIndices \subseteq Nat
  /\ DepositAmounts \subseteq Nat
  /\ WithdrawAmounts \subseteq Nat
  /\ LoanAmounts \subseteq Nat
  /\ MoveAmounts \subseteq Nat
  /\ TakeAmounts \subseteq 0..MaxUint
  /\ TransferHooks \subseteq {"send", "pull", "credit"}
  /\ MaxDepth \in Nat

VARIABLES
  vault,     \* sVaultBalances
  live,      \* sOrders: the orders whose value is ORDER_LIVE
  locked,    \* the status of the ReentrancyGuard
  balance,   \* the ERC20 balances of all accounts
  stack      \* the calls in progress, innermost last

vars == <<vault, live, locked, balance, stack>>

-----------------------------------------------------------------------------
(* Frames *)

Guarded == {"deposit2", "withdraw2", "addOrder2", "removeOrder2", "entask",
            "takeOrders2", "clear2"}

Phases == {"loop", "send", "call", "pull", "credit", "post"}

Snapshot == [vault : Vaults, live : SUBSET Orders, locked : BOOLEAN,
             balance : Balances]

(* Tokens to send to `party`, or to pull from it. *)
Payment == [token : Tokens, amount : Nat]

(* The list of a take and its limits; of a clear, the two orders only.     *)
Take == [orders : Seq(TakeOrders), next : Nat \ {0}, minimumInput : Nat,
         maximumInput : Nat, maximumIORatio : Nat]

NoTake == [orders |-> <<>>, next |-> 1, minimumInput |-> 0,
           maximumInput |-> 0, maximumIORatio |-> 0]

HasCallback(f) == f.fn \in {"takeOrders2", "flashLoan"}

(* Which functions have which phases, and the tokens a take is about.      *)
InItsPhase(f) ==
  /\ f.pc = "loop" =>
       /\ f.fn = "takeOrders2"
       /\ f.take.orders # <<>>
       /\ f.in.token = InputIO(f.take.orders[1]).token
       /\ f.out.token = OutputIO(f.take.orders[1]).token
  /\ f.pc = "send" => HasCallback(f) \/ f.in.amount = 0
  /\ f.pc = "call" => HasCallback(f)
  /\ f.pc = "pull" => HasCallback(f) \/ f.fn = "deposit2"
  /\ f.pc = "credit" => f.fn = "deposit2"

FrameRecord ==
  [fn : Guarded \cup {"flashLoan"}, sender : Users, party : Users,
   pc : Phases, out : Payment, in : Payment, vaultId : VaultIds,
   take : Take, saved : Snapshot]

Frame == {f \in FrameRecord : InItsPhase(f)}

Now == [vault |-> vault, live |-> live, locked |-> locked,
        balance |-> balance]

(* A call of fn by u that starts at phase pc.  Most move no tokens.        *)
Call(fn, u, pc) ==
  LET none == [token |-> CHOOSE t \in Tokens : TRUE, amount |-> 0]
  IN  [fn |-> fn, sender |-> u, party |-> u, pc |-> pc, out |-> none,
       in |-> none, vaultId |-> CHOOSE i \in VaultIds : TRUE,
       take |-> NoTake, saved |-> Now]

Top == stack[Len(stack)]

At(pc) == stack # <<>> /\ Top.pc = pc

Push(f) == stack' = Append(stack, f)

Pop == stack' = SubSeq(stack, 1, Len(stack) - 1)

Become(f) == stack' = [stack EXCEPT ![Len(stack)] = f]

Goto(pc) == Become([Top EXCEPT !.pc = pc])

(* Code outside the order book has control between transactions, in a      *)
(* callback, while the expressions and tasks of the post phase write to    *)
(* their stores, and in the transfers of a token that calls out of them.   *)
(* The loop of takeOrders2 makes static calls only.                        *)
ExternalTurn ==
  IF stack = <<>> THEN TRUE
  ELSE Top.pc \in {"call", "post"} \cup TransferHooks

MayCall == ExternalTurn /\ Len(stack) < MaxDepth

(* Mutation: a function that lacks the nonReentrant modifier. *)
NotNonReentrant == MayCall /\ locked' = TRUE

(* The nonReentrant modifier; a call that finds the lock taken reverts     *)
(* before it does anything.                                                *)
NonReentrant == MayCall /\ ~locked /\ locked' = TRUE

-----------------------------------------------------------------------------
(* deposit2, withdraw2 *)

Deposit2(u, t, id, depositAmount) ==
  /\ depositAmount > 0
  /\ NonReentrant
  /\ Push([Call("deposit2", u, "pull") EXCEPT
             !.in = [token |-> t, amount |-> depositAmount], !.vaultId = id])
  /\ UNCHANGED <<vault, live, balance>>

(* Mutation: a withdrawal is not capped at the vault balance. *)
WithdrawAmountUncapped(targetAmount, currentBalance) == targetAmount

(* Withdrawals do not exceed the current vault balance. *)
WithdrawAmount(targetAmount, currentBalance) ==
  Smaller(targetAmount, currentBalance)

(* The withdrawal of an empty vault does nothing and is left out. *)
Withdraw2(u, t, id, targetAmount) ==
  LET withdrawAmount == WithdrawAmount(targetAmount, vault[<<u, t, id>>])
  IN  /\ withdrawAmount > 0
      /\ NonReentrant
      /\ vault' = Debit(vault, <<u, t, id>>, withdrawAmount)
      /\ Push([Call("withdraw2", u, "send") EXCEPT
                 !.out = [token |-> t, amount |-> withdrawAmount]])
      /\ UNCHANGED <<live, balance>>

-----------------------------------------------------------------------------
(* addOrder2, removeOrder2, entask *)

(* Adding a live order returns early without state changes: left out.      *)
AddOrder2(u, o) ==
  /\ o.owner = u
  /\ Len(o.validInputs) > 0
  /\ Len(o.validOutputs) > 0
  /\ o \notin live
  /\ NonReentrant
  /\ live' = live \cup {o}
  /\ Push(Call("addOrder2", u, "post"))
  /\ UNCHANGED <<vault, balance>>

RemoveOrder2(u, o) ==
  /\ u = o.owner
  /\ o \in live
  /\ NonReentrant
  /\ live' = live \ {o}
  /\ Push(Call("removeOrder2", u, "post"))
  /\ UNCHANGED <<vault, balance>>

Entask(u) ==
  /\ NonReentrant
  /\ Push(Call("entask", u, "post"))
  /\ UNCHANGED <<vault, live, balance>>

-----------------------------------------------------------------------------
(* calculateOrderIO and recordVaultIO, of the order and the IOs of c *)

InputKey(c) == <<c.order.owner, InputIO(c).token, InputIO(c).vaultId>>

OutputKey(c) == <<c.order.owner, OutputIO(c).token, OutputIO(c).vaultId>>

CalculateOk(c) ==
  CalculateFits(vault[InputKey(c)], InputIO(c).decimals,
                vault[OutputKey(c)], OutputIO(c).decimals)

VaultCapped(c, outputMax) ==
  CapOutputMax(outputMax, vault[OutputKey(c)], OutputIO(c).decimals)

RecordVaultIO(v, c, input, output) ==
  Debit(Credit(v, InputKey(c), input), OutputKey(c), output)

(* The checked arithmetic of recordVaultIO does not overflow. *)
RecordOk(v, c, input, output) ==
  /\ RecordFits(input, InputIO(c).decimals, output, OutputIO(c).decimals)
  /\ Fits(v[InputKey(c)] + input)
  /\ Credit(v, InputKey(c), input)[OutputKey(c)] >= output

-----------------------------------------------------------------------------
(* takeOrders2 *)

TakeOrders2(u, list, minimumInput, maximumInput, maximumIORatio) ==
  /\ maximumInput > 0
  /\ NonReentrant
  /\ Push([Call("takeOrders2", u, "loop") EXCEPT
             !.out = [token |-> OutputIO(list[1]).token, amount |-> 0],
             !.in = [token |-> InputIO(list[1]).token, amount |-> 0],
             !.take = [orders |-> list, next |-> 1,
                       minimumInput |-> minimumInput,
                       maximumInput |-> maximumInput,
                       maximumIORatio |-> maximumIORatio]])
  /\ UNCHANGED <<vault, live, balance>>

RemainingTakerInput(f) == f.take.maximumInput - f.out.amount

Current(f) == f.take.orders[f.take.next]

(* The loop goes on, and the current order names the same tokens with the  *)
(* same decimals as the first and does not trade a token for itself.       *)
LoopsOn(f) ==
  /\ f.pc = "loop"
  /\ f.take.next <= Len(f.take.orders)
  /\ RemainingTakerInput(f) > 0
  /\ LET c == Current(f)  first == f.take.orders[1]
     IN  /\ InputIO(c).token = InputIO(first).token
         /\ OutputIO(c).token = OutputIO(first).token
         /\ InputIO(c).token # OutputIO(c).token
         /\ InputIO(c).decimals = InputIO(first).decimals
         /\ OutputIO(c).decimals = OutputIO(first).decimals

(* Mutation: the order is not looked up. *)
NoLookup(o) == TRUE

IsLive(o) == o \in live

(* Mutation: the limit of the taker is ignored. *)
AnyRatio(ratio, maximumIORatio) == TRUE

WithinMaxRatio(ratio, maximumIORatio) == ratio <= maximumIORatio

(* OrderNotFound, OrderExceedsMaxRatio, OrderZeroAmount: not an error, as  *)
(* another order of the list may still do.                                 *)
SkipOrder ==
  /\ stack # <<>>
  /\ LoopsOn(Top)
  /\ LET c == Current(Top)
     IN  \/ ~IsLive(c.order)
         \/ \E ratio \in Ratios, outputMax \in OutputMaxes :
              /\ CalculateOk(c)
              /\ \/ ~WithinMaxRatio(ratio, Top.take.maximumIORatio)
                 \/ VaultCapped(c, outputMax) = 0
  /\ Become([Top EXCEPT !.take.next = @ + 1])
  /\ UNCHANGED <<vault, live, locked, balance>>

FillOrder(ratio, outputMax) ==
  /\ stack # <<>>
  /\ LoopsOn(Top)
  /\ LET c       == Current(Top)
         input18 == TakerInput18(VaultCapped(c, outputMax),
                                 RemainingTakerInput(Top),
                                 OutputIO(c).decimals)
         input   == TakerInput(input18, OutputIO(c).decimals)
         output  == TakerOutput(input18, ratio, InputIO(c).decimals)
     IN  /\ IsLive(c.order)
         /\ CalculateOk(c)
         /\ WithinMaxRatio(ratio, Top.take.maximumIORatio)
         /\ VaultCapped(c, outputMax) > 0
         /\ TakeFits(input18, ratio, InputIO(c).decimals)
         /\ input <= RemainingTakerInput(Top)
         /\ Fits(Top.in.amount + output)
         /\ RecordOk(vault, c, output, input)
         /\ vault' = RecordVaultIO(vault, c, output, input)
         /\ Become([Top EXCEPT !.take.next = @ + 1,
                               !.out.amount = @ + input,
                               !.in.amount = @ + output])
  /\ UNCHANGED <<live, locked, balance>>

MeetsMinimum(f) == f.out.amount >= f.take.minimumInput

FinishLoop ==
  /\ At("loop")
  /\ \/ Top.take.next > Len(Top.take.orders)
     \/ RemainingTakerInput(Top) = 0
  /\ MeetsMinimum(Top)
  /\ Goto("send")
  /\ UNCHANGED <<vault, live, locked, balance>>

-----------------------------------------------------------------------------
(* clear2 *)

SameClearTokens(a, b) ==
  /\ a.order.owner # b.order.owner
  /\ OutputIO(a).token = InputIO(b).token
  /\ OutputIO(b).token = InputIO(a).token
  /\ InputIO(a).token # OutputIO(a).token
  /\ OutputIO(a).decimals = InputIO(b).decimals
  /\ OutputIO(b).decimals = InputIO(a).decimals

(* Mutation: the clearer is paid its bounty from one side twice. *)
BountyOfAliceOnly(aOut, bIn, bOut, aIn) == <<aOut - bIn, aOut - bIn>>

(* What is left of each output for the clearer. *)
Bounties(aOut, bIn, bOut, aIn) == <<aOut - bIn, bOut - aIn>>

(* The amounts that move when a is cleared against b for these outcomes of *)
(* their expressions.                                                      *)
ClearStateChange(a, b, aMax, aRatio, bMax, bRatio) ==
  LET aOut18 == ClearOutput18(aMax, bMax, bRatio)
      bOut18 == ClearOutput18(bMax, aMax, aRatio)
  IN  [aliceOutput |-> ClearOutput(aOut18, OutputIO(a).decimals),
       bobOutput   |-> ClearOutput(bOut18, OutputIO(b).decimals),
       aliceInput  |-> ClearInput(aOut18, aRatio, OutputIO(b).decimals),
       bobInput    |-> ClearInput(bOut18, bRatio, OutputIO(a).decimals),
       fits |-> /\ ClearFits(aMax, aOut18, aRatio, OutputIO(b).decimals,
                             OutputIO(a).decimals)
                /\ ClearFits(bMax, bOut18, bRatio, OutputIO(a).decimals,
                             OutputIO(b).decimals)]

(* Clearing a dead order is a no-op other than an event, and is left out.  *)
(* a and b are the orders of Alice and Bob, u is the clearer.              *)
Clear2(u, a, b, aBountyId, bBountyId) ==
  /\ NonReentrant
  /\ SameClearTokens(a, b)
  /\ IsLive(a.order) /\ IsLive(b.order)
  /\ CalculateOk(a) /\ CalculateOk(b)
  /\ \E aRatio, bRatio \in Ratios, aOutputMax, bOutputMax \in OutputMaxes :
       LET c == ClearStateChange(a, b, VaultCapped(a, aOutputMax), aRatio,
                                 VaultCapped(b, bOutputMax), bRatio)
           afterAlice == RecordVaultIO(vault, a, c.aliceInput, c.aliceOutput)
           afterBob == RecordVaultIO(afterAlice, b, c.bobInput, c.bobOutput)
           bounties == Bounties(c.aliceOutput, c.bobInput,
                                c.bobOutput, c.aliceInput)
           aBountyKey == <<u, OutputIO(a).token, aBountyId>>
           bBountyKey == <<u, OutputIO(b).token, bBountyId>>
       IN  /\ c.fits
           /\ RecordOk(vault, a, c.aliceInput, c.aliceOutput)
           /\ RecordOk(afterAlice, b, c.bobInput, c.bobOutput)
           /\ c.aliceOutput >= c.bobInput
           /\ c.bobOutput >= c.aliceInput
           /\ Fits(afterBob[aBountyKey] + bounties[1])
           /\ Fits(afterBob[bBountyKey] + bounties[2])
           /\ vault' = Credit(Credit(afterBob, aBountyKey, bounties[1]),
                              bBountyKey, bounties[2])
  /\ Push([Call("clear2", u, "post") EXCEPT !.take.orders = <<a, b>>])
  /\ UNCHANGED <<live, balance>>

-----------------------------------------------------------------------------
(* flashLoan, the one entry point without the nonReentrant modifier *)

FlashLoan(u, receiver, t, amount) ==
  /\ MayCall
  /\ Push([Call("flashLoan", u, "send") EXCEPT
             !.party = receiver,
             !.out = [token |-> t, amount |-> amount],
             !.in = [token |-> t, amount |-> amount]])
  /\ UNCHANGED <<vault, live, locked, balance>>

-----------------------------------------------------------------------------
(* The phases of the innermost call *)

Send ==
  /\ At("send")
  /\ CanPay(balance, OB, Top.out.token, Top.out.amount)
  /\ balance' = Transfer(balance, OB, Top.party, Top.out.token,
                         Top.out.amount)
  /\ Goto(IF HasCallback(Top) THEN "call" ELSE "post")
  /\ UNCHANGED <<vault, live, locked>>

(* onTakeOrders returns, or onFlashLoan returns the success value.         *)
ReturnCallback ==
  /\ At("call")
  /\ Top.fn = "flashLoan" => Top.party \in Borrowers
  /\ Goto("pull")
  /\ UNCHANGED <<vault, live, locked, balance>>

(* Mutation: what a call has to pull is not pulled in full. *)
PulledLess(f) == IF f.fn = "flashLoan" THEN f.in.amount - 1 ELSE f.in.amount

Pulled(f) == f.in.amount

Pull ==
  /\ At("pull")
  /\ CanPay(balance, Top.party, Top.in.token, Pulled(Top))
  /\ balance' = Transfer(balance, Top.party, OB, Top.in.token, Pulled(Top))
  /\ Goto(IF Top.fn = "deposit2" THEN "credit" ELSE "post")
  /\ UNCHANGED <<vault, live, locked>>

DepositKey(f) == <<f.sender, f.in.token, f.vaultId>>

CreditDeposit ==
  /\ At("credit")
  /\ Fits(vault[DepositKey(Top)] + Top.in.amount)
  /\ vault' = Credit(vault, DepositKey(Top), Top.in.amount)
  /\ Goto("post")
  /\ UNCHANGED <<live, locked, balance>>

(* The post tasks are done; the modifier releases the lock it took.        *)
Return ==
  /\ At("post")
  /\ Pop
  /\ locked' = (locked /\ Top.fn \notin Guarded)
  /\ UNCHANGED <<vault, live, balance>>

RevertsTo(f) == f.saved

(* The innermost call fails, by a check of its own or in code it calls:    *)
(* everything done since it began is undone, and its caller goes on.       *)
Revert ==
  /\ stack # <<>>
  /\ LET s == RevertsTo(Top)
     IN  /\ vault' = s.vault
         /\ live' = s.live
         /\ locked' = s.locked
         /\ balance' = s.balance
  /\ Pop

(* Somebody moves tokens of its own, possibly to the order book.           *)
MoveTokens(u, to, t, amount) ==
  /\ ExternalTurn
  /\ CanPay(balance, u, t, amount)
  /\ balance' = Transfer(balance, u, to, t, amount)
  /\ UNCHANGED <<vault, live, locked, stack>>

-----------------------------------------------------------------------------

Init ==
  /\ vault = [k \in VaultKeys |-> 0]
  /\ live = {}
  /\ locked = FALSE
  /\ balance = InitBalances
  /\ stack = <<>>

AccountCall(u) ==
  \/ \E t \in Tokens, id \in VaultIds :
       \/ \E n \in DepositAmounts : Deposit2(u, t, id, n)
       \/ \E n \in WithdrawAmounts : Withdraw2(u, t, id, n)
  \/ \E o \in Orders : AddOrder2(u, o) \/ RemoveOrder2(u, o)
  \/ Entask(u)
  \/ \E list \in TakeLists, minimumInput \in TakeAmounts \cup {0},
        maximumInput \in TakeAmounts, maximumIORatio \in Ratios :
       TakeOrders2(u, list, minimumInput, maximumInput, maximumIORatio)
  \/ \E a, b \in TakeOrders, aBountyId, bBountyId \in VaultIds :
       Clear2(u, a, b, aBountyId, bBountyId)
  \/ \E receiver \in Users, t \in Tokens, n \in LoanAmounts :
       FlashLoan(u, receiver, t, n)

Phase ==
  \/ SkipOrder
  \/ \E ratio \in Ratios, outputMax \in OutputMaxes :
       FillOrder(ratio, outputMax)
  \/ FinishLoop
  \/ Send
  \/ ReturnCallback
  \/ Pull
  \/ CreditDeposit
  \/ Return
  \/ Revert

Next ==
  \/ \E u \in Users : AccountCall(u)
  \/ Phase
  \/ \E u \in Users, to \in Accounts, t \in Tokens, n \in MoveAmounts :
       MoveTokens(u, to, t, n)

Spec == Init /\ [][Next]_vars

-----------------------------------------------------------------------------
(* Invariants *)

(* Every variable has its type; in particular no balance is negative. *)
TypeOK ==
  /\ vault \in Vaults
  /\ live \in SUBSET Orders
  /\ locked \in BOOLEAN
  /\ balance \in Balances
  /\ stack \in Seq(Frame)

(* What the rest of call f will add to the slack of token t: the payments  *)
(* it has yet to pull, less those it has yet to send or to credit.         *)
Outstanding(f, t) ==
    (IF f.pc \in {"loop", "send", "call", "pull"} /\ f.in.token = t
       THEN f.in.amount ELSE 0)
  - (IF f.pc \in {"loop", "send"} /\ f.out.token = t
       THEN f.out.amount ELSE 0)
  - (IF f.fn = "deposit2" /\ f.pc \in {"pull", "credit"} /\ f.in.token = t
       THEN f.in.amount ELSE 0)

(* The slack of t when the i-th call of s began; past the last, the slack  *)
(* of the balances v and b themselves.                                     *)
SlackWhenCalled(s, v, b, i, t) ==
  IF i <= Len(s) THEN Slack(s[i].saved.vault, s[i].saved.balance, t)
                 ELSE Slack(v, b, t)

DrainFree(s, v, b, t) ==
  /\ SlackWhenCalled(s, v, b, 1, t) >= 0
  /\ \A i \in 1..Len(s) :
       SlackWhenCalled(s, v, b, i + 1, t) + Outstanding(s[i], t)
         >= SlackWhenCalled(s, v, b, i, t)

(* The inductive form of solvency.  At every depth of the call stack, what *)
(* a call has done so far together with what it still has to do leaves the *)
(* order book no poorer against its vaults than it was when the call       *)
(* began, whatever the calls nested in it did.                             *)
NoCallDrains == \A t \in Tokens : DrainFree(stack, vault, balance, t)

(* Between transactions the order book holds at least the sum of all       *)
(* vaults of each token, so every owner can withdraw everything: the       *)
(* takes, clears, bounties and flash loans, nested in each other or not,   *)
(* reverted or not, never lend or pay out a token some vault is owed.      *)
Solvent ==
  stack = <<>> => \A t \in Tokens : Owed(vault, t) <= balance[<<OB, t>>]

(* The lock is taken exactly while one guarded call is in progress, at any *)
(* depth, and never two guarded calls are: the callbacks, the token hooks  *)
(* and the unguarded flashLoan cannot re-enter vault or order accounting.  *)
LockMatchesStack ==
  /\ locked <=> \E i \in 1..Len(stack) : stack[i].fn \in Guarded
  /\ \A i, j \in 1..Len(stack) :
       stack[i].fn \in Guarded /\ stack[j].fn \in Guarded => i = j

(* Once its loop is over, a take is within the limits the taker gave: it   *)
(* receives between minimumInput and maximumInput, and pays at most        *)
(* maximumIORatio for what it receives, give or take less than one unit of *)
(* each token and one 18 decimal unit per order filled.                    *)
TakerLimits ==
  \A i \in 1..Len(stack) :
    stack[i].fn = "takeOrders2" =>
      LET f == stack[i]
          inUnit == Scale[MaxDecimals - InputIO(f.take.orders[1]).decimals]
          outUnit == Scale[MaxDecimals - OutputIO(f.take.orders[1]).decimals]
          fpUnit == Scale[MaxDecimals - FpDecimals]
          fills == f.take.next - 1
      IN  /\ f.out.amount <= f.take.maximumInput
          /\ f.pc # "loop" => f.out.amount >= f.take.minimumInput
          /\ f.in.amount * inUnit * One
               <= (f.out.amount + fills) * outUnit * f.take.maximumIORatio
                  + fills * (inUnit + fpUnit) * One

-----------------------------------------------------------------------------
(* Action properties *)

Reverting == Len(stack') < Len(stack) /\ vault' = Top.saved.vault

Calls(fn) == Len(stack') > Len(stack) /\ Top'.fn = fn

(* The step is a withdrawal, by the owner of vault k, of n of its token.   *)
Withdraws(k, n) ==
  /\ Calls("withdraw2")
  /\ Top'.sender = k[1]
  /\ Top'.out = [token |-> k[2], amount |-> n]

(* The step fills the order its loop has come to, which is live and pays   *)
(* out n of vault k, and adds exactly n to what the taker will be sent.    *)
Fills(k, n) ==
  /\ At("loop")
  /\ Top.take.next <= Len(Top.take.orders)
  /\ Current(Top).order \in live
  /\ k = OutputKey(Current(Top))
  /\ Become([Top EXCEPT !.take.next = @ + 1, !.out.amount = @ + n,
                        !.in.amount = Top'.in.amount])

(* The step clears two live orders, one of which pays out of vault k.      *)
Clears(k) ==
  /\ Calls("clear2")
  /\ \A i \in DOMAIN Top'.take.orders : Top'.take.orders[i].order \in live
  /\ \E i \in DOMAIN Top'.take.orders : k = OutputKey(Top'.take.orders[i])

(* A vault goes down only when its owner withdraws from it, by the amount  *)
(* then sent; or when the very order that is filled has it as its output   *)
(* and is live at that moment, by the amount then owed to the taker; or    *)
(* when one of the two orders that are cleared has it, and both are live.  *)
(* No other call, no dead order of the same owner, and no call nested in   *)
(* one takes from a vault, except by undoing what it did.                  *)
VaultDebitsAuthorised ==
  [][\A k \in VaultKeys :
       LET n == vault[k] - vault'[k]
       IN  n > 0 => Reverting \/ Withdraws(k, n) \/ Fills(k, n) \/ Clears(k)
    ]_vars

(* While a guarded call waits for other contracts to return, nothing they  *)
(* do changes a vault, or which orders are live: only the guarded call's   *)
(* own steps and its revert do.                                            *)
FrozenWhileOutside ==
  [][locked /\ (vault' # vault \/ live' # live) =>
       \/ Len(stack') < Len(stack)
       \/ /\ Top.fn \in Guarded
          /\ Top.pc \in {"loop", "credit"}]_vars

-----------------------------------------------------------------------------
(* Refinement *)

(* What the last finished transaction left: the state itself between       *)
(* transactions, the state the outermost call would revert to within one.  *)
Committed == IF stack = <<>> THEN Now ELSE stack[1].saved

CustodyOf == INSTANCE Custody WITH vault <- Committed.vault,
                                   balance <- Committed.balance

(* The order book implements the custodian: seen from between the          *)
(* transactions, each of them, with all it nests, keeps the slack of every *)
(* token and its supply, or leaves no trace when it reverts.               *)
Custodial == CustodyOf!Spec

=============================================================================
