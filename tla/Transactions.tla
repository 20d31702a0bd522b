---------------------------- MODULE Transactions ----------------------------
(***************************************************************************)
(* The commands of the CLI, the desktop app and the web app that send      *)
(* transactions: deposit, withdraw, add and remove an order. Several of    *)
(* them run at once for one account. Each reads the chain or an index of   *)
(* it, builds its calls from what it read, has them signed and sent, and   *)
(* waits for them; any of these steps may fail, and what was sent may be   *)
(* mined long after its command has given up.                              *)
(***************************************************************************)
EXTENDS Integers, Sequences, FiniteSets

CONSTANTS
  Jobs,        \* the commands; a job also stands for a vault id it draws
  Plans,       \* what may be asked of some of them: functions from jobs
  VaultIds,    \* vault ids that are given
  Allowances,  \* what the order book may have been allowed to take before
  Funds,       \* tokens in the wallet
  OldOrders,   \* orders there are already
  MaxUint256,     \* of uint256
  None         \* Option::None

(* What may be asked for. Amounts are uint256, and an order has an output.  *)
ASSUME CommandAssumption ==
  \A plan \in Plans : \A j \in DOMAIN plan :
    /\ j \in Jobs
    /\ plan[j].kind \in {"deposit", "withdraw", "add", "remove"}
    /\ plan[j].via \in {"cli", "app", "web"}
    /\ plan[j].kind # "remove" => plan[j].amount \in 0..MaxUint256
    /\ plan[j].kind \in {"deposit", "withdraw"} => plan[j].vault \in VaultIds
    /\ plan[j].kind = "add" =>
         /\ plan[j].inputs \in Seq(VaultIds \cup {None})
         /\ plan[j].outputs \in Seq(VaultIds \cup {None}) \ {<<>>}

(* The nonce and the vault id that a command draws are its own.            *)
ASSUME DrawnAssumption ==
  /\ Jobs \cap VaultIds = {}
  /\ \A o \in OldOrders :
       /\ o.nonce \notin Jobs
       /\ \A i \in DOMAIN o.inputs : o.inputs[i] \notin Jobs
       /\ \A i \in DOMAIN o.outputs : o.outputs[i] \notin Jobs

ASSUME WalletAssumption ==
  /\ IsFiniteSet(Jobs) /\ IsFiniteSet(VaultIds)
  /\ MaxUint256 \in Nat /\ Funds \in Nat
  /\ Allowances \subseteq 0..MaxUint256

Vaults == VaultIds \cup Jobs

Orders ==
  OldOrders \cup [nonce : Jobs, inputs : Seq(Vaults), outputs : Seq(Vaults)]

Chains == [allowance : 0..MaxUint256, wallet : Nat, vaults : [Vaults -> Nat],
           orders : SUBSET Orders]

(* None is none of the values that are told from it.                       *)
ASSUME NoneAssumption ==
  None \notin Chains \cup Nat \cup VaultIds \cup {"ok", "reverted"}

VARIABLES
  command,     \* what each of the commands is to do
  job,         \* where each command is
  notices,     \* the status notices of its transactions
  mempool,     \* what was sent and is not mined, in the order of nonces
  mined,       \* the outcome of what was mined
  chain,       \* allowance, wallet, vaults and orders
  index        \* the orders that the subgraph knows of

vars == <<command, job, notices, mempool, mined, chain, index>>

Stages == {"approve", "deposit", "execute"}
Settled == {"Confirmed", "Failed"}

Init ==
  /\ command \in Plans
  /\ job = [j \in Jobs |-> [pc |-> "start", seen |-> None, order |-> None]]
  /\ notices = [j \in Jobs |-> [s \in Stages |-> "Initialized"]]
  /\ mempool = <<>>
  /\ mined = [j \in Jobs |-> [s \in Stages |-> None]]
  /\ chain \in [allowance : Allowances, wallet : {Funds},
                vaults : {[v \in Vaults |-> 0]}, orders : {OldOrders}]
  /\ index = OldOrders

Goto(j, pc) == job' = [job EXCEPT ![j].pc = pc]
Notice(j, status) == notices' = [notices EXCEPT ![j][job[j].pc] = status]
Outside == UNCHANGED <<command, mempool, mined, chain, index>>

-----------------------------------------------------------------------------
(* Before the first transaction *)

(* Inputs and outputs without a vault id share the one that was drawn.     *)
WithRandomVault(j, ios) ==
  [i \in DOMAIN ios |-> IF ios[i] = None THEN j ELSE ios[i]]

(* AddOrderArgs::new_from_deployment *)
NewOrder(j) ==
  [nonce |-> j, inputs |-> WithRandomVault(j, command[j].inputs),
   outputs |-> WithRandomVault(j, command[j].outputs)]

(* The arguments are made: an order from its deployment, or one found in   *)
(* the index. A chain id that is not given is asked for.                   *)
Begin(j) ==
  LET c == command[j]
      at(pc, order) ==
        job' = [job EXCEPT ![j].pc = pc, ![j].order = order]
  IN  /\ job[j].pc = "start"
      /\ \/ c.kind = "deposit" /\ at("approve", None)
         \/ c.kind = "withdraw" /\ at("execute", None)
         \/ c.kind = "add" /\ c.via = "cli" /\ at("simulate", NewOrder(j))
         \/ c.kind = "add" /\ c.via = "app" /\ at("execute", NewOrder(j))
         \/ c.kind = "add" /\ c.via = "web" /\ at("approve", NewOrder(j))
         \/ c.kind = "remove" /\ c.order \in index /\ at("execute", c.order)
      /\ UNCHANGED notices /\ Outside

(* A file, a version, a deployment, an RPC node or a subgraph is not right.*)
BeginFails(j) ==
  job[j].pc = "start" /\ Goto(j, "error") /\ UNCHANGED notices /\ Outside

(* The CLI tries the call in a fork before it sends it, if it sends it.    *)
Simulate(j, succeeds) ==
  /\ job[j].pc = "simulate"
  /\ Goto(j, IF ~succeeds THEN "error"
             ELSE IF command[j].noBroadcast THEN "done" ELSE "execute")
  /\ UNCHANGED notices /\ Outside

-----------------------------------------------------------------------------
(* Transactions *)

(* The difference, which is a U256 and wraps                               *)
ApproveAmount(j) == (command[j].amount - job[j].seen) % (MaxUint256 + 1)

ApproveCall(j) == [call |-> "approve", amount |-> ApproveAmount(j)]
DepositCall(j) ==
  [call |-> "deposit", vault |-> command[j].vault, amount |-> command[j].amount]
WithdrawCall(j) ==
  [call |-> "withdraw", vault |-> command[j].vault, amount |-> command[j].amount]
AddOrderCall(j) == [call |-> "add", order |-> job[j].order]
AddWithDepositCall(j) ==
  [call |-> "addWithDeposit", order |-> job[j].order,
   vault |-> job[j].order.outputs[1], amount |-> command[j].amount]
RemoveOrderCall(j) == [call |-> "remove", order |-> job[j].order]

CallOf(j) ==
  LET kind == command[j].kind
      web == command[j].via = "web"
  IN  CASE job[j].pc = "approve" -> ApproveCall(j)
        [] job[j].pc = "deposit" -> DepositCall(j)
        [] job[j].pc = "execute" /\ kind = "withdraw" -> WithdrawCall(j)
        [] job[j].pc = "execute" /\ kind = "add" /\ ~web -> AddOrderCall(j)
        [] job[j].pc = "execute" /\ kind = "add" /\ web -> AddWithDepositCall(j)
        [] job[j].pc = "execute" /\ kind = "remove" -> RemoveOrderCall(j)

AfterApprove(j) == IF command[j].kind = "deposit" THEN "deposit" ELSE "execute"

Next1(j) == IF job[j].pc = "approve" THEN AfterApprove(j) ELSE "done"

(* Mutation: it is approved however much is allowed already.               *)
ApproveAlways(j) ==
  /\ job[j].pc = "approve" /\ notices[j].approve = "Initialized"
  /\ job' = [job EXCEPT ![j].seen = chain.allowance]
  /\ Notice(j, "PendingPrepare")
  /\ Outside

(* The allowance is read, and if it is enough there is nothing to approve. *)
ReadAllowance(j) ==
  /\ job[j].pc = "approve" /\ notices[j].approve = "Initialized"
  /\ IF chain.allowance < command[j].amount
       THEN /\ job' = [job EXCEPT ![j].seen = chain.allowance]
            /\ Notice(j, "PendingPrepare")
       ELSE Goto(j, AfterApprove(j)) /\ UNCHANGED notices
  /\ Outside

Prepare(j) ==
  /\ job[j].pc \in {"deposit", "execute"}
  /\ notices[j][job[j].pc] = "Initialized"
  /\ Notice(j, "PendingPrepare")
  /\ UNCHANGED job /\ Outside

AskToSign(j) ==
  /\ job[j].pc \in Stages /\ notices[j][job[j].pc] = "PendingPrepare"
  /\ Notice(j, "PendingSign")
  /\ UNCHANGED job /\ Outside

(* The web app does not wait for its approvals.                            *)
SignAndSend(j) ==
  /\ job[j].pc \in Stages /\ notices[j][job[j].pc] = "PendingSign"
  /\ mempool' = Append(mempool, [job |-> j, stage |-> job[j].pc, call |-> CallOf(j)])
  /\ Notice(j, "PendingSend")
  /\ IF command[j].via = "web" /\ job[j].pc = "approve"
       THEN Goto(j, AfterApprove(j)) ELSE UNCHANGED job
  /\ UNCHANGED <<command, mined, chain, index>>

(* A receipt has come, be it of a call that was reverted.                  *)
Confirm(j) ==
  /\ job[j].pc \in Stages /\ notices[j][job[j].pc] = "PendingSend"
  /\ mined[j][job[j].pc] # None
  /\ Notice(j, "Confirmed")
  /\ Goto(j, Next1(j))
  /\ Outside

(* Mutation: the CLI goes on to the deposit whatever became of the approval.*)
GoOnRegardless(j) ==
  /\ job[j].pc \in Stages
  /\ Goto(j, Next1(j))
  /\ IF command[j].via = "app" /\ command[j].kind # "add"
       THEN Notice(j, "Failed") ELSE UNCHANGED notices
  /\ Outside

(* Mutation: nothing tells that it has failed.                             *)
FailSilently(j) ==
  /\ job[j].pc \in Stages
  /\ Goto(j, IF command[j].via = "app" /\ job[j].pc = "approve"
             THEN AfterApprove(j) ELSE "error")
  /\ UNCHANGED notices /\ Outside

(* Any of it fails, before it was sent or while it is waited for. The app  *)
(* says so in the notice, unless it is of an order being added, and goes   *)
(* on to the deposit after an approval; the others end.                    *)
Fail(j) ==
  /\ job[j].pc \in Stages
  /\ IF command[j].via = "app" /\ job[j].pc = "approve"
       THEN Goto(j, AfterApprove(j)) ELSE Goto(j, "error")
  /\ IF command[j].via = "app" /\ command[j].kind # "add"
       THEN Notice(j, "Failed") ELSE UNCHANGED notices
  /\ Outside

-----------------------------------------------------------------------------
(* The chain *)

CanDeposit(n) == 0 < n /\ n <= chain.allowance /\ n <= chain.wallet

Deposited(c, v, n) ==
  [c EXCEPT !.allowance = @ - n, !.wallet = @ - n, !.vaults[v] = @ + n]

WithOrder(c, o) == [c EXCEPT !.orders = @ \cup {o}]

(* Mutation: the calls of a multicall succeed or fail each for itself.     *)
AddedApart(call) ==
  WithOrder(IF CanDeposit(call.amount)
              THEN Deposited(chain, call.vault, call.amount) ELSE chain,
            call.order)

(* A multicall is one transaction. A deposit of nothing is left out of it. *)
AddedWithDeposit(call) ==
  CASE call.amount = 0 -> WithOrder(chain, call.order)
    [] CanDeposit(call.amount) ->
         WithOrder(Deposited(chain, call.vault, call.amount), call.order)
    [] OTHER -> None

(* What a call makes of the chain, or None if it is reverted. approve sets *)
(* the allowance.                                                          *)
Executed(call) ==
  CASE call.call = "approve" -> [chain EXCEPT !.allowance = call.amount]
    [] call.call = "deposit" ->
         IF CanDeposit(call.amount)
           THEN Deposited(chain, call.vault, call.amount) ELSE None
    [] call.call = "withdraw" ->
         LET n == IF call.amount < chain.vaults[call.vault]
                    THEN call.amount ELSE chain.vaults[call.vault]
         IN  IF call.amount = 0 THEN None
             ELSE [chain EXCEPT !.wallet = @ + n, !.vaults[call.vault] = @ - n]
    [] call.call = "add" -> WithOrder(chain, call.order)
    [] call.call = "remove" -> [chain EXCEPT !.orders = @ \ {call.order}]
    [] call.call = "addWithDeposit" -> AddedWithDeposit(call)

Mine ==
  /\ mempool # <<>>
  /\ LET tx == Head(mempool)
         after == Executed(tx.call)
     IN  /\ mined' = [mined EXCEPT ![tx.job][tx.stage] =
                        IF after = None THEN "reverted" ELSE "ok"]
         /\ chain' = IF after = None THEN chain ELSE after
  /\ mempool' = Tail(mempool)
  /\ UNCHANGED <<command, job, notices, index>>

(* The subgraph catches up with the chain.                                 *)
IndexBlock ==
  /\ index # chain.orders
  /\ index' = chain.orders
  /\ UNCHANGED <<command, job, notices, mempool, mined, chain>>

Step(j) ==
  /\ j \in DOMAIN command
  /\ \/ Begin(j) \/ BeginFails(j)
     \/ \E succeeds \in BOOLEAN : Simulate(j, succeeds)
     \/ ReadAllowance(j) \/ Prepare(j) \/ AskToSign(j) \/ SignAndSend(j)
     \/ Confirm(j) \/ Fail(j)

Next == (\E j \in Jobs : Step(j)) \/ Mine \/ IndexBlock

(* Every await is answered in the end and what is sent is mined: the code  *)
(* has no timeouts of its own, so without that it waits for ever.          *)
Fairness == WF_vars(Mine) /\ \A j \in Jobs : WF_vars(Step(j))

Spec == Init /\ [][Next]_vars /\ Fairness

-----------------------------------------------------------------------------
(* Properties *)

(* The states of a command, its notices and the chain.                     *)
TypeOK ==
  /\ \A j \in Jobs :
       /\ job[j].pc \in Stages \cup {"start", "simulate", "done", "error"}
       /\ job[j].seen \in Nat \cup {None}
       /\ \A s \in Stages :
            notices[j][s] \in Settled \cup {"Initialized", "PendingPrepare",
                                            "PendingSign", "PendingSend"}
  /\ chain.allowance \in 0..MaxUint256
  /\ chain.wallet \in 0..Funds
  /\ \A v \in DOMAIN chain.vaults : chain.vaults[v] \in 0..Funds

Asked == {command[j].amount :
            j \in {k \in DOMAIN command : command[k].kind \in {"deposit", "add"}}}

(* However many deposits approve at once from what they read before, the   *)
(* order book is never allowed to take more than one of them asks for, or  *)
(* was allowed before (execute_approve).                                   *)
AllowanceBounded ==
  /\ TypeOK
  /\ \E n \in Asked \cup Allowances : chain.allowance <= n

(* Unlike the app, the CLI never sends a deposit when its approval has     *)
(* failed: it was confirmed, or more than the amount was already allowed.  *)
DepositsAfterApproval ==
  \A i \in DOMAIN mempool :
    LET j == mempool[i].job
    IN  mempool[i].stage = "deposit" /\ command[j].via = "cli" /\ job[j].seen # None
          => notices[j].approve = "Confirmed"

(* What the web app deposits and the order it adds are one multicall: when *)
(* the order is there, the vault drawn for it is filled, and when that is, *)
(* the order is there or a command has removed it.                         *)
OrdersFunded ==
  \A j \in DOMAIN command :
    LET c == command[j]
        filled == chain.vaults[j] = c.amount
        there == \E o \in chain.orders : o.nonce = j
        removed == \E k \in DOMAIN command :
                     /\ command[k].kind = "remove" /\ command[k].order.nonce = j
                     /\ mined[k].execute = "ok"
    IN  c.kind = "add" /\ c.via = "web" /\ c.outputs[1] = None /\ c.amount > 0 =>
          (there => filled) /\ (filled => there \/ removed)

(* What an order added takes in without a vault of its own is where it     *)
(* pays out from, and no other order takes in or pays out of that vault.   *)
UnsetVaultsShared ==
  \A o \in chain.orders \ OldOrders :
    LET c == command[o.nonce]
        drawn == {o.inputs[i] : i \in {k \in DOMAIN o.inputs : c.inputs[k] = None}}
          \cup {o.outputs[i] : i \in {k \in DOMAIN o.outputs : c.outputs[k] = None}}
    IN  /\ Cardinality(drawn) <= 1
        /\ \A p \in chain.orders \ {o} : \A v \in drawn :
             /\ \A i \in DOMAIN p.inputs : p.inputs[i] # v
             /\ \A i \in DOMAIN p.outputs : p.outputs[i] # v

(* An order has its vaults to itself, and with them the deposit made with  *)
(* it.                                                                     *)
OrdersHaveTheirVaults == OrdersFunded /\ UnsetVaultsShared

(* --no-broadcast, and a simulation that fails, leave the chain alone, and *)
(* a removal that was not reverted has removed the order for good.         *)
OnlySimulated ==
  \A j \in DOMAIN command :
    /\ command[j].kind = "add" /\ command[j].via = "cli" /\ command[j].noBroadcast
         => mined[j].execute = None
    /\ command[j].kind = "remove" /\ notices[j].execute = "Confirmed"
         => command[j].order \notin chain.orders

(* A command sends nothing after the step that should have stopped it.     *)
StopsInTime == DepositsAfterApproval /\ OnlySimulated

(* Every command ends, and what the app shows of each transaction that it  *)
(* has begun ends in Confirmed or Failed. The notice of an order being     *)
(* added is left out: order_add never sets it to Failed.                   *)
CommandsEnd ==
  \A j \in Jobs :
    /\ <>(j \in DOMAIN command => job[j].pc \in {"done", "error"})
    /\ j \in DOMAIN command /\ command[j].via = "app" /\ command[j].kind # "add" =>
         \A s \in Stages :
           [](notices[j][s] # "Initialized" => <>(notices[j][s] \in Settled))

(* The comment at deposit.rs:93: when more allowance is required, approve  *)
(* is called for the difference; so what was approved is enough.           *)
ApprovedIsEnough ==
  \A j \in DOMAIN command :
    mined[j].approve = "ok" /\ mined[j].deposit = None
      => chain.allowance >= command[j].amount

=============================================================================
