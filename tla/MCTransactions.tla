--------------------------- MODULE MCTransactions ---------------------------
(* Transactions with the commands of one account that get in each other's  *)
(* way: deposits that read the allowance at the same time, and orders that *)
(* are added and removed.                                                  *)
EXTENDS Transactions, TLC

CONSTANTS d1, d2, r, v1, v2, old

DepositCommand(via, vault, n) ==
  [kind |-> "deposit", via |-> via, vault |-> vault, amount |-> n]
WithdrawCommand(via, vault, n) ==
  [kind |-> "withdraw", via |-> via, vault |-> vault, amount |-> n]
AddCommand(via, inputs, outputs, n) ==
  [kind |-> "add", via |-> via, inputs |-> inputs, outputs |-> outputs,
   amount |-> n, noBroadcast |-> FALSE]
OldOrder == [nonce |-> old, inputs |-> <<v1>>, outputs |-> <<v2>>]
RemoveCommand(via) == [kind |-> "remove", via |-> via, order |-> OldOrder]

MCOldOrders == {OldOrder}

(* Two deposits and a withdrawal of one vault *)
Deposits ==
  d1 :> DepositCommand("cli", v1, 2) @@ d2 :> DepositCommand("app", v1, 3) @@
  r :> WithdrawCommand("app", v1, 2)

(* An order of the web app with its deposit, one of the app with a vault   *)
(* that is given, and a removal                                            *)
AppOrders ==
  d1 :> AddCommand("web", <<None, v1>>, <<None>>, 2) @@
  d2 :> AddCommand("app", <<None>>, <<v2, None>>, 0) @@
  r :> RemoveCommand("app")

(* Orders of the CLI, one of them only simulated, and a removal            *)
CliOrders ==
  d1 :> [AddCommand("cli", <<v1>>, <<None>>, 0) EXCEPT !.noBroadcast = TRUE] @@
  d2 :> AddCommand("cli", <<v1>>, <<None>>, 0) @@
  r :> RemoveCommand("cli")

(* An order of the web app with nothing deposited, beside one that is      *)
(* deposited for                                                           *)
EmptyDeposit ==
  d1 :> AddCommand("web", <<v1>>, <<None>>, 0) @@
  d2 :> AddCommand("web", <<None>>, <<None>>, 2)

MCPlans == {Deposits, AppOrders, CliOrders, EmptyDeposit}

(* One deposit alone *)
OneDeposit == {d1 :> DepositCommand("cli", v1, 2)}

=============================================================================
