------------------------------ MODULE Custody ------------------------------
(***************************************************************************)
(* What the order book promises as a custodian, without its calls: between *)
(* transactions there are vault balances and token balances, and whatever  *)
(* one transaction does, however many calls it nests, the order book's     *)
(* slack in no token goes down and no token is created or lost.            *)
(***************************************************************************)
EXTENDS VaultLedger

CONSTANT InitBalances

VARIABLES
  vault,      \* vault balances after the last transaction
  balance     \* ERC20 balances after the last transaction

vars == <<vault, balance>>

Init ==
  /\ vault = [k \in VaultKeys |-> 0]
  /\ balance = InitBalances

Transaction ==
  /\ vault' \in Vaults
  /\ balance' \in Balances
  /\ \A t \in Tokens :
       /\ Slack(vault', balance', t) >= Slack(vault, balance, t)
       /\ Supply(balance', t) = Supply(balance, t)

Spec == Init /\ [][Transaction]_vars

(* The order book can pay out every vault of every token in full. *)
Solvent == \A t \in Tokens : Owed(vault, t) <= balance[<<OB, t>>]

=============================================================================
