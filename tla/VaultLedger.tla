---------------------------- MODULE VaultLedger ----------------------------
(***************************************************************************)
(* The accounts the order book is about: vault balances by owner, token    *)
(* and vault id (sVaultBalances), the ERC20 balances of every account, and *)
(* the slack of a token, by which the order book's own balance exceeds     *)
(* what it owes to all vaults together.                                    *)
(***************************************************************************)
EXTENDS Totals

CONSTANTS
  Users,      \* accounts that call the order book, and own vaults
  OB,         \* the account of the order book itself
  Tokens,
  VaultIds

ASSUME LedgerAssumption ==
  /\ IsFiniteSet(Users) /\ IsFiniteSet(Tokens) /\ IsFiniteSet(VaultIds)
  /\ OB \notin Users

Accounts == Users \cup {OB}

VaultKeys == Users \X Tokens \X VaultIds

VaultsOf(t) == {k \in VaultKeys : k[2] = t}

Vaults == [VaultKeys -> Nat]

(* An external ERC20: balances by account and token.                       *)
Balances == [Accounts \X Tokens -> Nat]

Credit(v, k, n) == [v EXCEPT ![k] = @ + n]

Debit(v, k, n) == [v EXCEPT ![k] = @ - n]

(* A transfer that succeeds, by safeTransfer or safeTransferFrom.          *)
Transfer(b, from, to, t, n) ==
  Credit(Debit(b, <<from, t>>, n), <<to, t>>, n)

CanPay(b, from, t, n) == b[<<from, t>>] >= n

-----------------------------------------------------------------------------
(* What the order book owes to all vaults of a token. *)
Owed(v, t) == Total(v, VaultsOf(t))

Supply(b, t) == Total(b, Accounts \X {t})

Slack(v, b, t) == b[<<OB, t>>] - Owed(v, t)

=============================================================================
