--------------------------- MODULE TokenTransfer ---------------------------
(***************************************************************************)
(* eosio.token::transfer of TONO, as the other contracts of the system use *)
(* it: they send it as an inline action, so a transfer whose guard is      *)
(* false aborts the whole transaction.  bal is the TONO balance of every   *)
(* account; an account without a balance row has balance 0, which is the   *)
(* same to a transfer because a quantity is positive (sub_balance fails on *)
(* a missing row and on a row that is too small alike).  The signature of  *)
(* the payer is the caller's business: the actions that use this module    *)
(* take the payer as the account that signed.                              *)
(***************************************************************************)
EXTENDS Integers

CanTransfer(bal, from, to, quantity) ==
  /\ from # to
  /\ from \in DOMAIN bal /\ to \in DOMAIN bal
  /\ quantity > 0
  /\ quantity <= bal[from]

AfterTransfer(bal, from, to, quantity) ==
  [bal EXCEPT ![from] = @ - quantity, ![to] = @ + quantity]
=============================================================================
