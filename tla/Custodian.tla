----------------------------- MODULE Custodian ------------------------------
(***************************************************************************)
(* What a contract promises that keeps the tokens of others: whatever it   *)
(* has was either deposited for somebody or put into a common pool; what   *)
(* it owes one owner grows by deposits and by yield out of the pool, and   *)
(* shrinks only by what that owner is paid in the same step.  Staking and  *)
(* Vesting implement it.                                                   *)
(*                                                                         *)
(* The amounts are read off the step (Inflow, Received, Granted), so that  *)
(* none has to be bounded.                                                 *)
(***************************************************************************)
EXTENDS TokenTransfer, Functions

CONSTANTS
  Wallets,    \* the accounts
  Clients,    \* those for whom tokens are kept
  Keeper,     \* the account of the contract
  Refundees,  \* who may get back what was deposited for another
  Sweepers    \* who may end it all and take everything

VARIABLES
  wallet,  \* the balance of each account
  claim,   \* what is kept for each client
  pool     \* what is kept for nobody yet; below zero, what was granted in advance

books == <<wallet, claim, pool>>

BooksTypeOK ==
  /\ wallet \in [Wallets -> Nat]
  /\ claim \in [Clients -> Nat]
  /\ pool \in Int

(* The keeper has what its books say.                                      *)
BooksCovered == wallet[Keeper] >= pool + SumFunction(claim)

CustodianInit == BooksTypeOK /\ BooksCovered
----------------------------------------------------------------------------
MoveTokens(from, to, amount) ==
  /\ amount \in Nat
  /\ CanTransfer(wallet, from, to, amount)
  /\ wallet' = AfterTransfer(wallet, from, to, amount)

Deposit(from, client, amount) ==
  /\ MoveTokens(from, Keeper, amount)
  /\ claim' = [claim EXCEPT ![client] = @ + amount]
  /\ UNCHANGED pool

Fund(from, amount) ==
  /\ MoveTokens(from, Keeper, amount)
  /\ pool' = pool + amount
  /\ UNCHANGED claim

(* Any number of clients are paid, and granted yield from the pool.        *)
Settle(paid, granted) ==
  /\ \E c \in Clients : paid[c] > 0 \/ granted[c] > 0
  /\ \A c \in Clients : paid[c] \in 0 .. claim[c] /\ granted[c] \in Nat
  /\ SumFunction(paid) <= wallet[Keeper]
  /\ wallet' = [a \in Wallets |->
                  IF a = Keeper THEN wallet[a] - SumFunction(paid)
                  ELSE IF a \in Clients THEN wallet[a] + paid[a]
                  ELSE wallet[a]]
  /\ claim' = [c \in Clients |-> claim[c] - paid[c] + granted[c]]
  /\ pool' = pool - SumFunction(granted)

Refund(to, client, amount) ==
  /\ MoveTokens(Keeper, to, amount)
  /\ amount <= claim[client]
  /\ claim' = [claim EXCEPT ![client] = @ - amount]
  /\ UNCHANGED pool

(* The others do with their tokens what they like.                         *)
Spend(from, to, amount) ==
  /\ from # Keeper
  /\ MoveTokens(from, to, amount)
  /\ UNCHANGED <<claim, pool>>

Sweep(to) ==
  /\ MoveTokens(Keeper, to, pool + SumFunction(claim))
  /\ claim' = [c \in Clients |-> 0]
  /\ pool' = 0

Inflow == wallet'[Keeper] - wallet[Keeper]

Received == [c \in Clients |-> wallet'[c] - wallet[c]]

Granted == [c \in Clients |-> claim'[c] - claim[c] + Received[c]]

CustodianNext ==
  \/ /\ wallet' # wallet
     /\ \/ \E a \in Wallets, c \in Clients : Deposit(a, c, Inflow)
        \/ \E a \in Wallets : Fund(a, Inflow)
        \/ \E a \in Refundees, c \in Clients : Refund(a, c, -Inflow)
        \/ \E a, b \in Wallets : Spend(a, b, wallet'[b] - wallet[b])
        \/ \E a \in Sweepers : Sweep(a)
  \/ Settle(Received, Granted)

CustodianSpec == CustodianInit /\ [][CustodianNext]_books
----------------------------------------------------------------------------
(* What a client loses of the claim the client receives.                   *)
ClaimsHonoured ==
  \A c \in Clients :
    claim'[c] < claim[c] => claim[c] - claim'[c] <= Received[c]
=============================================================================
