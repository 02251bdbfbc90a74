---------------------------- MODULE TokenLedger ----------------------------
(***************************************************************************)
(* What a token contract promises about one token: an amount of tokens     *)
(* that changes hands by transfers, grows by minting and shrinks by        *)
(* burning, and nothing else.  The other contracts of the system are       *)
(* modelled over this ledger; EosioToken implements it.                    *)
(***************************************************************************)
EXTENDS TokenTransfer, Functions

CONSTANTS
  Owners,  \* the accounts
  Amounts  \* the quantities that are moved, minted and burnt

VARIABLES
  held,   \* what each account holds
  supply  \* what was minted and is not burnt

ledger == <<held, supply>>

LedgerInit ==
  /\ held = [a \in Owners |-> 0]
  /\ supply = 0

Move(from, to, quantity) ==
  /\ CanTransfer(held, from, to, quantity)
  /\ held' = AfterTransfer(held, from, to, quantity)
  /\ UNCHANGED supply

Mint(to, quantity) ==
  /\ quantity > 0
  /\ held' = [held EXCEPT ![to] = @ + quantity]
  /\ supply' = supply + quantity

Burn(from, quantity) ==
  /\ quantity > 0
  /\ quantity <= held[from]
  /\ held' = [held EXCEPT ![from] = @ - quantity]
  /\ supply' = supply - quantity

LedgerNext ==
  \E a \in Owners, quantity \in Amounts :
    \/ \E b \in Owners : Move(a, b, quantity)
    \/ Mint(a, quantity)
    \/ Burn(a, quantity)

LedgerSpec == LedgerInit /\ [][LedgerNext]_ledger
----------------------------------------------------------------------------
LedgerTypeOK ==
  /\ held \in [Owners -> Nat]
  /\ supply \in Nat

(* No token exists that was not minted, none is lost that was not burnt.   *)
Backed == supply = SumFunction(held)
=============================================================================
