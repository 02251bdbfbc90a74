---------------------------- MODULE TokenHistory ----------------------------
(***************************************************************************)
(* EosioToken with a history variable: how many tokens of each symbol      *)
(* circulate beyond the supply on record.  Only the migration, which       *)
(* forgets supplies and renames balances, makes any.                       *)
(***************************************************************************)
EXTENDS EosioToken

VARIABLE unrecorded  \* for each symbol

hvars == <<vars, unrecorded>>

HInit == Init /\ unrecorded = [s \in Symbols |-> 0]

HToken == TokenNext /\ UNCHANGED unrecorded

(* The row it writes starts with a supply of zero.                         *)
HMigrateStats ==
  /\ MigrateStats
  /\ unrecorded' = [unrecorded EXCEPT ![OldSymbol] = @ + SupplyOf(OldSymbol)]

HMigrateAcc(account) ==
  LET renamed == BalanceOf(account, OldSymbol)
  IN  /\ MigrateAcc(account)
      /\ unrecorded' = [unrecorded EXCEPT ![OldSymbol] = @ - renamed,
                                          ![NewSymbol] = @ + renamed]

HNext == HToken \/ HMigrateStats \/ \E a \in Accounts : HMigrateAcc(a)
----------------------------------------------------------------------------
HTypeOK == TypeOK /\ unrecorded \in [Symbols -> Int]

(* Each symbol's supply on record is what the accounts hold of it, but for *)
(* what the migration dropped from the record, and stays within the        *)
(* maximum, in any order of migrations, of accounts migrated late or       *)
(* never, and of ordinary actions on both symbols (eosio.token.cpp:40-47,  *)
(* 62-72, 159-210).                                                        *)
SupplyIsCirculating ==
  \A s \in Symbols :
    /\ Circulating(s) = SupplyOf(s) + unrecorded[s]
    /\ Exists(s) => SupplyOf(s) <= stats[s][s].max_supply

(* The system's token under its two symbols together is a ledger: every    *)
(* action is a transfer, an issue or a retirement of it or leaves it       *)
(* alone; the migration is invisible, whoever migrates when                *)
(* (eosio.token.cpp:26-210).                                               *)
Holding(a) == BalanceOf(a, OldSymbol) + BalanceOf(a, NewSymbol)
Holdings == [a \in Accounts |-> Holding(a)]
Minted == SupplyOf(OldSymbol) + SupplyOf(NewSymbol)
            + unrecorded[OldSymbol] + unrecorded[NewSymbol]

Ledger == INSTANCE TokenLedger
  WITH Owners <- Accounts, Amounts <- Quantities,
       held <- Holdings, supply <- Minted

SystemTokenIsLedger == Ledger!LedgerSpec

(* transfer is what the contracts that send it inline take it to be, with  *)
(* balances of 0 where there are no rows: while no more of a token is held *)
(* than one asset can count, add_balance never overflows, so that it       *)
(* succeeds exactly when the payer has the quantity, and it moves just     *)
(* that, whoever opened, closed or migrated rows (eosio.token.cpp:75-127). *)
TransferAsOthersSeeIt ==
  \A s \in Symbols : Exists(s) /\ Circulating(s) <= MaxAmount =>
    \A a, b \in Accounts, q \in Quantities :
      /\ MayTransfer(a, b, s, q) <=> Ledger!CanTransfer(Balances(s), a, b, q)
      /\ Transfer(a, b, s, q) =>
           Balances(s)' = Ledger!AfterTransfer(Balances(s), a, b, q)

InlineTransfers == [][TransferAsOthersSeeIt]_hvars
=============================================================================
