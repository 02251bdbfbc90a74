----------------------------- MODULE EosioToken -----------------------------
(***************************************************************************)
(* The contract eosio.token: currency statistics and balances of any       *)
(* number of tokens, and the two actions that move the system's token from *)
(* its old symbol (LEOS) to the new one (TONO).                            *)
(*                                                                         *)
(* A token is named by its symbol.  A quantity of the right code and the   *)
(* wrong precision fails a check in every action, so only matching ones    *)
(* are considered.  One action is one transaction; a failed check is a     *)
(* disabled action.                                                        *)
(***************************************************************************)
EXTENDS Tables

CONSTANTS
  Accounts,    \* the accounts that exist
  Symbols,     \* the symbols of the tokens
  OldSymbol,   \* SYSTEM_RESOURCE_CURRENCY_OLD
  NewSymbol,   \* SYSTEM_RESOURCE_CURRENCY
  NoName,      \* the empty name
  MaxAmount,   \* asset::max_amount
  Quantities   \* bound: the amounts that callers name

ASSUME TokenAssumption ==
  /\ IsFiniteSet(Accounts) /\ NoName \notin Accounts
  /\ OldSymbol \in Symbols /\ NewSymbol \in Symbols /\ OldSymbol # NewSymbol
  /\ MaxAmount \in Nat
  /\ Quantities \subseteq 1 .. MaxAmount

VARIABLES
  stats,    \* the stat table: for each scope its rows by symbol
  accounts  \* the accounts table: for each account its balances by symbol

vars == <<stats, accounts>>

CurrencyStats == [supply : Int, max_supply : Nat, issuer : Accounts \cup {NoName}]

Init ==
  /\ stats = [s \in Symbols |-> EmptyTable]
  /\ accounts = [a \in Accounts |-> EmptyTable]

Exists(sym) == sym \in DOMAIN stats[sym]
----------------------------------------------------------------------------
(* sub_balance and add_balance.                                            *)

(* Mutant: any balance row will do.                                        *)
CanSubFromAnyRow(owner, sym, quantity) == sym \in DOMAIN accounts[owner]

CanSub(owner, sym, quantity) ==
  /\ sym \in DOMAIN accounts[owner]
  /\ quantity <= accounts[owner][sym]

Subtracted(row, sym, quantity) == [row EXCEPT ![sym] = @ - quantity]

CanAdd(owner, sym, quantity) ==
  sym \in DOMAIN accounts[owner] => accounts[owner][sym] + quantity <= MaxAmount

(* Mutant: the balance row is written anew.                                *)
WrittenAnew(row, sym, quantity) == WithRow(row, sym, quantity)

Added(row, sym, quantity) ==
  WithRow(row, sym, IF sym \in DOMAIN row THEN row[sym] + quantity ELSE quantity)
----------------------------------------------------------------------------
Create(issuer, sym, max_supply) ==
  /\ max_supply > 0
  /\ ~Exists(sym)
  /\ stats' = [stats EXCEPT ![sym] = WithRow(@, sym,
                 [supply |-> 0, max_supply |-> max_supply, issuer |-> issuer])]
  /\ UNCHANGED accounts

WithSupply(st, n) == [st EXCEPT !.supply = n]

(* What is left of issue when `to' may have the tokens.                    *)
IssueTo(to, sym, quantity) ==
  LET st == stats[sym][sym]
  IN  /\ Exists(sym)
      /\ quantity > 0
      /\ quantity <= st.max_supply - st.supply
      /\ CanAdd(to, sym, quantity)
      /\ stats' = [stats EXCEPT ![sym] = [@ EXCEPT
                     ![sym] = WithSupply(st, st.supply + quantity)]]
      /\ accounts' = [accounts EXCEPT ![to] = Added(@, sym, quantity)]

Issue(to, sym, quantity) ==
  /\ Exists(sym)
  /\ to = stats[sym][sym].issuer
  /\ IssueTo(to, sym, quantity)

Retire(from, sym, quantity) ==
  LET st == stats[sym][sym]
  IN  /\ Exists(sym)
      /\ from = st.issuer
      /\ quantity > 0
      /\ st.supply - quantity >= -MaxAmount
      /\ CanSub(from, sym, quantity)
      /\ stats' = [stats EXCEPT ![sym] = [@ EXCEPT
                     ![sym] = WithSupply(st, st.supply - quantity)]]
      /\ accounts' = [accounts EXCEPT ![from] = Subtracted(@, sym, quantity)]

MayTransfer(from, to, sym, quantity) ==
  /\ from # to
  /\ Exists(sym)
  /\ quantity > 0
  /\ CanSub(from, sym, quantity)
  /\ CanAdd(to, sym, quantity)

Transfer(from, to, sym, quantity) ==
  /\ MayTransfer(from, to, sym, quantity)
  /\ accounts' = [accounts EXCEPT ![from] = Subtracted(@, sym, quantity),
                                  ![to] = Added(@, sym, quantity)]
  /\ UNCHANGED stats

(* open changes nothing, and succeeds, when there is a row already.        *)
Open(owner, sym) ==
  /\ Exists(sym)
  /\ sym \notin DOMAIN accounts[owner]
  /\ accounts' = [accounts EXCEPT ![owner] = WithRow(@, sym, 0)]
  /\ UNCHANGED stats

(* Mutant: a row may be closed whatever its balance.                       *)
CloseAnyBalance(owner, sym) ==
  /\ sym \in DOMAIN accounts[owner]
  /\ accounts' = [accounts EXCEPT ![owner] = WithoutRows(@, {sym})]
  /\ UNCHANGED stats

Close(owner, sym) ==
  /\ sym \in DOMAIN accounts[owner]
  /\ accounts[owner][sym] = 0
  /\ accounts' = [accounts EXCEPT ![owner] = WithoutRows(@, {sym})]
  /\ UNCHANGED stats
----------------------------------------------------------------------------
(* The migration.  Both rows migratestats looks for are in the scope of    *)
(* the old symbol; the row it writes starts with a supply of zero.  With   *)
(* neither row there it still writes one, without issuer and maximum.      *)

MigrateStats ==
  LET old == stats[OldSymbol]
      found == IF NewSymbol \in DOMAIN old THEN old[NewSymbol]
               ELSE IF OldSymbol \in DOMAIN old THEN old[OldSymbol]
               ELSE [supply |-> 0, max_supply |-> 0, issuer |-> NoName]
  IN  /\ ~Exists(NewSymbol)
      /\ stats' = [stats EXCEPT
                     ![OldSymbol] = WithoutRows(@, {OldSymbol, NewSymbol}),
                     ![NewSymbol] = WithRow(@, NewSymbol,
                                            [found EXCEPT !.supply = 0])]
      /\ UNCHANGED accounts

(* Mutant: the old balance row stays.                                      *)
MigrateAccKeepingOld(account) ==
  LET rows == accounts[account]
  IN  /\ OldSymbol \in DOMAIN rows
      /\ NewSymbol \notin DOMAIN rows
      /\ accounts' = [accounts EXCEPT
                        ![account] = WithRow(@, NewSymbol, rows[OldSymbol])]
      /\ UNCHANGED stats

(* migrateacc changes nothing, and succeeds, when there is no old balance. *)
MigrateAcc(account) ==
  LET rows == accounts[account]
  IN  /\ OldSymbol \in DOMAIN rows
      /\ NewSymbol \notin DOMAIN rows
      /\ accounts' = [accounts EXCEPT
           ![account] = WithoutRows(WithRow(@, NewSymbol, rows[OldSymbol]),
                                    {OldSymbol})]
      /\ UNCHANGED stats
----------------------------------------------------------------------------
TokenNext ==
  \/ \E a \in Accounts, s \in Symbols, q \in Quantities :
       \/ Create(a, s, q)
       \/ Issue(a, s, q)
       \/ Retire(a, s, q)
       \/ \E b \in Accounts : Transfer(a, b, s, q)
  \/ \E a \in Accounts, s \in Symbols : Open(a, s) \/ Close(a, s)

MigrationNext == MigrateStats \/ \E a \in Accounts : MigrateAcc(a)

Next == TokenNext \/ MigrationNext

Spec == Init /\ [][Next]_vars
----------------------------------------------------------------------------
(* Properties.                                                             *)

IsBalances(rows) ==
  /\ DOMAIN rows \subseteq Symbols
  /\ rows \in [DOMAIN rows -> 0 .. MaxAmount]

IsStats(rows) ==
  /\ DOMAIN rows \subseteq Symbols
  /\ rows \in [DOMAIN rows -> CurrencyStats]

(* Type invariant of the two tables (eosio.token.hpp:139-154).             *)
TypeOK ==
  /\ stats = [s \in Symbols |-> stats[s]]
  /\ \A s \in Symbols : IsStats(stats[s])
  /\ accounts = [a \in Accounts |-> accounts[a]]
  /\ \A a \in Accounts : IsBalances(accounts[a])

BalanceOf(a, sym) == IF sym \in DOMAIN accounts[a] THEN accounts[a][sym] ELSE 0
Balances(sym) == [a \in Accounts |-> BalanceOf(a, sym)]
Circulating(sym) == SumFunction(Balances(sym))
SupplyOf(sym) == IF Exists(sym) THEN stats[sym][sym].supply ELSE 0

(* No more of a token circulates than the maximum on record.               *)
MaxSupplyHonoured ==
  \A s \in Symbols : Exists(s) => Circulating(s) <= stats[s][s].max_supply

(* The ricardian clause of issue ("does not allow the total quantity to    *)
(* exceed the max allowed supply of the token") for the system token once  *)
(* migratestats has moved its statistics: of what circulates under either  *)
(* symbol.  The row that migratestats writes starts with no supply         *)
(* (eosio.token.cpp:185-192), so that issue grants the maximum again.      *)
SystemMaximumHonoured ==
  Exists(NewSymbol) /\ ~Exists(OldSymbol) =>
    Circulating(OldSymbol) + Circulating(NewSymbol)
      <= stats[NewSymbol][NewSymbol].max_supply
=============================================================================
