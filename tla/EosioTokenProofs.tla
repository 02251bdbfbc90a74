-------------------------- MODULE EosioTokenProofs --------------------------
(***************************************************************************)
(* Proofs about the two token contracts.  For eosio.token with its         *)
(* migration, in the form TokenHistory gives it, and for demo.tmy: every   *)
(* symbol's supply on record and what the migration dropped of it make up  *)
(* what the accounts hold, and the system's token, under both its symbols, *)
(* implements TokenLedger.  The demo's tokens stay within their maximum.   *)
(* Each action is first described by what it does to the balances          *)
(* BalanceOf and to the supplies SupplyOf.                                 *)
(***************************************************************************)
EXTENDS DemoToken, SumTheorems

Inv == HTypeOK /\ SupplyIsCirculating

(* The balances and supplies of a typed state, primed or not.              *)
LEMMA BalancesTyped ==
  ASSUME TypeOK
  PROVE  /\ \A a \in Accounts, s \in Symbols : BalanceOf(a, s) \in 0 .. MaxAmount
         /\ \A s \in Symbols : SupplyOf(s) \in Int
<1>1. \A a \in Accounts : IsBalances(accounts[a])
  BY DEF TypeOK
<1>2. \A s \in Symbols : IsStats(stats[s])
  BY DEF TypeOK
<1>3. MaxAmount \in Nat
  BY TokenAssumption DEF TokenAssumption
<1> QED
  BY <1>1, <1>2, <1>3
     DEF BalanceOf, SupplyOf, Exists, IsBalances, IsStats, CurrencyStats

(* One account's balance of a token changes.                               *)
LEMMA OneBalance ==
  ASSUME NEW f \in [Accounts -> Int], NEW g \in [Accounts -> Int],
         NEW a \in Accounts, NEW d \in Int, g[a] = f[a] + d,
         \A b \in Accounts : b # a => g[b] = f[b]
  PROVE  SumFunction(g) = SumFunction(f) + d
<1>1. IsFiniteSet(Accounts)
  BY TokenAssumption DEF TokenAssumption
<1>2. SumFunction(g) = SumFunction(f) + g[a] - f[a]
  BY <1>1, SumFunctionUpdate
<1>3. SumFunction(f) \in Int /\ f[a] \in Int
  BY <1>1, SumFunctionInt
<1> QED BY <1>2, <1>3

(* Some of it moves from one account to another.                           *)
LEMMA TwoBalances ==
  ASSUME NEW f \in [Accounts -> Int], NEW g \in [Accounts -> Int],
         NEW a \in Accounts, NEW c \in Accounts, a # c, NEW d \in Int,
         g[a] = f[a] - d, g[c] = f[c] + d,
         \A b \in Accounts : b # a /\ b # c => g[b] = f[b]
  PROVE  SumFunction(g) = SumFunction(f)
<1> DEFINE h == [b \in Accounts |-> IF b = a THEN g[a] ELSE f[b]]
<1>1. h \in [Accounts -> Int]
  OBVIOUS
<1>2. SumFunction(h) = SumFunction(f) + (-d)
  <2>1. h[a] = f[a] + (-d) /\ \A b \in Accounts : b # a => h[b] = f[b]
    OBVIOUS
  <2> HIDE DEF h
  <2> QED BY <1>1, <2>1, OneBalance
<1>3. SumFunction(g) = SumFunction(h) + d
  <2>1. g[c] = h[c] + d /\ \A b \in Accounts : b # c => g[b] = h[b]
    OBVIOUS
  <2> HIDE DEF h
  <2> QED BY <1>1, <2>1, OneBalance
<1>4. SumFunction(f) \in Int
  BY SumFunctionInt, TokenAssumption DEF TokenAssumption
<1> HIDE DEF h
<1> QED BY <1>2, <1>3, <1>4

LEMMA BalancesAreFunctions ==
  ASSUME TypeOK, NEW s \in Symbols
  PROVE  /\ Balances(s) \in [Accounts -> Nat]
         /\ \A a \in Accounts : Balances(s)[a] = BalanceOf(a, s)
<1>1. \A a \in Accounts : BalanceOf(a, s) \in Nat
  BY BalancesTyped, TokenAssumption DEF TokenAssumption
<1> QED BY <1>1 DEF Balances
----------------------------------------------------------------------------
(* What each action does.                                                  *)

LEMMA InitInv == HInit => Inv
<1> SUFFICES ASSUME HInit PROVE Inv
  OBVIOUS
<1>1. /\ stats = [s \in Symbols |-> EmptyTable]
      /\ accounts = [a \in Accounts |-> EmptyTable]
      /\ unrecorded = [s \in Symbols |-> 0]
      /\ DOMAIN EmptyTable = {}
  BY DEF HInit, Init, EmptyTable
<1>2. IsStats(EmptyTable) /\ IsBalances(EmptyTable)
  BY DEF EmptyTable, IsStats, IsBalances
<1>3. HTypeOK
  BY <1>1, <1>2 DEF TypeOK, HTypeOK
<1>4. ASSUME NEW s \in Symbols
      PROVE  SupplyOf(s) = 0 /\ Circulating(s) = 0 /\ ~Exists(s)
  <2>1. SupplyOf(s) = 0 /\ ~Exists(s)
    BY <1>1 DEF SupplyOf, Exists
  <2>2. \A a \in Accounts : Balances(s)[a] = 0
    BY <1>1 DEF Balances, BalanceOf
  <2>3. DOMAIN Balances(s) = Accounts
    BY DEF Balances
  <2> QED BY <2>1, <2>2, <2>3, SumZero, TokenAssumption
             DEF Circulating, SumFunction, TokenAssumption
<1> QED BY <1>1, <1>3, <1>4 DEF Inv, SupplyIsCirculating

LEMMA CreateSteps ==
  ASSUME TypeOK, NEW issuer \in Accounts, NEW sym \in Symbols,
         NEW max_supply \in Quantities, Create(issuer, sym, max_supply)
  PROVE  /\ TypeOK'
         /\ \A s \in Symbols : Balances(s)' = Balances(s)
         /\ \A s \in Symbols : SupplyOf(s)' = SupplyOf(s)
         /\ \A s \in Symbols :
              IF s = sym THEN Exists(s)' /\ stats'[s][s].max_supply \in Nat
                              /\ SupplyOf(s) = 0
              ELSE stats'[s] = stats[s]
<1> DEFINE row == [supply |-> 0, max_supply |-> max_supply, issuer |-> issuer]
           rows == WithRow(stats[sym], sym, row)
<1>1. max_supply \in Nat
  BY TokenAssumption DEF TokenAssumption
<1>2. row \in CurrencyStats
  BY <1>1 DEF CurrencyStats
<1>3. /\ stats = [s \in Symbols |-> stats[s]]
      /\ IsStats(stats[sym])
  BY DEF TypeOK
<1>4. /\ \A s \in Symbols : stats'[s] = IF s = sym THEN rows ELSE stats[s]
      /\ stats' = [s \in Symbols |-> stats'[s]]
      /\ accounts' = accounts
      /\ sym \notin DOMAIN stats[sym]
  BY <1>3 DEF Create, Exists
<1>5. rows[sym] = row /\ sym \in DOMAIN rows /\ IsStats(rows)
  <2> HIDE DEF row
  <2> QED BY <1>2, <1>3 DEF WithRow, IsStats
<1> HIDE DEF rows
<1>6. TypeOK'
  BY <1>4, <1>5 DEF TypeOK
<1>7. \A s \in Symbols : Balances(s)' = Balances(s)
  BY <1>4 DEF Balances, BalanceOf
<1>8. \A s \in Symbols : SupplyOf(s)' = SupplyOf(s)
  BY <1>4, <1>5 DEF SupplyOf, Exists
<1> QED BY <1>1, <1>4, <1>5, <1>6, <1>7, <1>8 DEF Exists, SupplyOf

(* A token's row in its stat table gets another supply.                    *)
LEMMA SupplyChanges ==
  ASSUME TypeOK, NEW sym \in Symbols, Exists(sym), NEW n \in Int,
         stats' = [stats EXCEPT ![sym] = [@ EXCEPT
                     ![sym] = WithSupply(stats[sym][sym], n)]]
  PROVE  /\ stats' = [s \in Symbols |-> stats'[s]]
         /\ \A s \in Symbols : IsStats(stats'[s])
         /\ SupplyOf(sym)' = n
         /\ \A s \in Symbols : s # sym => SupplyOf(s)' = SupplyOf(s)
         /\ \A s \in Symbols : /\ Exists(s)' <=> Exists(s)
                               /\ Exists(s) => stats'[s][s].max_supply
                                                 = stats[s][s].max_supply
<1> DEFINE row == stats[sym][sym]
           new == WithSupply(row, n)
           rows == [stats[sym] EXCEPT ![sym] = new]
<1>1. stats = [s \in Symbols |-> stats[s]] /\ \A s \in Symbols : IsStats(stats[s])
  BY DEF TypeOK
<1>2. row \in CurrencyStats /\ sym \in DOMAIN stats[sym]
  BY <1>1 DEF IsStats, Exists
<1>3. new \in CurrencyStats /\ new.supply = n /\ new.max_supply = row.max_supply
  BY <1>2 DEF CurrencyStats, WithSupply
<1>4. stats' = [stats EXCEPT ![sym] = rows]
  OBVIOUS
<1> HIDE DEF new
<1>5. IsStats(rows) /\ rows[sym] = new /\ DOMAIN rows = DOMAIN stats[sym]
  BY <1>1, <1>2, <1>3 DEF IsStats
<1> HIDE DEF rows
<1>6. /\ \A s \in Symbols : stats'[s] = IF s = sym THEN rows ELSE stats[s]
      /\ stats' = [s \in Symbols |-> stats'[s]]
  BY <1>1, <1>4
<1>7. \A s \in Symbols : IsStats(stats'[s])
  BY <1>1, <1>5, <1>6
<1>8. SupplyOf(sym)' = n
  BY <1>2, <1>3, <1>5, <1>6 DEF SupplyOf, Exists
<1>9. \A s \in Symbols : s # sym => SupplyOf(s)' = SupplyOf(s)
  BY <1>6 DEF SupplyOf, Exists
<1>10. \A s \in Symbols : /\ Exists(s)' <=> Exists(s)
                          /\ Exists(s) => stats'[s][s].max_supply
                                            = stats[s][s].max_supply
  BY <1>3, <1>5, <1>6 DEF Exists
<1> QED BY <1>6, <1>7, <1>8, <1>9, <1>10

(* The rows of sub_balance and add_balance.                                *)
LEMMA AddedRow ==
  ASSUME NEW row, IsBalances(row), NEW sym \in Symbols, NEW q \in 0 .. MaxAmount,
         sym \in DOMAIN row => row[sym] + q <= MaxAmount
  PROVE  /\ IsBalances(Added(row, sym, q))
         /\ DOMAIN Added(row, sym, q) = DOMAIN row \cup {sym}
         /\ Added(row, sym, q)[sym]
              = (IF sym \in DOMAIN row THEN row[sym] ELSE 0) + q
         /\ \A s \in DOMAIN row : s # sym => Added(row, sym, q)[s] = row[s]
<1>1. MaxAmount \in Nat
  BY TokenAssumption DEF TokenAssumption
<1>2. \A s \in DOMAIN row : row[s] \in 0 .. MaxAmount
  BY DEF IsBalances
<1> DEFINE v == IF sym \in DOMAIN row THEN row[sym] + q ELSE q
<1>3. v \in 0 .. MaxAmount
  BY <1>1, <1>2
<1>4. v = (IF sym \in DOMAIN row THEN row[sym] ELSE 0) + q
  BY <1>1
<1>5. Added(row, sym, q) = WithRow(row, sym, v)
  BY DEF Added
<1> HIDE DEF v
<1> QED BY <1>2, <1>3, <1>4, <1>5 DEF WithRow, IsBalances

LEMMA SubtractedRow ==
  ASSUME NEW row, IsBalances(row), NEW sym \in DOMAIN row,
         NEW q \in 0 .. MaxAmount, q <= row[sym]
  PROVE  /\ IsBalances(Subtracted(row, sym, q))
         /\ DOMAIN Subtracted(row, sym, q) = DOMAIN row
         /\ Subtracted(row, sym, q)[sym] = row[sym] - q
         /\ \A s \in DOMAIN row : s # sym => Subtracted(row, sym, q)[s] = row[s]
<1>1. MaxAmount \in Nat
  BY TokenAssumption DEF TokenAssumption
<1>2. row \in [DOMAIN row -> 0 .. MaxAmount]
  BY DEF IsBalances
<1>3. row[sym] - q \in 0 .. MaxAmount
  BY <1>1, <1>2
<1> QED BY <1>2, <1>3 DEF Subtracted, IsBalances

(* How an action that changes one balance, by d, or none leaves the        *)
(* accounts.                                                               *)
OneChange(a, sym, d) ==
  /\ accounts' = [b \in Accounts |-> accounts'[b]]
  /\ \A b \in Accounts : IsBalances(accounts'[b])
  /\ BalanceOf(a, sym)' = BalanceOf(a, sym) + d
  /\ \A b \in Accounts, s \in Symbols :
       b # a \/ s # sym => BalanceOf(b, s)' = BalanceOf(b, s)

LEMMA OneRow ==
  ASSUME TypeOK, NEW a \in Accounts, NEW sym \in Symbols, NEW d \in Int,
         NEW row, IsBalances(row), accounts' = [accounts EXCEPT ![a] = row],
         DOMAIN row \ {sym} = DOMAIN accounts[a] \ {sym},
         \A s \in DOMAIN row : s # sym => row[s] = accounts[a][s],
         (IF sym \in DOMAIN row THEN row[sym] ELSE 0) = BalanceOf(a, sym) + d
  PROVE  OneChange(a, sym, d)
<1>1. /\ accounts = [b \in Accounts |-> accounts[b]]
      /\ \A b \in Accounts : IsBalances(accounts[b])
  BY DEF TypeOK
<1>2. /\ accounts' = [b \in Accounts |-> accounts'[b]]
      /\ \A b \in Accounts : accounts'[b] = IF b = a THEN row ELSE accounts[b]
  BY <1>1
<1>3. \A b \in Accounts : IsBalances(accounts'[b])
  BY <1>1, <1>2
<1>4. BalanceOf(a, sym)' = BalanceOf(a, sym) + d
  <2>1. BalanceOf(a, sym)' = IF sym \in DOMAIN row THEN row[sym] ELSE 0
    BY <1>2 DEF BalanceOf
  <2> QED BY <2>1
<1>5. \A b \in Accounts, s \in Symbols :
        b # a \/ s # sym => BalanceOf(b, s)' = BalanceOf(b, s)
  BY <1>2 DEF BalanceOf
<1> QED BY <1>2, <1>3, <1>4, <1>5 DEF OneChange

LEMMA Amount == ASSUME NEW q \in Quantities PROVE q \in 0 .. MaxAmount /\ q \in Nat
BY TokenAssumption DEF TokenAssumption

LEMMA AddedBalances ==
  ASSUME TypeOK, NEW to \in Accounts, NEW sym \in Symbols, NEW q \in Quantities,
         CanAdd(to, sym, q)
  PROVE  LET row == Added(accounts[to], sym, q)
         IN  /\ IsBalances(row) /\ DOMAIN row = DOMAIN accounts[to] \cup {sym}
             /\ row[sym] = (IF sym \in DOMAIN accounts[to]
                            THEN accounts[to][sym] ELSE 0) + q
             /\ \A s \in DOMAIN accounts[to] : s # sym => row[s] = accounts[to][s]
<1> DEFINE old == accounts[to]
<1>1. sym \in DOMAIN old => old[sym] + q <= MaxAmount
  BY DEF CanAdd
<1>2. q \in 0 .. MaxAmount
  BY Amount
<1>3. IsBalances(old)
  BY DEF TypeOK
<1> HIDE DEF old
<1>4. IsBalances(Added(old, sym, q))
  BY <1>1, <1>2, <1>3, AddedRow
<1>5. DOMAIN Added(old, sym, q) = DOMAIN old \cup {sym}
  BY DEF Added, WithRow
<1>6. Added(old, sym, q)[sym] = (IF sym \in DOMAIN old THEN old[sym] ELSE 0) + q
  <2>1. Added(old, sym, q)[sym] = IF sym \in DOMAIN old THEN old[sym] + q ELSE q
    BY DEF Added, WithRow
  <2> QED BY <1>2, <2>1
<1>7. \A s \in DOMAIN old : s # sym => Added(old, sym, q)[s] = old[s]
  BY DEF Added, WithRow
<1> QED BY <1>4, <1>5, <1>6, <1>7 DEF old

LEMMA IssueToSteps ==
  ASSUME TypeOK, NEW to \in Accounts, NEW sym \in Symbols,
         NEW q \in Quantities, IssueTo(to, sym, q)
  PROVE  /\ OneChange(to, sym, q)
         /\ Exists(sym)
         /\ stats' = [stats EXCEPT ![sym] = [@ EXCEPT
                        ![sym] = WithSupply(stats[sym][sym], SupplyOf(sym) + q)]]
         /\ SupplyOf(sym) + q <= stats[sym][sym].max_supply
<1>1. /\ Exists(sym) /\ q <= stats[sym][sym].max_supply - stats[sym][sym].supply
      /\ CanAdd(to, sym, q)
      /\ stats' = [stats EXCEPT ![sym] = [@ EXCEPT
           ![sym] = WithSupply(stats[sym][sym], stats[sym][sym].supply + q)]]
      /\ accounts' = [accounts EXCEPT ![to] = Added(@, sym, q)]
  BY DEF IssueTo
<1>2. OneChange(to, sym, q)
  <2> DEFINE row == Added(accounts[to], sym, q)
  <2>1. IsBalances(accounts[to]) /\ accounts = [b \in Accounts |-> accounts[b]]
    BY DEF TypeOK
  <2>2. /\ IsBalances(row) /\ DOMAIN row = DOMAIN accounts[to] \cup {sym}
        /\ row[sym] = (IF sym \in DOMAIN accounts[to] THEN accounts[to][sym] ELSE 0) + q
        /\ \A s \in DOMAIN accounts[to] : s # sym => row[s] = accounts[to][s]
    BY <1>1, AddedBalances
  <2>3. accounts' = [accounts EXCEPT ![to] = row]
    BY <1>1, <2>1
  <2>4. (IF sym \in DOMAIN row THEN row[sym] ELSE 0) = BalanceOf(to, sym) + q
    BY <2>2 DEF BalanceOf
  <2>5. q \in Int
    BY Amount
  <2>6. \A s \in DOMAIN row : s # sym => row[s] = accounts[to][s]
    BY <2>2
  <2>7. DOMAIN row \ {sym} = DOMAIN accounts[to] \ {sym}
    BY <2>2
  <2> HIDE DEF row
  <2> QED BY <2>2, <2>3, <2>4, <2>5, <2>6, <2>7, OneRow
<1>3. SupplyOf(sym) = stats[sym][sym].supply
  BY <1>1 DEF SupplyOf
<1>4. stats[sym][sym] \in CurrencyStats
  BY <1>1 DEF TypeOK, IsStats, Exists
<1>5. SupplyOf(sym) + q <= stats[sym][sym].max_supply
  <2>1. \A x, y, z \in Int : x <= y - z => z + x <= y
    OBVIOUS
  <2>2. stats[sym][sym].max_supply \in Int /\ stats[sym][sym].supply \in Int
    BY <1>4 DEF CurrencyStats
  <2> QED BY <1>1, <1>3, <2>1, <2>2, Amount
<1> QED BY <1>1, <1>2, <1>3, <1>5

LEMMA RetireSteps ==
  ASSUME TypeOK, NEW from \in Accounts, NEW sym \in Symbols,
         NEW q \in Quantities, Retire(from, sym, q)
  PROVE  /\ OneChange(from, sym, -q)
         /\ Exists(sym)
         /\ stats' = [stats EXCEPT ![sym] = [@ EXCEPT
                        ![sym] = WithSupply(stats[sym][sym], SupplyOf(sym) - q)]]
         /\ q <= BalanceOf(from, sym)
<1>1. /\ Exists(sym) /\ CanSub(from, sym, q)
      /\ stats' = [stats EXCEPT ![sym] = [@ EXCEPT
           ![sym] = WithSupply(stats[sym][sym], stats[sym][sym].supply - q)]]
      /\ accounts' = [accounts EXCEPT ![from] = Subtracted(@, sym, q)]
  BY DEF Retire
<1>2. OneChange(from, sym, -q)
  <2> DEFINE row == Subtracted(accounts[from], sym, q)
  <2>1. /\ IsBalances(accounts[from]) /\ accounts = [b \in Accounts |-> accounts[b]]
        /\ sym \in DOMAIN accounts[from] /\ q <= accounts[from][sym]
    BY <1>1 DEF TypeOK, CanSub
  <2>2. /\ IsBalances(row) /\ DOMAIN row = DOMAIN accounts[from]
        /\ row[sym] = accounts[from][sym] - q
        /\ \A s \in DOMAIN accounts[from] : s # sym => row[s] = accounts[from][s]
    BY <2>1, Amount, SubtractedRow
  <2>3. accounts' = [accounts EXCEPT ![from] = row]
    BY <1>1, <2>1
  <2>4. (IF sym \in DOMAIN row THEN row[sym] ELSE 0) = BalanceOf(from, sym) + (-q)
    <3>1. accounts[from][sym] \in Int /\ q \in Int
      BY <2>1, Amount DEF IsBalances
    <3> QED BY <2>1, <2>2, <3>1 DEF BalanceOf
  <2>5. -q \in Int
    BY Amount
  <2>6. DOMAIN row \ {sym} = DOMAIN accounts[from] \ {sym}
    BY <2>2
  <2> HIDE DEF row
  <2> QED BY <2>2, <2>3, <2>4, <2>5, <2>6, OneRow
<1>3. SupplyOf(sym) = stats[sym][sym].supply
  BY <1>1 DEF SupplyOf
<1> QED BY <1>1, <1>2, <1>3 DEF CanSub, BalanceOf

LEMMA OpenSteps ==
  ASSUME TypeOK, NEW owner \in Accounts, NEW sym \in Symbols, Open(owner, sym)
  PROVE  OneChange(owner, sym, 0) /\ UNCHANGED stats
<1> DEFINE row == WithRow(accounts[owner], sym, 0)
<1>1. /\ sym \notin DOMAIN accounts[owner]
      /\ accounts' = [accounts EXCEPT ![owner] = row]
      /\ UNCHANGED stats
      /\ IsBalances(accounts[owner]) /\ MaxAmount \in Nat
  BY TokenAssumption DEF Open, TypeOK, TokenAssumption
<1>2. /\ IsBalances(row) /\ DOMAIN row = DOMAIN accounts[owner] \cup {sym}
      /\ row[sym] = 0
      /\ \A s \in DOMAIN row : s # sym => row[s] = accounts[owner][s]
  BY <1>1 DEF WithRow, IsBalances
<1>3. (IF sym \in DOMAIN row THEN row[sym] ELSE 0) = BalanceOf(owner, sym) + 0
  BY <1>1, <1>2 DEF BalanceOf
<1>4. DOMAIN row \ {sym} = DOMAIN accounts[owner] \ {sym}
  BY <1>2
<1> HIDE DEF row
<1>5. OneChange(owner, sym, 0)
  <2>1. 0 \in Int
    OBVIOUS
  <2>2. accounts' = [accounts EXCEPT ![owner] = row]
    BY <1>1
  <2> HIDE DEF Open, Close
  <2> QED BY <1>2, <1>3, <1>4, <2>1, <2>2, OneRow
<1> QED BY <1>1, <1>5

LEMMA CloseSteps ==
  ASSUME TypeOK, NEW owner \in Accounts, NEW sym \in Symbols, Close(owner, sym)
  PROVE  OneChange(owner, sym, 0) /\ UNCHANGED stats
<1> DEFINE row == WithoutRows(accounts[owner], {sym})
<1>1. /\ sym \in DOMAIN accounts[owner] /\ accounts[owner][sym] = 0
      /\ accounts' = [accounts EXCEPT ![owner] = row]
      /\ UNCHANGED stats
      /\ IsBalances(accounts[owner])
  BY DEF Close, TypeOK
<1>2. /\ IsBalances(row) /\ DOMAIN row = DOMAIN accounts[owner] \ {sym}
      /\ \A s \in DOMAIN row : s # sym => row[s] = accounts[owner][s]
  BY <1>1 DEF WithoutRows, Restrict, IsBalances
<1>3. (IF sym \in DOMAIN row THEN row[sym] ELSE 0) = BalanceOf(owner, sym) + 0
  BY <1>1, <1>2 DEF BalanceOf
<1>4. DOMAIN row \ {sym} = DOMAIN accounts[owner] \ {sym}
  BY <1>2
<1> HIDE DEF row
<1>5. OneChange(owner, sym, 0)
  <2>1. 0 \in Int
    OBVIOUS
  <2>2. accounts' = [accounts EXCEPT ![owner] = row]
    BY <1>1
  <2> HIDE DEF Open, Close
  <2> QED BY <1>2, <1>3, <1>4, <2>1, <2>2, OneRow
<1> QED BY <1>1, <1>5

LEMMA TransferSteps ==
  ASSUME TypeOK, NEW from \in Accounts, NEW to \in Accounts,
         NEW sym \in Symbols, NEW q \in Quantities, Transfer(from, to, sym, q)
  PROVE  /\ from # to /\ UNCHANGED stats
         /\ q <= BalanceOf(from, sym)
         /\ accounts' = [b \in Accounts |-> accounts'[b]]
         /\ \A b \in Accounts : IsBalances(accounts'[b])
         /\ BalanceOf(from, sym)' = BalanceOf(from, sym) - q
         /\ BalanceOf(to, sym)' = BalanceOf(to, sym) + q
         /\ \A b \in Accounts, s \in Symbols :
              (b # from /\ b # to) \/ s # sym => BalanceOf(b, s)' = BalanceOf(b, s)
<1> DEFINE less == Subtracted(accounts[from], sym, q)
           more == Added(accounts[to], sym, q)
<1>1. /\ from # to /\ UNCHANGED stats
      /\ sym \in DOMAIN accounts[from] /\ q <= accounts[from][sym]
      /\ sym \in DOMAIN accounts[to] => accounts[to][sym] + q <= MaxAmount
      /\ accounts' = [accounts EXCEPT ![from] = less, ![to] = more]
  BY DEF Transfer, MayTransfer, CanSub, CanAdd
<1>2. /\ accounts = [b \in Accounts |-> accounts[b]]
      /\ \A b \in Accounts : IsBalances(accounts[b])
  BY DEF TypeOK
<1>3. q \in 0 .. MaxAmount
  BY Amount
<1>4. /\ IsBalances(less) /\ DOMAIN less = DOMAIN accounts[from]
      /\ less[sym] = accounts[from][sym] - q
      /\ \A s \in DOMAIN accounts[from] : s # sym => less[s] = accounts[from][s]
  BY <1>1, <1>2, <1>3, SubtractedRow
<1>5. /\ IsBalances(more) /\ DOMAIN more = DOMAIN accounts[to] \cup {sym}
      /\ more[sym] = (IF sym \in DOMAIN accounts[to] THEN accounts[to][sym] ELSE 0) + q
      /\ \A s \in DOMAIN accounts[to] : s # sym => more[s] = accounts[to][s]
  <2>1. CanAdd(to, sym, q)
    BY DEF Transfer, MayTransfer
  <2> QED BY <2>1, AddedBalances
<1> HIDE DEF less, more
<1>6. /\ accounts' = [b \in Accounts |-> accounts'[b]]
      /\ accounts'[from] = less /\ accounts'[to] = more
      /\ \A b \in Accounts : b # from /\ b # to => accounts'[b] = accounts[b]
  BY <1>1, <1>2
<1>7. \A b \in Accounts : IsBalances(accounts'[b])
  BY <1>2, <1>4, <1>5, <1>6
<1>8. /\ BalanceOf(from, sym)' = BalanceOf(from, sym) - q
      /\ q <= BalanceOf(from, sym)
  BY <1>1, <1>4, <1>6 DEF BalanceOf
<1>9. BalanceOf(to, sym)' = BalanceOf(to, sym) + q
  BY <1>5, <1>6 DEF BalanceOf
<1>10. \A b \in Accounts, s \in Symbols :
         (b # from /\ b # to) \/ s # sym => BalanceOf(b, s)' = BalanceOf(b, s)
  <2> SUFFICES ASSUME NEW b \in Accounts, NEW s \in Symbols,
                      (b # from /\ b # to) \/ s # sym
               PROVE  BalanceOf(b, s)' = BalanceOf(b, s)
    OBVIOUS
  <2>1. CASE b # from /\ b # to
    BY <1>6, <2>1 DEF BalanceOf
  <2>2. CASE b = from /\ s # sym
    BY <1>4, <1>6, <2>2 DEF BalanceOf
  <2>3. CASE b = to /\ s # sym
    BY <1>5, <1>6, <2>3 DEF BalanceOf
  <2> QED BY <2>1, <2>2, <2>3
<1> QED BY <1>1, <1>6, <1>7, <1>8, <1>9, <1>10
----------------------------------------------------------------------------
(* The consequences for the sums, and for the ledger of one token.         *)

LEMMA OneChangeSums ==
  ASSUME TypeOK, NEW a \in Accounts, NEW sym \in Symbols, NEW d \in Int,
         OneChange(a, sym, d)
  PROVE  /\ Circulating(sym)' = Circulating(sym) + d
         /\ \A s \in Symbols : s # sym => /\ Balances(s)' = Balances(s)
                                          /\ Circulating(s)' = Circulating(s)
<1>1. \A s \in Symbols : /\ Balances(s) \in [Accounts -> Int]
                         /\ Balances(s)' \in [Accounts -> Int]
  <2>1. \A s \in Symbols, b \in Accounts : BalanceOf(b, s) \in Int
    BY BalancesTyped, TokenAssumption DEF TokenAssumption
  <2>2. \A s \in Symbols, b \in Accounts : BalanceOf(b, s)' \in Int
    BY TokenAssumption DEF TokenAssumption, OneChange, BalanceOf, IsBalances
  <2> QED BY <2>1, <2>2 DEF Balances
<1>2. \A s \in Symbols, b \in Accounts : /\ Balances(s)[b] = BalanceOf(b, s)
                                         /\ Balances(s)'[b] = BalanceOf(b, s)'
  BY DEF Balances
<1>3. \A s \in Symbols : s # sym => Balances(s)' = Balances(s)
  BY <1>2 DEF OneChange, Balances
<1>4. SumFunction(Balances(sym)') = SumFunction(Balances(sym)) + d
  <2>1. /\ Balances(sym)'[a] = Balances(sym)[a] + d
        /\ \A b \in Accounts : b # a => Balances(sym)'[b] = Balances(sym)[b]
    BY <1>2 DEF OneChange
  <2> QED BY <1>1, <2>1, OneBalance
<1> QED BY <1>3, <1>4 DEF Circulating

(* How an action that changes the supply of one token, by d, or none       *)
(* leaves the statistics.                                                  *)
SupplyChange(sym, d) ==
  /\ stats' = [s \in Symbols |-> stats'[s]]
  /\ \A s \in Symbols : IsStats(stats'[s])
  /\ SupplyOf(sym)' = SupplyOf(sym) + d
  /\ \A s \in Symbols : s # sym => SupplyOf(s)' = SupplyOf(s)
  /\ \A s \in Symbols : Exists(s)' => SupplyOf(s)' <= stats'[s][s].max_supply

SystemSymbols == {OldSymbol, NewSymbol}

(* What the ledger sees of a change by d of one account and of the supply. *)
LedgerChange(a, sym, d) ==
  IF sym \in SystemSymbols
    THEN Holdings' = [Holdings EXCEPT ![a] = @ + d] /\ Minted' = Minted + d
    ELSE Holdings' = Holdings /\ Minted' = Minted

LEMMA SystemSymbolsDiffer ==
  OldSymbol \in Symbols /\ NewSymbol \in Symbols /\ OldSymbol # NewSymbol
BY TokenAssumption DEF TokenAssumption

LEMMA HoldingsTyped ==
  ASSUME TypeOK
  PROVE  /\ Holdings \in [Accounts -> Nat]
         /\ \A a \in Accounts : /\ Holdings[a] = BalanceOf(a, OldSymbol)
                                                   + BalanceOf(a, NewSymbol)
                                /\ BalanceOf(a, OldSymbol) \in Nat
                                /\ BalanceOf(a, NewSymbol) \in Nat
<1>1. \A a \in Accounts : /\ BalanceOf(a, OldSymbol) \in Nat
                          /\ BalanceOf(a, NewSymbol) \in Nat
  BY BalancesTyped, SystemSymbolsDiffer, TokenAssumption DEF TokenAssumption
<1> QED BY <1>1 DEF Holdings, Holding

LEMMA OneChangeLedger ==
  ASSUME HTypeOK, NEW a \in Accounts, NEW sym \in Symbols, NEW d \in Int,
         OneChange(a, sym, d), SupplyChange(sym, d), UNCHANGED unrecorded
  PROVE  LedgerChange(a, sym, d)
<1>1. TypeOK /\ unrecorded \in [Symbols -> Int]
  BY DEF HTypeOK
<1>2. /\ SupplyOf(OldSymbol) \in Int /\ SupplyOf(NewSymbol) \in Int
      /\ unrecorded[OldSymbol] \in Int /\ unrecorded[NewSymbol] \in Int
  BY <1>1, BalancesTyped, SystemSymbolsDiffer
<1>3. \A b \in Accounts : /\ BalanceOf(b, OldSymbol) \in Int
                          /\ BalanceOf(b, NewSymbol) \in Int
  BY <1>1, HoldingsTyped
<1>4. \A b \in Accounts : Holding(b)' =
        IF b = a /\ sym \in SystemSymbols THEN Holding(b) + d ELSE Holding(b)
  BY <1>3, SystemSymbolsDiffer DEF Holding, OneChange, SystemSymbols
<1>5. Minted' = IF sym \in SystemSymbols THEN Minted + d ELSE Minted
  BY <1>2, SystemSymbolsDiffer DEF Minted, SupplyChange, SystemSymbols
<1>6. CASE sym \in SystemSymbols
  <2>1. Holdings' = [Holdings EXCEPT ![a] = @ + d]
    BY <1>4, <1>6 DEF Holdings
  <2> QED BY <1>5, <1>6, <2>1 DEF LedgerChange
<1>7. CASE sym \notin SystemSymbols
  <2>1. Holdings' = Holdings
    BY <1>4, <1>7 DEF Holdings
  <2> QED BY <1>5, <1>7, <2>1 DEF LedgerChange
<1> QED BY <1>6, <1>7

LEMMA OneChangeKeepsInv ==
  ASSUME Inv, NEW a \in Accounts, NEW sym \in Symbols, NEW d \in Int,
         OneChange(a, sym, d), SupplyChange(sym, d), UNCHANGED unrecorded
  PROVE  Inv' /\ LedgerChange(a, sym, d)
<1>1. TypeOK /\ HTypeOK /\ unrecorded \in [Symbols -> Int]
  BY DEF Inv, HTypeOK
<1>2. HTypeOK'
  BY <1>1 DEF HTypeOK, TypeOK, OneChange, SupplyChange
<1>3. /\ Circulating(sym)' = Circulating(sym) + d
      /\ \A s \in Symbols : s # sym => Circulating(s)' = Circulating(s)
  BY <1>1, OneChangeSums
<1>4. ASSUME NEW s \in Symbols
      PROVE  Circulating(s)' = SupplyOf(s)' + unrecorded'[s]
  <2>1. /\ Circulating(s) = SupplyOf(s) + unrecorded[s]
        /\ unrecorded'[s] = unrecorded[s] /\ unrecorded[s] \in Int
        /\ SupplyOf(s) \in Int
    BY <1>1, BalancesTyped DEF Inv, SupplyIsCirculating
  <2>2. CASE s = sym
    <3>1. SupplyOf(s)' = SupplyOf(s) + d
      BY <2>2 DEF SupplyChange
    <3> QED BY <1>3, <2>1, <2>2, <3>1
  <2>3. CASE s # sym
    <3>1. SupplyOf(s)' = SupplyOf(s)
      BY <2>3 DEF SupplyChange
    <3> QED BY <1>3, <2>1, <2>3, <3>1
  <2> QED BY <2>2, <2>3
<1>5. SupplyIsCirculating'
  BY <1>4 DEF SupplyIsCirculating, SupplyChange
<1>6. LedgerChange(a, sym, d)
  BY <1>1, OneChangeLedger
<1> QED BY <1>2, <1>5, <1>6 DEF Inv

(* Issue and Retire write the supply, the others do not.                   *)
LEMMA NewSupply ==
  ASSUME Inv, NEW sym \in Symbols, NEW d \in Int, Exists(sym),
         stats' = [stats EXCEPT ![sym] = [@ EXCEPT
                     ![sym] = WithSupply(stats[sym][sym], SupplyOf(sym) + d)]],
         SupplyOf(sym) + d <= stats[sym][sym].max_supply
  PROVE  SupplyChange(sym, d)
<1>1. TypeOK /\ SupplyIsCirculating
  BY DEF Inv, HTypeOK
<1>2. SupplyOf(sym) + d \in Int
  BY <1>1, BalancesTyped
<1>3. /\ stats' = [s \in Symbols |-> stats'[s]]
      /\ \A s \in Symbols : IsStats(stats'[s])
      /\ SupplyOf(sym)' = SupplyOf(sym) + d
      /\ \A s \in Symbols : s # sym => SupplyOf(s)' = SupplyOf(s)
      /\ \A s \in Symbols : /\ Exists(s)' <=> Exists(s)
                            /\ Exists(s) => stats'[s][s].max_supply
                                              = stats[s][s].max_supply
  BY <1>1, <1>2, SupplyChanges
<1>4. ASSUME NEW s \in Symbols, Exists(s)'
      PROVE  SupplyOf(s)' <= stats'[s][s].max_supply
  <2>1. SupplyOf(s) <= stats[s][s].max_supply
    BY <1>1, <1>3, <1>4 DEF SupplyIsCirculating
  <2> QED BY <1>3, <1>4, <2>1
<1> QED BY <1>3, <1>4 DEF SupplyChange

LEMMA SameSupply ==
  ASSUME Inv, NEW sym \in Symbols, UNCHANGED stats
  PROVE  SupplyChange(sym, 0)
<1>1. TypeOK /\ SupplyIsCirculating /\ SupplyOf(sym) \in Int
  BY BalancesTyped DEF Inv, HTypeOK
<1>2. \A s \in Symbols : SupplyOf(s)' = SupplyOf(s) /\ (Exists(s)' <=> Exists(s))
  BY DEF SupplyOf, Exists
<1>3. stats' = [s \in Symbols |-> stats'[s]] /\ \A s \in Symbols : IsStats(stats'[s])
  BY <1>1 DEF TypeOK, IsStats
<1> QED BY <1>1, <1>2, <1>3 DEF SupplyChange, SupplyIsCirculating
----------------------------------------------------------------------------
(* The steps of the contract, as steps of the ledger.                      *)

LedgerVars == <<Holdings, Minted>>

LEMMA IssueToStep ==
  ASSUME Inv, NEW to \in Accounts, NEW sym \in Symbols, NEW q \in Quantities,
         IssueTo(to, sym, q), UNCHANGED unrecorded
  PROVE  Inv' /\ (Ledger!Mint(to, q) \/ UNCHANGED LedgerVars)
<1>1. TypeOK /\ q \in Int
  BY Amount DEF Inv, HTypeOK
<1>2. /\ OneChange(to, sym, q)
      /\ Exists(sym)
      /\ stats' = [stats EXCEPT ![sym] = [@ EXCEPT
                     ![sym] = WithSupply(stats[sym][sym], SupplyOf(sym) + q)]]
      /\ SupplyOf(sym) + q <= stats[sym][sym].max_supply
  BY <1>1, IssueToSteps
<1>3. SupplyChange(sym, q)
  BY <1>1, <1>2, NewSupply
<1>4. Inv' /\ LedgerChange(to, sym, q)
  BY <1>1, <1>2, <1>3, OneChangeKeepsInv
<1>5. q > 0
  BY DEF IssueTo
<1> QED BY <1>4, <1>5 DEF LedgerChange, LedgerVars, Ledger!Mint

LEMMA RetireStep ==
  ASSUME Inv, NEW from \in Accounts, NEW sym \in Symbols, NEW q \in Quantities,
         Retire(from, sym, q), UNCHANGED unrecorded
  PROVE  Inv' /\ (Ledger!Burn(from, q) \/ UNCHANGED LedgerVars)
<1>1. /\ TypeOK /\ SupplyIsCirculating /\ q \in Nat /\ -q \in Int
      /\ SupplyOf(sym) \in Int
  BY Amount, BalancesTyped DEF Inv, HTypeOK
<1>2. /\ OneChange(from, sym, -q)
      /\ Exists(sym)
      /\ stats' = [stats EXCEPT ![sym] = [@ EXCEPT
                     ![sym] = WithSupply(stats[sym][sym], SupplyOf(sym) - q)]]
      /\ q <= BalanceOf(from, sym)
  BY <1>1, RetireSteps
<1>3. SupplyOf(sym) - q = SupplyOf(sym) + (-q)
  BY <1>1
<1>4. SupplyOf(sym) + (-q) <= stats[sym][sym].max_supply
  <2>1. stats[sym][sym].max_supply \in Nat
    BY <1>1, <1>2 DEF TypeOK, IsStats, Exists, CurrencyStats
  <2>2. SupplyOf(sym) <= stats[sym][sym].max_supply
    BY <1>1, <1>2 DEF SupplyIsCirculating
  <2> QED BY <1>1, <2>1, <2>2
<1>5. stats' = [stats EXCEPT ![sym] = [@ EXCEPT
                  ![sym] = WithSupply(stats[sym][sym], SupplyOf(sym) + (-q))]]
  BY <1>2, <1>3
<1>6. SupplyChange(sym, -q)
  BY <1>1, <1>2, <1>4, <1>5, NewSupply
<1>7. Inv' /\ LedgerChange(from, sym, -q)
  BY <1>1, <1>2, <1>6, OneChangeKeepsInv
<1>8. q > 0
  BY DEF Retire
<1>9. CASE sym \in SystemSymbols
  <2>1. /\ Holdings \in [Accounts -> Nat]
        /\ Holdings[from] = BalanceOf(from, OldSymbol) + BalanceOf(from, NewSymbol)
        /\ BalanceOf(from, OldSymbol) \in Nat /\ BalanceOf(from, NewSymbol) \in Nat
    BY <1>1, HoldingsTyped
  <2>2. q <= Holdings[from]
    BY <1>1, <1>2, <1>9, <2>1 DEF SystemSymbols
  <2>3. Holdings' = [Holdings EXCEPT ![from] = @ + (-q)] /\ Minted' = Minted + (-q)
    BY <1>7, <1>9 DEF LedgerChange
  <2>4. Holdings[from] + (-q) = Holdings[from] - q
    BY <1>1, <2>1
  <2>5. Minted + (-q) = Minted - q
    <3>1. Minted \in Int
      BY <1>1, BalancesTyped, SystemSymbolsDiffer DEF Minted, Inv, HTypeOK
    <3> QED BY <1>1, <3>1
  <2>6. Holdings' = [Holdings EXCEPT ![from] = @ - q]
    BY <2>3, <2>4
  <2> QED BY <1>7, <1>8, <2>2, <2>3, <2>5, <2>6 DEF Ledger!Burn
<1>10. CASE sym \notin SystemSymbols
  BY <1>7, <1>10 DEF LedgerChange, LedgerVars
<1> QED BY <1>9, <1>10

LEMMA ZeroStep ==
  ASSUME Inv, NEW a \in Accounts, NEW sym \in Symbols, OneChange(a, sym, 0),
         UNCHANGED <<stats, unrecorded>>
  PROVE  Inv' /\ UNCHANGED LedgerVars
<1>1. 0 \in Int /\ SupplyChange(sym, 0)
  BY SameSupply
<1>2. Inv' /\ LedgerChange(a, sym, 0)
  BY <1>1, OneChangeKeepsInv
<1>3. Holdings \in [Accounts -> Nat] /\ Minted \in Int
  BY HoldingsTyped, BalancesTyped, SystemSymbolsDiffer DEF Minted, Inv, HTypeOK
<1>4. [Holdings EXCEPT ![a] = @ + 0] = Holdings /\ Minted + 0 = Minted
  BY <1>3
<1> QED BY <1>2, <1>4 DEF LedgerChange, LedgerVars

(* A transfer changes neither the supplies nor the sums of the balances.   *)
LEMMA TransferKeepsInv ==
  ASSUME Inv, NEW from \in Accounts, NEW to \in Accounts, NEW sym \in Symbols,
         NEW q \in Quantities, Transfer(from, to, sym, q), UNCHANGED unrecorded
  PROVE  Inv' /\ Minted' = Minted
<1>1. TypeOK /\ q \in Int
  BY Amount DEF Inv, HTypeOK
<1>2. /\ from # to /\ UNCHANGED stats
      /\ accounts' = [b \in Accounts |-> accounts'[b]]
      /\ \A b \in Accounts : IsBalances(accounts'[b])
      /\ BalanceOf(from, sym)' = BalanceOf(from, sym) - q
      /\ BalanceOf(to, sym)' = BalanceOf(to, sym) + q
      /\ \A b \in Accounts, s \in Symbols :
           (b # from /\ b # to) \/ s # sym => BalanceOf(b, s)' = BalanceOf(b, s)
  BY <1>1, TransferSteps
<1>3. ASSUME NEW s \in Symbols PROVE Circulating(s)' = Circulating(s)
  <2>1. CASE s # sym
    <3>1. Balances(s)' = Balances(s)
      BY <1>2, <2>1 DEF Balances
    <3> QED BY <3>1 DEF Circulating
  <2>2. CASE s = sym
    <3>1. /\ Balances(s) \in [Accounts -> Int]
          /\ \A a \in Accounts : Balances(s)[a] = BalanceOf(a, s)
      BY <1>1, BalancesAreFunctions
    <3>2. \A a \in Accounts : Balances(s)'[a] = BalanceOf(a, s)'
      BY DEF Balances
    <3>3. \A a \in Accounts : BalanceOf(a, s)' \in Int
      BY <1>2, TokenAssumption DEF TokenAssumption, BalanceOf, IsBalances
    <3>4. Balances(s)' \in [Accounts -> Int]
      BY <3>3 DEF Balances
    <3>5. /\ Balances(s)'[from] = Balances(s)[from] - q
          /\ Balances(s)'[to] = Balances(s)[to] + q
          /\ \A b \in Accounts : b # from /\ b # to
               => Balances(s)'[b] = Balances(s)[b]
      BY <1>2, <2>2, <3>1, <3>2
    <3>6. SumFunction(Balances(s)') = SumFunction(Balances(s))
      BY <1>1, <1>2, <3>1, <3>4, <3>5, TwoBalances
    <3> QED BY <3>6 DEF Circulating
  <2> QED BY <2>1, <2>2
<1>4. \A s \in Symbols : SupplyOf(s)' = SupplyOf(s) /\ (Exists(s)' <=> Exists(s))
  BY <1>2 DEF SupplyOf, Exists
<1>5. HTypeOK'
  BY <1>2 DEF Inv, HTypeOK, TypeOK, IsStats
<1>6. SupplyIsCirculating'
  BY <1>2, <1>3, <1>4 DEF Inv, SupplyIsCirculating
<1>7. Minted' = Minted
  BY <1>4, SystemSymbolsDiffer DEF Minted
<1> QED BY <1>5, <1>6, <1>7 DEF Inv

LEMMA TransferStep ==
  ASSUME Inv, NEW from \in Accounts, NEW to \in Accounts, NEW sym \in Symbols,
         NEW q \in Quantities, Transfer(from, to, sym, q), UNCHANGED unrecorded
  PROVE  Inv' /\ (Ledger!Move(from, to, q) \/ UNCHANGED LedgerVars)
<1>1. TypeOK /\ q > 0 /\ q \in Nat
  BY Amount DEF Inv, HTypeOK, Transfer, MayTransfer
<1>2. Inv' /\ Minted' = Minted
  BY TransferKeepsInv
<1>3. /\ from # to
      /\ q <= BalanceOf(from, sym)
      /\ BalanceOf(from, sym)' = BalanceOf(from, sym) - q
      /\ BalanceOf(to, sym)' = BalanceOf(to, sym) + q
      /\ \A b \in Accounts, s \in Symbols :
           (b # from /\ b # to) \/ s # sym => BalanceOf(b, s)' = BalanceOf(b, s)
  BY <1>1, TransferSteps
<1>4. /\ Holdings \in [Accounts -> Nat]
      /\ \A a \in Accounts : /\ Holdings[a] = BalanceOf(a, OldSymbol)
                                                + BalanceOf(a, NewSymbol)
                             /\ BalanceOf(a, OldSymbol) \in Nat
                             /\ BalanceOf(a, NewSymbol) \in Nat
  BY <1>1, HoldingsTyped
<1>5. CASE sym \in SystemSymbols
  <2>1. Ledger!CanTransfer(Holdings, from, to, q)
    BY <1>1, <1>3, <1>4, <1>5 DEF Ledger!CanTransfer, SystemSymbols
  <2>2. \A a \in Accounts : Holding(a)' =
          IF a = from THEN Holdings[a] - q
          ELSE IF a = to THEN Holdings[a] + q ELSE Holdings[a]
    BY <1>1, <1>3, <1>4, <1>5, SystemSymbolsDiffer DEF Holding, SystemSymbols
  <2>3. Holdings' = Ledger!AfterTransfer(Holdings, from, to, q)
    BY <1>3, <1>4, <2>2 DEF Ledger!AfterTransfer, Holdings
  <2> QED BY <1>2, <2>1, <2>3 DEF Ledger!Move
<1>6. CASE sym \notin SystemSymbols
  <2>1. \A a \in Accounts : Holding(a)' = Holding(a)
    BY <1>3, <1>6, SystemSymbolsDiffer DEF Holding, SystemSymbols
  <2>2. Holdings' = Holdings
    BY <2>1 DEF Holdings
  <2> QED BY <1>2, <2>2 DEF LedgerVars
<1> QED BY <1>5, <1>6

LEMMA CreateStep ==
  ASSUME Inv, NEW a \in Accounts, NEW s \in Symbols, NEW q \in Quantities,
         Create(a, s, q), UNCHANGED unrecorded
  PROVE  Inv' /\ UNCHANGED LedgerVars
<1>1. /\ TypeOK'
      /\ \A r \in Symbols : Balances(r)' = Balances(r)
      /\ \A r \in Symbols : SupplyOf(r)' = SupplyOf(r)
      /\ \A r \in Symbols :
           IF r = s THEN Exists(r)' /\ stats'[r][r].max_supply \in Nat
                         /\ SupplyOf(r) = 0
           ELSE stats'[r] = stats[r]
  BY CreateSteps DEF Inv, HTypeOK
<1>2. ASSUME NEW r \in Symbols
      PROVE  /\ Circulating(r)' = SupplyOf(r)' + unrecorded'[r]
             /\ Exists(r)' => SupplyOf(r)' <= stats'[r][r].max_supply
  <2>1. Circulating(r)' = Circulating(r) /\ unrecorded'[r] = unrecorded[r]
    BY <1>1 DEF Circulating
  <2>2. /\ Circulating(r) = SupplyOf(r) + unrecorded[r]
        /\ Exists(r) => SupplyOf(r) <= stats[r][r].max_supply
    BY DEF Inv, SupplyIsCirculating
  <2>3. CASE r = s
    BY <1>1, <2>1, <2>2, <2>3
  <2>4. CASE r # s
    <3>1. Exists(r)' <=> Exists(r)
      BY <1>1, <2>4 DEF Exists
    <3> QED BY <1>1, <2>1, <2>2, <2>4, <3>1
  <2> QED BY <2>3, <2>4
<1>3. HTypeOK'
  BY <1>1 DEF Inv, HTypeOK
<1>4. UNCHANGED accounts
  BY DEF Create
<1>5. Holdings' = Holdings /\ Minted' = Minted
  BY <1>1, <1>4, SystemSymbolsDiffer DEF Holdings, Holding, BalanceOf, Minted
<1> QED BY <1>2, <1>3, <1>5 DEF Inv, SupplyIsCirculating, LedgerVars
----------------------------------------------------------------------------
(* The migration.                                                          *)

LEMMA MigrateStatsSteps ==
  ASSUME TypeOK, MigrateStats
  PROVE  /\ TypeOK'
         /\ SupplyOf(NewSymbol) = 0
         /\ SupplyOf(OldSymbol)' = 0 /\ SupplyOf(NewSymbol)' = 0
         /\ \A s \in Symbols : s \notin SystemSymbols => stats'[s] = stats[s]
         /\ ~Exists(OldSymbol)'
         /\ Exists(NewSymbol)' /\ stats'[NewSymbol][NewSymbol].max_supply \in Nat
<1> DEFINE old == stats[OldSymbol]
           found == IF NewSymbol \in DOMAIN old THEN old[NewSymbol]
                    ELSE IF OldSymbol \in DOMAIN old THEN old[OldSymbol]
                    ELSE [supply |-> 0, max_supply |-> 0, issuer |-> NoName]
           row == [found EXCEPT !.supply = 0]
           gone == WithoutRows(old, {OldSymbol, NewSymbol})
           rows == WithRow(stats[NewSymbol], NewSymbol, row)
<1>1. /\ stats = [s \in Symbols |-> stats[s]]
      /\ IsStats(old) /\ IsStats(stats[NewSymbol])
      /\ OldSymbol \in Symbols /\ NewSymbol \in Symbols /\ OldSymbol # NewSymbol
  BY SystemSymbolsDiffer DEF TypeOK
<1>2. /\ ~Exists(NewSymbol)
      /\ stats' = [stats EXCEPT ![OldSymbol] = gone, ![NewSymbol] = rows]
      /\ accounts' = accounts
  BY <1>1 DEF MigrateStats
<1>3. found \in CurrencyStats
  BY <1>1 DEF IsStats, CurrencyStats
<1>4. row \in CurrencyStats /\ row.supply = 0 /\ row.max_supply \in Nat
  <2> HIDE DEF found
  <2> QED BY <1>3 DEF CurrencyStats
<1>5. IsStats(rows) /\ NewSymbol \in DOMAIN rows /\ rows[NewSymbol] = row
  <2> HIDE DEF row
  <2> QED BY <1>1, <1>4 DEF WithRow, IsStats
<1>6. IsStats(gone) /\ OldSymbol \notin DOMAIN gone
  <2> HIDE DEF found
  <2> QED BY <1>1 DEF WithoutRows, Restrict, IsStats
<1> HIDE DEF found, row, gone, rows
<1>7. /\ stats' = [s \in Symbols |-> stats'[s]]
      /\ stats'[OldSymbol] = gone /\ stats'[NewSymbol] = rows
      /\ \A s \in Symbols : s \notin SystemSymbols => stats'[s] = stats[s]
  BY <1>1, <1>2 DEF SystemSymbols
<1>8. \A s \in Symbols : IsStats(stats'[s])
  BY <1>5, <1>6, <1>7 DEF TypeOK, SystemSymbols
<1>9. TypeOK'
  BY <1>2, <1>7, <1>8 DEF TypeOK
<1> QED BY <1>2, <1>4, <1>5, <1>6, <1>7, <1>9 DEF SupplyOf, Exists

LEMMA MigrateStatsStep ==
  ASSUME Inv, HMigrateStats
  PROVE  Inv' /\ UNCHANGED LedgerVars
<1>1. /\ TypeOK /\ SupplyIsCirculating /\ unrecorded \in [Symbols -> Int]
      /\ MigrateStats /\ UNCHANGED accounts
      /\ unrecorded' = [unrecorded EXCEPT ![OldSymbol] = @ + SupplyOf(OldSymbol)]
  BY DEF Inv, HTypeOK, HMigrateStats, MigrateStats
<1>2. /\ TypeOK'
      /\ SupplyOf(NewSymbol) = 0
      /\ SupplyOf(OldSymbol)' = 0 /\ SupplyOf(NewSymbol)' = 0
      /\ \A s \in Symbols : s \notin SystemSymbols => stats'[s] = stats[s]
      /\ ~Exists(OldSymbol)'
      /\ Exists(NewSymbol)' /\ stats'[NewSymbol][NewSymbol].max_supply \in Nat
  BY <1>1, MigrateStatsSteps
<1>3. \A s \in Symbols : SupplyOf(s) \in Int /\ unrecorded[s] \in Int
  BY <1>1, BalancesTyped
<1>4. /\ HTypeOK'
      /\ unrecorded'[OldSymbol] = unrecorded[OldSymbol] + SupplyOf(OldSymbol)
      /\ \A s \in Symbols : s # OldSymbol => unrecorded'[s] = unrecorded[s]
  BY <1>1, <1>2, <1>3, SystemSymbolsDiffer DEF HTypeOK
<1>5. ASSUME NEW s \in Symbols
      PROVE  /\ Circulating(s)' = SupplyOf(s)' + unrecorded'[s]
             /\ Exists(s)' => SupplyOf(s)' <= stats'[s][s].max_supply
  <2>1. Circulating(s)' = Circulating(s)
    BY <1>1 DEF Circulating, Balances, BalanceOf
  <2>2. /\ Circulating(s) = SupplyOf(s) + unrecorded[s]
        /\ Exists(s) => SupplyOf(s) <= stats[s][s].max_supply
    BY <1>1 DEF SupplyIsCirculating
  <2>3. CASE s = OldSymbol
    BY <1>2, <1>3, <1>4, <2>1, <2>2, <2>3
  <2>4. CASE s = NewSymbol
    BY <1>2, <1>3, <1>4, <2>1, <2>2, <2>4, SystemSymbolsDiffer
  <2>5. CASE s \notin SystemSymbols
    <3>1. SupplyOf(s)' = SupplyOf(s) /\ (Exists(s)' <=> Exists(s))
      BY <1>2, <2>5 DEF SupplyOf, Exists
    <3>2. stats'[s] = stats[s] /\ unrecorded'[s] = unrecorded[s]
      BY <1>2, <1>4, <2>5 DEF SystemSymbols
    <3> QED BY <2>1, <2>2, <3>1, <3>2
  <2> QED BY <2>3, <2>4, <2>5 DEF SystemSymbols
<1>6. Minted' = Minted
  BY <1>2, <1>3, <1>4, SystemSymbolsDiffer DEF Minted
<1>7. Holdings' = Holdings
  BY <1>1 DEF Holdings, Holding, BalanceOf
<1> QED BY <1>4, <1>5, <1>6, <1>7 DEF Inv, SupplyIsCirculating, LedgerVars

LEMMA MigrateAccSteps ==
  ASSUME TypeOK, NEW a \in Accounts, MigrateAcc(a)
  PROVE  /\ TypeOK' /\ UNCHANGED stats
         /\ BalanceOf(a, OldSymbol)' = 0
         /\ BalanceOf(a, NewSymbol) = 0
         /\ BalanceOf(a, NewSymbol)' = BalanceOf(a, OldSymbol)
         /\ \A b \in Accounts, s \in Symbols :
              b # a \/ s \notin SystemSymbols => BalanceOf(b, s)' = BalanceOf(b, s)
<1> DEFINE rows == accounts[a]
           amount == rows[OldSymbol]
           both == WithRow(rows, NewSymbol, amount)
           new == WithoutRows(both, {OldSymbol})
<1>1. /\ IsBalances(rows) /\ accounts = [b \in Accounts |-> accounts[b]]
      /\ OldSymbol \in Symbols /\ NewSymbol \in Symbols /\ OldSymbol # NewSymbol
  BY SystemSymbolsDiffer DEF TypeOK
<1>2. /\ OldSymbol \in DOMAIN rows /\ NewSymbol \notin DOMAIN rows
      /\ accounts' = [accounts EXCEPT ![a] = new]
      /\ UNCHANGED stats
  BY <1>1 DEF MigrateAcc
<1>3. amount \in 0 .. MaxAmount
  BY <1>1, <1>2 DEF IsBalances
<1> HIDE DEF amount
<1>4. IsBalances(both) /\ DOMAIN both = DOMAIN rows \cup {NewSymbol}
  BY <1>1, <1>3 DEF WithRow, IsBalances
<1>5. /\ both[NewSymbol] = amount
      /\ \A s \in DOMAIN rows : both[s] = rows[s]
  BY <1>1, <1>2 DEF WithRow
<1> HIDE DEF both
<1>6. /\ IsBalances(new) /\ DOMAIN new = DOMAIN both \ {OldSymbol}
      /\ \A s \in DOMAIN new : new[s] = both[s]
  BY <1>4 DEF WithoutRows, Restrict, IsBalances
<1> HIDE DEF new
<1>7. \A b \in Accounts : accounts'[b] = IF b = a THEN new ELSE accounts[b]
  BY <1>1, <1>2
<1>8. TypeOK'
  <2>1. accounts' = [b \in Accounts |-> accounts'[b]]
    BY <1>1, <1>2
  <2>2. \A b \in Accounts : IsBalances(accounts'[b])
    BY <1>6, <1>7 DEF TypeOK
  <2> QED BY <1>2, <2>1, <2>2 DEF TypeOK, IsStats
<1>9. /\ BalanceOf(a, OldSymbol)' = 0
      /\ BalanceOf(a, NewSymbol) = 0
      /\ BalanceOf(a, NewSymbol)' = BalanceOf(a, OldSymbol)
  <2>1. OldSymbol \notin DOMAIN new /\ NewSymbol \in DOMAIN new
        /\ new[NewSymbol] = amount
    BY <1>1, <1>4, <1>5, <1>6
  <2> QED BY <1>2, <1>7, <2>1 DEF BalanceOf, amount
<1>10. ASSUME NEW b \in Accounts, NEW s \in Symbols, b # a \/ s \notin SystemSymbols
       PROVE  BalanceOf(b, s)' = BalanceOf(b, s)
  <2>1. CASE b # a
    BY <1>7, <2>1 DEF BalanceOf
  <2>2. CASE b = a /\ s \notin SystemSymbols
    <3>1. s \in DOMAIN new <=> s \in DOMAIN rows
      BY <1>4, <1>6, <2>2 DEF SystemSymbols
    <3>2. s \in DOMAIN rows => new[s] = rows[s]
      BY <1>5, <1>6, <3>1
    <3> QED BY <1>7, <2>2, <3>1, <3>2 DEF BalanceOf
  <2> QED BY <1>10, <2>1, <2>2
<1> QED BY <1>2, <1>8, <1>9, <1>10

LEMMA MigrateAccStep ==
  ASSUME Inv, NEW a \in Accounts, HMigrateAcc(a)
  PROVE  Inv' /\ UNCHANGED LedgerVars
<1> DEFINE x == BalanceOf(a, OldSymbol)
<1>1. /\ TypeOK /\ SupplyIsCirculating /\ unrecorded \in [Symbols -> Int]
      /\ MigrateAcc(a)
      /\ unrecorded' = [unrecorded EXCEPT ![OldSymbol] = @ - x, ![NewSymbol] = @ + x]
  BY DEF Inv, HTypeOK, HMigrateAcc
<1>2. /\ TypeOK' /\ UNCHANGED stats
      /\ BalanceOf(a, OldSymbol)' = 0
      /\ BalanceOf(a, NewSymbol) = 0
      /\ BalanceOf(a, NewSymbol)' = x
      /\ \A b \in Accounts, s \in Symbols :
           b # a \/ s \notin SystemSymbols => BalanceOf(b, s)' = BalanceOf(b, s)
  BY <1>1, MigrateAccSteps
<1>3. /\ \A s \in Symbols : SupplyOf(s) \in Int /\ unrecorded[s] \in Int
      /\ x \in Int
      /\ OldSymbol \in Symbols /\ NewSymbol \in Symbols /\ OldSymbol # NewSymbol
  BY <1>1, HoldingsTyped, BalancesTyped, SystemSymbolsDiffer
<1>4. /\ \A s \in Symbols : /\ Balances(s) \in [Accounts -> Int]
                            /\ Balances(s)' \in [Accounts -> Int]
      /\ \A s \in Symbols, b \in Accounts : /\ Balances(s)[b] = BalanceOf(b, s)
                                            /\ Balances(s)'[b] = BalanceOf(b, s)'
  <2>1. \A s \in Symbols, b \in Accounts : BalanceOf(b, s) \in Int
    BY <1>1, BalancesTyped, TokenAssumption DEF TokenAssumption
  <2>2. \A s \in Symbols, b \in Accounts : BalanceOf(b, s)' \in Int
    BY <1>2, TokenAssumption DEF TokenAssumption, TypeOK, BalanceOf, IsBalances
  <2> QED BY <2>1, <2>2 DEF Balances
<1> HIDE DEF x
<1>5. /\ Circulating(OldSymbol)' = Circulating(OldSymbol) + (-x)
      /\ Circulating(NewSymbol)' = Circulating(NewSymbol) + x
  <2>0. BalanceOf(a, OldSymbol) = x
    BY DEF x
  <2>1. SumFunction(Balances(OldSymbol)') = SumFunction(Balances(OldSymbol)) + (-x)
    <3>1. Balances(OldSymbol)'[a] = Balances(OldSymbol)[a] + (-x) /\ -x \in Int
      BY <1>2, <1>3, <1>4, <2>0
    <3>2. \A b \in Accounts : b # a => Balances(OldSymbol)'[b] = Balances(OldSymbol)[b]
      BY <1>2, <1>3, <1>4
    <3> QED BY <1>3, <1>4, <3>1, <3>2, OneBalance
  <2>2. SumFunction(Balances(NewSymbol)') = SumFunction(Balances(NewSymbol)) + x
    <3>1. Balances(NewSymbol)'[a] = Balances(NewSymbol)[a] + x
      BY <1>2, <1>3, <1>4
    <3>2. \A b \in Accounts : b # a => Balances(NewSymbol)'[b] = Balances(NewSymbol)[b]
      BY <1>2, <1>3, <1>4
    <3> QED BY <1>3, <1>4, <3>1, <3>2, OneBalance
  <2> QED BY <2>1, <2>2 DEF Circulating
<1>6. /\ HTypeOK'
      /\ unrecorded'[OldSymbol] = unrecorded[OldSymbol] - x
      /\ unrecorded'[NewSymbol] = unrecorded[NewSymbol] + x
      /\ \A s \in Symbols : s \notin SystemSymbols => unrecorded'[s] = unrecorded[s]
  BY <1>1, <1>2, <1>3 DEF HTypeOK, SystemSymbols
<1>7. \A s \in Symbols : SupplyOf(s)' = SupplyOf(s) /\ (Exists(s)' <=> Exists(s))
  BY <1>2 DEF SupplyOf, Exists
<1>8. ASSUME NEW s \in Symbols
      PROVE  /\ Circulating(s)' = SupplyOf(s)' + unrecorded'[s]
             /\ Exists(s)' => SupplyOf(s)' <= stats'[s][s].max_supply
  <2>1. /\ Circulating(s) = SupplyOf(s) + unrecorded[s]
        /\ Exists(s) => SupplyOf(s) <= stats[s][s].max_supply
    BY <1>1 DEF SupplyIsCirculating
  <2>2. Circulating(s)' = SupplyOf(s)' + unrecorded'[s]
    <3>1. CASE s = OldSymbol
      BY <1>3, <1>5, <1>6, <1>7, <2>1, <3>1
    <3>2. CASE s = NewSymbol
      BY <1>3, <1>5, <1>6, <1>7, <2>1, <3>2
    <3>3. CASE s \notin SystemSymbols
      <4>1. Balances(s)' = Balances(s)
        BY <1>2, <3>3 DEF Balances
      <4> QED BY <1>6, <1>7, <2>1, <3>3, <4>1 DEF Circulating
    <3> QED BY <3>1, <3>2, <3>3 DEF SystemSymbols
  <2> QED BY <1>2, <1>7, <2>1, <2>2
<1>9. Minted' = Minted
  <2>1. SupplyOf(OldSymbol)' = SupplyOf(OldSymbol) /\ SupplyOf(NewSymbol)' = SupplyOf(NewSymbol)
    BY <1>3, <1>7
  <2> QED BY <1>3, <1>6, <2>1 DEF Minted
<1>10. \A b \in Accounts : Holding(b)' = Holding(b)
  <2>1. BalanceOf(a, OldSymbol) = x
    BY DEF x
  <2> QED BY <1>2, <1>3, <2>1 DEF Holding
<1>11. Holdings' = Holdings
  BY <1>10 DEF Holdings
<1> QED BY <1>6, <1>8, <1>9, <1>11 DEF Inv, SupplyIsCirculating, LedgerVars
----------------------------------------------------------------------------
(* Every step keeps the invariant, and is a step of the ledger or leaves   *)
(* it alone.                                                               *)
LEMMA Step ==
  ASSUME Inv, [HNext]_hvars
  PROVE  Inv' /\ [Ledger!LedgerNext]_LedgerVars
<1>1. ASSUME NEW a \in Accounts, NEW s \in Symbols, NEW q \in Quantities,
             Create(a, s, q), UNCHANGED unrecorded
      PROVE  Inv' /\ UNCHANGED LedgerVars
  BY <1>1, CreateStep
<1>2. ASSUME NEW a \in Accounts, NEW s \in Symbols, NEW q \in Quantities,
             Issue(a, s, q), UNCHANGED unrecorded
      PROVE  Inv' /\ [Ledger!LedgerNext]_LedgerVars
  BY <1>2, IssueToStep DEF Issue, Ledger!LedgerNext
<1>3. ASSUME NEW a \in Accounts, NEW s \in Symbols, NEW q \in Quantities,
             Retire(a, s, q), UNCHANGED unrecorded
      PROVE  Inv' /\ [Ledger!LedgerNext]_LedgerVars
  BY <1>3, RetireStep DEF Ledger!LedgerNext
<1>4. ASSUME NEW a \in Accounts, NEW s \in Symbols, NEW q \in Quantities,
             NEW b \in Accounts, Transfer(a, b, s, q), UNCHANGED unrecorded
      PROVE  Inv' /\ [Ledger!LedgerNext]_LedgerVars
  BY <1>4, TransferStep DEF Ledger!LedgerNext
<1>5. ASSUME NEW a \in Accounts, NEW s \in Symbols, Open(a, s) \/ Close(a, s),
             UNCHANGED unrecorded
      PROVE  Inv' /\ UNCHANGED LedgerVars
  <2>1. OneChange(a, s, 0) /\ UNCHANGED stats
    BY <1>5, OpenSteps, CloseSteps DEF Inv, HTypeOK
  <2> QED BY <1>5, <2>1, ZeroStep
<1>6. CASE HMigrateStats
  BY <1>6, MigrateStatsStep
<1>7. ASSUME NEW a \in Accounts, HMigrateAcc(a)
      PROVE  Inv' /\ UNCHANGED LedgerVars
  BY <1>7, MigrateAccStep
<1>8. CASE UNCHANGED hvars
  BY <1>8 DEF hvars, vars, Inv, HTypeOK, TypeOK, IsStats, IsBalances,
              SupplyIsCirculating, SupplyOf, Circulating, Balances, BalanceOf,
              Exists, LedgerVars, Holdings, Holding, Minted
<1> QED BY <1>1, <1>2, <1>3, <1>4, <1>5, <1>6, <1>7, <1>8
        DEF HNext, HToken, TokenNext

(* With demo.tmy nothing is ever missing from the record.                  *)
DInv ==
  /\ Inv
  /\ contract = "demo.tmy" => \A s \in Symbols : unrecorded[s] = 0

LEMMA InitDInv == DInit => DInv
BY InitInv DEF DInit, DInv, HInit

LEMMA DStep ==
  ASSUME DInv, [DNext]_dvars
  PROVE  DInv' /\ [Ledger!LedgerNext]_LedgerVars
<1>1. Inv
  BY DEF DInv
<1>2. CASE DEosio
  <2>1. Inv' /\ [Ledger!LedgerNext]_LedgerVars
    BY <1>1, <1>2, Step DEF DEosio
  <2>2. contract' # "demo.tmy"
    BY <1>2 DEF DEosio
  <2> QED BY <2>1, <2>2 DEF DInv
<1>3. CASE DDemo
  <2>1. /\ DemoNext /\ contract = "demo.tmy"
        /\ UNCHANGED unrecorded /\ UNCHANGED contract
    BY <1>3 DEF DDemo
  <2>2. ASSUME NEW a \in Accounts, NEW s \in Symbols, NEW q \in Quantities,
               SelfIssue(a, s, q)
        PROVE  Inv' /\ [Ledger!LedgerNext]_LedgerVars
    BY <1>1, <2>1, <2>2, IssueToStep DEF SelfIssue, Ledger!LedgerNext
  <2>3. ASSUME TokenNext
        PROVE  Inv' /\ [Ledger!LedgerNext]_LedgerVars
    BY <1>1, <2>1, <2>3, Step DEF HNext, HToken
  <2>4. Inv' /\ [Ledger!LedgerNext]_LedgerVars
    BY <2>1, <2>2, <2>3
       DEF DemoNext, TokenNext, DemoCreate, DemoIssue, DemoRetire, DemoTransfer,
           DemoOpen, DemoClose
  <2>5. \A s \in Symbols : unrecorded'[s] = 0
    BY <2>1 DEF DInv
  <2> QED BY <2>4, <2>5 DEF DInv
<1>4. CASE UNCHANGED dvars
  <2>1. UNCHANGED hvars /\ UNCHANGED contract /\ UNCHANGED unrecorded
    BY <1>4 DEF dvars, hvars
  <2>2. Inv' /\ [Ledger!LedgerNext]_LedgerVars
    BY <1>1, <2>1, Step
  <2> QED BY <2>1, <2>2 DEF DInv
<1> QED BY <1>2, <1>3, <1>4 DEF DNext

LEMMA DInvHolds == DSpec => []DInv
<1>1. DInv /\ [DNext]_dvars => DInv'
  BY DStep
<1> QED BY <1>1, InitDInv, PTL DEF DSpec

(* The tables keep their types under either contract; in particular every  *)
(* balance stays between zero and the largest amount of an asset (the      *)
(* checks of sub_balance and of the asset arithmetic in add_balance).      *)
THEOREM TokenTypeCorrect == DSpec => []HTypeOK
<1>1. DInv => HTypeOK
  BY DEF DInv, Inv
<1> QED BY <1>1, DInvHolds, PTL

(* For any accounts, symbols and amounts: whatever is created, issued,     *)
(* retired, transferred, opened, closed and migrated in whatever order, a  *)
(* symbol's supply on record and what the migration dropped of it make up  *)
(* the sum of its balances, and the supply stays within its maximum.       *)
THEOREM SupplyCorrect == DSpec => []SupplyIsCirculating
<1>1. DInv => SupplyIsCirculating
  BY DEF DInv, Inv
<1> QED BY <1>1, DInvHolds, PTL

(* What the accounts of demo.tmy hold of a token never exceeds its         *)
(* maximum, whoever issues to himself how often.                           *)
THEOREM DemoWithinMaximum == DSpec => []WithinMaximum
<1>1. DInv => WithinMaximum
  <2> SUFFICES ASSUME DInv, contract = "demo.tmy", NEW s \in Symbols, Exists(s)
               PROVE  Circulating(s) <= stats[s][s].max_supply
    BY DEF WithinMaximum, MaxSupplyHonoured
  <2>1. /\ Circulating(s) = SupplyOf(s) + unrecorded[s] /\ unrecorded[s] = 0
        /\ SupplyOf(s) <= stats[s][s].max_supply
    BY DEF DInv, Inv, SupplyIsCirculating
  <2>2. SupplyOf(s) \in Int
    BY BalancesTyped DEF DInv, Inv, HTypeOK
  <2> QED BY <2>1, <2>2
<1> QED BY <1>1, DInvHolds, PTL

(* Both contracts implement the ledger: seen through what its accounts     *)
(* hold of the system's token under either symbol, each of their actions   *)
(* is a transfer, an issue or a retirement of the ledger, or changes       *)
(* nothing, the migration and the demo's selfissue included.               *)
THEOREM ImplementsLedger == DSpec => SystemTokenIsLedger
<1>1. DInit => Ledger!LedgerInit
  <2> SUFFICES ASSUME DInit PROVE Ledger!LedgerInit
    OBVIOUS
  <2>1. /\ \A s \in Symbols : SupplyOf(s) = 0 /\ unrecorded[s] = 0
        /\ \A s \in Symbols, a \in Accounts : BalanceOf(a, s) = 0
    BY DEF DInit, HInit, Init, EmptyTable, BalanceOf, SupplyOf, Exists
  <2>2. Holdings = [a \in Accounts |-> 0] /\ Minted = 0
    BY <2>1, SystemSymbolsDiffer DEF Holdings, Holding, Minted
  <2> QED BY <2>2 DEF Ledger!LedgerInit
<1>2. DInv /\ [DNext]_dvars => [Ledger!LedgerNext]_(Ledger!ledger)
  BY DStep DEF LedgerVars, Ledger!ledger
<1> QED BY <1>1, <1>2, DInvHolds, PTL
        DEF DSpec, SystemTokenIsLedger, Ledger!LedgerSpec
----------------------------------------------------------------------------
(* Transfer, as the contracts see it that send it inline.                  *)

(* Two accounts together have no more than all.                            *)
LEMMA TwoOfAll ==
  ASSUME TypeOK, NEW s \in Symbols,
         NEW a \in Accounts, NEW b \in Accounts, a # b
  PROVE  /\ BalanceOf(a, s) + BalanceOf(b, s) <= Circulating(s)
         /\ Circulating(s) \in Nat
<1> DEFINE f == Balances(s)
           rest == [c \in Accounts |-> IF c = a THEN 0 ELSE f[c]]
<1>1. /\ IsFiniteSet(Accounts)
      /\ f \in [Accounts -> Nat]
      /\ f[a] = BalanceOf(a, s) /\ f[b] = BalanceOf(b, s)
  BY BalancesAreFunctions, TokenAssumption DEF TokenAssumption
<1>2. Circulating(s) = SumFunction(f)
  BY DEF Circulating
<1> HIDE DEF f
<1>3. /\ rest \in [Accounts -> Nat]
      /\ rest[a] = 0 /\ rest[b] = f[b]
      /\ \A c \in Accounts : c # a => f[c] = rest[c]
  BY <1>1
<1> HIDE DEF rest
<1>4. SumFunction(rest) = SumFunction(f) + rest[a] - f[a]
  BY <1>1, <1>3, SumFunctionUpdate
<1>5. rest[b] <= SumFunction(rest) /\ SumFunction(rest) \in Nat
  BY <1>1, <1>3, SumFunctionNat
<1>6. SumFunction(f) \in Nat
  BY <1>1, SumFunctionNat
<1> QED BY <1>1, <1>2, <1>3, <1>4, <1>5, <1>6

LEMMA SameGuard ==
  ASSUME TypeOK, NEW s \in Symbols, Exists(s), Circulating(s) <= MaxAmount,
         NEW a \in Accounts, NEW b \in Accounts, NEW q \in Quantities
  PROVE  MayTransfer(a, b, s, q) <=> Ledger!CanTransfer(Balances(s), a, b, q)
<1>1. /\ q \in Nat /\ q > 0 /\ MaxAmount \in Nat
  BY TokenAssumption DEF TokenAssumption
<1>2. /\ DOMAIN Balances(s) = Accounts
      /\ Balances(s)[a] = BalanceOf(a, s)
      /\ BalanceOf(a, s) \in Nat /\ BalanceOf(b, s) \in Nat
  BY <1>1, BalancesAreFunctions, BalancesTyped
<1>3. Ledger!CanTransfer(Balances(s), a, b, q) <=> a # b /\ q <= BalanceOf(a, s)
  BY <1>1, <1>2 DEF Ledger!CanTransfer
<1>4. CanSub(a, s, q) <=> q <= BalanceOf(a, s)
  BY <1>1 DEF CanSub, BalanceOf
<1>5. ASSUME a # b, q <= BalanceOf(a, s) PROVE CanAdd(b, s, q)
  <2>1. BalanceOf(b, s) + q <= MaxAmount
    BY <1>1, <1>2, <1>5, TwoOfAll
  <2> QED BY <2>1 DEF CanAdd, BalanceOf
<1> QED BY <1>1, <1>3, <1>4, <1>5 DEF MayTransfer

LEMMA SameEffect ==
  ASSUME TypeOK, NEW s \in Symbols,
         NEW a \in Accounts, NEW b \in Accounts, NEW q \in Quantities,
         Transfer(a, b, s, q)
  PROVE  Balances(s)' = Ledger!AfterTransfer(Balances(s), a, b, q)
<1> DEFINE f == Balances(s)
           g == [c \in Accounts |-> BalanceOf(c, s)']
<1>1. /\ a # b
      /\ g[a] = BalanceOf(a, s) - q /\ g[b] = BalanceOf(b, s) + q
      /\ \A c \in Accounts : c # a /\ c # b => g[c] = BalanceOf(c, s)
  BY TransferSteps
<1>2. /\ f \in [Accounts -> Nat]
      /\ \A c \in Accounts : f[c] = BalanceOf(c, s)
  BY BalancesAreFunctions
<1>3. Balances(s)' = g /\ g = [c \in Accounts |-> g[c]]
  BY DEF Balances
<1> HIDE DEF f, g
<1>4. g = [f EXCEPT ![a] = @ - q, ![b] = @ + q]
  BY <1>1, <1>2, <1>3
<1> QED BY <1>3, <1>4 DEF Ledger!AfterTransfer, f

(* For any accounts, symbols and amounts: what the other contracts of the  *)
(* system count on when they send transfer inline, and what their modules  *)
(* take from TokenTransfer, is what the token contract does, as long as    *)
(* the tokens in circulation fit into one asset.                           *)
THEOREM TransfersAreInline == DSpec => InlineTransfers
<1>1. DInv => TransferAsOthersSeeIt
  BY SameGuard, SameEffect DEF DInv, Inv, HTypeOK, TransferAsOthersSeeIt
<1> QED BY <1>1, DInvHolds, PTL DEF DSpec, InlineTransfers
=============================================================================
