--------------------------- MODULE StakingProofs ---------------------------
(***************************************************************************)
(* Proofs about Staking and StakingHistory, for every value of their       *)
(* constants.                                                              *)
(*                                                                         *)
(* First the tables: what adding, changing and erasing rows does to the    *)
(* totals StakedIn, ReleasingIn and GrowthOf of a table.  Then the         *)
(* inductive invariant IInv, action by action, and with it the refinement  *)
(* of Custodian: what every action does to the claims of the stakers.  At  *)
(* last the history of cron: the arithmetic of periods, cycles and ranges  *)
(* of names, and with it HistoryInv, which says whom cron has visited      *)
(* since when.                                                             *)
(***************************************************************************)
EXTENDS StakingHistory, SumTheorems

(* The totals are sums of one number per row; a measure P gives it.        *)
Measure == [Allocation -> Int]
TotalOf(P, t) == SumFunction([id \in DOMAIN t |-> P[t[id]]])

Staked == [r \in Allocation |-> IF r.unstake_requested THEN 0
                                ELSE r.tokens_staked]
Releasing == [r \in Allocation |-> IF r.unstake_requested THEN r.tokens_staked
                                   ELSE 0]
Growth == [r \in Allocation |-> r.tokens_staked - r.initial_stake]

LEMMA Measures ==
  Staked \in Measure /\ Releasing \in Measure /\ Growth \in Measure
BY DEF Staked, Releasing, Growth, Measure, Allocation

LEMMA TotalsAreMeasures ==
  ASSUME NEW t, IsAllocationTable(t)
  PROVE  /\ StakedIn(t) = TotalOf(Staked, t)
         /\ ReleasingIn(t) = TotalOf(Releasing, t)
         /\ GrowthOf(t) = TotalOf(Growth, t)
<1>1. \A id \in DOMAIN t : t[id] \in Allocation
  BY DEF IsAllocationTable
<1>2. StakedIn(t) = TotalOf(Staked, t)
  <2>1. \A id \in DOMAIN t : Staked[t[id]] =
           IF t[id].unstake_requested THEN 0 ELSE t[id].tokens_staked
    BY <1>1 DEF Staked
  <2> QED BY <2>1 DEF StakedIn, TotalOf
<1>3. ReleasingIn(t) = TotalOf(Releasing, t)
  <2>1. \A id \in DOMAIN t : Releasing[t[id]] =
           IF t[id].unstake_requested THEN t[id].tokens_staked ELSE 0
    BY <1>1 DEF Releasing
  <2> QED BY <2>1 DEF ReleasingIn, TotalOf
<1>4. GrowthOf(t) = TotalOf(Growth, t)
  <2>1. \A id \in DOMAIN t :
           Growth[t[id]] = t[id].tokens_staked - t[id].initial_stake
    BY <1>1 DEF Growth
  <2> QED BY <2>1 DEF GrowthOf, TotalOf
<1> QED BY <1>2, <1>3, <1>4

LEMMA TotalInt ==
  ASSUME NEW P \in Measure, NEW t, IsAllocationTable(t)
  PROVE  TotalOf(P, t) \in Int
<1>1. \A id \in DOMAIN t : P[t[id]] \in Int
  BY DEF IsAllocationTable, Measure
<1> QED BY <1>1, SumFunctionInt DEF TotalOf, IsAllocationTable

(* The totals of a sound table are natural numbers.                        *)
LEMMA TableTotals ==
  ASSUME NEW t, IsAllocationTable(t), IsSoundTable(t)
  PROVE  StakedIn(t) \in Nat /\ ReleasingIn(t) \in Nat /\ GrowthOf(t) \in Nat
<1>1. \A id \in DOMAIN t : t[id] \in Allocation
  BY DEF IsAllocationTable
<1>2. StakedIn(t) \in Nat
  BY <1>1, SumFunctionNat DEF StakedIn, IsAllocationTable, Allocation
<1>3. ReleasingIn(t) \in Nat
  BY <1>1, SumFunctionNat DEF ReleasingIn, IsAllocationTable, Allocation
<1>4. GrowthOf(t) \in Nat
  <2>1. \A id \in DOMAIN t : t[id].tokens_staked - t[id].initial_stake \in Nat
    BY <1>1 DEF IsSoundTable, Allocation
  <2> QED BY <2>1, SumFunctionNat DEF GrowthOf, IsAllocationTable
<1> QED BY <1>2, <1>3, <1>4

LEMMA EmptyTableTotals ==
  /\ IsAllocationTable(EmptyTable) /\ IsSoundTable(EmptyTable)
  /\ StakedIn(EmptyTable) = 0
  /\ ReleasingIn(EmptyTable) = 0
  /\ GrowthOf(EmptyTable) = 0
<1>1. DOMAIN EmptyTable = {}
  BY DEF EmptyTable
<1>2. IsAllocationTable(EmptyTable) /\ IsSoundTable(EmptyTable)
  BY FS_EmptySet DEF IsAllocationTable, IsSoundTable, EmptyTable
<1> HIDE DEF EmptyTable
<1> QED
  BY <1>1, <1>2, SumFunctionEmpty DEF StakedIn, ReleasingIn, GrowthOf

(* available_primary_key is a key that no row has.                         *)
LEMMA FreshKey ==
  ASSUME NEW t, IsAllocationTable(t)
  PROVE  AvailablePrimaryKey(t) \in Nat \ DOMAIN t
<1>1. CASE DOMAIN t = {}
  BY <1>1 DEF AvailablePrimaryKey
<1>2. CASE DOMAIN t # {}
  <2>1. \E m \in DOMAIN t : \A x \in DOMAIN t : m >= x
    BY <1>2, LargestExists DEF IsAllocationTable
  <2>2. /\ Max(DOMAIN t) \in DOMAIN t
        /\ \A x \in DOMAIN t : Max(DOMAIN t) >= x
    BY <2>1 DEF Max
  <2>3. DOMAIN t \subseteq Nat
    BY DEF IsAllocationTable
  <2> HIDE DEF Max
  <2> QED BY <1>2, <2>2, <2>3 DEF AvailablePrimaryKey
<1> QED BY <1>1, <1>2
----------------------------------------------------------------------------
(* A table with a new row, with one row changed, and with rows changed and *)
(* others erased.                                                          *)

LEMMA TotalWithRow ==
  ASSUME NEW P \in Measure, NEW t, IsAllocationTable(t),
         NEW id \in Nat, id \notin DOMAIN t, NEW row \in Allocation
  PROVE  /\ IsAllocationTable(WithRow(t, id, row))
         /\ TotalOf(P, WithRow(t, id, row)) = TotalOf(P, t) + P[row]
<1> DEFINE u == WithRow(t, id, row)
           f == [k \in DOMAIN t |-> P[t[k]]]
           g == [k \in DOMAIN u |-> P[u[k]]]
<1>1. /\ DOMAIN u = DOMAIN t \cup {id}
      /\ u[id] = row
      /\ \A k \in DOMAIN t : u[k] = t[k]
      /\ u = [k \in DOMAIN u |-> u[k]]
  BY DEF WithRow
<1>2. IsFiniteSet(DOMAIN t) /\ \A k \in DOMAIN t : t[k] \in Allocation
  BY DEF IsAllocationTable
<1> HIDE DEF u
<1>3. IsAllocationTable(u)
  BY <1>1, <1>2, FS_AddElement DEF IsAllocationTable
<1>4. /\ DOMAIN f = DOMAIN t /\ DOMAIN g = DOMAIN f \cup {id}
      /\ g[id] = P[row] /\ P[row] \in Int
      /\ \A k \in DOMAIN f : f[k] \in Int /\ g[k] = f[k]
  BY <1>1, <1>2 DEF Measure
<1>5. SumFunction(g) = SumFunction(f) + g[id]
  <2> HIDE DEF f, g
  <2> QED BY <1>2, <1>4, SumFunctionAdd
<1>6. TotalOf(P, u) = TotalOf(P, t) + P[row]
  BY <1>4, <1>5 DEF TotalOf
<1> QED BY <1>3, <1>6 DEF u

LEMMA TotalChangedRow ==
  ASSUME NEW P \in Measure, NEW t, IsAllocationTable(t),
         NEW id \in DOMAIN t, NEW row \in Allocation
  PROVE  /\ IsAllocationTable([t EXCEPT ![id] = row])
         /\ TotalOf(P, [t EXCEPT ![id] = row]) = TotalOf(P, t) + P[row] - P[t[id]]
<1> DEFINE u == [t EXCEPT ![id] = row]
           f == [k \in DOMAIN t |-> P[t[k]]]
           g == [k \in DOMAIN u |-> P[u[k]]]
<1>1. IsFiniteSet(DOMAIN t) /\ \A k \in DOMAIN t : t[k] \in Allocation
  BY DEF IsAllocationTable
<1>2. IsAllocationTable(u)
  BY <1>1 DEF IsAllocationTable
<1>3. /\ DOMAIN f = DOMAIN t /\ DOMAIN g = DOMAIN f
      /\ g[id] = P[row] /\ f[id] = P[t[id]]
      /\ \A k \in DOMAIN f : f[k] \in Int /\ g[k] \in Int
      /\ \A k \in DOMAIN f : k # id => f[k] = g[k]
  BY <1>1 DEF Measure
<1>4. SumFunction(g) = SumFunction(f) + g[id] - f[id]
  <2> HIDE DEF f, g
  <2> QED BY <1>1, <1>3, SumFunctionUpdate
<1> QED BY <1>2, <1>3, <1>4 DEF TotalOf

LEMMA TotalWithoutRows ==
  ASSUME NEW P \in Measure, NEW t, IsAllocationTable(t),
         NEW ids \in SUBSET DOMAIN t
  PROVE  /\ IsAllocationTable(WithoutRows(t, ids))
         /\ TotalOf(P, WithoutRows(t, ids))
              = TotalOf(P, t)
                  - SumFunctionOnSet([id \in DOMAIN t |-> P[t[id]]], ids)
<1> DEFINE u == WithoutRows(t, ids)
           f == [k \in DOMAIN t |-> P[t[k]]]
           g == [k \in DOMAIN u |-> P[u[k]]]
<1>1. IsFiniteSet(DOMAIN t) /\ \A k \in DOMAIN t : t[k] \in Allocation
  BY DEF IsAllocationTable
<1>2. /\ DOMAIN u = DOMAIN t \ ids
      /\ \A k \in DOMAIN u : u[k] = t[k]
      /\ u = [k \in DOMAIN u |-> u[k]]
  BY DEF WithoutRows, Restrict
<1> HIDE DEF u
<1>3. IsAllocationTable(u)
  BY <1>1, <1>2, FS_Subset DEF IsAllocationTable
<1>4. /\ DOMAIN f = DOMAIN t /\ DOMAIN g = DOMAIN f \ ids
      /\ \A k \in DOMAIN f : f[k] \in Int
      /\ \A k \in DOMAIN g : g[k] = f[k]
  BY <1>1, <1>2 DEF Measure
<1>5. SumFunction(g) = SumFunction(f) - SumFunctionOnSet(f, ids)
  <2> HIDE DEF f, g
  <2> QED BY <1>1, <1>4, SumFunctionRemove
<1> QED BY <1>3, <1>5 DEF TotalOf, u

(* The measured value of every row grows by y.                             *)
LEMMA TotalGrown ==
  ASSUME NEW P \in Measure, NEW t, IsAllocationTable(t),
         NEW u, IsAllocationTable(u), DOMAIN u = DOMAIN t,
         NEW y, DOMAIN y = DOMAIN t,
         \A k \in DOMAIN t : y[k] \in Int /\ P[u[k]] = P[t[k]] + y[k]
  PROVE  TotalOf(P, u) = TotalOf(P, t) + SumFunction(y)
<1> DEFINE f == [k \in DOMAIN t |-> P[t[k]]]
           g == [k \in DOMAIN u |-> P[u[k]]]
<1>1. IsFiniteSet(DOMAIN t) /\ \A k \in DOMAIN t : t[k] \in Allocation
  BY DEF IsAllocationTable
<1>2. /\ DOMAIN f = DOMAIN t /\ DOMAIN g = DOMAIN f
      /\ \A k \in DOMAIN f : f[k] \in Int /\ y[k] \in Int /\ g[k] = f[k] + y[k]
  BY <1>1 DEF Measure
<1>3. SumFunction(g) = SumFunction(f) + SumFunction(y)
  <2> HIDE DEF f, g
  <2> QED BY <1>1, <1>2, SumFunctionPlus
<1> QED BY <1>3 DEF TotalOf
----------------------------------------------------------------------------
(* The three things that happen to the table of a staker.                  *)

(* staketokens: a new row that is not being released.                      *)
LEMMA TableStake ==
  ASSUME NEW t, IsAllocationTable(t), IsSoundTable(t),
         NEW id \in Nat, id \notin DOMAIN t,
         NEW row \in Allocation, ~row.unstake_requested,
         row.initial_stake >= MinimumTransfer,
         row.tokens_staked = row.initial_stake
  PROVE  LET u == WithRow(t, id, row)
         IN  /\ IsAllocationTable(u) /\ IsSoundTable(u)
             /\ StakedIn(u) = StakedIn(t) + row.tokens_staked
             /\ ReleasingIn(u) = ReleasingIn(t)
             /\ GrowthOf(u) = GrowthOf(t)
<1> DEFINE u == WithRow(t, id, row)
<1>1. /\ IsAllocationTable(u)
      /\ TotalOf(Staked, u) = TotalOf(Staked, t) + Staked[row]
      /\ TotalOf(Releasing, u) = TotalOf(Releasing, t) + Releasing[row]
      /\ TotalOf(Growth, u) = TotalOf(Growth, t) + Growth[row]
  BY TotalWithRow, Measures
<1>2. Staked[row] = row.tokens_staked /\ Releasing[row] = 0 /\ Growth[row] = 0
  BY DEF Staked, Releasing, Growth, Allocation
<1>3. TotalOf(Releasing, t) \in Int /\ TotalOf(Growth, t) \in Int
  BY Measures, TotalInt
<1>4. IsSoundTable(u)
  <2>1. AmountsAssumption
    BY AmountsAssumption
  <2>2. /\ DOMAIN u = DOMAIN t \cup {id}
        /\ u[id] = row
        /\ \A k \in DOMAIN t : u[k] = t[k]
    BY DEF WithRow
  <2> HIDE DEF u
  <2> QED BY <2>1, <2>2 DEF IsSoundTable, Allocation, AmountsAssumption
<1> HIDE DEF u
<1>5. /\ StakedIn(u) = StakedIn(t) + row.tokens_staked
      /\ ReleasingIn(u) = ReleasingIn(t)
      /\ GrowthOf(u) = GrowthOf(t)
  BY <1>1, <1>2, <1>3, TotalsAreMeasures
<1> QED BY <1>1, <1>4, <1>5 DEF u

(* requnstake: a row moves from what is staked to what is being released.  *)
LEMMA TableRequest ==
  ASSUME NEW t, IsAllocationTable(t), IsSoundTable(t), NEW id \in DOMAIN t,
         ~t[id].unstake_requested,
         NEW row \in Allocation, row.unstake_requested,
         row.initial_stake = t[id].initial_stake,
         row.tokens_staked = t[id].tokens_staked,
         row.stake_time + LockupPeriod <= row.unstake_time
  PROVE  LET u == [t EXCEPT ![id] = row]
         IN  /\ IsAllocationTable(u) /\ IsSoundTable(u)
             /\ StakedIn(u) = StakedIn(t) - row.tokens_staked
             /\ ReleasingIn(u) = ReleasingIn(t) + row.tokens_staked
             /\ GrowthOf(u) = GrowthOf(t)
<1> DEFINE u == [t EXCEPT ![id] = row]
<1>1. /\ IsAllocationTable(u)
      /\ TotalOf(Staked, u) = TotalOf(Staked, t) + Staked[row] - Staked[t[id]]
      /\ TotalOf(Releasing, u)
           = TotalOf(Releasing, t) + Releasing[row] - Releasing[t[id]]
      /\ TotalOf(Growth, u) = TotalOf(Growth, t) + Growth[row] - Growth[t[id]]
  BY TotalChangedRow, Measures
<1>2. t[id] \in Allocation
  BY DEF IsAllocationTable
<1>3. /\ Staked[row] = 0 /\ Staked[t[id]] = row.tokens_staked
      /\ Releasing[row] = row.tokens_staked /\ Releasing[t[id]] = 0
      /\ Growth[row] = Growth[t[id]]
      /\ Growth[row] \in Int /\ row.tokens_staked \in Nat
  BY <1>2 DEF Staked, Releasing, Growth, Allocation
<1>4. /\ TotalOf(Staked, t) \in Int /\ TotalOf(Releasing, t) \in Int
      /\ TotalOf(Growth, t) \in Int
  BY Measures, TotalInt
<1>5. IsSoundTable(u)
  BY <1>2 DEF IsSoundTable
<1> HIDE DEF u
<1>6. /\ StakedIn(u) = StakedIn(t) - row.tokens_staked
      /\ ReleasingIn(u) = ReleasingIn(t) + row.tokens_staked
      /\ GrowthOf(u) = GrowthOf(t)
  BY <1>1, <1>3, <1>4, TotalsAreMeasures
<1> QED BY <1>1, <1>5, <1>6 DEF u

(* create_account_yield: the rows in R, all being released, are erased and *)
(* the others grow by y, which gives nothing to a row being released.      *)
Settled(t, R, y) == [id \in DOMAIN t \ R |-> Grown(t[id], y[id])]
PaidFor(t, R) == SumFunctionOnSet([id \in DOMAIN t |-> t[id].tokens_staked], R)

LEMMA TableSettled ==
  ASSUME NEW t, IsAllocationTable(t), IsSoundTable(t),
         NEW R \in SUBSET DOMAIN t, \A id \in R : t[id].unstake_requested,
         NEW y, DOMAIN y = DOMAIN t,
         \A id \in DOMAIN t : /\ y[id] \in Nat
                              /\ t[id].unstake_requested => y[id] = 0
  PROVE  LET u == Settled(t, R, y)
             paid == PaidFor(t, R)
         IN  /\ IsAllocationTable(u) /\ IsSoundTable(u)
             /\ StakedIn(u) = StakedIn(t) + SumFunction(y)
             /\ ReleasingIn(u) = ReleasingIn(t) - paid
             /\ GrowthOf(u) <= GrowthOf(t) + SumFunction(y)
             /\ SumFunction(y) \in Nat /\ paid \in Nat
<1> DEFINE u == [id \in DOMAIN t \ R |-> Grown(t[id], y[id])]
           tokens == [id \in DOMAIN t |-> t[id].tokens_staked]
           paid == SumFunctionOnSet(tokens, R)
           w == WithoutRows(t, R)
           z == [id \in DOMAIN w |-> y[id]]
           part(P) == [id \in DOMAIN t |-> P[t[id]]]
<1>1. /\ IsFiniteSet(DOMAIN t) /\ IsFiniteSet(R)
      /\ \A id \in DOMAIN t : t[id] \in Allocation
  BY FS_Subset DEF IsAllocationTable
<1>2. /\ DOMAIN w = DOMAIN t \ R /\ DOMAIN u = DOMAIN w
      /\ \A id \in DOMAIN w : w[id] = t[id]
  BY DEF WithoutRows, Restrict
<1>3. ASSUME NEW P \in Measure
      PROVE  /\ IsAllocationTable(w)
             /\ TotalOf(P, w) = TotalOf(P, t) - SumFunctionOnSet(part(P), R)
  BY TotalWithoutRows
<1>4. IsAllocationTable(w)
  BY <1>3, Measures
<1>5. \A id \in DOMAIN u :
        /\ u[id] = Grown(w[id], y[id])
        /\ w[id] \in Allocation /\ u[id] \in Allocation /\ y[id] \in Nat
        /\ u[id].tokens_staked = w[id].tokens_staked + y[id]
        /\ u[id].initial_stake = w[id].initial_stake
        /\ u[id].unstake_requested = w[id].unstake_requested
        /\ u[id].stake_time = w[id].stake_time
        /\ u[id].unstake_time = w[id].unstake_time
        /\ w[id].unstake_requested => y[id] = 0
  <2> HIDE DEF w
  <2> QED BY <1>1, <1>2 DEF Allocation, Grown
<1>6. u = [id \in DOMAIN u |-> u[id]]
  OBVIOUS
<1>7. DOMAIN z = DOMAIN w /\ \A id \in DOMAIN w : z[id] = y[id] /\ z[id] \in Nat
  BY <1>2
<1>8. SumFunction(y) = SumFunction(z) /\ SumFunction(y) \in Nat
  <2>1. \A id \in DOMAIN y \ DOMAIN z : y[id] = 0
    BY <1>2
  <2>2. \A id \in DOMAIN y : y[id] \in Int /\ y[id] \in Nat
    OBVIOUS
  <2>3. \A id \in DOMAIN z : z[id] = y[id]
    BY <1>7
  <2>4. DOMAIN z \subseteq DOMAIN y /\ IsFiniteSet(DOMAIN y)
    BY <1>1, <1>2
  <2> HIDE DEF z, w
  <2> QED BY <2>1, <2>2, <2>3, <2>4, SumFunctionSupport, SumFunctionNat
<1>9. paid \in Nat
  <2>1. \A id \in R : tokens[id] \in Nat
    BY <1>1 DEF Allocation
  <2> HIDE DEF tokens
  <2> QED BY <1>1, <2>1, SumNat
<1> HIDE DEF u, w, z
<1>10. IsAllocationTable(u)
  BY <1>2, <1>4, <1>5, <1>6 DEF IsAllocationTable
<1>11. IsSoundTable(u)
  <2>1. MinimumTransfer \in Nat
    BY AmountsAssumption DEF AmountsAssumption
  <2>2. \A id \in DOMAIN u : w[id] = t[id] /\ id \in DOMAIN t
    BY <1>2
  <2> QED BY <1>5, <2>1, <2>2 DEF IsSoundTable, Allocation
<1>12. StakedIn(u) = StakedIn(t) + SumFunction(y)
  <2>1. \A id \in DOMAIN w : z[id] \in Int /\ Staked[u[id]] = Staked[w[id]] + z[id]
    BY <1>2, <1>5, <1>7 DEF Staked, Allocation
  <2>2. TotalOf(Staked, u) = TotalOf(Staked, w) + SumFunction(z)
    BY <1>2, <1>4, <1>7, <1>10, <2>1, Measures, TotalGrown
  <2>3. SumFunctionOnSet(part(Staked), R) = 0
    <3>1. \A id \in R : part(Staked)[id] = 0
      BY <1>1 DEF Staked
    <3> HIDE DEF part
    <3> QED BY <1>1, <3>1, SumZero
  <2>4. TotalOf(Staked, w) = TotalOf(Staked, t) - 0
    BY <1>3, <2>3, Measures
  <2>5. TotalOf(Staked, t) \in Int
    BY TotalInt, Measures
  <2> QED BY <1>8, <1>10, <2>2, <2>4, <2>5, TotalsAreMeasures
<1>13. ReleasingIn(u) = ReleasingIn(t) - paid
  <2>1. \A id \in DOMAIN w : Releasing[u[id]] = Releasing[w[id]]
    BY <1>2, <1>5, <1>7 DEF Releasing, Allocation
  <2>2. TotalOf(Releasing, u) = TotalOf(Releasing, w)
    BY <1>2, <2>1 DEF TotalOf
  <2>3. SumFunctionOnSet(part(Releasing), R) = paid
    <3>1. \A id \in R : part(Releasing)[id] = tokens[id]
      BY <1>1 DEF Releasing
    <3> HIDE DEF part, tokens
    <3> QED BY <1>1, <3>1, SumSame
  <2>4. TotalOf(Releasing, w) = TotalOf(Releasing, t) - paid
    BY <1>3, <2>3, Measures
  <2> QED BY <1>10, <2>2, <2>4, TotalsAreMeasures
<1>14. GrowthOf(u) <= GrowthOf(t) + SumFunction(y)
  <2>1. \A id \in DOMAIN w : z[id] \in Int /\ Growth[u[id]] = Growth[w[id]] + z[id]
    BY <1>2, <1>5, <1>7 DEF Growth, Allocation
  <2>2. TotalOf(Growth, u) = TotalOf(Growth, w) + SumFunction(z)
    BY <1>2, <1>4, <1>7, <1>10, <2>1, Measures, TotalGrown
  <2>3. SumFunctionOnSet(part(Growth), R) \in Nat
    <3>1. \A id \in R : part(Growth)[id] \in Nat
      BY <1>1 DEF Growth, Allocation, IsSoundTable
    <3> HIDE DEF part
    <3> QED BY <1>1, <3>1, SumNat
  <2>4. TotalOf(Growth, w) = TotalOf(Growth, t) - SumFunctionOnSet(part(Growth), R)
    BY <1>3, Measures
  <2>5. TotalOf(Growth, t) \in Int
    BY TotalInt, Measures
  <2>6. GrowthOf(u) = TotalOf(Growth, u) /\ GrowthOf(t) = TotalOf(Growth, t)
    BY <1>10, TotalsAreMeasures
  <2> HIDE DEF part
  <2> QED BY <1>8, <2>2, <2>3, <2>4, <2>5, <2>6
<1>15. u = Settled(t, R, y) /\ paid = PaidFor(t, R)
  BY DEF Settled, PaidFor, u, paid
<1> HIDE DEF paid
<1> QED BY <1>8, <1>9, <1>10, <1>11, <1>12, <1>13, <1>14, <1>15
----------------------------------------------------------------------------
(* Balances, and the totals over all stakers.                              *)

LEMMA Finiteness == IsFiniteSet(Persons) /\ IsFiniteSet(Accounts)
<1>1. IsFiniteSet(Persons)
  BY NamesAssumption, FS_Interval DEF NamesAssumption, Persons
<1>2. IsFiniteSet(OtherAccounts)
  BY NamesAssumption DEF NamesAssumption
<1> QED BY <1>1, <1>2, FS_Union DEF Accounts

LEMMA ContractIsNoPerson ==
  /\ StakingTmy \in Accounts /\ StakingTmy \notin Persons
  /\ InfraTmy \in Accounts /\ InfraTmy # StakingTmy
  /\ Persons \subseteq Accounts
BY NamesAssumption DEF NamesAssumption, Accounts

LEMMA TransferType ==
  ASSUME NEW bal \in [Accounts -> Nat], NEW from, NEW to, NEW q \in Int,
         CanTransfer(bal, from, to, q)
  PROVE  LET after == AfterTransfer(bal, from, to, q)
         IN  /\ after \in [Accounts -> Nat]
             /\ after[from] = bal[from] - q
             /\ after[to] = bal[to] + q
             /\ \A a \in Accounts : a # from /\ a # to => after[a] = bal[a]
BY DEF CanTransfer, AfterTransfer

AllStaked(al) == SumFunction([a \in Persons |-> StakedIn(al[a])])
AllReleasing(al) == SumFunction([a \in Persons |-> ReleasingIn(al[a])])

LEMMA OneTableChanges ==
  ASSUME NEW al, NEW staker \in Persons, NEW u,
         al = [a \in Persons |-> al[a]],
         \A a \in Persons : IsAllocationTable(al[a]) /\ IsSoundTable(al[a]),
         IsAllocationTable(u), IsSoundTable(u)
  PROVE  LET al2 == [al EXCEPT ![staker] = u]
         IN  /\ al2 = [a \in Persons |-> al2[a]]
             /\ al2[staker] = u
             /\ \A a \in Persons : a # staker => al2[a] = al[a]
             /\ \A a \in Persons : IsAllocationTable(al2[a]) /\ IsSoundTable(al2[a])
             /\ AllStaked(al2) = AllStaked(al) + StakedIn(u) - StakedIn(al[staker])
             /\ AllReleasing(al2)
                  = AllReleasing(al) + ReleasingIn(u) - ReleasingIn(al[staker])
<1> DEFINE al2 == [al EXCEPT ![staker] = u]
           f == [a \in Persons |-> StakedIn(al[a])]
           g == [a \in Persons |-> StakedIn(al2[a])]
           h == [a \in Persons |-> ReleasingIn(al[a])]
           k == [a \in Persons |-> ReleasingIn(al2[a])]
<1>1. /\ al2 = [a \in Persons |-> al2[a]]
      /\ al2[staker] = u
      /\ \A a \in Persons : a # staker => al2[a] = al[a]
  OBVIOUS
<1>2. \A a \in Persons : IsAllocationTable(al2[a]) /\ IsSoundTable(al2[a])
  BY <1>1
<1>3. \A a \in Persons : /\ StakedIn(al[a]) \in Int /\ StakedIn(al2[a]) \in Int
                         /\ ReleasingIn(al[a]) \in Int
                         /\ ReleasingIn(al2[a]) \in Int
  <2> HIDE DEF al2
  <2> QED BY <1>2, TableTotals
<1> HIDE DEF al2
<1>4. SumFunction(g) = SumFunction(f) + g[staker] - f[staker]
  <2>1. /\ DOMAIN f = Persons /\ DOMAIN g = DOMAIN f
        /\ \A x \in Persons : f[x] \in Int /\ g[x] \in Int
        /\ \A x \in Persons : x # staker => f[x] = g[x]
    BY <1>1, <1>3
  <2> HIDE DEF f, g
  <2> QED BY <2>1, Finiteness, SumFunctionUpdate
<1>5. SumFunction(k) = SumFunction(h) + k[staker] - h[staker]
  <2>1. /\ DOMAIN h = Persons /\ DOMAIN k = DOMAIN h
        /\ \A x \in Persons : h[x] \in Int /\ k[x] \in Int
        /\ \A x \in Persons : x # staker => h[x] = k[x]
    BY <1>1, <1>3
  <2> HIDE DEF h, k
  <2> QED BY <2>1, Finiteness, SumFunctionUpdate
<1>6. /\ AllStaked(al2) = AllStaked(al) + StakedIn(u) - StakedIn(al[staker])
      /\ AllReleasing(al2)
           = AllReleasing(al) + ReleasingIn(u) - ReleasingIn(al[staker])
  BY <1>1, <1>4, <1>5 DEF AllStaked, AllReleasing
<1> QED BY <1>1, <1>2, <1>6 DEF al2

LEMMA AllTotals ==
  ASSUME NEW al,
         \A a \in Persons : IsAllocationTable(al[a]) /\ IsSoundTable(al[a])
  PROVE  /\ AllStaked(al) \in Nat /\ AllReleasing(al) \in Nat
         /\ \A a \in Persons : /\ StakedIn(al[a]) <= AllStaked(al)
                               /\ ReleasingIn(al[a]) <= AllReleasing(al)
<1> DEFINE f == [a \in Persons |-> StakedIn(al[a])]
           h == [a \in Persons |-> ReleasingIn(al[a])]
<1>1. \A a \in Persons : StakedIn(al[a]) \in Nat /\ ReleasingIn(al[a]) \in Nat
  BY TableTotals
<1>2. SumFunction(f) \in Nat /\ \A x \in DOMAIN f : f[x] <= SumFunction(f)
  <2>1. DOMAIN f = Persons /\ \A a \in Persons : f[a] \in Nat
    BY <1>1
  <2> HIDE DEF f
  <2> QED BY <2>1, Finiteness, SumFunctionNat
<1>3. SumFunction(h) \in Nat /\ \A x \in DOMAIN h : h[x] <= SumFunction(h)
  <2>1. DOMAIN h = Persons /\ \A a \in Persons : h[a] \in Nat
    BY <1>1
  <2> HIDE DEF h
  <2> QED BY <2>1, Finiteness, SumFunctionNat
<1> QED BY <1>2, <1>3 DEF AllStaked, AllReleasing
----------------------------------------------------------------------------
(* The inductive invariant.                                                *)

LEMMA InitIInv == Init => IInv
<1> SUFFICES ASSUME Init PROVE IInv
  OBVIOUS
<1>1. /\ now = 0 /\ balance = InitialBalance /\ settings = NoSettings
      /\ accounts = EmptyTable /\ DOMAIN accounts = {}
      /\ allocs = [a \in Persons |-> EmptyTable]
  BY DEF Init, EmptyTable
<1>2. \A a \in Persons : /\ allocs[a] = EmptyTable
                         /\ IsAllocationTable(allocs[a]) /\ IsSoundTable(allocs[a])
                         /\ StakedIn(allocs[a]) = 0 /\ ReleasingIn(allocs[a]) = 0
  BY <1>1, EmptyTableTotals
<1>3. TypeOK
  <2>1. now \in 0 .. MaxTime
    BY <1>1, PeriodsAssumption DEF PeriodsAssumption
  <2>2. balance \in [Accounts -> Nat]
    BY <1>1, AmountsAssumption DEF AmountsAssumption
  <2>3. settings \in Settings
    BY <1>1 DEF NoSettings, Settings
  <2>4. accounts \in [DOMAIN accounts -> StakingAccount]
    BY <1>1 DEF EmptyTable
  <2>5. allocs = [a \in Persons |-> allocs[a]]
    BY <1>1
  <2> QED BY <1>1, <1>2, <2>1, <2>2, <2>3, <2>4, <2>5 DEF TypeOK
<1>4. TotalsMatchRows
  <2> DEFINE f == [a \in Persons |-> StakedIn(allocs[a])]
             h == [a \in Persons |-> ReleasingIn(allocs[a])]
  <2>1. /\ DOMAIN f = Persons /\ DOMAIN h = Persons
        /\ \A a \in Persons : f[a] = 0 /\ h[a] = 0
    BY <1>2
  <2>2. SumFunction(f) = 0 /\ SumFunction(h) = 0
    <3> HIDE DEF f, h
    <3> QED BY <2>1, Finiteness, SumZero DEF SumFunction
  <2> QED BY <1>1, <2>2 DEF TotalsMatchRows, NoSettings
<1>5. Custody
  BY <1>1, ContractIsNoPerson, AmountsAssumption
     DEF Custody, NoSettings, AmountsAssumption
<1>6. StakersListed
  BY <1>2 DEF StakersListed, EmptyTable
<1>7. GrowthOnRecord
  BY <1>1 DEF GrowthOnRecord
<1>8. RowsSound
  BY <1>1, <1>2 DEF RowsSound
<1> QED BY <1>3, <1>4, <1>5, <1>6, <1>7, <1>8 DEF IInv

(* IInv in the terms of the lemmas about tables.                           *)
LEMMA IInvTables ==
  ASSUME IInv
  PROVE  /\ \A a \in Persons : IsAllocationTable(allocs[a]) /\ IsSoundTable(allocs[a])
         /\ allocs = [a \in Persons |-> allocs[a]]
         /\ settings.total_staked = AllStaked(allocs)
         /\ settings.total_releasing = AllReleasing(allocs)
         /\ settings.total_staked \in Nat /\ settings.total_releasing \in Nat
<1>1. \A a \in Persons : IsAllocationTable(allocs[a]) /\ IsSoundTable(allocs[a])
  BY DEF IInv, TypeOK, RowsSound
<1>2. /\ settings.total_staked = AllStaked(allocs)
      /\ settings.total_releasing = AllReleasing(allocs)
  BY DEF IInv, TotalsMatchRows, AllStaked, AllReleasing
<1>3. AllStaked(allocs) \in Nat /\ AllReleasing(allocs) \in Nat
  BY <1>1, AllTotals
<1>4. allocs = [a \in Persons |-> allocs[a]]
  BY DEF IInv, TypeOK
<1> QED BY <1>1, <1>2, <1>3, <1>4

LEMMA SetSettingsIInv ==
  ASSUME IInv, NEW q \in Quantities, SetSettings(q)
  PROVE  IInv'
<1> USE DEF SetSettings
<1>1. q \in Nat
  BY AmountsAssumption DEF AmountsAssumption
<1>2. settings \in Settings
  BY DEF IInv, TypeOK
<1>3. /\ settings' \in Settings
      /\ settings'.total_staked = settings.total_staked
      /\ settings'.total_releasing = settings.total_releasing
      /\ settings'.current_yield_pool = settings.current_yield_pool
  BY <1>1, <1>2 DEF Settings
<1>4. TypeOK'
  BY <1>3 DEF IInv, TypeOK
<1>5. TotalsMatchRows' /\ Custody'
  BY <1>3 DEF IInv, TotalsMatchRows, Custody
<1>6. StakersListed' /\ GrowthOnRecord' /\ RowsSound'
  BY DEF IInv, StakersListed, GrowthOnRecord, RowsSound
<1> QED BY <1>4, <1>5, <1>6 DEF IInv

LEMMA AddYieldIInv ==
  ASSUME IInv, NEW sender \in Accounts, NEW q \in Quantities, AddYield(sender, q)
  PROVE  IInv'
<1> USE DEF AddYield
<1>1. q \in Nat
  BY AmountsAssumption DEF AmountsAssumption
<1>2. settings \in Settings /\ balance \in [Accounts -> Nat]
  BY DEF IInv, TypeOK
<1>3. /\ settings' \in Settings
      /\ settings'.total_staked = settings.total_staked
      /\ settings'.total_releasing = settings.total_releasing
      /\ settings'.current_yield_pool = settings.current_yield_pool + q
  BY <1>1, <1>2 DEF Settings
<1>4. /\ balance' \in [Accounts -> Nat]
      /\ balance'[StakingTmy] = balance[StakingTmy] + q
  BY <1>1, <1>2, TransferType
<1>5. TypeOK'
  BY <1>3, <1>4 DEF IInv, TypeOK
<1>6. TotalsMatchRows'
  BY <1>3 DEF IInv, TotalsMatchRows
<1>7. Custody'
  BY <1>1, <1>2, <1>3, <1>4, ContractIsNoPerson DEF IInv, Custody, Settings
<1>8. StakersListed' /\ GrowthOnRecord' /\ RowsSound'
  BY DEF IInv, StakersListed, GrowthOnRecord, RowsSound
<1> QED BY <1>5, <1>6, <1>7, <1>8 DEF IInv

LEMMA TransferIInv ==
  ASSUME IInv, NEW from \in Payers, NEW to \in Accounts, NEW q \in Quantities,
         Transfer(from, to, q)
  PROVE  IInv'
<1> USE DEF Transfer
<1>1. q \in Nat /\ from # StakingTmy
  BY AmountsAssumption DEF AmountsAssumption
<1>2. settings \in Settings /\ balance \in [Accounts -> Nat]
  BY DEF IInv, TypeOK
<1>3. balance' \in [Accounts -> Nat] /\ balance'[StakingTmy] >= balance[StakingTmy]
  BY <1>1, <1>2, TransferType, ContractIsNoPerson
<1>4. TypeOK'
  BY <1>3 DEF IInv, TypeOK
<1>5. Custody'
  BY <1>2, <1>3, ContractIsNoPerson DEF IInv, Custody, Settings
<1>6. TotalsMatchRows' /\ StakersListed' /\ GrowthOnRecord' /\ RowsSound'
  BY DEF IInv, TotalsMatchRows, StakersListed, GrowthOnRecord, RowsSound
<1> QED BY <1>4, <1>5, <1>6 DEF IInv

LEMMA ResetAllIInv == ASSUME IInv, ResetAll PROVE IInv'
<1> USE DEF ResetAll
<1> DEFINE total == settings.total_staked + settings.total_releasing
                      + settings.current_yield_pool
<1>1. settings \in Settings /\ balance \in [Accounts -> Nat] /\ total \in Int
  BY IInvTables DEF IInv, TypeOK, Settings
<1>2. balance' \in [Accounts -> Nat]
  <2>1. CASE settings.exists
    <3>1. /\ CanTransfer(balance, StakingTmy, InfraTmy, total)
          /\ balance' = AfterTransfer(balance, StakingTmy, InfraTmy, total)
      BY <2>1
    <3> HIDE DEF total
    <3> QED BY <1>1, <3>1, TransferType
  <2>2. CASE ~settings.exists
    BY <1>1, <2>2
  <2> QED BY <2>1, <2>2
<1>3. \A a \in Persons : allocs'[a] = EmptyTable
  <2>1. ASSUME NEW a \in Persons, a \notin DOMAIN accounts
        PROVE  allocs[a] = EmptyTable
    <3>1. DOMAIN allocs[a] = {}
      BY <2>1 DEF IInv, StakersListed
    <3>2. allocs[a] = [id \in DOMAIN allocs[a] |-> allocs[a][id]]
      BY DEF IInv, TypeOK, IsAllocationTable
    <3> QED BY <3>1, <3>2 DEF EmptyTable
  <2> QED BY <2>1
<1>4. \A a \in Persons :
        /\ IsAllocationTable(allocs'[a]) /\ IsSoundTable(allocs'[a])
        /\ StakedIn(allocs'[a]) = 0 /\ ReleasingIn(allocs'[a]) = 0
  BY <1>3, EmptyTableTotals
<1>5. accounts' = EmptyTable /\ DOMAIN accounts' = {} /\ settings' = NoSettings
  BY DEF EmptyTable
<1>6. TypeOK'
  <2>1. now' \in 0 .. MaxTime
    BY DEF IInv, TypeOK
  <2>2. settings' \in Settings
    BY <1>5 DEF NoSettings, Settings
  <2>3. accounts' \in [DOMAIN accounts' -> StakingAccount]
    BY <1>5 DEF EmptyTable
  <2>4. allocs' = [a \in Persons |-> allocs'[a]]
    OBVIOUS
  <2> QED BY <1>2, <1>4, <1>5, <2>1, <2>2, <2>3, <2>4 DEF TypeOK
<1>7. TotalsMatchRows'
  <2> DEFINE f == [a \in Persons |-> StakedIn(allocs'[a])]
             h == [a \in Persons |-> ReleasingIn(allocs'[a])]
  <2>1. /\ DOMAIN f = Persons /\ DOMAIN h = Persons
        /\ \A a \in Persons : f[a] = 0 /\ h[a] = 0
    BY <1>4
  <2>2. SumFunction(f) = 0 /\ SumFunction(h) = 0
    <3> HIDE DEF f, h
    <3> QED BY <2>1, Finiteness, SumZero DEF SumFunction
  <2> QED BY <1>5, <2>2 DEF TotalsMatchRows, NoSettings
<1>8. Custody'
  BY <1>2, <1>5, ContractIsNoPerson DEF Custody, NoSettings
<1>9. StakersListed'
  BY <1>3 DEF StakersListed, EmptyTable
<1>10. GrowthOnRecord' /\ RowsSound'
  BY <1>4, <1>5 DEF GrowthOnRecord, RowsSound
<1> QED BY <1>6, <1>7, <1>8, <1>9, <1>10 DEF IInv

(* What the three handlers of a staker do to the staker's table.           *)

LEMMA StakeTable ==
  ASSUME IInv, NEW staker \in Accounts, NEW q \in Quantities,
         StakeTokens(staker, q)
  PROVE  \E u : /\ allocs' = [allocs EXCEPT ![staker] = u]
                /\ IsAllocationTable(u) /\ IsSoundTable(u)
                /\ StakedIn(u) = StakedIn(allocs[staker]) + q
                /\ ReleasingIn(u) = ReleasingIn(allocs[staker])
                /\ GrowthOf(u) = GrowthOf(allocs[staker])
<1> DEFINE t == allocs[staker]
           id == AvailablePrimaryKey(t)
           row == NewAllocation(q)
           u == WithRow(t, id, row)
<1>1. /\ q \in Nat /\ q >= MinimumTransfer /\ staker \in Persons /\ now \in Nat
      /\ allocs' = [allocs EXCEPT ![staker] = u]
  BY AmountsAssumption, PeriodsAssumption
     DEF AmountsAssumption, PeriodsAssumption, IInv, TypeOK, StakeTokens
<1>2. IsAllocationTable(t) /\ IsSoundTable(t)
  BY <1>1, IInvTables
<1>3. id \in Nat /\ id \notin DOMAIN t
  BY <1>2, FreshKey
<1>4. /\ row \in Allocation /\ ~row.unstake_requested
      /\ row.initial_stake >= MinimumTransfer /\ row.tokens_staked = row.initial_stake
      /\ row.tokens_staked = q
  BY <1>1 DEF NewAllocation, Allocation
<1> HIDE DEF t, id, row
<1>5. /\ IsAllocationTable(u) /\ IsSoundTable(u)
      /\ StakedIn(u) = StakedIn(t) + q /\ ReleasingIn(u) = ReleasingIn(t)
      /\ GrowthOf(u) = GrowthOf(t)
  BY <1>2, <1>3, <1>4, TableStake
<1> HIDE DEF u
<1> QED BY <1>1, <1>5 DEF t

LEMMA RequestTable ==
  ASSUME IInv, NEW staker \in Persons, NEW id \in DOMAIN allocs[staker],
         RequestUnstake(staker, id)
  PROVE  LET tokens == allocs[staker][id].tokens_staked
         IN  \E u : /\ allocs' = [allocs EXCEPT ![staker] = u]
                    /\ DOMAIN u = DOMAIN allocs[staker]
                    /\ IsAllocationTable(u) /\ IsSoundTable(u)
                    /\ StakedIn(u) = StakedIn(allocs[staker]) - tokens
                    /\ ReleasingIn(u) = ReleasingIn(allocs[staker]) + tokens
                    /\ GrowthOf(u) = GrowthOf(allocs[staker])
                    /\ tokens \in Nat
<1> DEFINE t == allocs[staker]
           tokens == t[id].tokens_staked
           row == Requested(t[id])
           u == [t EXCEPT ![id] = row]
<1>1. now \in Nat /\ IsAllocationTable(t) /\ IsSoundTable(t)
  BY IInvTables, PeriodsAssumption DEF PeriodsAssumption, IInv, TypeOK
<1>2. t[id] \in Allocation
  BY <1>1 DEF IsAllocationTable
<1>3. /\ row \in Allocation /\ row.unstake_requested
      /\ row.initial_stake = t[id].initial_stake
      /\ row.tokens_staked = tokens /\ tokens \in Nat
      /\ row.stake_time + LockupPeriod <= row.unstake_time
  BY <1>1, <1>2 DEF RequestUnstake, Requested, Allocation
<1>4. ~t[id].unstake_requested /\ allocs' = [allocs EXCEPT ![staker] = u]
  BY DEF RequestUnstake
<1>5. /\ IsAllocationTable(u) /\ IsSoundTable(u)
      /\ StakedIn(u) = StakedIn(t) - tokens
      /\ ReleasingIn(u) = ReleasingIn(t) + tokens
      /\ GrowthOf(u) = GrowthOf(t)
  <2> HIDE DEF row, t, u
  <2>1. id \in DOMAIN t
    BY DEF t
  <2> QED BY <1>1, <1>3, <1>4, <2>1, TableRequest DEF u
<1>6. DOMAIN u = DOMAIN t
  OBVIOUS
<1> HIDE DEF u, row
<1> QED BY <1>3, <1>4, <1>5, <1>6

LEMMA ReleaseTable ==
  ASSUME IInv, NEW staker \in Persons, NEW id \in DOMAIN allocs[staker],
         ReleaseToken(staker, id)
  PROVE  LET tokens == allocs[staker][id].tokens_staked
         IN  \E u : /\ allocs' = [allocs EXCEPT ![staker] = u]
                    /\ DOMAIN u \subseteq DOMAIN allocs[staker]
                    /\ IsAllocationTable(u) /\ IsSoundTable(u)
                    /\ StakedIn(u) = StakedIn(allocs[staker])
                    /\ ReleasingIn(u) = ReleasingIn(allocs[staker]) - tokens
                    /\ GrowthOf(u) <= GrowthOf(allocs[staker])
                    /\ tokens \in Nat
<1> DEFINE t == allocs[staker]
           tokens == t[id].tokens_staked
           u == WithoutRows(t, {id})
<1>1. /\ IsAllocationTable(t) /\ IsSoundTable(t)
      /\ t[id] \in Allocation /\ tokens \in Nat /\ id \in DOMAIN t
  BY IInvTables DEF IsAllocationTable, Allocation
<1>2. /\ allocs' = [allocs EXCEPT ![staker] = u]
      /\ t[id].unstake_requested
  BY DEF ReleaseToken, Releasable
<1> HIDE DEF t
<1>3. /\ IsAllocationTable(u) /\ IsSoundTable(u)
      /\ StakedIn(u) = StakedIn(t)
      /\ ReleasingIn(u) = ReleasingIn(t) - tokens
      /\ GrowthOf(u) <= GrowthOf(t)
  <2> DEFINE y == [k \in DOMAIN t |-> 0]
             w == Settled(t, {id}, y)
             f == [k \in DOMAIN t |-> t[k].tokens_staked]
  <2>1. \A k \in DOMAIN t : t[k] \in Allocation
    BY <1>1 DEF IsAllocationTable
  <2>2. u = w
    <3>1. \A k \in DOMAIN t \ {id} :
             Grown(t[k], y[k]) = t[k]
      BY <2>1 DEF Allocation, Grown
    <3> QED BY <3>1 DEF WithoutRows, Restrict, Settled
  <2>3. SumFunction(y) = 0
    <3>1. IsFiniteSet(DOMAIN t)
      BY <1>1 DEF IsAllocationTable
    <3>2. DOMAIN y = DOMAIN t /\ \A k \in DOMAIN t : y[k] = 0
      OBVIOUS
    <3> HIDE DEF y
    <3> QED BY <3>1, <3>2, SumZero DEF SumFunction
  <2>4. PaidFor(t, {id}) = tokens
    <3>1. f[id] = tokens /\ f[id] \in Int
      BY <1>1
    <3> HIDE DEF f, tokens
    <3> QED BY <3>1, SumSingle DEF PaidFor, f
  <2>5. /\ IsAllocationTable(w) /\ IsSoundTable(w)
        /\ StakedIn(w) = StakedIn(t) + SumFunction(y)
        /\ ReleasingIn(w) = ReleasingIn(t) - PaidFor(t, {id})
        /\ GrowthOf(w) <= GrowthOf(t) + SumFunction(y)
    <3>1. DOMAIN y = DOMAIN t /\ \A k \in DOMAIN t : y[k] \in Nat /\ y[k] = 0
      OBVIOUS
    <3>2. {id} \in SUBSET DOMAIN t /\ \A k \in {id} : t[k].unstake_requested
      BY <1>1, <1>2
    <3> HIDE DEF y
    <3> QED BY <1>1, <3>1, <3>2, TableSettled
  <2>6. StakedIn(t) \in Int /\ GrowthOf(t) \in Int
    BY <1>1, TableTotals
  <2> HIDE DEF u, w, y, f
  <2> QED BY <2>2, <2>3, <2>4, <2>5, <2>6
<1>4. DOMAIN u \subseteq DOMAIN t
  BY DEF WithoutRows, Restrict
<1> HIDE DEF u
<1> QED BY <1>1, <1>2, <1>3, <1>4 DEF t

LEMMA StakeTokensIInv ==
  ASSUME IInv, NEW staker \in Accounts, NEW q \in Quantities,
         StakeTokens(staker, q)
  PROVE  IInv'
<1> DEFINE t == allocs[staker]
<1>1. /\ q \in Nat /\ staker \in Persons /\ now \in Nat
      /\ settings \in Settings /\ balance \in [Accounts -> Nat]
  BY AmountsAssumption, PeriodsAssumption
     DEF AmountsAssumption, PeriodsAssumption, IInv, TypeOK, StakeTokens
<1>2. IsAllocationTable(t) /\ IsSoundTable(t)
  BY <1>1, IInvTables
<1>3. PICK u : /\ allocs' = [allocs EXCEPT ![staker] = u]
               /\ IsAllocationTable(u) /\ IsSoundTable(u)
               /\ StakedIn(u) = StakedIn(t) + q /\ ReleasingIn(u) = ReleasingIn(t)
               /\ GrowthOf(u) = GrowthOf(t)
  BY StakeTable
<1> HIDE DEF t
<1>4. /\ settings' = [settings EXCEPT !.total_staked = @ + q]
      /\ CanTransfer(balance, staker, StakingTmy, q)
      /\ balance' = AfterTransfer(balance, staker, StakingTmy, q)
      /\ accounts' = AccountsAfterStake(staker)
      /\ now' = now
  BY DEF StakeTokens
<1>5. /\ allocs' = [a \in Persons |-> allocs'[a]]
      /\ allocs'[staker] = u
      /\ \A a \in Persons : a # staker => allocs'[a] = allocs[a]
      /\ \A a \in Persons : IsAllocationTable(allocs'[a]) /\ IsSoundTable(allocs'[a])
      /\ AllStaked(allocs') = AllStaked(allocs) + StakedIn(u) - StakedIn(t)
      /\ AllReleasing(allocs') = AllReleasing(allocs) + ReleasingIn(u) - ReleasingIn(t)
  <2>1. \A a \in Persons : IsAllocationTable(allocs[a]) /\ IsSoundTable(allocs[a])
    BY IInvTables
  <2>2. allocs = [a \in Persons |-> allocs[a]]
    BY IInvTables
  <2> QED BY <1>1, <1>3, <2>1, <2>2, OneTableChanges DEF t
<1>6. /\ StakedIn(t) \in Int /\ ReleasingIn(t) \in Int
      /\ AllStaked(allocs) \in Int /\ AllReleasing(allocs) \in Int
  BY <1>2, TableTotals, IInvTables
<1>7. /\ settings' \in Settings
      /\ settings'.total_staked = settings.total_staked + q
      /\ settings'.total_releasing = settings.total_releasing
      /\ settings'.current_yield_pool = settings.current_yield_pool
  BY <1>1, <1>4 DEF Settings
<1>8. /\ balance' \in [Accounts -> Nat]
      /\ balance'[StakingTmy] = balance[StakingTmy] + q
  BY <1>1, <1>4, TransferType
<1>9. /\ DOMAIN accounts' = DOMAIN accounts \cup {staker}
      /\ accounts' \in [DOMAIN accounts' -> StakingAccount]
      /\ \A a \in DOMAIN accounts : accounts'[a] = accounts[a]
      /\ staker \notin DOMAIN accounts =>
            accounts'[staker] = [total_yield |-> 0, last_payout |-> now]
  <2>1. accounts \in [DOMAIN accounts -> StakingAccount]
    BY DEF IInv, TypeOK
  <2>2. CASE staker \in DOMAIN accounts
    BY <1>4, <2>1, <2>2 DEF AccountsAfterStake
  <2>3. CASE staker \notin DOMAIN accounts
    <3>1. accounts' = WithRow(accounts, staker,
                              [total_yield |-> 0, last_payout |-> now])
      BY <1>4, <2>3 DEF AccountsAfterStake
    <3>2. [total_yield |-> 0, last_payout |-> now] \in StakingAccount
      BY <1>1 DEF StakingAccount
    <3> QED BY <2>1, <2>3, <3>1, <3>2 DEF WithRow
  <2> QED BY <2>2, <2>3
<1>10. TypeOK'
  BY <1>1, <1>4, <1>5, <1>7, <1>8, <1>9 DEF IInv, TypeOK
<1>11. TotalsMatchRows'
  <2>1. /\ settings'.total_staked = AllStaked(allocs')
        /\ settings'.total_releasing = AllReleasing(allocs')
    BY <1>1, <1>3, <1>5, <1>6, <1>7, IInvTables
  <2> QED BY <2>1 DEF TotalsMatchRows, AllStaked, AllReleasing
<1>12. Custody'
  BY <1>1, <1>7, <1>8, ContractIsNoPerson DEF IInv, Custody, Settings
<1>13. StakersListed'
  BY <1>5, <1>9 DEF IInv, StakersListed
<1>14. GrowthOnRecord'
  <2>1. ASSUME NEW a \in DOMAIN accounts', a # staker
        PROVE  GrowthOf(allocs'[a]) <= accounts'[a].total_yield
    BY <1>5, <1>9, <2>1 DEF IInv, GrowthOnRecord, TypeOK
  <2>2. CASE staker \in DOMAIN accounts
    BY <1>3, <1>5, <1>9, <2>1, <2>2 DEF IInv, GrowthOnRecord, t
  <2>3. CASE staker \notin DOMAIN accounts
    <3>1. DOMAIN t = {}
      BY <1>1, <2>3 DEF IInv, StakersListed, t
    <3>2. GrowthOf(t) = 0
      BY <3>1, SumFunctionEmpty DEF GrowthOf
    <3> QED BY <1>3, <1>5, <1>9, <2>1, <2>3, <3>2 DEF GrowthOnRecord
  <2> QED BY <2>2, <2>3
<1>15. RowsSound'
  <2>1. \A a \in DOMAIN accounts' : accounts'[a].last_payout <= now'
    BY <1>1, <1>4, <1>9 DEF IInv, RowsSound
  <2> QED BY <1>4, <1>5, <2>1 DEF RowsSound
<1> QED BY <1>10, <1>11, <1>12, <1>13, <1>14, <1>15 DEF IInv

LEMMA RequestUnstakeIInv ==
  ASSUME IInv, NEW staker \in Persons, NEW id \in DOMAIN allocs[staker],
         RequestUnstake(staker, id)
  PROVE  IInv'
<1> DEFINE t == allocs[staker]
           tokens == t[id].tokens_staked
<1>1. /\ settings \in Settings /\ IsAllocationTable(t) /\ IsSoundTable(t)
  BY IInvTables DEF IInv, TypeOK
<1>2. /\ settings' = [settings EXCEPT !.total_staked = @ - tokens,
                                      !.total_releasing = @ + tokens]
      /\ now' = now /\ balance' = balance /\ accounts' = accounts
  BY DEF RequestUnstake
<1>3. PICK u : /\ allocs' = [allocs EXCEPT ![staker] = u]
               /\ DOMAIN u = DOMAIN t
               /\ IsAllocationTable(u) /\ IsSoundTable(u)
               /\ StakedIn(u) = StakedIn(t) - tokens
               /\ ReleasingIn(u) = ReleasingIn(t) + tokens
               /\ GrowthOf(u) = GrowthOf(t)
               /\ tokens \in Nat
  BY RequestTable
<1> HIDE DEF t, tokens
<1>4. /\ allocs' = [a \in Persons |-> allocs'[a]]
      /\ allocs'[staker] = u
      /\ \A a \in Persons : a # staker => allocs'[a] = allocs[a]
      /\ \A a \in Persons : IsAllocationTable(allocs'[a]) /\ IsSoundTable(allocs'[a])
      /\ AllStaked(allocs') = AllStaked(allocs) + StakedIn(u) - StakedIn(t)
      /\ AllReleasing(allocs') = AllReleasing(allocs) + ReleasingIn(u) - ReleasingIn(t)
  <2>1. \A a \in Persons : IsAllocationTable(allocs[a]) /\ IsSoundTable(allocs[a])
    BY IInvTables
  <2>2. allocs = [a \in Persons |-> allocs[a]]
    BY IInvTables
  <2>3. /\ staker \in Persons /\ IsAllocationTable(u) /\ IsSoundTable(u)
        /\ allocs' = [allocs EXCEPT ![staker] = u]
    BY <1>3
  <2> QED BY <2>1, <2>2, <2>3, OneTableChanges DEF t
<1>5. /\ StakedIn(t) \in Int /\ ReleasingIn(t) \in Int
      /\ AllStaked(allocs) \in Int /\ AllReleasing(allocs) \in Int
  BY <1>1, TableTotals, IInvTables
<1>6. /\ settings' \in Settings
      /\ settings'.total_staked = settings.total_staked - tokens
      /\ settings'.total_releasing = settings.total_releasing + tokens
      /\ settings'.current_yield_pool = settings.current_yield_pool
  <2>1. settings.total_staked \in Int /\ settings.total_releasing \in Int
    BY <1>1 DEF Settings
  <2>2. /\ settings.total_staked - tokens \in Int
        /\ settings.total_releasing + tokens \in Int
    BY <1>3, <2>1
  <2> QED BY <1>1, <1>2, <2>2 DEF Settings
<1>7. TypeOK'
  BY <1>2, <1>4, <1>6 DEF IInv, TypeOK
<1>8. TotalsMatchRows'
  <2>1. /\ settings'.total_staked = AllStaked(allocs')
        /\ settings'.total_releasing = AllReleasing(allocs')
    BY <1>3, <1>4, <1>5, <1>6, IInvTables
  <2> QED BY <2>1 DEF TotalsMatchRows, AllStaked, AllReleasing
<1>9. Custody'
  BY <1>1, <1>3, <1>2, <1>6, ContractIsNoPerson DEF IInv, Custody, Settings, TypeOK
<1>10. StakersListed'
  BY <1>3, <1>2, <1>4 DEF IInv, StakersListed, t
<1>11. GrowthOnRecord'
  BY <1>3, <1>2, <1>4 DEF IInv, GrowthOnRecord, TypeOK, t
<1>12. RowsSound'
  BY <1>2, <1>4 DEF IInv, RowsSound
<1> QED BY <1>7, <1>8, <1>9, <1>10, <1>11, <1>12 DEF IInv

LEMMA ReleaseTokenIInv ==
  ASSUME IInv, NEW staker \in Persons, NEW id \in DOMAIN allocs[staker],
         ReleaseToken(staker, id)
  PROVE  IInv'
<1> DEFINE t == allocs[staker]
           tokens == t[id].tokens_staked
<1>1. /\ settings \in Settings /\ now \in Nat /\ balance \in [Accounts -> Nat]
      /\ IsAllocationTable(t) /\ IsSoundTable(t)
      /\ t[id] \in Allocation /\ tokens \in Nat /\ id \in DOMAIN t
  BY IInvTables, PeriodsAssumption
     DEF PeriodsAssumption, IInv, TypeOK, IsAllocationTable, Allocation
<1>2. /\ settings' = [settings EXCEPT !.total_releasing = @ - tokens]
      /\ CanTransfer(balance, StakingTmy, staker, tokens)
      /\ balance' = AfterTransfer(balance, StakingTmy, staker, tokens)
      /\ now' = now /\ accounts' = accounts
  BY DEF ReleaseToken
<1>3. PICK u : /\ allocs' = [allocs EXCEPT ![staker] = u]
               /\ DOMAIN u \subseteq DOMAIN t
               /\ IsAllocationTable(u) /\ IsSoundTable(u)
               /\ StakedIn(u) = StakedIn(t)
               /\ ReleasingIn(u) = ReleasingIn(t) - tokens
               /\ GrowthOf(u) <= GrowthOf(t)
  BY ReleaseTable
<1> HIDE DEF t
<1>4. /\ allocs' = [a \in Persons |-> allocs'[a]]
      /\ allocs'[staker] = u
      /\ \A a \in Persons : a # staker => allocs'[a] = allocs[a]
      /\ \A a \in Persons : IsAllocationTable(allocs'[a]) /\ IsSoundTable(allocs'[a])
      /\ AllStaked(allocs') = AllStaked(allocs) + StakedIn(u) - StakedIn(t)
      /\ AllReleasing(allocs') = AllReleasing(allocs) + ReleasingIn(u) - ReleasingIn(t)
  <2>1. \A a \in Persons : IsAllocationTable(allocs[a]) /\ IsSoundTable(allocs[a])
    BY IInvTables
  <2>2. allocs = [a \in Persons |-> allocs[a]]
    BY IInvTables
  <2>3. /\ staker \in Persons /\ IsAllocationTable(u) /\ IsSoundTable(u)
        /\ allocs' = [allocs EXCEPT ![staker] = u]
    BY <1>3
  <2> QED BY <2>1, <2>2, <2>3, OneTableChanges DEF t
<1>5. /\ StakedIn(t) \in Int /\ ReleasingIn(t) \in Int
      /\ GrowthOf(t) \in Int /\ GrowthOf(u) \in Int
      /\ AllStaked(allocs) \in Int /\ AllReleasing(allocs) \in Int
  BY <1>1, <1>3, TableTotals, IInvTables
<1>6. /\ settings' \in Settings
      /\ settings'.total_staked = settings.total_staked
      /\ settings'.total_releasing = settings.total_releasing - tokens
      /\ settings'.current_yield_pool = settings.current_yield_pool
  BY <1>1, <1>2 DEF Settings
<1>7. /\ balance' \in [Accounts -> Nat]
      /\ balance'[StakingTmy] = balance[StakingTmy] - tokens
  <2> HIDE DEF tokens
  <2> QED BY <1>1, <1>2, TransferType
<1>8. TypeOK'
  BY <1>2, <1>4, <1>6, <1>7 DEF IInv, TypeOK
<1>9. TotalsMatchRows'
  <2>1. /\ settings'.total_staked = AllStaked(allocs')
        /\ settings'.total_releasing = AllReleasing(allocs')
    BY <1>1, <1>3, <1>4, <1>5, <1>6, IInvTables
  <2> QED BY <2>1 DEF TotalsMatchRows, AllStaked, AllReleasing
<1>10. Custody'
  BY <1>1, <1>6, <1>7, ContractIsNoPerson DEF IInv, Custody, Settings
<1>11. StakersListed'
  <2> QED BY <1>2, <1>3, <1>4 DEF IInv, StakersListed, t
<1>12. GrowthOnRecord'
  <2>0. accounts \in [DOMAIN accounts -> StakingAccount]
    BY DEF IInv, TypeOK
  <2>1. \A a \in DOMAIN accounts : /\ a \in Persons
                                   /\ accounts[a].total_yield \in Int
                                   /\ GrowthOf(allocs[a]) <= accounts[a].total_yield
    BY <2>0 DEF IInv, TypeOK, StakingAccount, GrowthOnRecord
  <2>2. ASSUME NEW a \in DOMAIN accounts
        PROVE  GrowthOf(allocs'[a]) <= accounts[a].total_yield
    <3>1. CASE a = staker
      <4>1. \A x, y, z \in Int : x <= y /\ y <= z => x <= z
        OBVIOUS
      <4>2. GrowthOf(t) <= accounts[a].total_yield
        BY <2>1, <3>1 DEF t
      <4> QED BY <1>3, <1>4, <1>5, <2>1, <3>1, <4>1, <4>2
    <3>2. CASE a # staker
      BY <1>4, <2>1, <3>2
    <3> QED BY <3>1, <3>2
  <2> QED BY <1>2, <2>2 DEF GrowthOnRecord
<1>13. RowsSound'
  BY <1>2, <1>4 DEF IInv, RowsSound
<1> QED BY <1>8, <1>9, <1>10, <1>11, <1>12, <1>13 DEF IInv
----------------------------------------------------------------------------
(* cron.                                                                   *)

LEMMA YieldNat ==
  ASSUME IInv, NEW tokens \in Nat, NEW elapsed \in Nat
  PROVE  IntervalYield(tokens, Apy, elapsed) \in Nat
<1>1. Apy.num \in Nat /\ Apy.den \in Nat \ {0}
  <2>1. settings.yearly_stake_pool \in Nat /\ settings.total_staked \in Nat
    BY IInvTables DEF IInv, TypeOK, Settings
  <2> QED BY <2>1 DEF Apy
<1>2. Year \in Nat \ {0}
  BY PeriodsAssumption DEF PeriodsAssumption
<1>3. \A x, y \in Nat : x * y \in Nat
  OBVIOUS
<1>4. \A x, y \in Nat \ {0} : x * y \in Nat \ {0}
  OBVIOUS
<1>5. \A x \in Nat, y \in Nat \ {0} : x \div y \in Nat
  OBVIOUS
<1>6. tokens * Apy.num * elapsed \in Nat
  BY <1>1, <1>3
<1>7. Apy.den * Year \in Nat \ {0}
  BY <1>1, <1>2, <1>4
<1> QED BY <1>5, <1>6, <1>7 DEF IntervalYield

(* What cron does to the table of an account that it reaches.              *)
LEMMA CronTable ==
  ASSUME IInv, NEW t \in Nat, now <= t, NEW a \in Processed(t)
  PROVE  /\ a \in Persons /\ a \in DOMAIN accounts
         /\ IsAllocationTable(RowsAfterCron(a, t))
         /\ IsSoundTable(RowsAfterCron(a, t))
         /\ DOMAIN RowsAfterCron(a, t) = DOMAIN allocs[a] \ Released(a, t)
         /\ StakedIn(RowsAfterCron(a, t))
               = StakedIn(allocs[a]) + AccountYield(a, t)
         /\ ReleasingIn(RowsAfterCron(a, t))
               = ReleasingIn(allocs[a]) - AccountRelease(a, t)
         /\ GrowthOf(RowsAfterCron(a, t))
               <= GrowthOf(allocs[a]) + AccountYield(a, t)
         /\ AccountYield(a, t) \in Nat
         /\ AccountRelease(a, t) \in Nat
<1> DEFINE rows == allocs[a]
           R == Released(a, t)
           y == [id \in DOMAIN rows |-> RowYield(a, rows[id], t)]
           u == Settled(rows, R, y)
<1>1. a \in Persons /\ a \in DOMAIN accounts
  BY DEF Processed, Batch, NameRange
<1>2. IsAllocationTable(rows) /\ IsSoundTable(rows)
  BY <1>1, IInvTables
<1>3. \A id \in DOMAIN rows : rows[id] \in Allocation
  BY <1>2 DEF IsAllocationTable
<1>4. t - accounts[a].last_payout \in Nat
  <2>1. accounts \in [DOMAIN accounts -> StakingAccount] /\ now \in Nat
    BY PeriodsAssumption DEF PeriodsAssumption, IInv, TypeOK
  <2>2. accounts[a].last_payout \in Nat /\ accounts[a].last_payout <= now
    BY <1>1, <2>1 DEF IInv, RowsSound, StakingAccount
  <2> QED BY <2>1, <2>2
<1>5. \A id \in DOMAIN rows : /\ y[id] \in Nat
                              /\ rows[id].unstake_requested => y[id] = 0
  <2>1. \A id \in DOMAIN rows : y[id] = RowYield(a, rows[id], t)
    OBVIOUS
  <2>2. \A id \in DOMAIN rows :
          IntervalYield(rows[id].tokens_staked, Apy,
                        t - accounts[a].last_payout) \in Nat
    BY <1>3, <1>4, YieldNat DEF Allocation
  <2> HIDE DEF y
  <2> QED BY <2>1, <2>2 DEF RowYield
<1>6. R \in SUBSET DOMAIN rows /\ \A id \in R : rows[id].unstake_requested
  BY DEF Released, Releasable
<1>7. DOMAIN y = DOMAIN rows
  OBVIOUS
<1>8. /\ RowsAfterCron(a, t) = u
      /\ AccountYield(a, t) = SumFunction(y)
      /\ AccountRelease(a, t) = PaidFor(rows, R)
      /\ DOMAIN u = DOMAIN rows \ R
  BY DEF RowsAfterCron, AccountYield, AccountRelease, Settled, PaidFor
<1>9. /\ IsAllocationTable(u) /\ IsSoundTable(u)
      /\ StakedIn(u) = StakedIn(rows) + SumFunction(y)
      /\ ReleasingIn(u) = ReleasingIn(rows) - PaidFor(rows, R)
      /\ GrowthOf(u) <= GrowthOf(rows) + SumFunction(y)
      /\ SumFunction(y) \in Nat
      /\ PaidFor(rows, R) \in Nat
  <2>1. R \in SUBSET DOMAIN rows
    BY <1>6
  <2>2. \A id \in R : rows[id].unstake_requested
    BY <1>6
  <2> HIDE DEF rows, R, y
  <2> QED BY <1>2, <1>5, <2>1, <2>2, <1>7, TableSettled
<1> HIDE DEF u, y, R
<1> QED BY <1>1, <1>8, <1>9 DEF R

(* The batch: its yield goes into the staked rows of all persons, and its  *)
(* releases come out of their rows in release.                             *)
LEMMA CronTotals ==
  ASSUME IInv, NEW t \in Nat, now <= t,
         allocs' = [a \in Persons |-> IF a \in Processed(t)
                                     THEN RowsAfterCron(a, t) ELSE allocs[a]]
  PROVE  /\ AllStaked(allocs') = AllStaked(allocs) + BatchYield(t)
         /\ AllReleasing(allocs') = AllReleasing(allocs) - BatchRelease(t)
         /\ BatchYield(t) \in Nat /\ BatchRelease(t) \in Nat
         /\ Processed(t) \subseteq Persons
         /\ \A a \in Persons : IsAllocationTable(allocs'[a]) /\ IsSoundTable(allocs'[a])
<1> DEFINE P == Processed(t)
           fy == [a \in P |-> AccountYield(a, t)]
           fr == [a \in P |-> AccountRelease(a, t)]
           y == [a \in Persons |-> IF a \in P THEN AccountYield(a, t) ELSE 0]
           r == [a \in Persons |-> IF a \in P THEN AccountRelease(a, t) ELSE 0]
           s0 == [a \in Persons |-> StakedIn(allocs[a])]
           s1 == [a \in Persons |-> StakedIn(allocs'[a])]
           r0 == [a \in Persons |-> ReleasingIn(allocs[a])]
           r1 == [a \in Persons |-> ReleasingIn(allocs'[a])]
<1>1. P \subseteq Persons
  BY DEF Processed, Batch, NameRange
<1>2. \A a \in P : AccountYield(a, t) \in Nat /\ AccountRelease(a, t) \in Nat
  BY CronTable
<1>3. /\ DOMAIN fy = P /\ \A a \in P : fy[a] = AccountYield(a, t)
      /\ DOMAIN fr = P /\ \A a \in P : fr[a] = AccountRelease(a, t)
  OBVIOUS
<1>4. IsFiniteSet(P) /\ IsFiniteSet(Persons)
  BY <1>1, Finiteness, FS_Subset
<1>5. SumFunction(fy) \in Nat /\ SumFunction(fr) \in Nat
  <2> HIDE DEF fy, fr, P
  <2> QED BY <1>2, <1>3, <1>4, SumFunctionNat
<1>6. /\ DOMAIN y = Persons
      /\ \A a \in Persons : y[a] \in Int
      /\ \A a \in Persons \ P : y[a] = 0
      /\ \A a \in P : fy[a] = y[a]
      /\ DOMAIN r = Persons
      /\ \A a \in Persons : r[a] \in Int
      /\ \A a \in Persons \ P : r[a] = 0
      /\ \A a \in P : fr[a] = r[a]
  <2> HIDE DEF P
  <2> QED BY <1>1, <1>2
<1>7. SumFunction(y) = SumFunction(fy) /\ SumFunction(r) = SumFunction(fr)
  <2> HIDE DEF y, r, fy, fr, P
  <2> QED BY <1>1, <1>3, <1>4, <1>6, SumFunctionSupport
<1>8. ASSUME NEW a \in Persons
      PROVE  /\ IsAllocationTable(allocs'[a]) /\ IsSoundTable(allocs'[a])
             /\ StakedIn(allocs'[a]) = StakedIn(allocs[a]) + y[a]
             /\ ReleasingIn(allocs[a]) = ReleasingIn(allocs'[a]) + r[a]
             /\ StakedIn(allocs[a]) \in Int /\ ReleasingIn(allocs'[a]) \in Int
  <2>1. IsAllocationTable(allocs[a]) /\ IsSoundTable(allocs[a])
    BY IInvTables
  <2>2. StakedIn(allocs[a]) \in Int /\ ReleasingIn(allocs[a]) \in Int
    BY <2>1, TableTotals
  <2>3. CASE a \in P
    <3>1. allocs'[a] = RowsAfterCron(a, t) /\ y[a] = AccountYield(a, t)
             /\ r[a] = AccountRelease(a, t)
      BY <2>3
    <3>2. IsAllocationTable(allocs'[a]) /\ IsSoundTable(allocs'[a])
      BY <2>3, <3>1, CronTable
    <3>3. ReleasingIn(allocs'[a]) \in Int
      BY <3>2, TableTotals
    <3>4. /\ StakedIn(allocs'[a]) = StakedIn(allocs[a]) + y[a]
          /\ ReleasingIn(allocs'[a]) = ReleasingIn(allocs[a]) - r[a]
          /\ r[a] \in Int
      <4>1. /\ StakedIn(RowsAfterCron(a, t))
                 = StakedIn(allocs[a]) + AccountYield(a, t)
            /\ ReleasingIn(RowsAfterCron(a, t))
                 = ReleasingIn(allocs[a]) - AccountRelease(a, t)
        BY <2>3, CronTable
      <4>2. AccountRelease(a, t) \in Int
        BY <2>3, <1>2
      <4> HIDE DEF r, y
      <4> QED BY <3>1, <4>1, <4>2, Zenon
    <3> HIDE DEF r, y
    <3> QED BY <2>2, <3>2, <3>3, <3>4
  <2>4. CASE a \notin P
    <3>1. allocs'[a] = allocs[a] /\ y[a] = 0 /\ r[a] = 0
      BY <2>4
    <3> HIDE DEF y, r
    <3> QED BY <2>1, <2>2, <3>1
  <2> QED BY <2>3, <2>4
<1>9. SumFunction(s1) = SumFunction(s0) + SumFunction(y)
  <2>1. /\ DOMAIN s0 = Persons /\ DOMAIN s1 = Persons
        /\ \A a \in Persons : s0[a] \in Int /\ s1[a] = s0[a] + y[a]
    <3> HIDE DEF y
    <3> QED BY <1>8
  <2> HIDE DEF s0, s1, y
  <2> QED BY <1>4, <1>6, <2>1, SumFunctionPlus
<1>10. SumFunction(r0) = SumFunction(r1) + SumFunction(r)
  <2>1. /\ DOMAIN r0 = Persons /\ DOMAIN r1 = Persons
        /\ \A a \in Persons : r1[a] \in Int /\ r0[a] = r1[a] + r[a]
    <3> HIDE DEF r
    <3> QED BY <1>8
  <2> HIDE DEF r0, r1, r
  <2> QED BY <1>4, <1>6, <2>1, SumFunctionPlus
<1>11. SumFunction(r1) \in Int
  <2>1. DOMAIN r1 = Persons /\ \A a \in Persons : r1[a] \in Int
    BY <1>8
  <2> HIDE DEF r1
  <2> QED BY <1>4, <2>1, SumFunctionInt
<1>12. BatchYield(t) = SumFunction(fy) /\ BatchRelease(t) = SumFunction(fr)
  BY DEF BatchYield, BatchRelease
<1>13. /\ AllStaked(allocs') = SumFunction(s1) /\ AllStaked(allocs) = SumFunction(s0)
       /\ AllReleasing(allocs') = SumFunction(r1)
       /\ AllReleasing(allocs) = SumFunction(r0)
  BY DEF AllStaked, AllReleasing
<1>14. \A x, p, q \in Int : x = p + q => p = x - q
  OBVIOUS
<1> HIDE DEF s0, s1, r0, r1, y, r, fy, fr, P
<1>15. AllReleasing(allocs') = AllReleasing(allocs) - BatchRelease(t)
  <2>1. SumFunction(fr) \in Int
    BY <1>5
  <2> QED BY <1>7, <1>10, <1>11, <1>12, <1>13, <2>1
<1> QED BY <1>1, <1>5, <1>7, <1>8, <1>9, <1>12, <1>13, <1>15 DEF P
LEMMA CronIInv ==
  ASSUME IInv, NEW t \in 0 .. MaxTime, now <= t, now' = t, Cron(t)
  PROVE  IInv'
<1>0. t \in Nat /\ now \in Nat
  BY PeriodsAssumption DEF PeriodsAssumption, IInv, TypeOK
<1>1. allocs' = [a \in Persons |-> IF a \in Processed(t)
                                   THEN RowsAfterCron(a, t) ELSE allocs[a]]
  BY DEF Cron
<1>2. /\ AllStaked(allocs') = AllStaked(allocs) + BatchYield(t)
      /\ AllReleasing(allocs') = AllReleasing(allocs) - BatchRelease(t)
      /\ BatchYield(t) \in Nat /\ BatchRelease(t) \in Nat
      /\ Processed(t) \subseteq Persons
      /\ \A a \in Persons : IsAllocationTable(allocs'[a]) /\ IsSoundTable(allocs'[a])
  BY <1>0, <1>1, CronTotals
<1>3. /\ settings \in Settings
      /\ settings.total_staked \in Int /\ settings.total_releasing \in Int
      /\ settings.current_yield_pool \in Int
      /\ balance \in [Accounts -> Nat]
      /\ accounts \in [DOMAIN accounts -> StakingAccount]
      /\ DOMAIN accounts \subseteq Persons
  BY DEF IInv, TypeOK, Settings
<1>4. /\ settings' \in Settings
      /\ settings'.total_staked = settings.total_staked + BatchYield(t)
      /\ settings'.total_releasing = settings.total_releasing - BatchRelease(t)
      /\ settings'.current_yield_pool = settings.current_yield_pool - BatchYield(t)
  <2>1. settings' = [settings EXCEPT !.total_staked = @ + BatchYield(t),
                                     !.current_yield_pool = @ - BatchYield(t),
                                     !.total_releasing = @ - BatchRelease(t)]
    BY DEF Cron
  <2>2. /\ settings.total_staked + BatchYield(t) \in Int
        /\ settings.total_releasing - BatchRelease(t) \in Int
        /\ settings.current_yield_pool - BatchYield(t) \in Int
    BY <1>2, <1>3
  <2> QED BY <1>3, <2>1, <2>2 DEF Settings
<1>5. /\ balance' \in [Accounts -> Nat]
      /\ balance'[StakingTmy] = balance[StakingTmy] - BatchRelease(t)
  <2>1. balance' = [a \in Accounts |->
                      IF a \in Processed(t) THEN balance[a] + AccountRelease(a, t)
                      ELSE IF a = StakingTmy THEN balance[a] - BatchRelease(t)
                      ELSE balance[a]]
    BY DEF Cron
  <2>2. BatchRelease(t) <= balance[StakingTmy]
    BY DEF Cron, CronSucceeds
  <2>3. StakingTmy \in Accounts /\ StakingTmy \notin Processed(t)
    BY <1>2, ContractIsNoPerson
  <2>4. ASSUME NEW a \in Accounts PROVE balance'[a] \in Nat
    <3>1. CASE a \in Processed(t)
      <4>1. AccountRelease(a, t) \in Nat
        BY <1>0, <3>1, CronTable
      <4> QED BY <1>3, <2>1, <3>1, <4>1
    <3>2. CASE a \notin Processed(t)
      BY <1>2, <1>3, <2>1, <2>2, <3>2
    <3> QED BY <3>1, <3>2
  <2>5. balance' = [a \in Accounts |-> balance'[a]]
    BY <2>1
  <2>6. balance'[StakingTmy] = balance[StakingTmy] - BatchRelease(t)
    BY <2>1, <2>3
  <2> QED BY <2>4, <2>5, <2>6
<1>6. /\ DOMAIN accounts' = DOMAIN accounts
      /\ accounts' = [a \in DOMAIN accounts |-> accounts'[a]]
      /\ \A a \in DOMAIN accounts : a \notin Processed(t) => accounts'[a] = accounts[a]
      /\ \A a \in DOMAIN accounts : a \in Processed(t) =>
           accounts'[a] = IF AccountYield(a, t) # 0
                          THEN [total_yield |-> accounts[a].total_yield
                                                  + AccountYield(a, t),
                                last_payout |-> t]
                          ELSE accounts[a]
  BY DEF Cron
<1>7. ASSUME NEW a \in DOMAIN accounts
      PROVE  /\ accounts'[a] \in StakingAccount
             /\ accounts'[a].last_payout <= t
             /\ GrowthOf(allocs'[a]) <= accounts'[a].total_yield
  <2>0. /\ accounts[a] \in StakingAccount /\ a \in Persons
        /\ accounts[a].total_yield \in Nat /\ accounts[a].last_payout \in Nat
        /\ accounts[a].last_payout <= now
        /\ GrowthOf(allocs[a]) <= accounts[a].total_yield
    BY <1>3 DEF IInv, RowsSound, GrowthOnRecord, StakingAccount
  <2>1. CASE a \notin Processed(t)
    <3>1. allocs'[a] = allocs[a]
      BY <1>1, <2>0, <2>1
    <3>2. accounts'[a] = accounts[a]
      BY <1>6, <2>1
    <3> QED BY <1>0, <2>0, <3>1, <3>2
  <2>2. CASE a \in Processed(t)
    <3>1. allocs'[a] = RowsAfterCron(a, t)
      BY <1>1, <2>0, <2>2
    <3>2. /\ GrowthOf(allocs'[a]) <= GrowthOf(allocs[a]) + AccountYield(a, t)
          /\ AccountYield(a, t) \in Nat
      BY <1>0, <2>2, <3>1, CronTable
    <3>3. GrowthOf(allocs[a]) \in Int /\ GrowthOf(allocs'[a]) \in Int
      BY <1>2, <2>0, IInvTables, TableTotals
    <3>4. CASE AccountYield(a, t) = 0
      <4>1. accounts'[a] = accounts[a]
        BY <1>6, <2>2, <3>4
      <4> QED BY <1>0, <2>0, <3>2, <3>3, <3>4, <4>1
    <3>5. CASE AccountYield(a, t) # 0
      <4>1. accounts'[a] = [total_yield |-> accounts[a].total_yield
                                              + AccountYield(a, t),
                            last_payout |-> t]
        BY <1>6, <2>2, <3>5
      <4>2. accounts[a].total_yield + AccountYield(a, t) \in Nat
        BY <2>0, <3>2
      <4>3. accounts'[a] \in StakingAccount /\ accounts'[a].last_payout <= t
        BY <1>0, <4>1, <4>2 DEF StakingAccount
      <4>4. GrowthOf(allocs'[a]) <= accounts[a].total_yield + AccountYield(a, t)
        BY <2>0, <3>2, <3>3
      <4> QED BY <4>1, <4>3, <4>4
    <3> QED BY <3>4, <3>5
  <2> QED BY <2>1, <2>2
<1>8. TypeOK'
  <2>1. allocs' = [a \in Persons |-> allocs'[a]]
    BY <1>1
  <2>2. accounts' \in [DOMAIN accounts' -> StakingAccount]
    BY <1>6, <1>7
  <2> QED BY <1>2, <1>3, <1>4, <1>5, <1>6, <2>1, <2>2 DEF TypeOK
<1>9. TotalsMatchRows'
  <2>1. /\ settings'.total_staked = AllStaked(allocs')
        /\ settings'.total_releasing = AllReleasing(allocs')
    BY <1>2, <1>4, IInvTables
  <2> QED BY <2>1 DEF TotalsMatchRows, AllStaked, AllReleasing
<1>10. Custody'
  <2>1. balance[StakingTmy] \in Int
    BY <1>3, ContractIsNoPerson
  <2> QED BY <1>2, <1>3, <1>4, <1>5, <2>1 DEF IInv, Custody
<1>11. StakersListed'
  <2>1. ASSUME NEW a \in Persons, DOMAIN allocs'[a] # {}
        PROVE  a \in DOMAIN accounts
    <3>1. CASE a \in Processed(t)
      BY <1>0, <3>1, CronTable
    <3>2. CASE a \notin Processed(t)
      BY <1>1, <2>1, <3>2 DEF IInv, StakersListed
    <3> QED BY <3>1, <3>2
  <2> QED BY <1>6, <2>1 DEF StakersListed
<1>12. GrowthOnRecord'
  BY <1>6, <1>7 DEF GrowthOnRecord
<1>13. RowsSound'
  BY <1>2, <1>6, <1>7 DEF RowsSound
<1> QED BY <1>8, <1>9, <1>10, <1>11, <1>12, <1>13 DEF IInv

LEMMA CronByHandIInv == ASSUME IInv, CronByHand PROVE IInv'
<1>1. now \in 0 .. MaxTime /\ now <= now
  BY DEF IInv, TypeOK
<1> QED BY <1>1, CronIInv DEF CronByHand

LEMMA BlockIInv == ASSUME IInv, Block PROVE IInv'
<1>1. now \in 0 .. MaxTime
  BY DEF IInv, TypeOK
<1>2. PICK t \in now + 1 .. now + 1 + MaxMissed :
        /\ t <= MaxTime
        /\ now' = t
        /\ \/ FirstOfPeriod(t) /\ Cron(t)
           \/ /\ ~(FirstOfPeriod(t) /\ CronSucceeds(t))
              /\ UNCHANGED <<balance, settings, accounts, allocs>>
  BY DEF Block
<1>3. t \in 0 .. MaxTime /\ now <= t
  BY <1>1, <1>2, PeriodsAssumption DEF PeriodsAssumption
<1>4. CASE Cron(t)
  BY <1>2, <1>3, <1>4, CronIInv
<1>5. CASE UNCHANGED <<balance, settings, accounts, allocs>>
  <2>1. TypeOK'
    BY <1>2, <1>3, <1>5 DEF IInv, TypeOK
  <2>2. TotalsMatchRows' /\ Custody' /\ StakersListed' /\ GrowthOnRecord'
    BY <1>5 DEF IInv, TotalsMatchRows, Custody, StakersListed, GrowthOnRecord
  <2>3. RowsSound'
    <3>1. accounts \in [DOMAIN accounts -> StakingAccount]
      BY DEF IInv, TypeOK
    <3>2. \A a \in DOMAIN accounts : /\ accounts[a].last_payout \in Nat
                                     /\ accounts[a].last_payout <= now
      BY <3>1 DEF IInv, RowsSound, StakingAccount
    <3> QED BY <1>1, <1>2, <1>3, <1>5, <3>2 DEF IInv, RowsSound
  <2> QED BY <2>1, <2>2, <2>3 DEF IInv
<1> QED BY <1>2, <1>4, <1>5

LEMMA NextIInv == IInv /\ [Next]_vars => IInv'
<1> SUFFICES ASSUME IInv, [Next]_vars PROVE IInv'
  OBVIOUS
<1>1. CASE \E q \in Quantities : SetSettings(q)
  BY <1>1, SetSettingsIInv
<1>2. CASE \E a \in Accounts, q \in Quantities : AddYield(a, q)
  BY <1>2, AddYieldIInv
<1>3. CASE \E a \in Accounts, q \in Quantities : StakeTokens(a, q)
  BY <1>3, StakeTokensIInv
<1>4. CASE \E a \in Persons : \E id \in DOMAIN allocs[a] : RequestUnstake(a, id)
  BY <1>4, RequestUnstakeIInv
<1>5. CASE \E a \in Persons : \E id \in DOMAIN allocs[a] : ReleaseToken(a, id)
  BY <1>5, ReleaseTokenIInv
<1>6. CASE \E a \in Payers, b \in Accounts, q \in Quantities : Transfer(a, b, q)
  BY <1>6, TransferIInv
<1>7. CASE ResetAll
  BY <1>7, ResetAllIInv
<1>8. CASE CronByHand
  BY <1>8, CronByHandIInv
<1>9. CASE Block
  BY <1>9, BlockIInv
<1>10. CASE UNCHANGED vars
  BY <1>10 DEF vars, IInv, TypeOK, TotalsMatchRows, Custody, StakersListed,
                GrowthOnRecord, RowsSound
<1> QED
  BY <1>1, <1>2, <1>3, <1>4, <1>5, <1>6, <1>7, <1>8, <1>9, <1>10
     DEF Next, Call

(* The invariant holds in every reachable state.                           *)
THEOREM Invariance == Spec => []IInv
BY InitIInv, NextIInv, PTL DEF Spec

(* The state variables have their types (staking.tmy.hpp:119-159).         *)
THEOREM TypeCorrect == Spec => []TypeOK
BY Invariance, PTL DEF IInv

(* The totals in the settings are the sums over the allocation rows.       *)
THEOREM TotalsCorrect == Spec => []TotalsMatchRows
BY Invariance, PTL DEF IInv

(* The contract's balance covers its books.                                *)
THEOREM CustodyHeld == Spec => []Custody
BY Invariance, PTL DEF IInv

(* cron's walk over the accounts table reaches every allocation.           *)
THEOREM EveryStakerListed == Spec => []StakersListed
BY Invariance, PTL DEF IInv

(* All growth of a staker's rows is on record as yield.                    *)
THEOREM GrowthRecorded == Spec => []GrowthOnRecord
BY Invariance, PTL DEF IInv

(* A release that is due can be paid while the pool is not overdrawn:      *)
(* the row is part of total_releasing, which the balance covers.           *)
LEMMA IInvPayable == IInv => DueReleasePayable
<1> SUFFICES ASSUME IInv, settings.current_yield_pool >= 0,
                    NEW a \in Persons, NEW id \in Released(a, now)
             PROVE  CanTransfer(balance, StakingTmy, a, allocs[a][id].tokens_staked)
  BY DEF DueReleasePayable
<1> DEFINE t == allocs[a]
           tokens == t[id].tokens_staked
           f == [k \in DOMAIN t |-> IF t[k].unstake_requested
                                    THEN t[k].tokens_staked ELSE 0]
<1>1. IsAllocationTable(t) /\ IsSoundTable(t)
  BY IInvTables
<1>2. id \in DOMAIN t /\ t[id].unstake_requested
  BY DEF Released, Releasable
<1>3. \A k \in DOMAIN t : t[k] \in Allocation
  BY <1>1 DEF IsAllocationTable
<1>4. tokens \in Nat /\ tokens > 0
  <2>1. MinimumTransfer \in Nat \ {0}
    BY AmountsAssumption DEF AmountsAssumption
  <2>2. /\ t[id].initial_stake \in Nat /\ tokens \in Nat
        /\ t[id].initial_stake >= MinimumTransfer
        /\ tokens >= t[id].initial_stake
    BY <1>1, <1>2, <1>3 DEF IsSoundTable, Allocation
  <2> HIDE DEF tokens
  <2> QED BY <2>1, <2>2
<1>5. tokens <= ReleasingIn(t)
  <2>1. DOMAIN f = DOMAIN t /\ \A k \in DOMAIN t : f[k] \in Nat
    BY <1>3 DEF Allocation
  <2>2. IsFiniteSet(DOMAIN t)
    BY <1>1 DEF IsAllocationTable
  <2>3. f[id] = tokens
    BY <1>2
  <2>4. SumFunction(f) = ReleasingIn(t)
    BY DEF ReleasingIn
  <2> HIDE DEF f, t, tokens
  <2> QED BY <1>2, <2>1, <2>2, <2>3, <2>4, SumFunctionNat
<1>6. ReleasingIn(t) <= settings.total_releasing
  <2>1. \A b \in Persons : IsAllocationTable(allocs[b]) /\ IsSoundTable(allocs[b])
    BY IInvTables
  <2>2. ReleasingIn(t) <= AllReleasing(allocs)
    BY <2>1, AllTotals
  <2> QED BY <2>2, IInvTables
<1>7. /\ settings.total_staked \in Nat /\ settings.total_releasing \in Nat
      /\ settings.current_yield_pool \in Int
      /\ balance \in [Accounts -> Nat]
  BY IInvTables DEF IInv, TypeOK, Settings
<1>8. balance[StakingTmy] >= settings.total_releasing
  BY <1>7, ContractIsNoPerson DEF IInv, Custody
<1>9. ReleasingIn(t) \in Nat /\ balance[StakingTmy] \in Nat
  BY <1>1, <1>7, TableTotals, ContractIsNoPerson
<1>10. StakingTmy # a /\ StakingTmy \in DOMAIN balance /\ a \in DOMAIN balance
  BY <1>7, ContractIsNoPerson
<1> HIDE DEF tokens, t
<1>11. tokens <= balance[StakingTmy]
  BY <1>4, <1>5, <1>6, <1>7, <1>8, <1>9
<1> QED BY <1>4, <1>10, <1>11 DEF CanTransfer, tokens, t

THEOREM DueReleasesPayable == Spec => []DueReleasePayable
BY Invariance, IInvPayable, PTL
----------------------------------------------------------------------------
(* What a step may never do.                                               *)

(* A row whose release is due went through the lockup and the release.     *)
LEMMA RowsErased ==
  ASSUME IInv, NEW a \in Persons, NEW ids \in SUBSET DOMAIN allocs[a],
         NEW t \in Nat, \A id \in ids : Releasable(allocs[a][id], t)
  PROVE  \A id \in ids :
           /\ allocs[a][id].unstake_requested
           /\ allocs[a][id].stake_time + LockupPeriod + ReleasePeriod <= t
<1> SUFFICES ASSUME NEW id \in ids
             PROVE  /\ allocs[a][id].unstake_requested
                    /\ allocs[a][id].stake_time + LockupPeriod + ReleasePeriod <= t
  OBVIOUS
<1> DEFINE row == allocs[a][id]
<1>1. /\ row \in Allocation
      /\ row.unstake_requested => row.stake_time + LockupPeriod <= row.unstake_time
  BY IInvTables DEF IsAllocationTable, IsSoundTable
<1>2. row.unstake_requested /\ row.unstake_time + ReleasePeriod <= t
  BY DEF Releasable
<1>3. row.stake_time \in Nat /\ row.unstake_time \in Nat
  BY <1>1 DEF Allocation
<1>4. LockupPeriod \in Nat /\ ReleasePeriod \in Nat
  BY PeriodsAssumption DEF PeriodsAssumption
<1> HIDE DEF row
<1>5. row.stake_time + LockupPeriod + ReleasePeriod <= t
  BY <1>1, <1>2, <1>3, <1>4
<1> QED BY <1>2, <1>5 DEF row

LEMMA CronSteps ==
  ASSUME IInv, NEW t \in Nat, now <= t, now' = t, Cron(t)
  PROVE  PaidWhenGone /\ ReleasingRowFrozen
<1>1. allocs' = [a \in Persons |-> IF a \in Processed(t)
                                   THEN RowsAfterCron(a, t) ELSE allocs[a]]
  BY DEF Cron
<1>2. PaidWhenGone
  <2> SUFFICES ASSUME NEW a \in Persons, Gone(a) # {}
      PROVE  /\ \A id \in Gone(a) :
                  /\ allocs[a][id].unstake_requested
                  /\ allocs[a][id].stake_time + LockupPeriod + ReleasePeriod <= now'
             /\ balance'[a] = balance[a] +
                  SumFunctionOnSet([id \in DOMAIN allocs[a] |->
                                      allocs[a][id].tokens_staked], Gone(a))
    BY DEF PaidWhenGone
  <2>1. a \in Processed(t) /\ allocs'[a] = RowsAfterCron(a, t)
    BY <1>1 DEF Gone
  <2>2. Released(a, t) \in SUBSET DOMAIN allocs[a]
    BY DEF Released
  <2>3. Gone(a) = Released(a, t)
    BY <2>1, <2>2, CronTable DEF Gone
  <2>4. \A id \in Released(a, t) : Releasable(allocs[a][id], t)
    BY DEF Released
  <2>5. balance'[a] = balance[a] + AccountRelease(a, t)
    BY <2>1, ContractIsNoPerson DEF Cron
  <2> QED BY <2>2, <2>3, <2>4, <2>5, RowsErased DEF AccountRelease
<1>3. ReleasingRowFrozen
  <2> SUFFICES ASSUME NEW a \in Persons,
                      NEW id \in DOMAIN allocs[a] \cap DOMAIN allocs'[a],
                      allocs[a][id].unstake_requested
               PROVE  allocs'[a][id] = allocs[a][id]
    BY DEF ReleasingRowFrozen
  <2>1. CASE a \in Processed(t)
    <3>1. allocs'[a] = RowsAfterCron(a, t)
      BY <1>1, <2>1
    <3>2. allocs'[a][id] = Grown(allocs[a][id], RowYield(a, allocs[a][id], t))
      BY <3>1 DEF RowsAfterCron
    <3>3. RowYield(a, allocs[a][id], t) = 0
      BY DEF RowYield
    <3>4. allocs[a][id] \in Allocation
      BY IInvTables DEF IsAllocationTable
    <3> QED BY <3>2, <3>3, <3>4 DEF Grown, Allocation
  <2>2. CASE a \notin Processed(t)
    BY <1>1, <2>2
  <2> QED BY <2>1, <2>2
<1> QED BY <1>2, <1>3

(* Steps that leave every table alone or add a row to one.                 *)
LEMMA RowsKept ==
  ASSUME \A a \in Persons : /\ DOMAIN allocs[a] \subseteq DOMAIN allocs'[a]
                            /\ \A id \in DOMAIN allocs[a] :
                                 allocs'[a][id] = allocs[a][id]
  PROVE  PaidWhenGone /\ ReleasingRowFrozen
BY DEF PaidWhenGone, Gone, ReleasingRowFrozen

LEMMA StakeSteps ==
  ASSUME IInv, NEW staker \in Accounts, NEW q \in Quantities,
         StakeTokens(staker, q)
  PROVE  PaidWhenGone /\ ReleasingRowFrozen
<1> DEFINE t == allocs[staker]
           key == AvailablePrimaryKey(t)
           u == WithRow(t, key, NewAllocation(q))
<1>1. staker \in Persons /\ allocs' = [allocs EXCEPT ![staker] = u]
  BY DEF StakeTokens
<1>2. IsAllocationTable(t) /\ allocs = [a \in Persons |-> allocs[a]]
  BY <1>1, IInvTables
<1>3. key \notin DOMAIN t
  BY <1>2, FreshKey
<1>4. DOMAIN t \subseteq DOMAIN u /\ \A id \in DOMAIN t : u[id] = t[id]
  <2> HIDE DEF key, t
  <2> QED BY <1>3 DEF WithRow
<1> HIDE DEF u
<1> QED BY <1>1, <1>2, <1>4, RowsKept

LEMMA RequestSteps ==
  ASSUME IInv, NEW staker \in Persons, NEW id \in DOMAIN allocs[staker],
         RequestUnstake(staker, id)
  PROVE  PaidWhenGone /\ ReleasingRowFrozen
<1> DEFINE u == [allocs[staker] EXCEPT ![id] = Requested(allocs[staker][id])]
<1>1. /\ allocs' = [allocs EXCEPT ![staker] = u]
      /\ ~allocs[staker][id].unstake_requested
  BY DEF RequestUnstake
<1>2. /\ DOMAIN u = DOMAIN allocs[staker]
      /\ \A k \in DOMAIN u : k # id => u[k] = allocs[staker][k]
  OBVIOUS
<1>3. allocs = [a \in Persons |-> allocs[a]]
  BY IInvTables
<1> HIDE DEF u
<1>4. \A a \in Persons : allocs'[a] = IF a = staker THEN u ELSE allocs[a]
  BY <1>1, <1>3
<1>5. PaidWhenGone
  BY <1>2, <1>4 DEF PaidWhenGone, Gone
<1>6. ReleasingRowFrozen
  BY <1>1, <1>2, <1>4 DEF ReleasingRowFrozen
<1> QED BY <1>5, <1>6

LEMMA ReleaseSteps ==
  ASSUME IInv, NEW staker \in Persons, NEW key \in DOMAIN allocs[staker],
         ReleaseToken(staker, key)
  PROVE  PaidWhenGone /\ ReleasingRowFrozen
<1> DEFINE t == allocs[staker]
           u == WithoutRows(t, {key})
           f == [id \in DOMAIN t |-> t[id].tokens_staked]
<1>1. /\ allocs' = [allocs EXCEPT ![staker] = u]
      /\ Releasable(t[key], now) /\ now' = now
      /\ CanTransfer(balance, StakingTmy, staker, t[key].tokens_staked)
      /\ balance' = AfterTransfer(balance, StakingTmy, staker, t[key].tokens_staked)
  BY DEF ReleaseToken
<1>2. /\ DOMAIN u = DOMAIN t \ {key}
      /\ \A id \in DOMAIN u : u[id] = t[id]
  BY DEF WithoutRows, Restrict
<1>3. allocs = [a \in Persons |-> allocs[a]]
  BY IInvTables
<1> HIDE DEF u
<1>4. \A a \in Persons : allocs'[a] = IF a = staker THEN u ELSE allocs[a]
  BY <1>1, <1>3
<1>5. \A a \in Persons : Gone(a) = IF a = staker THEN {key} ELSE {}
  BY <1>2, <1>4 DEF Gone
<1>6. SumFunctionOnSet(f, {key}) = t[key].tokens_staked
  <2>1. t[key] \in Allocation
    BY IInvTables DEF IsAllocationTable
  <2>2. f[key] = t[key].tokens_staked /\ f[key] \in Int
    BY <2>1 DEF Allocation
  <2> HIDE DEF f, t
  <2> QED BY <2>2, SumSingle
<1>7. balance'[staker] = balance[staker] + t[key].tokens_staked
  <2>1. balance \in [Accounts -> Nat] /\ staker # StakingTmy
    BY ContractIsNoPerson DEF IInv, TypeOK
  <2> QED BY <1>1, <2>1, ContractIsNoPerson DEF AfterTransfer, CanTransfer
<1>8. /\ t[key].unstake_requested
      /\ t[key].stake_time + LockupPeriod + ReleasePeriod <= now
  <2>1. now \in Nat
    BY PeriodsAssumption DEF PeriodsAssumption, IInv, TypeOK
  <2>2. {key} \in SUBSET DOMAIN allocs[staker]
    OBVIOUS
  <2> QED BY <1>1, <2>1, <2>2, RowsErased
<1>9. PaidWhenGone
  <2> HIDE DEF f
  <2> QED BY <1>1, <1>5, <1>6, <1>7, <1>8 DEF PaidWhenGone, f
<1>10. ReleasingRowFrozen
  BY <1>2, <1>4 DEF ReleasingRowFrozen
<1> QED BY <1>9, <1>10

LEMMA ResetSteps == ASSUME IInv, ResetAll PROVE PaidWhenGone /\ ReleasingRowFrozen
<1>1. ~settings'.exists
  BY DEF ResetAll, NoSettings
<1>2. \A a \in Persons : DOMAIN allocs'[a] = {} \/ allocs'[a] = allocs[a]
  BY DEF ResetAll, EmptyTable
<1> QED BY <1>1, <1>2 DEF PaidWhenGone, ReleasingRowFrozen

LEMMA BlockSteps == ASSUME IInv, Block PROVE PaidWhenGone /\ ReleasingRowFrozen
<1>1. now \in Nat
  BY PeriodsAssumption DEF PeriodsAssumption, IInv, TypeOK
<1>2. PICK t \in now + 1 .. now + 1 + MaxMissed :
        /\ now' = t
        /\ Cron(t) \/ UNCHANGED allocs
  BY DEF Block
<1>3. t \in Nat /\ now <= t
  BY <1>1, <1>2, PeriodsAssumption DEF PeriodsAssumption
<1>4. CASE Cron(t)
  BY <1>2, <1>3, <1>4, CronSteps
<1>5. CASE UNCHANGED allocs
  BY <1>5, RowsKept
<1> QED BY <1>2, <1>4, <1>5

LEMMA NextSteps ==
  IInv /\ [Next]_vars => [PaidWhenGone]_vars /\ [ReleasingRowFrozen]_vars
<1> SUFFICES ASSUME IInv, Next PROVE PaidWhenGone /\ ReleasingRowFrozen
  OBVIOUS
<1>1. CASE UNCHANGED allocs
  BY <1>1, RowsKept
<1>2. CASE \E q \in Quantities : SetSettings(q)
  BY <1>1, <1>2 DEF SetSettings
<1>3. CASE \E a \in Accounts, q \in Quantities : AddYield(a, q)
  BY <1>1, <1>3 DEF AddYield
<1>4. CASE \E a \in Accounts, q \in Quantities : StakeTokens(a, q)
  BY <1>4, StakeSteps
<1>5. CASE \E a \in Persons : \E id \in DOMAIN allocs[a] : RequestUnstake(a, id)
  BY <1>5, RequestSteps
<1>6. CASE \E a \in Persons : \E id \in DOMAIN allocs[a] : ReleaseToken(a, id)
  BY <1>6, ReleaseSteps
<1>7. CASE \E a \in Payers, b \in Accounts, q \in Quantities : Transfer(a, b, q)
  BY <1>1, <1>7 DEF Transfer
<1>8. CASE ResetAll
  BY <1>8, ResetSteps
<1>9. CASE CronByHand
  <2>1. now \in Nat /\ now <= now /\ now' = now /\ Cron(now)
    BY <1>9, PeriodsAssumption
       DEF PeriodsAssumption, IInv, TypeOK, CronByHand
  <2> QED BY <2>1, CronSteps
<1>10. CASE Block
  BY <1>10, BlockSteps
<1> QED BY <1>2, <1>3, <1>4, <1>5, <1>6, <1>7, <1>8, <1>9, <1>10 DEF Next, Call

(* An allocation goes only after lockup and release, and is paid in full.  *)
THEOREM LockupIsHonoured == Spec => LockupHonoured
BY Invariance, NextSteps, PTL DEF Spec, LockupHonoured

(* A row being released does not change until it goes.                     *)
THEOREM ReleaseIsFrozen == Spec => ReleaseFrozen
BY Invariance, NextSteps, PTL DEF Spec, ReleaseFrozen
----------------------------------------------------------------------------
(* The books: what is kept for the stakers is kept as Custodian says.      *)

(* The instance copies the operators of the modules that Custodian         *)
(* extends; they say the same.                                             *)
LEMMA BooksSum == \A f : Books!SumFunction(f) = SumFunction(f)
BY DEF SumFunction, Books!SumFunction, SumFunctionOnSet,
       Books!SumFunctionOnSet, FoldFunctionOnSet, Books!FoldFunctionOnSet,
       MapThenFoldSet, Books!MapThenFoldSet

LEMMA BooksMove ==
  ASSUME balance \in [Accounts -> Nat],
         NEW from, NEW to, NEW n \in Nat, CanTransfer(balance, from, to, n),
         balance' = AfterTransfer(balance, from, to, n)
  PROVE  Books!MoveTokens(from, to, n) /\ balance' # balance
<1>1. Books!MoveTokens(from, to, n)
  BY DEF Books!MoveTokens, CanTransfer, Books!CanTransfer,
         AfterTransfer, Books!AfterTransfer
<1>2. n > 0 /\ balance[to] \in Nat /\ balance'[to] = balance[to] + n
  BY TransferType DEF CanTransfer
<1> QED BY <1>1, <1>2

(* Whatever has not been set is empty: resetall leaves nothing behind.     *)
BooksClosed ==
  ~settings.exists =>
    settings = NoSettings /\ \A a \in Persons : DOMAIN allocs[a] = {}

BooksInv == IInv /\ BooksClosed

LEMMA ClosedStep ==
  ASSUME BooksInv, [Next]_vars
  PROVE  BooksClosed'
<1>1. settings \in Settings /\ IInv /\ BooksClosed
  BY DEF BooksInv, IInv, TypeOK
<1>2. ASSUME settings'.exists PROVE BooksClosed'
  BY <1>2 DEF BooksClosed
<1>3. ASSUME NEW q, SetSettings(q) PROVE BooksClosed'
  <2>1. settings'.exists
    BY <1>1, <1>3 DEF SetSettings, Settings
  <2> QED BY <1>2, <2>1
<1>4. ASSUME NEW a, NEW q, AddYield(a, q) PROVE BooksClosed'
  <2>1. settings'.exists
    BY <1>1, <1>4 DEF AddYield, Settings
  <2> QED BY <1>2, <2>1
<1>5. ASSUME NEW a, NEW q, StakeTokens(a, q) PROVE BooksClosed'
  <2>1. settings'.exists
    BY <1>1, <1>5 DEF StakeTokens, Settings
  <2> QED BY <1>2, <2>1
<1>6. ASSUME NEW a \in Persons, NEW id \in DOMAIN allocs[a],
             RequestUnstake(a, id) \/ ReleaseToken(a, id)
      PROVE  BooksClosed'
  <2>1. settings.exists
    BY <1>1 DEF BooksClosed
  <2>2. settings'.exists
    BY <1>1, <1>6, <2>1 DEF RequestUnstake, ReleaseToken, Settings
  <2> QED BY <1>2, <2>2
<1>7. ASSUME NEW t, Cron(t) PROVE BooksClosed'
  <2>1. settings.exists
    BY <1>7 DEF Cron, CronSucceeds
  <2>2. settings' = [settings EXCEPT !.total_staked = @ + BatchYield(t),
                                     !.current_yield_pool = @ - BatchYield(t),
                                     !.total_releasing = @ - BatchRelease(t)]
    BY <1>7 DEF Cron
  <2>3. settings'.exists
    BY <1>1, <2>1, <2>2 DEF Settings
  <2> QED BY <1>2, <2>3
<1>8. ASSUME ResetAll PROVE BooksClosed'
  <2>1. settings' = NoSettings
    BY <1>8 DEF ResetAll
  <2>2. ASSUME NEW a \in Persons PROVE DOMAIN allocs'[a] = {}
    BY <1>1, <1>8 DEF ResetAll, IInv, StakersListed, EmptyTable
  <2> QED BY <2>1, <2>2 DEF BooksClosed
<1>9. ASSUME UNCHANGED <<settings, allocs>> PROVE BooksClosed'
  BY <1>1, <1>9 DEF BooksClosed
<1> QED
  BY <1>3, <1>4, <1>5, <1>6, <1>7, <1>8, <1>9
     DEF Next, Call, CronByHand, Block, Transfer, vars

LEMMA BooksInvariant == Spec => []BooksInv
<1>1. Init => BooksInv
  <2> SUFFICES ASSUME Init PROVE BooksClosed
    BY InitIInv DEF BooksInv
  <2> QED BY DEF Init, BooksClosed, EmptyTable
<1>2. BooksInv /\ [Next]_vars => BooksInv'
  BY ClosedStep, NextIInv DEF BooksInv
<1> QED BY <1>1, <1>2, PTL DEF Spec

LEMMA ClaimParts ==
  ASSUME NEW t, IsAllocationTable(t)
  PROVE  Claim(t) = StakedIn(t) + ReleasingIn(t)
<1> DEFINE f == [id \in DOMAIN t |-> IF t[id].unstake_requested THEN 0
                                     ELSE t[id].tokens_staked]
           g == [id \in DOMAIN t |-> IF t[id].unstake_requested
                                     THEN t[id].tokens_staked ELSE 0]
           h == [id \in DOMAIN t |-> t[id].tokens_staked]
<1>1. /\ IsFiniteSet(DOMAIN t)
      /\ \A id \in DOMAIN t : t[id].tokens_staked \in Nat
  BY DEF IsAllocationTable, Allocation
<1>2. /\ DOMAIN f = DOMAIN t /\ DOMAIN g = DOMAIN t /\ DOMAIN h = DOMAIN t
      /\ \A id \in DOMAIN t : f[id] \in Int /\ g[id] \in Int /\ h[id] = f[id] + g[id]
  BY <1>1
<1>3. Claim(t) = SumFunction(h) /\ StakedIn(t) = SumFunction(f)
      /\ ReleasingIn(t) = SumFunction(g)
  BY DEF Claim, StakedIn, ReleasingIn
<1> HIDE DEF f, g, h
<1> QED BY <1>1, <1>2, <1>3, SumFunctionPlus

LEMMA ClaimsFacts ==
  ASSUME IInv
  PROVE  /\ Claims \in [Persons -> Nat]
         /\ \A a \in Persons :
              /\ Claims[a] = StakedIn(allocs[a]) + ReleasingIn(allocs[a])
              /\ StakedIn(allocs[a]) \in Nat /\ ReleasingIn(allocs[a]) \in Nat
         /\ SumFunction(Claims) = settings.total_staked + settings.total_releasing
         /\ SumFunction(Claims) \in Nat
<1> DEFINE f == [a \in Persons |-> StakedIn(allocs[a])]
           g == [a \in Persons |-> ReleasingIn(allocs[a])]
<1>1. \A a \in Persons :
        StakedIn(allocs[a]) \in Nat /\ ReleasingIn(allocs[a]) \in Nat
  BY IInvTables, TableTotals
<1>2. /\ Claims \in [Persons -> Nat]
      /\ \A a \in Persons :
           Claims[a] = StakedIn(allocs[a]) + ReleasingIn(allocs[a])
  BY <1>1, IInvTables, ClaimParts DEF Claims
<1>3. /\ DOMAIN f = Persons /\ DOMAIN g = Persons /\ DOMAIN Claims = Persons
      /\ \A a \in Persons :
           f[a] \in Int /\ g[a] \in Int /\ Claims[a] = f[a] + g[a]
  BY <1>1, <1>2
<1>4. /\ settings.total_staked = SumFunction(f)
      /\ settings.total_releasing = SumFunction(g)
  BY DEF IInv, TotalsMatchRows
<1> HIDE DEF f, g
<1>5. SumFunction(Claims) = SumFunction(f) + SumFunction(g)
  BY <1>3, Finiteness, SumFunctionPlus
<1>6. SumFunction(Claims) \in Nat
  BY <1>2, Finiteness, SumFunctionNat
<1> QED BY <1>1, <1>2, <1>4, <1>5, <1>6

(* A step that changes the table of one staker.                            *)
LEMMA ClaimsStep ==
  ASSUME IInv, NEW staker \in Persons, NEW u,
         allocs' = [allocs EXCEPT ![staker] = u]
  PROVE  Claims' = [Claims EXCEPT ![staker] = Claim(u)]
<1>1. allocs = [a \in Persons |-> allocs[a]]
  BY IInvTables
<1>2. allocs'[staker] = u /\ \A a \in Persons : a # staker => allocs'[a] = allocs[a]
  BY <1>1
<1>3. \A a \in Persons : Claim(allocs'[a]) = IF a = staker THEN Claim(u)
                                             ELSE Claim(allocs[a])
  BY <1>2
<1>4. /\ Claims = [a \in Persons |-> Claim(allocs[a])]
      /\ Claims' = [a \in Persons |-> Claim(allocs'[a])]
  BY DEF Claims
<1> QED BY <1>3, <1>4

(* The payments and the yield of a step, as what moved tells them.         *)
LEMMA SettleStep ==
  ASSUME IInv, NEW paid \in [Persons -> Nat], NEW granted \in [Persons -> Nat],
         NEW p, p = SumFunction(paid), NEW g, g = SumFunction(granted),
         p <= balance[StakingTmy],
         balance' = [a \in Accounts |->
                       IF a = StakingTmy THEN balance[a] - p
                       ELSE IF a \in Persons THEN balance[a] + paid[a]
                       ELSE balance[a]],
         \A a \in Persons : paid[a] <= Claims[a],
         Claims' = [a \in Persons |-> Claims[a] - paid[a] + granted[a]],
         settings'.current_yield_pool = settings.current_yield_pool - g
  PROVE  Books!CustodianNext \/ UNCHANGED Books!books
<1>1. /\ balance \in [Accounts -> Nat] /\ Claims \in [Persons -> Nat]
      /\ StakingTmy \in Accounts /\ StakingTmy \notin Persons
      /\ Persons \subseteq Accounts
  BY ClaimsFacts, ContractIsNoPerson DEF IInv, TypeOK
<1>2. Books!Received = paid
  <2>1. \A a \in Persons : balance'[a] - balance[a] = paid[a]
    BY <1>1
  <2> QED BY <2>1 DEF Books!Received
<1>3. Books!Granted = granted
  <2>1. \A a \in Persons : Claims'[a] - Claims[a] + paid[a] = granted[a]
    BY <1>1
  <2> QED BY <1>2, <2>1 DEF Books!Granted
<1>4. Books!SumFunction(paid) = p /\ Books!SumFunction(granted) = g
  BY BooksSum
<1>5. \A a \in Persons : paid[a] \in 0 .. Claims[a] /\ granted[a] \in Nat
  BY <1>1
<1>6. CASE \E a \in Persons : paid[a] > 0 \/ granted[a] > 0
  <2>1. Books!Settle(paid, granted)
    BY <1>4, <1>5, <1>6 DEF Books!Settle
  <2> QED BY <1>2, <1>3, <2>1 DEF Books!CustodianNext
<1>7. CASE \A a \in Persons : paid[a] = 0 /\ granted[a] = 0
  <2>1. p = 0 /\ g = 0
    BY <1>7, Finiteness, SumZero DEF SumFunction
  <2>2. balance' = balance
    <3>1. \A a \in Accounts : balance'[a] = balance[a]
      BY <1>1, <1>7, <2>1
    <3> QED BY <1>1, <3>1
  <2>3. Claims' = Claims
    <3>1. \A a \in Persons : Claims'[a] = Claims[a]
      BY <1>1, <1>7
    <3> QED BY <1>1, <3>1
  <2>4. settings'.current_yield_pool = settings.current_yield_pool
    <3>1. settings.current_yield_pool \in Int
      BY DEF IInv, TypeOK, Settings
    <3> QED BY <2>1, <3>1
  <2> QED BY <2>2, <2>3, <2>4 DEF Books!books
<1> QED BY <1>5, <1>6, <1>7

(* A sum over the persons of which only those in S count.                  *)
LEMMA SumOfSome ==
  ASSUME NEW S \in SUBSET Persons, NEW f, DOMAIN f = S, NEW g, DOMAIN g = Persons,
         \A a \in S : f[a] \in Int,
         \A a \in Persons : g[a] = IF a \in S THEN f[a] ELSE 0
  PROVE  SumFunction(g) = SumFunction(f)
BY Finiteness, SumFunctionSupport

LEMMA AddYieldBooks ==
  ASSUME BooksInv, NEW sender \in Accounts, NEW q \in Quantities,
         AddYield(sender, q)
  PROVE  Books!CustodianNext
<1>1. /\ q \in Nat /\ settings \in Settings /\ balance \in [Accounts -> Nat]
      /\ StakingTmy \in Accounts
  BY AmountsAssumption, ContractIsNoPerson
     DEF AmountsAssumption, BooksInv, IInv, TypeOK
<1>2. /\ CanTransfer(balance, sender, StakingTmy, q)
      /\ balance' = AfterTransfer(balance, sender, StakingTmy, q)
      /\ settings'.current_yield_pool = settings.current_yield_pool + q
      /\ allocs' = allocs
  BY <1>1 DEF AddYield, Settings
<1>3. balance'[StakingTmy] = balance[StakingTmy] + q
  BY <1>1, <1>2, TransferType
<1>4. Books!Inflow = q
  BY <1>1, <1>3 DEF Books!Inflow
<1>5. Books!Fund(sender, q) /\ balance' # balance
  BY <1>1, <1>2, BooksMove DEF Books!Fund, Claims
<1> QED BY <1>4, <1>5 DEF Books!CustodianNext

LEMMA StakeBooks ==
  ASSUME BooksInv, NEW staker \in Accounts, NEW q \in Quantities,
         StakeTokens(staker, q)
  PROVE  Books!CustodianNext
<1>1. /\ q \in Nat /\ settings \in Settings /\ balance \in [Accounts -> Nat]
      /\ StakingTmy \in Accounts /\ IInv
  BY AmountsAssumption, ContractIsNoPerson
     DEF AmountsAssumption, BooksInv, IInv, TypeOK
<1>2. /\ CanTransfer(balance, staker, StakingTmy, q)
      /\ balance' = AfterTransfer(balance, staker, StakingTmy, q)
      /\ settings'.current_yield_pool = settings.current_yield_pool
      /\ staker \in Persons
  BY <1>1 DEF StakeTokens, Settings
<1>3. balance'[StakingTmy] = balance[StakingTmy] + q
  BY <1>1, <1>2, TransferType
<1>4. Books!Inflow = q
  BY <1>1, <1>3 DEF Books!Inflow
<1>5. Claims' = [Claims EXCEPT ![staker] = @ + q]
  <2>1. PICK u : /\ allocs' = [allocs EXCEPT ![staker] = u]
                 /\ StakedIn(u) = StakedIn(allocs[staker]) + q
                 /\ ReleasingIn(u) = ReleasingIn(allocs[staker])
                 /\ IsAllocationTable(u)
    BY <1>1, StakeTable
  <2>2. Claim(u) = Claims[staker] + q
    BY <1>1, <1>2, <2>1, ClaimsFacts, ClaimParts
  <2> QED BY <1>1, <1>2, <2>1, <2>2, ClaimsStep
<1>6. Books!Deposit(staker, staker, q) /\ balance' # balance
  BY <1>1, <1>2, <1>5, BooksMove DEF Books!Deposit
<1> QED BY <1>2, <1>4, <1>6 DEF Books!CustodianNext

(* A request takes nothing from the claim.                                 *)
LEMMA RequestBooks ==
  ASSUME BooksInv, NEW staker \in Persons, NEW id \in DOMAIN allocs[staker],
         RequestUnstake(staker, id)
  PROVE  UNCHANGED Books!books
<1> DEFINE n == allocs[staker][id].tokens_staked
<1>1. /\ settings \in Settings /\ IInv
      /\ balance' = balance
      /\ settings'.current_yield_pool = settings.current_yield_pool
  BY DEF BooksInv, IInv, TypeOK, RequestUnstake, Settings
<1>2. PICK u : /\ allocs' = [allocs EXCEPT ![staker] = u]
               /\ StakedIn(u) = StakedIn(allocs[staker]) - n
               /\ ReleasingIn(u) = ReleasingIn(allocs[staker]) + n
               /\ IsAllocationTable(u) /\ n \in Nat
  BY <1>1, RequestTable
<1> HIDE DEF n
<1>3. Claim(u) = Claims[staker]
  BY <1>1, <1>2, ClaimsFacts, ClaimParts
<1>4. Claims' = Claims
  <2>1. Claims' = [Claims EXCEPT ![staker] = Claim(u)]
    BY <1>1, <1>2, ClaimsStep
  <2>2. Claims \in [Persons -> Nat]
    BY <1>1, ClaimsFacts
  <2> QED BY <1>3, <2>1, <2>2
<1> QED BY <1>1, <1>4 DEF Books!books

LEMMA ReleaseBooks ==
  ASSUME BooksInv, NEW staker \in Persons, NEW id \in DOMAIN allocs[staker],
         ReleaseToken(staker, id)
  PROVE  Books!CustodianNext \/ UNCHANGED Books!books
<1> DEFINE n == allocs[staker][id].tokens_staked
           paid == [a \in Persons |-> IF a = staker THEN n ELSE 0]
           granted == [a \in Persons |-> 0]
<1>1. /\ settings \in Settings /\ IInv /\ balance \in [Accounts -> Nat]
      /\ StakingTmy \in Accounts /\ StakingTmy \notin Persons
      /\ Persons \subseteq Accounts /\ IsFiniteSet(Persons)
  BY ContractIsNoPerson, Finiteness DEF BooksInv, IInv, TypeOK
<1>2. /\ CanTransfer(balance, StakingTmy, staker, n)
      /\ balance' = AfterTransfer(balance, StakingTmy, staker, n)
      /\ settings'.current_yield_pool = settings.current_yield_pool
      /\ settings.current_yield_pool \in Int
  BY <1>1 DEF ReleaseToken, Settings
<1>3. PICK u : /\ allocs' = [allocs EXCEPT ![staker] = u]
               /\ IsAllocationTable(u) /\ IsSoundTable(u)
               /\ StakedIn(u) = StakedIn(allocs[staker])
               /\ ReleasingIn(u) = ReleasingIn(allocs[staker]) - n
               /\ n \in Nat
  BY <1>1, ReleaseTable
<1> HIDE DEF n
<1>4. Claim(u) = Claims[staker] - n /\ n <= Claims[staker]
  BY <1>1, <1>3, ClaimsFacts, ClaimParts, TableTotals
<1>5. paid \in [Persons -> Nat] /\ granted \in [Persons -> Nat]
  BY <1>3
<1>6. SumFunction(paid) = n
  <2> DEFINE f == [a \in {staker} |-> n]
  <2>1. SumFunction(f) = n
    <3>1. DOMAIN f = {staker} /\ f[staker] = n /\ f[staker] \in Int
      BY <1>3
    <3> HIDE DEF f
    <3> QED BY <3>1, SumSingle DEF SumFunction
  <2>2. SumFunction(paid) = SumFunction(f)
    <3>1. /\ DOMAIN f = {staker} /\ DOMAIN paid = Persons
          /\ \A a \in {staker} : f[a] \in Int
          /\ \A a \in Persons : paid[a] = IF a \in {staker} THEN f[a] ELSE 0
      BY <1>3
    <3> HIDE DEF f, paid
    <3> QED BY <3>1, SumOfSome
  <2> QED BY <2>1, <2>2
<1>7. SumFunction(granted) = 0
  <2>1. DOMAIN granted = Persons /\ \A a \in Persons : granted[a] = 0
    OBVIOUS
  <2> HIDE DEF granted
  <2> QED BY <1>1, <2>1, SumZero DEF SumFunction
<1>8. Claims' = [a \in Persons |-> Claims[a] - paid[a] + granted[a]]
  <2>1. Claims' = [Claims EXCEPT ![staker] = Claim(u)] /\ Claims \in [Persons -> Nat]
    BY <1>1, <1>3, ClaimsStep, ClaimsFacts
  <2>2. ASSUME NEW a \in Persons
        PROVE  Claims'[a] = Claims[a] - paid[a] + granted[a]
    <3>1. Claims'[a] = IF a = staker THEN Claims[staker] - n ELSE Claims[a]
      BY <1>4, <2>1
    <3>2. paid[a] = (IF a = staker THEN n ELSE 0) /\ granted[a] = 0
      OBVIOUS
    <3>3. Claims[a] \in Nat /\ n \in Nat
      BY <1>3, <2>1
    <3> HIDE DEF paid, granted
    <3> QED BY <3>1, <3>2, <3>3
  <2>3. Claims' = [a \in Persons |-> Claims'[a]]
    BY <2>1
  <2> HIDE DEF paid, granted
  <2> QED BY <2>2, <2>3
<1>9. /\ \A a \in Persons : paid[a] <= Claims[a]
      /\ n <= balance[StakingTmy]
  BY <1>1, <1>2, <1>4, ClaimsFacts DEF CanTransfer
<1>10. balance' = [a \in Accounts |->
                     IF a = StakingTmy THEN balance[a] - n
                     ELSE IF a \in Persons THEN balance[a] + paid[a]
                     ELSE balance[a]]
  <2>1. balance' = [balance EXCEPT ![StakingTmy] = @ - n, ![staker] = @ + n]
    BY <1>2 DEF AfterTransfer
  <2>2. \A a \in Persons : paid[a] = IF a = staker THEN n ELSE 0
    OBVIOUS
  <2>3. staker \in Accounts /\ staker # StakingTmy /\ n \in Nat
    BY <1>1, <1>3
  <2>4. balance' = [a \in Accounts |-> balance'[a]]
    BY <1>1, <2>1
  <2> HIDE DEF paid
  <2>5. ASSUME NEW a \in Accounts
        PROVE  balance'[a] = IF a = StakingTmy THEN balance[a] - n
                             ELSE IF a \in Persons THEN balance[a] + paid[a]
                             ELSE balance[a]
    BY <1>1, <2>1, <2>2, <2>3
  <2> QED BY <2>4, <2>5
<1>11. settings'.current_yield_pool = settings.current_yield_pool - 0
  BY <1>2
<1> HIDE DEF paid, granted
<1> QED BY <1>1, <1>5, <1>6, <1>7, <1>8, <1>9, <1>10, <1>11, SettleStep

(* cron pays and grants for the whole batch in one step.                   *)
LEMMA CronBooks ==
  ASSUME BooksInv, NEW t \in 0 .. MaxTime, now <= t, Cron(t)
  PROVE  Books!CustodianNext \/ UNCHANGED Books!books
<1> DEFINE P == Processed(t)
           fr == [a \in P |-> AccountRelease(a, t)]
           fy == [a \in P |-> AccountYield(a, t)]
           paid == [a \in Persons |-> IF a \in P THEN AccountRelease(a, t) ELSE 0]
           granted == [a \in Persons |-> IF a \in P THEN AccountYield(a, t) ELSE 0]
<1>1. /\ settings \in Settings /\ IInv /\ balance \in [Accounts -> Nat]
      /\ StakingTmy \in Accounts /\ StakingTmy \notin Persons
      /\ Persons \subseteq Accounts /\ t \in Nat
      /\ P \subseteq Persons
  BY ContractIsNoPerson, PeriodsAssumption
     DEF PeriodsAssumption, BooksInv, IInv, TypeOK, Processed, Batch, NameRange
<1>2. allocs' = [a \in Persons |-> IF a \in P THEN RowsAfterCron(a, t) ELSE allocs[a]]
  BY DEF Cron
<1>3. \A a \in P : AccountYield(a, t) \in Nat /\ AccountRelease(a, t) \in Nat
  BY <1>1, CronTable
<1>4. paid \in [Persons -> Nat] /\ granted \in [Persons -> Nat]
  BY <1>3
<1>5. SumFunction(paid) = BatchRelease(t)
  <2>1. BatchRelease(t) = SumFunction(fr)
    BY DEF BatchRelease
  <2>2. /\ DOMAIN fr = P /\ DOMAIN paid = Persons
        /\ \A a \in P : fr[a] \in Int
        /\ \A a \in Persons : paid[a] = IF a \in P THEN fr[a] ELSE 0
    BY <1>3
  <2> HIDE DEF fr, paid, P
  <2> QED BY <1>1, <2>1, <2>2, SumOfSome
<1>6. SumFunction(granted) = BatchYield(t)
  <2>1. BatchYield(t) = SumFunction(fy)
    BY DEF BatchYield
  <2>2. /\ DOMAIN fy = P /\ DOMAIN granted = Persons
        /\ \A a \in P : fy[a] \in Int
        /\ \A a \in Persons : granted[a] = IF a \in P THEN fy[a] ELSE 0
    BY <1>3
  <2> HIDE DEF fy, granted, P
  <2> QED BY <1>1, <2>1, <2>2, SumOfSome
<1>7. ASSUME NEW a \in Persons
      PROVE  /\ Claims'[a] = Claims[a] - paid[a] + granted[a]
             /\ paid[a] <= Claims[a]
  <2>1. /\ Claims[a] = StakedIn(allocs[a]) + ReleasingIn(allocs[a])
        /\ StakedIn(allocs[a]) \in Nat /\ ReleasingIn(allocs[a]) \in Nat
    BY <1>1, ClaimsFacts
  <2>2. Claims[a] = Claim(allocs[a]) /\ Claims'[a] = Claim(allocs'[a])
    BY DEF Claims
  <2>3. CASE a \in P
    <3>1. /\ allocs'[a] = RowsAfterCron(a, t)
          /\ paid[a] = AccountRelease(a, t) /\ granted[a] = AccountYield(a, t)
      BY <1>2, <2>3
    <3>2. /\ IsAllocationTable(allocs'[a]) /\ IsSoundTable(allocs'[a])
          /\ StakedIn(allocs'[a]) = StakedIn(allocs[a]) + AccountYield(a, t)
          /\ ReleasingIn(allocs'[a]) = ReleasingIn(allocs[a]) - AccountRelease(a, t)
          /\ AccountYield(a, t) \in Nat /\ AccountRelease(a, t) \in Nat
      BY <1>1, <2>3, <3>1, CronTable
    <3>3. /\ ReleasingIn(allocs'[a]) \in Nat
          /\ Claim(allocs'[a]) = StakedIn(allocs'[a]) + ReleasingIn(allocs'[a])
      BY <3>2, TableTotals, ClaimParts
    <3> HIDE DEF paid, granted
    <3> QED BY <2>1, <2>2, <3>1, <3>2, <3>3
  <2>4. CASE a \notin P
    <3>1. allocs'[a] = allocs[a] /\ paid[a] = 0 /\ granted[a] = 0
      BY <1>2, <2>4
    <3> HIDE DEF paid, granted
    <3> QED BY <2>1, <2>2, <3>1
  <2> QED BY <2>3, <2>4
<1>8. Claims' = [a \in Persons |-> Claims[a] - paid[a] + granted[a]]
  <2>1. Claims' = [a \in Persons |-> Claims'[a]]
    BY DEF Claims
  <2> HIDE DEF paid, granted
  <2> QED BY <1>7, <2>1
<1>9. BatchRelease(t) <= balance[StakingTmy]
  BY DEF Cron, CronSucceeds
<1>10. balance' = [a \in Accounts |->
                     IF a = StakingTmy THEN balance[a] - BatchRelease(t)
                     ELSE IF a \in Persons THEN balance[a] + paid[a]
                     ELSE balance[a]]
  <2>1. balance' = [a \in Accounts |->
                      IF a \in P THEN balance[a] + AccountRelease(a, t)
                      ELSE IF a = StakingTmy THEN balance[a] - BatchRelease(t)
                      ELSE balance[a]]
    BY DEF Cron
  <2>2. \A a \in Persons : a \notin P => balance[a] + paid[a] = balance[a]
    BY <1>1
  <2> HIDE DEF P
  <2> QED BY <1>1, <2>1, <2>2
<1>11. settings'.current_yield_pool = settings.current_yield_pool - BatchYield(t)
  BY <1>1 DEF Cron, Settings
<1> HIDE DEF paid, granted
<1> QED BY <1>1, <1>4, <1>5, <1>6, <1>7, <1>8, <1>9, <1>10, <1>11, SettleStep

LEMMA TransferBooks ==
  ASSUME BooksInv, NEW a \in Payers, NEW b \in Accounts, NEW q \in Quantities,
         Transfer(a, b, q)
  PROVE  Books!CustodianNext
<1>1. /\ q \in Nat /\ a \in Accounts /\ a # StakingTmy
      /\ balance \in [Accounts -> Nat]
  BY AmountsAssumption DEF AmountsAssumption, BooksInv, IInv, TypeOK
<1>2. /\ CanTransfer(balance, a, b, q)
      /\ balance' = AfterTransfer(balance, a, b, q)
      /\ settings' = settings /\ allocs' = allocs
  BY DEF Transfer
<1>3. balance'[b] - balance[b] = q
  <2>1. balance'[b] = balance[b] + q /\ balance[b] \in Nat
    BY <1>1, <1>2, TransferType
  <2> QED BY <1>1, <2>1
<1>4. Books!Spend(a, b, q) /\ balance' # balance
  BY <1>1, <1>2, BooksMove DEF Books!Spend, Claims
<1> QED BY <1>1, <1>3, <1>4 DEF Books!CustodianNext

LEMMA ResetBooks ==
  ASSUME BooksInv, ResetAll
  PROVE  Books!CustodianNext \/ UNCHANGED Books!books
<1> DEFINE total == settings.total_staked + settings.total_releasing
                      + settings.current_yield_pool
<1>1. /\ IInv /\ BooksClosed /\ settings \in Settings
      /\ balance \in [Accounts -> Nat]
      /\ settings.current_yield_pool \in Int
      /\ settings.total_staked \in Nat /\ settings.total_releasing \in Nat
  BY IInvTables DEF BooksInv, IInv, TypeOK, Settings
<1>2. settings'.current_yield_pool = 0 /\ BuildTest
  BY DEF ResetAll, NoSettings
<1>3. Claims' = [a \in Persons |-> 0]
  <2>1. \A a \in Persons : DOMAIN allocs'[a] = {}
    BY <1>1 DEF ResetAll, IInv, StakersListed, EmptyTable
  <2>2. \A a \in Persons : Claim(allocs'[a]) = 0
    BY <2>1, SumFunctionEmpty DEF Claim
  <2> QED BY <2>2 DEF Claims
<1>4. CASE settings.exists
  <2>1. /\ CanTransfer(balance, StakingTmy, InfraTmy, total)
        /\ balance' = AfterTransfer(balance, StakingTmy, InfraTmy, total)
    BY <1>4 DEF ResetAll
  <2>2. total > 0 /\ total \in Int
    BY <1>1, <2>1 DEF CanTransfer
  <2>3. total \in Nat
    BY <2>2
  <2>4. settings.current_yield_pool + Books!SumFunction(Claims) = total
    BY <1>1, ClaimsFacts, BooksSum
  <2> HIDE DEF total
  <2>5. Books!Sweep(InfraTmy) /\ balance' # balance
    BY <1>1, <1>2, <1>3, <2>1, <2>3, <2>4, BooksMove DEF Books!Sweep
  <2> QED BY <1>2, <2>5 DEF Books!CustodianNext
<1>5. CASE ~settings.exists
  <2>1. /\ settings.current_yield_pool = 0 /\ balance' = balance
        /\ \A a \in Persons : DOMAIN allocs[a] = {}
    BY <1>1, <1>5 DEF ResetAll, BooksClosed, NoSettings
  <2>2. \A a \in Persons : Claim(allocs[a]) = 0
    BY <2>1, SumFunctionEmpty DEF Claim
  <2>3. Claims = [a \in Persons |-> 0]
    BY <2>2 DEF Claims
  <2> QED BY <1>2, <1>3, <2>1, <2>3 DEF Books!books
<1> QED BY <1>4, <1>5

LEMMA BooksNext ==
  BooksInv /\ [Next]_vars => [Books!CustodianNext]_(Books!books)
<1> SUFFICES ASSUME BooksInv, [Next]_vars
             PROVE  Books!CustodianNext \/ UNCHANGED Books!books
  OBVIOUS
<1>1. ASSUME NEW q \in Quantities, SetSettings(q) PROVE UNCHANGED Books!books
  BY <1>1 DEF SetSettings, BooksInv, IInv, TypeOK, Settings, Books!books, Claims
<1>2. ASSUME NEW a \in Accounts, NEW q \in Quantities, AddYield(a, q)
      PROVE  Books!CustodianNext
  BY <1>2, AddYieldBooks
<1>3. ASSUME NEW a \in Accounts, NEW q \in Quantities, StakeTokens(a, q)
      PROVE  Books!CustodianNext
  BY <1>3, StakeBooks
<1>4. ASSUME NEW a \in Persons, NEW id \in DOMAIN allocs[a], RequestUnstake(a, id)
      PROVE  UNCHANGED Books!books
  BY <1>4, RequestBooks
<1>5. ASSUME NEW a \in Persons, NEW id \in DOMAIN allocs[a], ReleaseToken(a, id)
      PROVE  Books!CustodianNext \/ UNCHANGED Books!books
  BY <1>5, ReleaseBooks
<1>6. ASSUME NEW a \in Payers, NEW b \in Accounts, NEW q \in Quantities,
             Transfer(a, b, q)
      PROVE  Books!CustodianNext
  BY <1>6, TransferBooks
<1>7. ASSUME ResetAll PROVE Books!CustodianNext \/ UNCHANGED Books!books
  BY <1>7, ResetBooks
<1>8. now \in 0 .. MaxTime /\ now \in Nat
  BY PeriodsAssumption DEF PeriodsAssumption, BooksInv, IInv, TypeOK
<1>9. ASSUME CronByHand PROVE Books!CustodianNext \/ UNCHANGED Books!books
  BY <1>8, <1>9, CronBooks DEF CronByHand
<1>10. ASSUME UNCHANGED <<balance, settings, allocs>> PROVE UNCHANGED Books!books
  BY <1>10 DEF Books!books, Claims
<1>11. ASSUME Block PROVE Books!CustodianNext \/ UNCHANGED Books!books
  <2>1. PICK t \in now + 1 .. now + 1 + MaxMissed :
          /\ t <= MaxTime
          /\ Cron(t) \/ UNCHANGED <<balance, settings, accounts, allocs>>
    BY <1>11 DEF Block
  <2>2. t \in 0 .. MaxTime /\ now <= t
    BY <1>8, <2>1, PeriodsAssumption DEF PeriodsAssumption
  <2> QED BY <1>10, <2>1, <2>2, CronBooks
<1> QED
  BY <1>1, <1>2, <1>3, <1>4, <1>5, <1>6, <1>7, <1>9, <1>10, <1>11
     DEF Next, Call, vars

(* Stakes are kept as Custodian keeps claims: whatever stakers, sponsors,  *)
(* cron and, in a test build, anybody's resetall do, in any order, what a  *)
(* staker's claim shrinks by the staker receives in the same step, and     *)
(* yield is granted out of the pool only (staking.tmy.cpp:66-182, 190-320).*)
THEOREM StakesAreKept == Spec => KeepsStakes
<1>1. Init => Books!CustodianInit
  <2> SUFFICES ASSUME Init PROVE Books!CustodianInit
    OBVIOUS
  <2>1. IInv /\ settings.current_yield_pool \in Int
    BY InitIInv DEF IInv, TypeOK, Settings
  <2>2. /\ Claims \in [Persons -> Nat]
        /\ Books!SumFunction(Claims)
             = settings.total_staked + settings.total_releasing
    BY <2>1, ClaimsFacts, BooksSum
  <2>3. /\ settings.total_staked \in Nat /\ settings.total_releasing \in Nat
        /\ balance \in [Accounts -> Nat]
    BY <2>1, IInvTables DEF IInv, TypeOK
  <2>4. balance[StakingTmy] >= settings.current_yield_pool + Books!SumFunction(Claims)
    BY <2>1, <2>2, <2>3, ContractIsNoPerson DEF IInv, Custody
  <2> QED BY <2>1, <2>2, <2>3, <2>4
     DEF Books!CustodianInit, Books!BooksTypeOK, Books!BooksCovered
<1> QED BY <1>1, BooksNext, BooksInvariant, PTL
   DEF Spec, KeepsStakes, Books!CustodianSpec

(* Outside of test builds, where there is no resetall, a staker's claim    *)
(* shrinks only by what the staker receives in that very step, whoever     *)
(* calls whatever (staking.tmy.cpp:135-170, 251-257).                      *)
THEOREM ClaimsPaidToStakers ==
  ASSUME ~BuildTest
  PROVE  Spec => [][Books!ClaimsHonoured]_vars
<1>1. ASSUME BooksInv, Books!CustodianNext PROVE Books!ClaimsHonoured
  <2> SUFFICES ASSUME NEW c \in Persons, Claims'[c] < Claims[c]
               PROVE  Claims[c] - Claims'[c] <= Books!Received[c]
    BY DEF Books!ClaimsHonoured
  <2>1. Claims \in [Persons -> Nat] /\ Claims[c] \in Nat /\ Claims' # Claims
    BY <1>1, ClaimsFacts DEF BooksInv
  <2>2. ASSUME NEW a \in Accounts, NEW d \in Persons,
               Books!Deposit(a, d, Books!Inflow)
        PROVE  FALSE
    <3> DEFINE n == Books!Inflow
    <3>1. n \in Nat /\ Claims' = [Claims EXCEPT ![d] = @ + n]
      BY <2>2 DEF Books!Deposit, Books!MoveTokens
    <3> HIDE DEF n
    <3>2. Claims'[c] = IF c = d THEN Claims[c] + n ELSE Claims[c]
      BY <2>1, <3>1
    <3> QED BY <2>1, <3>1, <3>2
  <2>3. CASE Books!Settle(Books!Received, Books!Granted)
    <3> DEFINE r == Books!Received[c]
               g == Books!Granted[c]
    <3>1. /\ r \in 0 .. Claims[c] /\ g \in Nat
          /\ Claims'[c] = Claims[c] - r + g
      BY <2>3 DEF Books!Settle
    <3> HIDE DEF r, g
    <3>2. Claims[c] - Claims'[c] <= r
      BY <2>1, <3>1
    <3> QED BY <3>2 DEF r
  <2> QED
    BY <1>1, <2>1, <2>2, <2>3
       DEF Books!CustodianNext, Books!Fund, Books!Spend
<1>2. ASSUME BooksInv, UNCHANGED Books!books PROVE Books!ClaimsHonoured
  <2>1. Claims' = Claims /\ Claims \in [Persons -> Nat]
    BY <1>2, ClaimsFacts DEF BooksInv, Books!books
  <2> QED BY <2>1 DEF Books!ClaimsHonoured
<1>3. BooksInv /\ [Next]_vars => [Books!ClaimsHonoured]_vars
  BY <1>1, <1>2, BooksNext
<1> QED BY <1>3, BooksInvariant, PTL DEF Spec
----------------------------------------------------------------------------
(* The arithmetic of periods.                                              *)

LEMMA DivMod ==
  ASSUME NEW x \in Int, NEW d \in Nat \ {0}
  PROVE  /\ x \div d \in Int /\ x % d \in Int
         /\ 0 <= x % d /\ x % d < d
         /\ x = d * (x \div d) + (x % d)
OBVIOUS

LEMMA Larger ==
  ASSUME NEW d \in Nat, NEW i \in Int, NEW j \in Int, i < j
  PROVE  d * i + d <= d * j
<1>1. d * (i + 1) <= d * j
  <2>1. j - (i + 1) \in Nat
    OBVIOUS
  <2>2. d * (j - (i + 1)) >= 0
    BY <2>1
  <2> QED BY <2>2
<1> QED BY <1>1

LEMMA DivUnique ==
  ASSUME NEW x \in Int, NEW d \in Nat \ {0}, NEW q \in Int, NEW r \in Int,
         0 <= r, r < d, x = d * q + r
  PROVE  x \div d = q /\ x % d = r
<1> DEFINE k == x \div d
           m == x % d
<1>1. k \in Int /\ m \in Int /\ 0 <= m /\ m < d /\ x = d * k + m
  BY DivMod
<1> HIDE DEF k, m
<1>2. ~(k < q)
  <2> SUFFICES ASSUME k < q PROVE FALSE
    OBVIOUS
  <2>1. d * k + d <= d * q
    BY <1>1, Larger
  <2>2. d * k \in Int /\ d * q \in Int
    BY <1>1
  <2> QED BY <1>1, <2>1, <2>2
<1>3. ~(q < k)
  <2> SUFFICES ASSUME q < k PROVE FALSE
    OBVIOUS
  <2>1. d * q + d <= d * k
    BY <1>1, Larger
  <2>2. d * k \in Int /\ d * q \in Int
    BY <1>1
  <2> QED BY <1>1, <2>1, <2>2
<1>4. k = q
  BY <1>1, <1>2, <1>3
<1> QED BY <1>1, <1>4 DEF k, m

LEMMA Periods ==
  CronPeriod \in Nat \ {0} /\ StakingCycle \in Nat \ {0}
BY PeriodsAssumption DEF PeriodsAssumption

LEMMA StartOfPeriod ==
  ASSUME NEW q \in Int
  PROVE  FirstOfPeriod(CronPeriod * q) /\ (CronPeriod * q) \div CronPeriod = q
<1>1. CronPeriod \in Nat \ {0} /\ CronPeriod * q \in Int
  BY Periods
<1> DEFINE s == CronPeriod * q
<1>2. s = CronPeriod * q + 0 /\ s - 1 = CronPeriod * (q - 1) + (CronPeriod - 1)
  BY <1>1
<1> HIDE DEF s
<1>3. s \in Int
  BY <1>1 DEF s
<1>4. s \div CronPeriod = q
  BY <1>1, <1>2, <1>3, DivUnique
<1>5. (s - 1) \div CronPeriod = q - 1
  BY <1>1, <1>2, <1>3, DivUnique
<1> QED BY <1>4, <1>5 DEF FirstOfPeriod, s

LEMMA FirstIsStart ==
  ASSUME NEW t \in Int, FirstOfPeriod(t)
  PROVE  t = CronPeriod * (t \div CronPeriod)
<1> DEFINE q == t \div CronPeriod
           r == t % CronPeriod
<1>1. /\ CronPeriod \in Nat \ {0} /\ q \in Int /\ r \in Int
      /\ 0 <= r /\ r < CronPeriod /\ t = CronPeriod * q + r
  BY DivMod, Periods
<1>2. (t - 1) \div CronPeriod # q
  BY DEF FirstOfPeriod
<1> HIDE DEF q, r
<1>3. ASSUME r # 0 PROVE FALSE
  <2>1. t - 1 = CronPeriod * q + (r - 1) /\ 0 <= r - 1 /\ r - 1 < CronPeriod
    BY <1>1, <1>3
  <2>2. (t - 1) \div CronPeriod = q
    BY <1>1, <2>1, DivUnique
  <2> QED BY <1>2, <2>2
<1>4. CronPeriod * q \in Int
  BY <1>1
<1> QED BY <1>1, <1>3, <1>4 DEF q

(* Between slots of different periods a period begins.                     *)
LEMMA PeriodBetween ==
  ASSUME NEW x \in Int, NEW t \in Int, x < t,
         x \div CronPeriod # t \div CronPeriod
  PROVE  \E s \in x + 1 .. t : FirstOfPeriod(s)
<1> DEFINE p == x \div CronPeriod
           q == t \div CronPeriod
           s == CronPeriod * q
<1>1. /\ CronPeriod \in Nat \ {0} /\ p \in Int /\ q \in Int
      /\ CronPeriod * p <= x /\ x < CronPeriod * p + CronPeriod
      /\ CronPeriod * q <= t /\ t < CronPeriod * q + CronPeriod
  <2>1. CronPeriod \in Nat \ {0}
    BY Periods
  <2>2. /\ p \in Int /\ x % CronPeriod \in Int
        /\ 0 <= x % CronPeriod /\ x % CronPeriod < CronPeriod
        /\ x = CronPeriod * p + (x % CronPeriod)
    BY <2>1, DivMod
  <2>3. /\ q \in Int /\ t % CronPeriod \in Int
        /\ 0 <= t % CronPeriod /\ t % CronPeriod < CronPeriod
        /\ t = CronPeriod * q + (t % CronPeriod)
    BY <2>1, DivMod
  <2> HIDE DEF p, q
  <2>4. CronPeriod * p \in Int /\ CronPeriod * q \in Int
    BY <2>1, <2>2, <2>3
  <2> QED BY <2>1, <2>2, <2>3, <2>4
<1>2. p # q
  OBVIOUS
<1> HIDE DEF p, q
<1>3. FirstOfPeriod(s)
  BY <1>1, StartOfPeriod
<1>4. CronPeriod * p \in Int /\ CronPeriod * q \in Int
  BY <1>1
<1>5. p < q
  <2> SUFFICES ASSUME q < p PROVE FALSE
    BY <1>1, <1>2
  <2>1. CronPeriod * q + CronPeriod <= CronPeriod * p
    BY <1>1, Larger
  <2> QED BY <1>1, <1>4, <2>1
<1>6. CronPeriod * p + CronPeriod <= CronPeriod * q
  BY <1>1, <1>5, Larger
<1>7. s \in x + 1 .. t
  BY <1>1, <1>3, <1>4, <1>6
<1> QED BY <1>3, <1>7
----------------------------------------------------------------------------
(* The arithmetic of cycles, when they are whole numbers of periods.       *)

LEMMA CycleWhole ==
  ASSUME PeriodsRegular
  PROVE  CronIntervals \in Nat \ {0} /\ StakingCycle = CronPeriod * CronIntervals
<1>1. /\ CronPeriod \in Nat \ {0} /\ StakingCycle \in Nat \ {0}
      /\ StakingCycle % CronPeriod = 0
  BY Periods DEF PeriodsRegular
<1>2. /\ CronIntervals \in Int
      /\ StakingCycle = CronPeriod * CronIntervals + 0
  BY <1>1, DivMod DEF CronIntervals
<1>3. ASSUME CronIntervals <= 0 PROVE FALSE
  <2>1. CronPeriod * CronIntervals <= 0
    BY <1>1, <1>2, <1>3
  <2> QED BY <1>1, <1>2, <2>1
<1>4. CronPeriod * CronIntervals \in Int
  BY <1>1, <1>2
<1> QED BY <1>2, <1>3, <1>4

(* In which interval of its cycle a slot lies.                             *)
LEMMA Interval ==
  ASSUME PeriodsRegular, NEW t \in Int
  PROVE  /\ CronInterval(t) \in 0 .. CronIntervals - 1
         /\ t \div StakingCycle \in Int
         /\ StakingCycle * (t \div StakingCycle) + CronPeriod * CronInterval(t) <= t
         /\ t < StakingCycle * (t \div StakingCycle)
                  + CronPeriod * CronInterval(t) + CronPeriod
<1> DEFINE i == t \div StakingCycle
           w == t % StakingCycle
           k == w \div CronPeriod
           r == w % CronPeriod
<1>1. /\ CronPeriod \in Nat \ {0} /\ StakingCycle \in Nat \ {0}
      /\ CronIntervals \in Nat \ {0} /\ StakingCycle = CronPeriod * CronIntervals
  BY Periods, CycleWhole
<1>2. /\ i \in Int /\ w \in Int /\ 0 <= w /\ w < StakingCycle
      /\ t = StakingCycle * i + w
  BY <1>1, DivMod
<1>3. k = CronInterval(t)
  BY DEF CronInterval
<1> HIDE DEF w
<1>4. /\ k \in Int /\ r \in Int /\ 0 <= r /\ r < CronPeriod
      /\ w = CronPeriod * k + r
  BY <1>1, <1>2, DivMod
<1> HIDE DEF i, k, r
<1>5. StakingCycle * i \in Int /\ CronPeriod * k \in Int
  BY <1>1, <1>2, <1>4
<1>6. k >= 0
  <2> SUFFICES ASSUME k < 0 PROVE FALSE
    BY <1>4
  <2>1. CronPeriod * k + CronPeriod <= CronPeriod * 0
    BY <1>1, <1>4, Larger
  <2> QED BY <1>1, <1>2, <1>4, <1>5, <2>1
<1>7. k < CronIntervals
  <2> SUFFICES ASSUME CronIntervals <= k PROVE FALSE
    BY <1>1, <1>4
  <2>1. CronPeriod * CronIntervals <= CronPeriod * k
    <3>1. CASE CronIntervals = k
      BY <1>5, <3>1
    <3>2. CASE CronIntervals < k
      <4>1. CronPeriod * CronIntervals + CronPeriod <= CronPeriod * k
        BY <1>1, <1>4, <3>2, Larger
      <4> QED BY <1>1, <1>5, <4>1
    <3> QED BY <1>1, <1>4, <3>1, <3>2
  <2> QED BY <1>1, <1>2, <1>4, <1>5, <2>1
<1> QED BY <1>1, <1>2, <1>3, <1>4, <1>5, <1>6, <1>7 DEF i

LEMMA IntervalUnique ==
  ASSUME PeriodsRegular, NEW i \in Int, NEW k \in 0 .. CronIntervals - 1
  PROVE  /\ FirstOfPeriod(StakingCycle * i + CronPeriod * k)
         /\ CronInterval(StakingCycle * i + CronPeriod * k) = k
<1> DEFINE s == StakingCycle * i + CronPeriod * k
           w == CronPeriod * k
<1>1. /\ CronPeriod \in Nat \ {0} /\ StakingCycle \in Nat \ {0}
      /\ CronIntervals \in Nat \ {0} /\ StakingCycle = CronPeriod * CronIntervals
      /\ k \in Int /\ 0 <= k /\ k < CronIntervals
  BY Periods, CycleWhole
<1>2. w \in Int /\ 0 <= w /\ w < StakingCycle
  <2>1. CronPeriod * k + CronPeriod <= CronPeriod * CronIntervals
    BY <1>1, Larger
  <2>2. CronPeriod * k \in Int /\ 0 <= CronPeriod * k
    BY <1>1
  <2> QED BY <1>1, <2>1, <2>2
<1>3. s = StakingCycle * i + w /\ s \in Int
  <2>1. StakingCycle * i \in Int
    BY <1>1
  <2> QED BY <1>2, <2>1
<1>4. s = CronPeriod * (CronIntervals * i + k)
  <2>1. (CronPeriod * CronIntervals) * i = CronPeriod * (CronIntervals * i)
    BY <1>1
  <2>2. /\ CronIntervals * i \in Int
        /\ CronPeriod * (CronIntervals * i + k)
             = CronPeriod * (CronIntervals * i) + CronPeriod * k
    BY <1>1
  <2> QED BY <1>1, <2>1, <2>2
<1>5. CronIntervals * i + k \in Int
  BY <1>1
<1>6. FirstOfPeriod(s)
  BY <1>4, <1>5, StartOfPeriod
<1> HIDE DEF s
<1>7. s % StakingCycle = w
  <2> HIDE DEF w
  <2> QED BY <1>1, <1>2, <1>3, DivUnique
<1>8. w \div CronPeriod = k
  BY <1>1, StartOfPeriod
<1> HIDE DEF w
<1> QED BY <1>6, <1>7, <1>8 DEF CronInterval, s

(* The same interval of an earlier cycle is most of a cycle away.          *)
LEMMA TurnsApart ==
  ASSUME PeriodsRegular, NEW c \in Int, NEW t \in Int, c < t,
         FirstOfPeriod(t), CronInterval(c) = CronInterval(t)
  PROVE  t - c >= StakingCycle - CronPeriod + 1
<1> DEFINE i == t \div StakingCycle
           j == c \div StakingCycle
           k == CronInterval(t)
<1>1. /\ CronPeriod \in Nat \ {0} /\ StakingCycle \in Nat \ {0}
      /\ CronIntervals \in Nat \ {0} /\ StakingCycle = CronPeriod * CronIntervals
  BY Periods, CycleWhole
<1>2. /\ k \in 0 .. CronIntervals - 1 /\ i \in Int /\ j \in Int
      /\ StakingCycle * i + CronPeriod * k <= t
      /\ t < StakingCycle * i + CronPeriod * k + CronPeriod
      /\ StakingCycle * j + CronPeriod * k <= c
      /\ c < StakingCycle * j + CronPeriod * k + CronPeriod
  BY Interval
<1> HIDE DEF i, j, k
<1> DEFINE q == t \div CronPeriod
           p == CronIntervals * i + k
<1>3. q \in Int /\ t = CronPeriod * q
  BY <1>1, DivMod, FirstIsStart
<1> HIDE DEF q
<1>4. p \in Int /\ StakingCycle * i + CronPeriod * k = CronPeriod * p
  <2>1. (CronPeriod * CronIntervals) * i = CronPeriod * (CronIntervals * i)
    BY <1>1, <1>2
  <2>2. /\ CronIntervals * i \in Int
        /\ CronPeriod * (CronIntervals * i + k)
             = CronPeriod * (CronIntervals * i) + CronPeriod * k
    BY <1>1, <1>2
  <2> QED BY <1>1, <1>2, <2>1, <2>2
<1> HIDE DEF p
<1>5. /\ StakingCycle * i \in Int /\ CronPeriod * k \in Int
      /\ StakingCycle * j \in Int /\ CronPeriod * p \in Int /\ CronPeriod * q \in Int
  BY <1>1, <1>2, <1>3, <1>4
<1>6. q = p
  <2>1. ASSUME p < q PROVE FALSE
    <3>1. CronPeriod * p + CronPeriod <= CronPeriod * q
      BY <1>1, <1>3, <1>4, <2>1, Larger
    <3> QED BY <1>1, <1>2, <1>3, <1>4, <1>5, <3>1
  <2>2. ASSUME q < p PROVE FALSE
    <3>1. CronPeriod * q + CronPeriod <= CronPeriod * p
      BY <1>1, <1>3, <1>4, <2>2, Larger
    <3> QED BY <1>1, <1>2, <1>3, <1>4, <1>5, <3>1
  <2> QED BY <1>3, <1>4, <2>1, <2>2
<1>7. t = StakingCycle * i + CronPeriod * k
  BY <1>3, <1>4, <1>6
<1>8. j < i
  <2> SUFFICES ASSUME i <= j PROVE FALSE
    BY <1>2
  <2>1. StakingCycle * i <= StakingCycle * j
    <3>1. CASE i = j
      BY <1>5, <3>1
    <3>2. CASE i < j
      <4>1. StakingCycle * i + StakingCycle <= StakingCycle * j
        BY <1>1, <1>2, <3>2, Larger
      <4> QED BY <1>1, <1>5, <4>1
    <3> QED BY <1>2, <3>1, <3>2
  <2> QED BY <1>2, <1>5, <1>7, <2>1
<1>9. StakingCycle * j + StakingCycle <= StakingCycle * i
  BY <1>1, <1>2, <1>8, Larger
<1> QED BY <1>1, <1>2, <1>5, <1>7, <1>9

(* Each interval begins once in as many slots as a cycle has.              *)
LEMMA TurnComes ==
  ASSUME PeriodsRegular, NEW x \in Int, NEW k \in 0 .. CronIntervals - 1
  PROVE  \E s \in x .. x + StakingCycle - 1 :
           FirstOfPeriod(s) /\ CronInterval(s) = k
<1> DEFINE w == CronPeriod * k
           y == x - w + StakingCycle - 1
           m == y \div StakingCycle
           r == y % StakingCycle
           s == StakingCycle * m + CronPeriod * k
<1>1. /\ CronPeriod \in Nat \ {0} /\ StakingCycle \in Nat \ {0} /\ k \in Int
  BY Periods
<1>2. w \in Int /\ y \in Int
  BY <1>1
<1> HIDE DEF y
<1>3. /\ m \in Int /\ r \in Int /\ 0 <= r /\ r < StakingCycle
      /\ y = StakingCycle * m + r
  BY <1>1, <1>2, DivMod
<1> HIDE DEF m, r
<1>4. FirstOfPeriod(s) /\ CronInterval(s) = k
  BY <1>3, IntervalUnique
<1>5. StakingCycle * m \in Int
  BY <1>1, <1>3
<1> HIDE DEF w
<1>6. s = x + StakingCycle - 1 - r
  <2>1. s = StakingCycle * m + w /\ y = x - w + StakingCycle - 1
    BY DEF w, y
  <2> HIDE DEF s
  <2> QED BY <1>1, <1>2, <1>3, <1>5, <2>1
<1>7. s \in x .. x + StakingCycle - 1
  <2> HIDE DEF s
  <2> QED BY <1>1, <1>3, <1>6
<1> QED BY <1>4, <1>7
----------------------------------------------------------------------------
(* The ranges of names: every person is in one, and in no other.           *)

LEMMA RangeSizes ==
  ASSUME PeriodsRegular
  PROVE  /\ RangeSize \in Nat
         /\ LowestPerson \in Int /\ HighestPerson \in Int
         /\ CronIntervals \in Nat \ {0}
         /\ \A k \in Int : k * RangeSize = RangeSize * k
<1>1. /\ LowestPerson \in Int /\ HighestPerson \in Int
      /\ HighestPerson - LowestPerson >= 0
      /\ CronIntervals \in Nat \ {0}
  BY CycleWhole, NamesAssumption DEF NamesAssumption
<1> DEFINE x == HighestPerson - LowestPerson
           r == x % CronIntervals
<1>2. /\ RangeSize \in Int /\ r \in Int /\ 0 <= r /\ r < CronIntervals
      /\ x = CronIntervals * RangeSize + r
  <2>1. x \in Int
    BY <1>1
  <2> HIDE DEF x
  <2> QED BY <1>1, <2>1, DivMod DEF RangeSize, x
<1> HIDE DEF r
<1>3. ASSUME RangeSize < 0 PROVE FALSE
  <2>1. CronIntervals * RangeSize + CronIntervals <= CronIntervals * 0
    BY <1>1, <1>2, <1>3, Larger
  <2>2. CronIntervals * RangeSize \in Int
    BY <1>1, <1>2
  <2> QED BY <1>1, <1>2, <2>1, <2>2
<1>4. \A k \in Int : k * RangeSize = RangeSize * k
  BY <1>2
<1> QED BY <1>1, <1>2, <1>3, <1>4

LEMMA RangeOf ==
  ASSUME PeriodsRegular, NEW a \in Persons
  PROVE  \E k \in 0 .. CronIntervals - 1 : a \in NameRange(k)
<1> DEFINE R == RangeSize
           last == CronIntervals - 1
<1>1. /\ R \in Nat /\ LowestPerson \in Int /\ HighestPerson \in Int
      /\ last \in Nat /\ \A k \in Int : k * R = R * k
  BY RangeSizes
<1>2. a \in Int /\ LowestPerson <= a /\ a <= HighestPerson
  BY <1>1 DEF Persons
<1> HIDE DEF R
<1>3. \A k \in Int : LowerBound(k) = LowestPerson + R * k /\ R * k \in Int
  BY <1>1 DEF LowerBound, R
<1>4. CASE LowestPerson + R * last <= a
  <2>1. a \in NameRange(last) /\ last \in 0 .. CronIntervals - 1
    BY <1>1, <1>2, <1>3, <1>4 DEF NameRange, UpperBound
  <2> QED BY <2>1
<1>5. CASE a < LowestPerson + R * last
  <2>1. R # 0
    <3> SUFFICES ASSUME R = 0 PROVE FALSE
      OBVIOUS
    <3>1. R * last = 0
      BY <1>1
    <3> QED BY <1>1, <1>2, <1>5, <3>1
  <2> DEFINE x == a - LowestPerson
             k == x \div R
             r == x % R
  <2>2. x \in Int /\ 0 <= x /\ x < R * last
    BY <1>1, <1>2, <1>3, <1>5
  <2>3. /\ k \in Int /\ r \in Int /\ 0 <= r /\ r < R /\ x = R * k + r
    <3> HIDE DEF x
    <3> QED BY <1>1, <2>1, <2>2, DivMod
  <2> HIDE DEF k, r
  <2>4. R * k \in Int /\ R * last \in Int
    BY <1>1, <2>3
  <2> HIDE DEF last
  <2>5. k >= 0
    <3> SUFFICES ASSUME k < 0 PROVE FALSE
      BY <2>3
    <3>1. R * k + R <= R * 0
      BY <1>1, <2>3, Larger
    <3> QED BY <1>1, <2>2, <2>3, <2>4, <3>1
  <2>6. k < last
    <3> SUFFICES ASSUME last <= k PROVE FALSE
      BY <1>1, <2>3
    <3>1. R * last <= R * k
      <4>1. CASE last = k
        BY <2>4, <4>1
      <4>2. CASE last < k
        <5>1. R * last + R <= R * k
          BY <1>1, <2>3, <4>2, Larger
        <5> QED BY <1>1, <2>4, <5>1
      <4> QED BY <1>1, <2>3, <4>1, <4>2
    <3> QED BY <1>1, <2>2, <2>3, <2>4, <3>1
  <2>7. LowerBound(k) <= a /\ a < LowerBound(k) + R
    BY <1>1, <1>2, <1>3, <2>3, <2>4
  <2>8. k \in 0 .. CronIntervals - 1 /\ k # CronIntervals - 1
    BY <1>1, <2>3, <2>5, <2>6 DEF last
  <2>9. a \in NameRange(k)
    BY <2>7, <2>8 DEF NameRange, UpperBound, R
  <2> QED BY <2>8, <2>9
<1> QED BY <1>1, <1>2, <1>3, <1>4, <1>5

LEMMA RangesApart ==
  ASSUME PeriodsRegular, NEW a \in Persons,
         NEW k \in 0 .. CronIntervals - 1, NEW l \in 0 .. CronIntervals - 1,
         a \in NameRange(k), a \in NameRange(l)
  PROVE  k = l
<1> DEFINE R == RangeSize
<1>1. /\ R \in Nat /\ LowestPerson \in Int /\ HighestPerson \in Int
      /\ CronIntervals \in Nat /\ \A i \in Int : i * R = R * i
  BY RangeSizes
<1>2. a \in Int
  BY <1>1 DEF Persons
<1> HIDE DEF R
<1>3. \A i \in Int : LowerBound(i) = LowestPerson + R * i /\ R * i \in Int
  BY <1>1 DEF LowerBound, R
<1>4. ASSUME NEW i \in 0 .. CronIntervals - 1, NEW j \in 0 .. CronIntervals - 1,
             i < j, a \in NameRange(i), a \in NameRange(j)
      PROVE  FALSE
  <2>1. i # CronIntervals - 1 /\ i \in Int /\ j \in Int
    BY <1>1, <1>4
  <2>2. a < LowerBound(i) + R /\ LowerBound(j) <= a
    BY <1>4, <2>1 DEF NameRange, UpperBound, R
  <2>3. R * i + R <= R * j
    BY <1>1, <1>4, <2>1, Larger
  <2> QED BY <1>1, <1>2, <1>3, <2>1, <2>2, <2>3
<1>5. ~(k < l) /\ ~(l < k)
  BY <1>4
<1> QED BY <1>1, <1>5
----------------------------------------------------------------------------
(* The history: which slots are whose turn, and what has happened in them. *)

Turn(a, s) == FirstOfPeriod(s) /\ a \in NameRange(CronInterval(s))

(* Without settings there is nothing to pay.                               *)
BooksOpen == ~settings.exists => \A a \in Persons : DOMAIN allocs[a] = {}

(* Accounts are visited in their own interval of a cycle.                  *)
VisitedInTurn ==
  \A a \in Persons :
    \/ visited[a] = Never
    \/ /\ visited[a] \in Nat /\ visited[a] <= now
       /\ a \in NameRange(CronInterval(visited[a]))

(* So are they paid; and who was not paid yet has no row from before the   *)
(* account was made.                                                       *)
PaidInTurn ==
  \A a \in DOMAIN accounts :
    \/ a \in NameRange(CronInterval(accounts[a].last_payout))
    \/ \A id \in DOMAIN allocs[a] :
         accounts[a].last_payout <= allocs[a][id].stake_time

(* Undisturbed, a row that is being released goes at its owner's first     *)
(* turn.                                                                   *)
NoTurnSince ==
  \A a \in Persons : \A id \in DOMAIN allocs[a] :
    allocs[a][id].unstake_requested =>
      \A s \in allocs[a][id].unstake_time + ReleasePeriod .. now : ~Turn(a, s)

HistoryInv ==
  /\ IInv
  /\ disturbed \in BOOLEAN
  /\ BooksOpen
  /\ VisitedInTurn
  /\ PaidInTurn
  /\ ~disturbed => NoTurnSince

(* What a step may do to rows and payouts.                                 *)
RowKept(a, id) ==
  /\ id \in DOMAIN allocs[a]
  /\ allocs'[a][id].stake_time = allocs[a][id].stake_time
  /\ allocs'[a][id].unstake_requested = allocs[a][id].unstake_requested
  /\ allocs'[a][id].unstake_time = allocs[a][id].unstake_time

RowRequested(a, id) ==
  /\ id \in DOMAIN allocs[a]
  /\ allocs'[a][id].stake_time = allocs[a][id].stake_time
  /\ allocs'[a][id].unstake_time = now

RowNew(a, id) ==
  allocs'[a][id].stake_time = now /\ ~allocs'[a][id].unstake_requested

RowsTraced ==
  /\ \A a \in Persons : \A id \in DOMAIN allocs'[a] :
       RowKept(a, id) \/ RowRequested(a, id) \/ RowNew(a, id)
  /\ \A a \in DOMAIN accounts' :
       \/ /\ a \in DOMAIN accounts
          /\ accounts'[a].last_payout = accounts[a].last_payout
       \/ a \notin DOMAIN accounts /\ accounts'[a].last_payout = now

CronTraced(t) ==
  /\ \A a \in Persons : \A id \in DOMAIN allocs'[a] :
       RowKept(a, id) /\ ~(a \in Processed(t) /\ Releasable(allocs[a][id], t))
  /\ \A a \in DOMAIN accounts' :
       /\ a \in DOMAIN accounts
       /\ \/ accounts'[a].last_payout = accounts[a].last_payout
          \/ accounts'[a].last_payout = t /\ a \in NameRange(CronInterval(t))
----------------------------------------------------------------------------
LEMMA AllRowsKept ==
  ASSUME NEW a \in Persons, allocs'[a] = allocs[a]
  PROVE  \A id \in DOMAIN allocs'[a] : RowKept(a, id)
BY DEF RowKept

LEMMA StakeTraced ==
  ASSUME IInv, BooksOpen, NEW staker \in Accounts, NEW q \in Quantities,
         StakeTokens(staker, q)
  PROVE  RowsTraced /\ BooksOpen' /\ now' = now
<1> DEFINE t == allocs[staker]
           key == AvailablePrimaryKey(t)
           row == NewAllocation(q)
           u == WithRow(t, key, row)
<1>1. /\ staker \in Persons /\ allocs' = [allocs EXCEPT ![staker] = u]
      /\ accounts' = AccountsAfterStake(staker)
      /\ settings.exists /\ settings' = [settings EXCEPT !.total_staked = @ + q]
      /\ now' = now
  BY DEF StakeTokens
<1>2. IsAllocationTable(t) /\ allocs = [a \in Persons |-> allocs[a]]
  BY <1>1, IInvTables
<1>3. key \notin DOMAIN t
  BY <1>2, FreshKey
<1>4. row.stake_time = now /\ ~row.unstake_requested
  BY DEF NewAllocation
<1> HIDE DEF key, row
<1>5. /\ DOMAIN u = DOMAIN t \cup {key} /\ u[key] = row
      /\ \A id \in DOMAIN t : u[id] = t[id]
  BY <1>3 DEF WithRow
<1> HIDE DEF u
<1>6. \A a \in Persons : allocs'[a] = IF a = staker THEN u ELSE allocs[a]
  BY <1>1, <1>2
<1>7. ASSUME NEW a \in Persons, NEW id \in DOMAIN allocs'[a]
      PROVE  RowKept(a, id) \/ RowNew(a, id)
  BY <1>4, <1>5, <1>6, <1>7 DEF RowKept, RowNew
<1>8. ASSUME NEW a \in DOMAIN accounts'
      PROVE  \/ /\ a \in DOMAIN accounts
                /\ accounts'[a].last_payout = accounts[a].last_payout
             \/ a \notin DOMAIN accounts /\ accounts'[a].last_payout = now
  BY <1>1, <1>8 DEF AccountsAfterStake, WithRow
<1>9. BooksOpen'
  <2>1. settings'.exists
    BY <1>1 DEF IInv, TypeOK, Settings
  <2> QED BY <2>1 DEF BooksOpen
<1> QED BY <1>1, <1>7, <1>8, <1>9 DEF RowsTraced

LEMMA RequestTraced ==
  ASSUME IInv, BooksOpen, NEW staker \in Persons, NEW id \in DOMAIN allocs[staker],
         RequestUnstake(staker, id)
  PROVE  RowsTraced /\ BooksOpen' /\ now' = now
<1> DEFINE row == Requested(allocs[staker][id])
           u == [allocs[staker] EXCEPT ![id] = row]
<1>1. /\ allocs' = [allocs EXCEPT ![staker] = u]
      /\ accounts' = accounts /\ now' = now
  BY DEF RequestUnstake
<1>2. allocs = [a \in Persons |-> allocs[a]] /\ allocs[staker][id] \in Allocation
  BY IInvTables DEF IsAllocationTable
<1>3. row.stake_time = allocs[staker][id].stake_time /\ row.unstake_time = now
  BY <1>2 DEF Requested, Allocation
<1> HIDE DEF row
<1>4. /\ DOMAIN u = DOMAIN allocs[staker] /\ u[id] = row
      /\ \A k \in DOMAIN u : k # id => u[k] = allocs[staker][k]
  OBVIOUS
<1> HIDE DEF u
<1>5. \A a \in Persons : allocs'[a] = IF a = staker THEN u ELSE allocs[a]
  BY <1>1, <1>2
<1>6. ASSUME NEW a \in Persons, NEW k \in DOMAIN allocs'[a]
      PROVE  RowKept(a, k) \/ RowRequested(a, k)
  BY <1>3, <1>4, <1>5, <1>6 DEF RowKept, RowRequested
<1>7. BooksOpen'
  <2>1. settings.exists
    BY DEF BooksOpen
  <2>2. settings'.exists
    BY <2>1 DEF RequestUnstake, IInv, TypeOK, Settings
  <2> QED BY <2>2 DEF BooksOpen
<1> QED BY <1>1, <1>6, <1>7 DEF RowsTraced

LEMMA ReleaseTraced ==
  ASSUME IInv, BooksOpen, NEW staker \in Persons, NEW id \in DOMAIN allocs[staker],
         ReleaseToken(staker, id)
  PROVE  RowsTraced /\ BooksOpen' /\ now' = now
<1> DEFINE u == WithoutRows(allocs[staker], {id})
<1>1. /\ allocs' = [allocs EXCEPT ![staker] = u]
      /\ accounts' = accounts /\ now' = now
  BY DEF ReleaseToken
<1>2. allocs = [a \in Persons |-> allocs[a]]
  BY IInvTables
<1>3. /\ DOMAIN u \subseteq DOMAIN allocs[staker]
      /\ \A k \in DOMAIN u : u[k] = allocs[staker][k]
  BY DEF WithoutRows, Restrict
<1> HIDE DEF u
<1>4. \A a \in Persons : allocs'[a] = IF a = staker THEN u ELSE allocs[a]
  BY <1>1, <1>2
<1>5. ASSUME NEW a \in Persons, NEW k \in DOMAIN allocs'[a]
      PROVE  RowKept(a, k)
  BY <1>3, <1>4, <1>5 DEF RowKept
<1>6. BooksOpen'
  <2>1. settings.exists
    BY DEF BooksOpen
  <2>2. settings'.exists
    BY <2>1 DEF ReleaseToken, IInv, TypeOK, Settings
  <2> QED BY <2>2 DEF BooksOpen
<1> QED BY <1>1, <1>5, <1>6 DEF RowsTraced

LEMMA UntouchedTraced ==
  ASSUME BooksOpen, UNCHANGED <<now, accounts, allocs>>,
         settings.exists => settings'.exists
  PROVE  RowsTraced /\ BooksOpen' /\ now' = now
BY AllRowsKept DEF RowsTraced, BooksOpen

LEMMA ResetTraced ==
  ASSUME IInv, ResetAll
  PROVE  RowsTraced /\ BooksOpen' /\ now' = now
<1>1. /\ accounts' = EmptyTable /\ now' = now
      /\ allocs' = [a \in Persons |-> IF a \in DOMAIN accounts
                                      THEN EmptyTable ELSE allocs[a]]
  BY DEF ResetAll
<1>2. DOMAIN EmptyTable = {}
  BY DEF EmptyTable
<1>3. \A a \in Persons : DOMAIN allocs'[a] = {}
  BY <1>1, <1>2 DEF IInv, StakersListed
<1> QED BY <1>1, <1>2, <1>3 DEF RowsTraced, BooksOpen

LEMMA CallTraced ==
  ASSUME IInv, BooksOpen, Call
  PROVE  RowsTraced /\ BooksOpen' /\ now' = now
<1>1. ASSUME NEW q \in Quantities, SetSettings(q)
      PROVE  RowsTraced /\ BooksOpen' /\ now' = now
  <2>1. UNCHANGED <<now, accounts, allocs>> /\ settings'.exists
    BY <1>1 DEF SetSettings, IInv, TypeOK, Settings
  <2> QED BY <2>1, UntouchedTraced
<1>2. ASSUME NEW a \in Accounts, NEW q \in Quantities, AddYield(a, q)
      PROVE  RowsTraced /\ BooksOpen' /\ now' = now
  <2>1. UNCHANGED <<now, accounts, allocs>> /\ settings'.exists
    BY <1>2 DEF AddYield, IInv, TypeOK, Settings
  <2> QED BY <2>1, UntouchedTraced
<1>3. ASSUME NEW a \in Payers, NEW b \in Accounts, NEW q \in Quantities,
             Transfer(a, b, q)
      PROVE  RowsTraced /\ BooksOpen' /\ now' = now
  <2>1. UNCHANGED <<now, accounts, allocs>> /\ settings' = settings
    BY <1>3 DEF Transfer
  <2> QED BY <2>1, UntouchedTraced
<1> QED
  BY <1>1, <1>2, <1>3, StakeTraced, RequestTraced, ReleaseTraced, ResetTraced
     DEF Call

LEMMA CronIsTraced ==
  ASSUME IInv, NEW t \in Nat, Cron(t)
  PROVE  CronTraced(t) /\ BooksOpen'
<1>1. /\ allocs' = [a \in Persons |-> IF a \in Processed(t)
                                      THEN RowsAfterCron(a, t) ELSE allocs[a]]
      /\ DOMAIN accounts' = DOMAIN accounts
      /\ \A a \in DOMAIN accounts :
           accounts'[a] = IF a \in Processed(t) /\ AccountYield(a, t) # 0
                          THEN [total_yield |-> accounts[a].total_yield
                                                  + AccountYield(a, t),
                                last_payout |-> t]
                          ELSE accounts[a]
  BY DEF Cron
<1>2. ASSUME NEW a \in Persons, NEW id \in DOMAIN allocs'[a]
      PROVE  RowKept(a, id) /\ ~(a \in Processed(t) /\ Releasable(allocs[a][id], t))
  <2>1. CASE a \in Processed(t)
    <3>1. allocs'[a] = RowsAfterCron(a, t)
      BY <1>1, <2>1
    <3>2. /\ id \in DOMAIN allocs[a] /\ id \notin Released(a, t)
          /\ allocs'[a][id] = Grown(allocs[a][id], RowYield(a, allocs[a][id], t))
      BY <1>2, <3>1 DEF RowsAfterCron
    <3>3. allocs[a][id] \in Allocation
      BY <3>2, IInvTables DEF IsAllocationTable
    <3>4. RowKept(a, id)
      BY <3>2, <3>3 DEF RowKept, Grown, Allocation
    <3> QED BY <3>2, <3>4 DEF Released
  <2>2. CASE a \notin Processed(t)
    BY <1>1, <1>2, <2>2 DEF RowKept
  <2> QED BY <2>1, <2>2
<1>3. ASSUME NEW a \in DOMAIN accounts'
      PROVE  /\ a \in DOMAIN accounts
             /\ \/ accounts'[a].last_payout = accounts[a].last_payout
                \/ accounts'[a].last_payout = t /\ a \in NameRange(CronInterval(t))
  <2>1. a \in Processed(t) => a \in NameRange(CronInterval(t))
    BY DEF Processed, Batch
  <2> QED BY <1>1, <1>3, <2>1
<1>4. BooksOpen'
  <2>1. settings'.exists
    BY DEF Cron, CronSucceeds, IInv, TypeOK, Settings
  <2> QED BY <2>1 DEF BooksOpen
<1> QED BY <1>2, <1>3, <1>4 DEF CronTraced
----------------------------------------------------------------------------
(* The types the steps below use.                                          *)
LEMMA Slots ==
  ASSUME IInv
  PROVE  /\ now \in Nat /\ DOMAIN accounts \subseteq Persons
         /\ \A a \in DOMAIN accounts : /\ accounts[a].last_payout \in Nat
                                       /\ accounts[a].last_payout <= now
         /\ \A a \in Persons : \A id \in DOMAIN allocs[a] :
              /\ allocs[a][id].stake_time \in Nat
              /\ allocs[a][id].unstake_time \in Nat
              /\ allocs[a][id].unstake_requested =>
                   allocs[a][id].stake_time + LockupPeriod
                     <= allocs[a][id].unstake_time
              /\ a \in DOMAIN accounts
<1>1. now \in Nat /\ DOMAIN accounts \subseteq Persons
  BY PeriodsAssumption DEF PeriodsAssumption, IInv, TypeOK
<1>2. \A a \in DOMAIN accounts : /\ accounts[a].last_payout \in Nat
                                 /\ accounts[a].last_payout <= now
  BY DEF IInv, TypeOK, StakingAccount, RowsSound
<1>3. ASSUME NEW a \in Persons, NEW id \in DOMAIN allocs[a]
      PROVE  /\ allocs[a][id].stake_time \in Nat
             /\ allocs[a][id].unstake_time \in Nat
             /\ allocs[a][id].unstake_requested =>
                  allocs[a][id].stake_time + LockupPeriod
                    <= allocs[a][id].unstake_time
             /\ a \in DOMAIN accounts
  <2>1. allocs[a][id] \in Allocation /\ IsSoundTable(allocs[a])
    BY <1>3, IInvTables DEF IsAllocationTable
  <2>2. a \in DOMAIN accounts
    BY <1>3 DEF IInv, StakersListed
  <2> QED BY <1>3, <2>1, <2>2 DEF Allocation, IsSoundTable
<1> QED BY <1>1, <1>2, <1>3

LEMMA TracedPaidInTurn ==
  ASSUME IInv, PaidInTurn, RowsTraced, DOMAIN accounts' \subseteq Persons
  PROVE  PaidInTurn'
<1> SUFFICES ASSUME NEW a \in DOMAIN accounts',
                    a \notin NameRange(CronInterval(accounts'[a].last_payout)),
                    NEW id \in DOMAIN allocs'[a]
             PROVE  accounts'[a].last_payout <= allocs'[a][id].stake_time
  BY DEF PaidInTurn
<1>1. /\ a \in Persons
      /\ RowKept(a, id) \/ RowRequested(a, id) \/ RowNew(a, id)
  BY DEF RowsTraced
<1>2. CASE a \in DOMAIN accounts /\ accounts'[a].last_payout = accounts[a].last_payout
  <2>1. \A k \in DOMAIN allocs[a] :
          accounts[a].last_payout <= allocs[a][k].stake_time
    BY <1>2 DEF PaidInTurn
  <2>2. accounts[a].last_payout <= now
    BY <1>2, Slots
  <2> QED BY <1>1, <1>2, <2>1, <2>2 DEF RowKept, RowRequested, RowNew
<1>3. CASE a \notin DOMAIN accounts /\ accounts'[a].last_payout = now
  <2>1. id \notin DOMAIN allocs[a]
    BY <1>1, <1>3, Slots
  <2>2. allocs'[a][id].stake_time = now /\ now \in Nat
    BY <1>1, <2>1, Slots DEF RowKept, RowRequested, RowNew
  <2> QED BY <1>3, <2>2
<1> QED BY <1>2, <1>3 DEF RowsTraced

LEMMA TracedNoTurnSince ==
  ASSUME PeriodsRegular, IInv, NoTurnSince, RowsTraced, now' = now
  PROVE  NoTurnSince'
<1> SUFFICES ASSUME NEW a \in Persons, NEW id \in DOMAIN allocs'[a],
                    allocs'[a][id].unstake_requested,
                    NEW s \in allocs'[a][id].unstake_time + ReleasePeriod .. now
             PROVE  ~Turn(a, s)
  BY DEF NoTurnSince, Turn, FirstOfPeriod, NameRange
<1>1. RowKept(a, id) \/ RowRequested(a, id)
  BY DEF RowsTraced, RowNew
<1>2. now \in Nat /\ ReleasePeriod \in Nat /\ ReleasePeriod > 0
  BY Slots, PeriodsAssumption DEF PeriodsAssumption, PeriodsRegular
<1>3. allocs'[a][id].unstake_time # now
  BY <1>2
<1>4. RowKept(a, id)
  BY <1>1, <1>3 DEF RowRequested
<1> QED BY <1>4 DEF RowKept, NoTurnSince

LEMMA TracedVisited ==
  ASSUME VisitedInTurn, IInv, UNCHANGED visited, now' \in Nat, now <= now'
  PROVE  VisitedInTurn'
<1> SUFFICES ASSUME NEW a \in Persons, visited[a] # Never
             PROVE  /\ visited[a] \in Nat /\ visited[a] <= now'
                    /\ a \in NameRange(CronInterval(visited[a]))
  BY DEF VisitedInTurn
<1> QED BY Slots DEF VisitedInTurn

(* An account is not visited, and not paid, shortly before its turn.       *)
LEMMA LongAgo ==
  ASSUME PeriodsRegular, NEW a \in Persons, NEW c \in Nat, NEW t \in Nat, c < t,
         a \in NameRange(CronInterval(c)), Turn(a, t)
  PROVE  100 * (t - c) >= 101 * CronPeriod
<1>1. CronInterval(c) = CronInterval(t)
  <2>1. /\ CronInterval(c) \in 0 .. CronIntervals - 1
        /\ CronInterval(t) \in 0 .. CronIntervals - 1
    BY Interval
  <2> QED BY <2>1, RangesApart DEF Turn
<1>2. t - c >= StakingCycle - CronPeriod + 1
  BY <1>1, TurnsApart DEF Turn
<1> QED BY <1>2, Periods DEF PeriodsRegular

LEMMA NotRecently ==
  ASSUME PeriodsRegular, HistoryInv, NEW t \in Nat, now < t,
         NEW a \in Persons, NEW id \in DOMAIN allocs[a], Turn(a, t),
         allocs[a][id].unstake_requested,
         allocs[a][id].unstake_time + ReleasePeriod <= t
  PROVE  /\ a \in DOMAIN accounts
         /\ ~PaidRecently(a, t) /\ ~VisitedRecently(a, t)
<1>1. /\ IInv /\ VisitedInTurn /\ PaidInTurn
      /\ CronPeriod \in Nat /\ LockupPeriod \in Nat /\ ReleasePeriod \in Nat
  BY PeriodsAssumption DEF HistoryInv, PeriodsAssumption
<1>2. /\ a \in DOMAIN accounts /\ now \in Nat
      /\ accounts[a].last_payout \in Nat /\ accounts[a].last_payout <= now
      /\ allocs[a][id].stake_time \in Nat /\ allocs[a][id].unstake_time \in Nat
      /\ allocs[a][id].stake_time + LockupPeriod <= allocs[a][id].unstake_time
  BY <1>1, Slots
<1>3. 100 * (t - accounts[a].last_payout) >= 101 * CronPeriod
  <2>1. CASE a \in NameRange(CronInterval(accounts[a].last_payout))
    <3>1. accounts[a].last_payout < t
      BY <1>2
    <3> QED BY <1>2, <2>1, <3>1, LongAgo
  <2>2. CASE accounts[a].last_payout <= allocs[a][id].stake_time
    <3>1. t - accounts[a].last_payout >= LockupPeriod + ReleasePeriod
      BY <1>1, <1>2, <2>2
    <3> QED BY <1>1, <1>2, <3>1 DEF PeriodsRegular
  <2> QED BY <1>1, <1>2, <2>1, <2>2 DEF PaidInTurn
<1>4. 100 * (t - visited[a]) >= 101 * CronPeriod
  <2>1. CASE visited[a] = Never
    BY <1>1, <2>1 DEF Never
  <2>2. CASE /\ visited[a] \in Nat /\ visited[a] <= now
             /\ a \in NameRange(CronInterval(visited[a]))
    <3>1. visited[a] < t
      BY <1>2, <2>2
    <3> QED BY <2>2, <3>1, LongAgo
  <2> QED BY <1>1, <2>1, <2>2 DEF VisitedInTurn
<1>5. /\ 100 * (t - accounts[a].last_payout) \in Int
      /\ 100 * (t - visited[a]) \in Int /\ 101 * CronPeriod \in Int
  <2>1. visited[a] \in Int
    BY <1>1 DEF VisitedInTurn, Never
  <2> QED BY <1>1, <1>2, <2>1
<1> QED BY <1>2, <1>3, <1>4, <1>5 DEF PaidRecently, VisitedRecently
----------------------------------------------------------------------------
LEMMA CronPaidInTurn ==
  ASSUME PaidInTurn, NEW t \in Nat, CronTraced(t), DOMAIN accounts' \subseteq Persons
  PROVE  PaidInTurn'
<1> SUFFICES ASSUME NEW a \in DOMAIN accounts',
                    a \notin NameRange(CronInterval(accounts'[a].last_payout)),
                    NEW id \in DOMAIN allocs'[a]
             PROVE  accounts'[a].last_payout <= allocs'[a][id].stake_time
  BY DEF PaidInTurn
<1>1. a \in Persons /\ RowKept(a, id)
  BY DEF CronTraced
<1>2. a \in DOMAIN accounts /\ accounts'[a].last_payout = accounts[a].last_payout
  BY DEF CronTraced
<1> QED BY <1>1, <1>2 DEF RowKept, PaidInTurn

LEMMA CronNoTurnSince ==
  ASSUME IInv, NoTurnSince, NEW t \in Nat, CronTraced(t), now' = now
  PROVE  NoTurnSince'
<1> SUFFICES ASSUME NEW a \in Persons, NEW id \in DOMAIN allocs'[a],
                    allocs'[a][id].unstake_requested,
                    NEW s \in allocs'[a][id].unstake_time + ReleasePeriod .. now
             PROVE  ~Turn(a, s)
  BY DEF NoTurnSince, Turn, FirstOfPeriod, NameRange
<1>1. RowKept(a, id)
  BY DEF CronTraced
<1> QED BY <1>1 DEF RowKept, NoTurnSince

LEMMA CronVisited ==
  ASSUME VisitedInTurn, IInv, NEW t \in Nat, now <= t, now' = t, RecordCron(t)
  PROVE  VisitedInTurn'
<1> SUFFICES ASSUME NEW a \in Persons, visited'[a] # Never
             PROVE  /\ visited'[a] \in Nat /\ visited'[a] <= t
                    /\ a \in NameRange(CronInterval(visited'[a]))
  BY DEF VisitedInTurn
<1>1. visited'[a] = IF a \in Processed(t) THEN t ELSE visited[a]
  BY DEF RecordCron
<1>2. a \in Processed(t) => a \in NameRange(CronInterval(t))
  BY DEF Processed, Batch
<1>3. now \in Nat
  BY Slots
<1> QED BY <1>1, <1>2, <1>3 DEF VisitedInTurn

LEMMA InitHistory == HInit => HistoryInv
<1> SUFFICES ASSUME HInit PROVE HistoryInv
  OBVIOUS
<1>1. IInv
  BY InitIInv DEF HInit
<1>2. /\ accounts = EmptyTable /\ DOMAIN EmptyTable = {}
      /\ \A a \in Persons : visited[a] = Never /\ allocs[a] = EmptyTable
      /\ disturbed = FALSE
  BY DEF HInit, Init, EmptyTable
<1> QED BY <1>1, <1>2
        DEF HistoryInv, BooksOpen, VisitedInTurn, PaidInTurn, NoTurnSince

LEMMA CallHistory ==
  ASSUME PeriodsRegular, HistoryInv, IInv', HCall
  PROVE  HistoryInv'
<1>1. /\ IInv /\ BooksOpen /\ VisitedInTurn /\ PaidInTurn
      /\ disturbed \in BOOLEAN /\ (~disturbed => NoTurnSince)
      /\ Call /\ UNCHANGED <<visited, disturbed>>
  BY DEF HistoryInv, HCall, history
<1>2. RowsTraced /\ BooksOpen' /\ now' = now
  BY <1>1, CallTraced
<1>3. PaidInTurn'
  BY <1>1, <1>2, TracedPaidInTurn DEF IInv, TypeOK
<1>4. VisitedInTurn'
  BY <1>1, <1>2, Slots, TracedVisited
<1>5. ~disturbed => NoTurnSince'
  BY <1>1, <1>2, TracedNoTurnSince
<1> QED BY <1>1, <1>2, <1>3, <1>4, <1>5 DEF HistoryInv

LEMMA CronByHandHistory ==
  ASSUME HistoryInv, IInv', HCronByHand
  PROVE  HistoryInv'
<1>1. /\ IInv /\ BooksOpen /\ VisitedInTurn /\ PaidInTurn
      /\ disturbed \in BOOLEAN /\ (~disturbed => NoTurnSince)
      /\ Cron(now) /\ now' = now /\ RecordCron(now)
      /\ disturbed' = (disturbed \/ LeftOut(now) # {})
  BY DEF HistoryInv, HCronByHand, CronByHand
<1>2. now \in Nat
  BY <1>1, Slots
<1>3. CronTraced(now) /\ BooksOpen'
  BY <1>1, <1>2, CronIsTraced
<1>4. PaidInTurn'
  BY <1>1, <1>2, <1>3, CronPaidInTurn DEF IInv, TypeOK
<1>5. VisitedInTurn'
  BY <1>1, <1>2, CronVisited
<1>6. disturbed' \in BOOLEAN /\ (~disturbed' => NoTurnSince')
  BY <1>1, <1>2, <1>3, CronNoTurnSince
<1> QED BY <1>3, <1>4, <1>5, <1>6 DEF HistoryInv

(* Whose turn it is in a block gets what is due: either the cron of that   *)
(* block erases the row, or the block counts as disturbed.                 *)
LEMMA TurnPays ==
  ASSUME PeriodsRegular, HistoryInv, NEW t \in Nat, now < t,
         NEW a \in Persons, NEW id \in DOMAIN allocs[a], Turn(a, t),
         allocs[a][id].unstake_requested,
         allocs[a][id].unstake_time + ReleasePeriod <= t
  PROVE  /\ settings.exists
         /\ LeftOut(t) = {} => a \in Processed(t) /\ Releasable(allocs[a][id], t)
<1>1. /\ a \in DOMAIN accounts
      /\ ~PaidRecently(a, t) /\ ~VisitedRecently(a, t)
  BY NotRecently
<1>2. a \in Batch(t)
  BY <1>1 DEF Batch, Turn
<1>3. settings.exists
  BY DEF HistoryInv, BooksOpen
<1> QED BY <1>1, <1>2, <1>3 DEF LeftOut, Releasable

LEMMA BlockHistory ==
  ASSUME PeriodsRegular, HistoryInv, IInv', HBlock
  PROVE  HistoryInv'
<1> DEFINE t == now'
           sent == FirstOfPeriod(t)
           works == sent /\ CronSucceeds(t)
<1>1. /\ IInv /\ BooksOpen /\ VisitedInTurn /\ PaidInTurn
      /\ disturbed \in BOOLEAN /\ (~disturbed => NoTurnSince)
      /\ DOMAIN accounts' \subseteq Persons
  BY DEF HistoryInv, IInv, TypeOK
<1>2. /\ t \in Nat /\ now \in Nat /\ now < t
      /\ \/ sent /\ Cron(t)
         \/ ~works /\ UNCHANGED <<balance, settings, accounts, allocs>>
  <2>1. now \in Nat /\ MaxMissed \in Nat
    BY <1>1, Slots, PeriodsAssumption DEF PeriodsAssumption
  <2> QED BY <2>1 DEF HBlock, Block
<1>3. /\ IF works THEN RecordCron(t) ELSE UNCHANGED <<visited, skipped>>
      /\ disturbed' = \/ disturbed
                      \/ PeriodMissed(t)
                      \/ sent /\ ~works /\ settings.exists
                      \/ works /\ LeftOut(t) # {}
  BY DEF HBlock
<1>4. Cron(t) => CronSucceeds(t)
  BY DEF Cron
<1> HIDE DEF t
<1>5. ASSUME ~disturbed',
             NEW a \in Persons, NEW id \in DOMAIN allocs[a],
             allocs[a][id].unstake_requested,
             ~(works /\ a \in Processed(t) /\ Releasable(allocs[a][id], t)),
             NEW s \in allocs[a][id].unstake_time + ReleasePeriod .. t,
             Turn(a, s)
      PROVE  FALSE
  <2>1. NoTurnSince /\ ~PeriodMissed(t)
    BY <1>1, <1>3, <1>5
  <2>2. allocs[a][id].unstake_time \in Nat /\ ReleasePeriod \in Nat /\ s \in Int
    BY <1>1, Slots, PeriodsAssumption DEF PeriodsAssumption
  <2>3. CASE s <= now
    BY <1>2, <1>5, <2>1, <2>2, <2>3 DEF NoTurnSince
  <2>4. CASE now < s /\ s < t
    BY <1>2, <1>5, <2>1, <2>2, <2>4 DEF PeriodMissed, Turn
  <2>5. CASE s = t
    <3>1. allocs[a][id].unstake_time + ReleasePeriod <= t
      BY <1>2, <2>2, <2>5
    <3>2. /\ settings.exists
          /\ LeftOut(t) = {} => a \in Processed(t) /\ Releasable(allocs[a][id], t)
      BY <1>2, <1>5, <2>5, <3>1, TurnPays
    <3>3. sent
      BY <1>5, <2>5 DEF Turn
    <3> QED BY <1>3, <1>5, <3>2, <3>3
  <2> QED BY <1>2, <2>2, <2>3, <2>4, <2>5
<1>6. CASE works
  <2>1. Cron(t) /\ RecordCron(t)
    BY <1>2, <1>3, <1>6
  <2>2. CronTraced(t) /\ BooksOpen'
    BY <1>1, <1>2, <2>1, CronIsTraced
  <2>3. PaidInTurn'
    BY <1>1, <1>2, <2>2, CronPaidInTurn
  <2>4. VisitedInTurn'
    BY <1>1, <1>2, <2>1, CronVisited DEF t
  <2>5. ASSUME ~disturbed' PROVE NoTurnSince'
    <3> SUFFICES ASSUME NEW a \in Persons, NEW id \in DOMAIN allocs'[a],
                        allocs'[a][id].unstake_requested,
                        NEW s \in allocs'[a][id].unstake_time + ReleasePeriod .. t,
                        Turn(a, s)
                 PROVE  FALSE
      BY DEF NoTurnSince, Turn, FirstOfPeriod, NameRange, t
    <3>1. RowKept(a, id) /\ ~(a \in Processed(t) /\ Releasable(allocs[a][id], t))
      BY <2>2 DEF CronTraced
    <3> QED BY <1>5, <2>5, <3>1 DEF RowKept
  <2> QED BY <1>1, <1>3, <2>2, <2>3, <2>4, <2>5 DEF HistoryInv
<1>7. CASE ~works
  <2>1. UNCHANGED <<settings, accounts, allocs>> /\ UNCHANGED visited
    BY <1>2, <1>3, <1>4, <1>7
  <2>2. BooksOpen' /\ PaidInTurn'
    BY <1>1, <2>1 DEF BooksOpen, PaidInTurn
  <2>3. VisitedInTurn'
    BY <1>1, <1>2, <2>1, TracedVisited DEF t
  <2>4. ASSUME ~disturbed' PROVE NoTurnSince'
    <3> SUFFICES ASSUME NEW a \in Persons, NEW id \in DOMAIN allocs[a],
                        allocs[a][id].unstake_requested,
                        NEW s \in allocs[a][id].unstake_time + ReleasePeriod .. t,
                        Turn(a, s)
                 PROVE  FALSE
      BY <2>1 DEF NoTurnSince, Turn, FirstOfPeriod, NameRange, t
    <3> QED BY <1>5, <1>7, <2>4
  <2> QED BY <1>1, <1>3, <2>2, <2>3, <2>4 DEF HistoryInv
<1> QED BY <1>6, <1>7

LEMMA NextHistory ==
  ASSUME PeriodsRegular
  PROVE  HistoryInv /\ [HNext]_hvars => HistoryInv'
<1> SUFFICES ASSUME HistoryInv, [HNext]_hvars PROVE HistoryInv'
  OBVIOUS
<1>1. IInv'
  <2>1. [Next]_vars
    BY DEF HNext, HCall, HCronByHand, HBlock, Next, hvars
  <2> QED BY <2>1, NextIInv DEF HistoryInv
<1>2. CASE UNCHANGED hvars
  BY <1>1, <1>2 DEF hvars, vars, history, HistoryInv, BooksOpen, VisitedInTurn,
                    PaidInTurn, NoTurnSince, Turn
<1> QED BY <1>1, <1>2, CallHistory, CronByHandHistory, BlockHistory DEF HNext

LEMMA HistoryPaid ==
  ASSUME PeriodsRegular
  PROVE  HistoryInv => PaidWithinCycle
<1> SUFFICES ASSUME HistoryInv, ~disturbed, NEW a \in Persons,
                    NEW id \in DOMAIN allocs[a], allocs[a][id].unstake_requested
             PROVE  now < allocs[a][id].unstake_time + ReleasePeriod + StakingCycle
  BY DEF PaidWithinCycle
<1> DEFINE x == allocs[a][id].unstake_time + ReleasePeriod
<1>1. /\ x \in Int /\ now \in Nat /\ StakingCycle \in Nat
      /\ allocs[a][id].unstake_time \in Nat /\ ReleasePeriod \in Nat
  BY Slots, Periods, PeriodsAssumption DEF PeriodsAssumption, HistoryInv
<1>2. PICK k \in 0 .. CronIntervals - 1 : a \in NameRange(k)
  BY RangeOf
<1>3. \A s \in x .. now : ~Turn(a, s)
  BY DEF HistoryInv, NoTurnSince
<1> HIDE DEF x
<1>4. PICK s \in x .. x + StakingCycle - 1 : FirstOfPeriod(s) /\ CronInterval(s) = k
  BY <1>1, TurnComes
<1>5. Turn(a, s)
  BY <1>2, <1>4 DEF Turn
<1>6. now < x + StakingCycle
  BY <1>1, <1>3, <1>4, <1>5
<1> QED BY <1>6 DEF x

(* With periods like the header's, for any names, amounts, callers and     *)
(* missed slots: undisturbed, a requested release is paid within a cycle   *)
(* after its release period, whatever crons are called by hand and         *)
(* whatever its owner and others stake and release meanwhile.              *)
THEOREM ReleasesPaidWithinCycle ==
  ASSUME PeriodsRegular
  PROVE  HSpec => []PaidWithinCycle
<1>1. HInit => HistoryInv
  BY InitHistory
<1>2. HistoryInv /\ [HNext]_hvars => HistoryInv'
  BY NextHistory
<1>3. HistoryInv => PaidWithinCycle
  BY HistoryPaid
<1> QED BY <1>1, <1>2, <1>3, PTL DEF HSpec
----------------------------------------------------------------------------
(* onblock sends cron in every period, for any periods.                    *)

CronInv == IInv /\ disturbed \in BOOLEAN /\ CronWithoutMisses

LEMMA BlockCron ==
  ASSUME CronInv, HBlock
  PROVE  disturbed' \in BOOLEAN /\ CronWithoutMisses'
<1> DEFINE t == now'
<1>1. now \in Nat /\ t \in Nat /\ now < t
  <2>1. now \in Nat /\ MaxMissed \in Nat
    BY Slots, PeriodsAssumption DEF PeriodsAssumption, CronInv
  <2> QED BY <2>1 DEF HBlock, Block
<1>2. /\ cronCall' = IF FirstOfPeriod(t) THEN t \div CronPeriod ELSE cronCall
      /\ disturbed' \in BOOLEAN /\ (disturbed \/ PeriodMissed(t) => disturbed')
  BY DEF HBlock, CronInv
<1> HIDE DEF t
<1>3. ASSUME ~disturbed', ~FirstOfPeriod(t)
      PROVE  cronCall = t \div CronPeriod
  <2>1. cronCall = now \div CronPeriod /\ ~PeriodMissed(t)
    BY <1>2, <1>3 DEF CronInv, CronWithoutMisses
  <2>2. now \div CronPeriod = t \div CronPeriod
    <3> SUFFICES ASSUME now \div CronPeriod # t \div CronPeriod PROVE FALSE
      OBVIOUS
    <3>1. PICK s \in now + 1 .. t : FirstOfPeriod(s)
      BY <1>1, PeriodBetween
    <3> QED BY <1>1, <1>3, <2>1, <3>1 DEF PeriodMissed
  <2> QED BY <2>1, <2>2
<1> QED BY <1>2, <1>3 DEF CronWithoutMisses, t

(* For any periods and missed slots: as long as no period lost its first   *)
(* slot, and no cron failed or left somebody out, cron has been sent in    *)
(* the current period.                                                     *)
THEOREM CronEveryPeriod == HSpec => []CronWithoutMisses
<1>1. HInit => CronInv
  <2>1. 0 \div CronPeriod = 0
    BY Periods
  <2> QED BY <2>1, InitIInv DEF HInit, Init, CronInv, CronWithoutMisses
<1>2. CronInv /\ [HNext]_hvars => CronInv'
  <2> SUFFICES ASSUME CronInv, [HNext]_hvars PROVE CronInv'
    OBVIOUS
  <2>1. IInv'
    <3>1. [Next]_vars
      BY DEF HNext, HCall, HCronByHand, HBlock, Next, hvars
    <3> QED BY <3>1, NextIInv DEF CronInv
  <2>2. CASE HBlock
    BY <2>1, <2>2, BlockCron DEF CronInv
  <2>3. CASE HCall
    <3>1. UNCHANGED <<now, cronCall, disturbed>>
      BY <2>3 DEF HCall, history, Call, SetSettings, AddYield, StakeTokens,
                  RequestUnstake, ReleaseToken, Transfer, ResetAll
    <3> QED BY <2>1, <3>1 DEF CronInv, CronWithoutMisses
  <2>4. CASE HCronByHand
    <3>1. UNCHANGED <<now, cronCall>> /\ disturbed' \in BOOLEAN
          /\ (disturbed => disturbed')
      BY <2>4 DEF HCronByHand, CronByHand, CronInv
    <3> QED BY <2>1, <3>1 DEF CronInv, CronWithoutMisses
  <2>5. CASE UNCHANGED hvars
    BY <2>1, <2>5 DEF hvars, vars, history, CronInv, CronWithoutMisses
  <2> QED BY <2>2, <2>3, <2>4, <2>5 DEF HNext
<1>3. CronInv => CronWithoutMisses
  BY DEF CronInv
<1> QED BY <1>1, <1>2, <1>3, PTL DEF HSpec
=============================================================================
