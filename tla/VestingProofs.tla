--------------------------- MODULE VestingProofs ---------------------------
(***************************************************************************)
(* Proofs about Vesting, for every value of its constants.                 *)
(*                                                                         *)
(* First the terms: what a row grants lies between nothing and the whole,  *)
(* grows with time, and is the whole only when the vesting period is over. *)
(* Then the tables, and the inductive invariants: TInv, which holds under  *)
(* any administrator, and IInv, which a careful one keeps: no row has more *)
(* claimed than its terms grant at the moment (Covered), so that no        *)
(* withdraw lowers what is claimed and the sums only move together.  At    *)
(* last the refinement of Custodian: what every action does to the claims  *)
(* of the holders.                                                         *)
(***************************************************************************)
EXTENDS Vesting, SumTheorems

(* Quotients and products.                                                 *)

LEMMA DivBounds ==
  ASSUME NEW x \in Nat, NEW d \in Nat \ {0}
  PROVE  /\ x \div d \in Nat
         /\ d * (x \div d) <= x
         /\ x < d * (x \div d) + d
OBVIOUS

LEMMA DivMonotone ==
  ASSUME NEW x \in Nat, NEW y \in Nat, x <= y, NEW d \in Nat \ {0}
  PROVE  x \div d <= y \div d
<1> DEFINE a == x \div d
           b == y \div d
<1>1. /\ a \in Nat /\ b \in Nat
      /\ d * a <= x /\ y < d * b + d
  BY DivBounds
<1> HIDE DEF a, b
<1>2. d * a < d * (b + 1)
  BY <1>1
<1>3. a < b + 1
  BY <1>1, <1>2
<1> QED BY <1>1, <1>3 DEF a, b

LEMMA DivLess ==
  ASSUME NEW x \in Nat, NEW d \in Nat \ {0}, NEW a \in Nat, x < a * d
  PROVE  x \div d < a
<1> DEFINE b == x \div d
<1>1. b \in Nat /\ d * b <= x
  BY DivBounds
<1> HIDE DEF b
<1>2. b < a
  BY <1>1
<1> QED BY <1>2 DEF b

LEMMA TimesMonotone ==
  ASSUME NEW a \in Nat, NEW x \in Nat, NEW y \in Nat, x <= y
  PROVE  a * x <= a * y
OBVIOUS

LEMMA TimesLess ==
  ASSUME NEW a \in Nat \ {0}, NEW x \in Nat, NEW y \in Nat, x < y
  PROVE  a * x < a * y
OBVIOUS
----------------------------------------------------------------------------
(* The terms.                                                              *)

LEMMA TermsType ==
  ASSUME NEW row \in Allocation
  PROVE  /\ TermsOf(row) \in Category
         /\ TermsOf(row).tge_num < TermsOf(row).tge_den
BY VestingAssumption DEF VestingAssumption, TermsOf, Allocation

(* Before the end of its vesting a row grants less than the whole.         *)
LEMMA ShareBounds ==
  ASSUME NEW row \in Allocation, NEW l \in Nat, NEW t \in Nat,
         t >= VestingStart(row, l), t < VestingEnd(row, l)
  PROVE  /\ Share(row, l, t) \in Nat
         /\ row.tokens_allocated > 0 => Share(row, l, t) < row.tokens_allocated
<1> DEFINE c == TermsOf(row)
           k == c.tge_den - c.tge_num
           e == t - VestingStart(row, l)
           v == c.vesting_period
           n == c.tge_num
           d == c.tge_den
           a == row.tokens_allocated
<1>1. /\ n \in Nat /\ d \in Nat \ {0} /\ k \in Nat \ {0} /\ k = d - n
      /\ v \in Nat /\ c.start_delay \in Nat /\ a \in Nat
  BY TermsType DEF Category, Allocation
<1>2. e \in Nat /\ e < v
  BY <1>1 DEF VestingStart, VestingEnd
<1>3. Share(row, l, t) = (a * (k * e + n * v)) \div (d * v)
  BY DEF Share
<1> HIDE DEF c, k, e, v, n, d, a
<1>4. k * e < k * v
  BY <1>1, <1>2, TimesLess
<1>5. k * v + n * v = d * v
  BY <1>1
<1>6. /\ k * e \in Nat /\ n * v \in Nat /\ d * v \in Nat /\ k * v \in Nat
      /\ d * v # 0
  BY <1>1, <1>2
<1>7. /\ k * e + n * v \in Nat /\ k * e + n * v < d * v
      /\ a * (k * e + n * v) \in Nat
  BY <1>1, <1>4, <1>5, <1>6
<1>8. Share(row, l, t) \in Nat
  BY <1>3, <1>6, <1>7, DivBounds
<1>9. ASSUME a > 0 PROVE Share(row, l, t) < a
  <2>1. a * (k * e + n * v) < a * (d * v)
    BY <1>1, <1>6, <1>7, <1>9, TimesLess
  <2> QED BY <2>1, <1>1, <1>3, <1>6, <1>7, DivLess
<1> QED BY <1>8, <1>9 DEF a

LEMMA ShareGrows ==
  ASSUME NEW row \in Allocation, NEW l \in Nat, NEW t \in Nat,
         t >= VestingStart(row, l), t + 1 < VestingEnd(row, l)
  PROVE  Share(row, l, t) <= Share(row, l, t + 1)
<1> DEFINE c == TermsOf(row)
           k == c.tge_den - c.tge_num
           e == t - VestingStart(row, l)
           f == (t + 1) - VestingStart(row, l)
           v == c.vesting_period
           n == c.tge_num
           d == c.tge_den
           a == row.tokens_allocated
<1>1. /\ n \in Nat /\ d \in Nat \ {0} /\ k \in Nat /\ v \in Nat
      /\ c.start_delay \in Nat /\ a \in Nat
  BY TermsType DEF Category, Allocation
<1>2. e \in Nat /\ f \in Nat /\ e <= f /\ v # 0
  BY <1>1 DEF VestingStart, VestingEnd
<1>3. Share(row, l, t) = (a * (k * e + n * v)) \div (d * v)
  BY DEF Share
<1>4. Share(row, l, t + 1) = (a * (k * f + n * v)) \div (d * v)
  BY DEF Share
<1> HIDE DEF c, k, e, f, v, n, d, a
<1>5. k * e <= k * f /\ k * e \in Nat /\ k * f \in Nat /\ n * v \in Nat
  BY <1>1, <1>2, TimesMonotone
<1>6. /\ k * e + n * v \in Nat /\ k * f + n * v \in Nat
      /\ k * e + n * v <= k * f + n * v
  BY <1>5
<1>7. d * v \in Nat \ {0}
  BY <1>1, <1>2
<1>8. /\ a * (k * e + n * v) <= a * (k * f + n * v)
      /\ a * (k * e + n * v) \in Nat /\ a * (k * f + n * v) \in Nat
  BY <1>1, <1>6, TimesMonotone
<1> QED BY <1>3, <1>4, <1>7, <1>8, DivMonotone

LEMMA ClaimableBounds ==
  ASSUME NEW row \in Allocation, NEW l \in Nat, NEW t \in Nat,
         CliffFinished(row, l, t)
  PROVE  /\ Claimable(row, l, t) \in Nat
         /\ Claimable(row, l, t) <= row.tokens_allocated
         /\ Claimable(row, l, t) = row.tokens_allocated
              /\ row.tokens_allocated > 0 => t >= VestingEnd(row, l)
<1>1. /\ row.tokens_allocated \in Nat
      /\ TermsOf(row).cliff_period \in Nat /\ TermsOf(row).start_delay \in Nat
      /\ TermsOf(row).vesting_period \in Nat
  BY TermsType DEF Category, Allocation
<1>2. t >= VestingStart(row, l)
  BY <1>1 DEF CliffFinished, VestingStart
<1>3. CASE t >= VestingEnd(row, l)
  BY <1>1, <1>3 DEF Claimable
<1>4. CASE ~ (t >= VestingEnd(row, l))
  <2>1. t < VestingEnd(row, l)
    BY <1>1, <1>4 DEF VestingEnd, VestingStart
  <2>2. /\ Share(row, l, t) \in Nat
        /\ row.tokens_allocated > 0 => Share(row, l, t) < row.tokens_allocated
    BY <1>2, <2>1, ShareBounds
  <2> QED BY <1>1, <1>4, <2>2 DEF Claimable
<1> QED BY <1>3, <1>4

LEMMA VestedBounds ==
  ASSUME NEW row \in Allocation, NEW l \in Nat, NEW t \in Nat
  PROVE  Vested(row, l, t) \in Nat /\ Vested(row, l, t) <= row.tokens_allocated
BY ClaimableBounds DEF Vested, Allocation

(* What a row grants only grows while the terms stay.                      *)
LEMMA VestedGrows ==
  ASSUME NEW row \in Allocation, NEW l \in Nat, NEW t \in Nat
  PROVE  Vested(row, l, t) <= Vested(row, l, t + 1)
<1>1. /\ row.tokens_allocated \in Nat
      /\ TermsOf(row).cliff_period \in Nat /\ TermsOf(row).start_delay \in Nat
      /\ TermsOf(row).vesting_period \in Nat
      /\ VestingStart(row, l) \in Nat /\ VestingEnd(row, l) \in Nat
  BY TermsType DEF Category, Allocation, VestingStart, VestingEnd
<1>2. CASE ~ (t >= l /\ CliffFinished(row, l, t))
  BY <1>2, VestedBounds DEF Vested
<1>3. CASE t >= l /\ CliffFinished(row, l, t)
  <2>1. t + 1 >= l /\ CliffFinished(row, l, t + 1) /\ t >= VestingStart(row, l)
    BY <1>1, <1>3 DEF CliffFinished
  <2>2. /\ Vested(row, l, t) = Claimable(row, l, t)
        /\ Vested(row, l, t + 1) = Claimable(row, l, t + 1)
    BY <1>3, <2>1 DEF Vested
  <2>3. Claimable(row, l, t) \in Nat /\ Claimable(row, l, t) <= row.tokens_allocated
    BY <1>3, ClaimableBounds
  <2>4. CASE t + 1 >= VestingEnd(row, l)
    BY <2>2, <2>3, <2>4 DEF Claimable
  <2>5. CASE t + 1 < VestingEnd(row, l)
    <3>1. t < VestingEnd(row, l)
      BY <1>1, <2>5
    <3>2. Share(row, l, t) <= Share(row, l, t + 1)
      BY <2>1, <2>5, ShareGrows
    <3>3. Share(row, l, t) \in Nat /\ Share(row, l, t + 1) \in Nat
      BY <1>1, <2>1, <2>5, <3>1, ShareBounds
    <3> QED BY <1>1, <2>2, <2>5, <3>1, <3>2, <3>3 DEF Claimable
  <2> QED BY <1>1, <2>4, <2>5
<1> QED BY <1>2, <1>3
----------------------------------------------------------------------------
(* The tables.                                                             *)

(* The whole type of a table: its rows are finitely many, and of each less *)
(* is claimed than allocated.                                              *)
Sound(rows) ==
  /\ IsTable(rows)
  /\ IsFiniteSet(DOMAIN rows)
  /\ \A id \in DOMAIN rows : rows[id].tokens_claimed < rows[id].tokens_allocated

LEMMA SoundRow ==
  ASSUME NEW rows, Sound(rows), NEW id \in DOMAIN rows
  PROVE  /\ rows[id] \in Allocation
         /\ rows[id].tokens_allocated \in Nat /\ rows[id].tokens_claimed \in Nat
         /\ rows[id].tokens_claimed < rows[id].tokens_allocated
BY DEF Sound, IsTable, Allocation

LEMMA OwingNat ==
  ASSUME NEW rows, Sound(rows)
  PROVE  Owing(rows) \in Nat
<1> DEFINE f == [id \in DOMAIN rows |->
                   rows[id].tokens_allocated - rows[id].tokens_claimed]
<1>1. IsFiniteSet(DOMAIN f) /\ \A id \in DOMAIN f : f[id] \in Nat
  BY SoundRow DEF Sound
<1> QED BY <1>1, SumFunctionNat DEF Owing

LEMMA FreshKey ==
  ASSUME NEW rows, DOMAIN rows \subseteq Nat, IsFiniteSet(DOMAIN rows)
  PROVE  AvailablePrimaryKey(rows) \in Nat \ DOMAIN rows
<1>1. CASE DOMAIN rows = {}
  BY <1>1 DEF AvailablePrimaryKey
<1>2. CASE DOMAIN rows # {}
  <2>1. \E m \in DOMAIN rows : \A x \in DOMAIN rows : m >= x
    BY <1>2, LargestExists
  <2>2. /\ Max(DOMAIN rows) \in DOMAIN rows
        /\ \A x \in DOMAIN rows : Max(DOMAIN rows) >= x
    BY <2>1 DEF Max
  <2> HIDE DEF Max
  <2> QED BY <1>2, <2>2 DEF AvailablePrimaryKey
<1> QED BY <1>1, <1>2

(* A new row.                                                              *)
LEMMA TableAssign ==
  ASSUME NEW rows, Sound(rows), NEW row \in Allocation,
         row.tokens_claimed < row.tokens_allocated,
         NEW id \in Nat, id \notin DOMAIN rows
  PROVE  /\ Sound(WithRow(rows, id, row))
         /\ Owing(WithRow(rows, id, row))
              = Owing(rows) + (row.tokens_allocated - row.tokens_claimed)
<1> DEFINE u == WithRow(rows, id, row)
           f == [k \in DOMAIN rows |->
                   rows[k].tokens_allocated - rows[k].tokens_claimed]
           g == [k \in DOMAIN u |-> u[k].tokens_allocated - u[k].tokens_claimed]
<1>1. /\ DOMAIN u = DOMAIN rows \cup {id} /\ u[id] = row
      /\ \A k \in DOMAIN rows : u[k] = rows[k]
      /\ u = [k \in DOMAIN u |-> u[k]]
  BY DEF WithRow
<1> HIDE DEF u
<1>2. IsFiniteSet(DOMAIN rows) /\ IsFiniteSet(DOMAIN u)
  BY <1>1, FS_AddElement DEF Sound
<1>3. Sound(u)
  <2>1. DOMAIN u \subseteq Nat
    BY <1>1 DEF Sound, IsTable
  <2>2. \A k \in DOMAIN u :
          u[k] \in Allocation /\ u[k].tokens_claimed < u[k].tokens_allocated
    BY <1>1, SoundRow
  <2>3. u \in [DOMAIN u -> Allocation]
    BY <1>1, <2>2
  <2> QED BY <1>2, <2>1, <2>2, <2>3 DEF Sound, IsTable
<1>4. /\ DOMAIN f = DOMAIN rows /\ DOMAIN g = DOMAIN f \cup {id}
      /\ g[id] = row.tokens_allocated - row.tokens_claimed /\ g[id] \in Int
      /\ \A k \in DOMAIN f : f[k] \in Int /\ g[k] = f[k]
  BY <1>1, SoundRow DEF Allocation
<1>5. Owing(rows) = SumFunction(f) /\ Owing(u) = SumFunction(g)
  BY DEF Owing
<1> HIDE DEF f, g
<1>6. SumFunction(g) = SumFunction(f) + g[id]
  BY <1>1, <1>2, <1>4, SumFunctionAdd
<1> QED BY <1>3, <1>4, <1>5, <1>6 DEF u

(* A row that is changed.                                                  *)
LEMMA TableChange ==
  ASSUME NEW rows, Sound(rows), NEW id \in DOMAIN rows, NEW row \in Allocation,
         row.tokens_claimed = rows[id].tokens_claimed,
         row.tokens_claimed < row.tokens_allocated
  PROVE  /\ Sound([rows EXCEPT ![id] = row])
         /\ Owing([rows EXCEPT ![id] = row])
              = Owing(rows) + (row.tokens_allocated - rows[id].tokens_allocated)
<1> DEFINE u == [rows EXCEPT ![id] = row]
           f == [k \in DOMAIN rows |->
                   rows[k].tokens_allocated - rows[k].tokens_claimed]
           g == [k \in DOMAIN u |-> u[k].tokens_allocated - u[k].tokens_claimed]
<1>1. /\ DOMAIN u = DOMAIN rows /\ u[id] = row
      /\ \A k \in DOMAIN rows : k # id => u[k] = rows[k]
      /\ u = [k \in DOMAIN u |-> u[k]]
  OBVIOUS
<1> HIDE DEF u
<1>2. IsFiniteSet(DOMAIN rows) /\ DOMAIN rows \subseteq Nat
  BY DEF Sound, IsTable
<1>3. Sound(u)
  <2>1. \A k \in DOMAIN u :
          u[k] \in Allocation /\ u[k].tokens_claimed < u[k].tokens_allocated
    BY <1>1, SoundRow
  <2>2. u \in [DOMAIN u -> Allocation]
    BY <1>1, <2>1
  <2> QED BY <1>1, <1>2, <2>1, <2>2 DEF Sound, IsTable
<1>4. /\ DOMAIN f = DOMAIN rows /\ DOMAIN g = DOMAIN f
      /\ g[id] = row.tokens_allocated - rows[id].tokens_claimed
      /\ f[id] = rows[id].tokens_allocated - rows[id].tokens_claimed
      /\ \A k \in DOMAIN f : k # id => f[k] = g[k]
  BY <1>1
<1>5. \A k \in DOMAIN f : f[k] \in Int /\ g[k] \in Int
  <2>1. \A k \in DOMAIN rows : f[k] \in Int
    BY SoundRow
  <2>2. g[id] \in Int
    BY <1>4, SoundRow DEF Allocation
  <2> QED BY <1>4, <2>1, <2>2
<1>6. Owing(rows) = SumFunction(f) /\ Owing(u) = SumFunction(g)
  BY DEF Owing
<1> HIDE DEF f, g
<1>7. SumFunction(g) = SumFunction(f) + g[id] - f[id]
  BY <1>2, <1>4, <1>5, SumFunctionUpdate
<1>8. SumFunction(f) \in Int
  BY <1>2, <1>4, <1>5, SumFunctionInt
<1> QED BY <1>3, <1>4, <1>6, <1>7, <1>8, SoundRow DEF u, Allocation

(* Rows that keep their amounts.                                           *)
LEMMA TableSame ==
  ASSUME NEW rows, Sound(rows), NEW u, IsTable(u), DOMAIN u = DOMAIN rows,
         \A id \in DOMAIN rows :
            /\ u[id].tokens_allocated = rows[id].tokens_allocated
            /\ u[id].tokens_claimed = rows[id].tokens_claimed
  PROVE  Sound(u) /\ Owing(u) = Owing(rows)
<1>1. Sound(u)
  BY SoundRow DEF Sound
<1> DEFINE f == [k \in DOMAIN rows |->
                   rows[k].tokens_allocated - rows[k].tokens_claimed]
           g == [k \in DOMAIN u |-> u[k].tokens_allocated - u[k].tokens_claimed]
<1>2. f = g
  OBVIOUS
<1> QED BY <1>1, <1>2 DEF Owing
----------------------------------------------------------------------------
(* The invariants.                                                         *)

TInv ==
  /\ now \in 0 .. MaxTime
  /\ balance \in [Accounts -> Nat]
  /\ settings \in Settings
  /\ allocs = [h \in Holders |-> allocs[h]]
  /\ \A h \in Holders : Sound(allocs[h])

Covered ==
  \A h \in Holders : \A id \in DOMAIN allocs[h] :
    allocs[h][id].tokens_claimed
      <= Vested(allocs[h][id], settings.launch_date, now)

IInv == TInv /\ Covered /\ Custody

LEMMA TimeType ==
  ASSUME TInv
  PROVE  /\ now \in Nat /\ settings.launch_date \in Nat
         /\ settings.sales_start_date \in Nat
BY VestingAssumption DEF VestingAssumption, TInv, Settings

(* The row that a withdraw leaves grants what the old one did.             *)
LEMMA ClaimedRow ==
  ASSUME NEW row \in Allocation, NEW n \in Nat
  PROVE  /\ Claimed(row, n) \in Allocation
         /\ Claimed(row, n).tokens_claimed = n
         /\ Claimed(row, n).tokens_allocated = row.tokens_allocated
         /\ \A l, t : Vested(Claimed(row, n), l, t) = Vested(row, l, t)
<1>1. /\ Claimed(row, n) \in Allocation
      /\ Claimed(row, n).tokens_claimed = n
      /\ Claimed(row, n).tokens_allocated = row.tokens_allocated
      /\ Claimed(row, n).vesting_category_type = row.vesting_category_type
  BY DEF Claimed, Allocation
<1>2. TermsOf(Claimed(row, n)) = TermsOf(row)
  BY <1>1 DEF TermsOf
<1> QED
  BY <1>1, <1>2
     DEF Vested, CliffFinished, Claimable, Share, VestingStart, VestingEnd

LEMMA UnlockedRow ==
  ASSUME TInv, NEW h \in Holders, NEW id \in Unlocked(h)
  PROVE  /\ id \in DOMAIN allocs[h]
         /\ allocs[h][id] \in Allocation
         /\ ClaimableNow(allocs[h][id]) \in Nat
         /\ ClaimableNow(allocs[h][id]) <= allocs[h][id].tokens_allocated
         /\ id \in Exhausted(h) =>
              now >= VestingEnd(allocs[h][id], settings.launch_date)
         /\ now >= settings.launch_date =>
              Vested(allocs[h][id], settings.launch_date, now)
                = ClaimableNow(allocs[h][id])
<1>1. /\ id \in DOMAIN allocs[h]
      /\ CliffFinished(allocs[h][id], settings.launch_date, now)
  BY DEF Unlocked
<1>2. /\ allocs[h][id] \in Allocation
      /\ allocs[h][id].tokens_allocated \in Nat
      /\ allocs[h][id].tokens_claimed \in Nat
      /\ allocs[h][id].tokens_claimed < allocs[h][id].tokens_allocated
  BY <1>1, SoundRow DEF TInv
<1> QED BY <1>1, <1>2, TimeType, ClaimableBounds DEF ClaimableNow, Exhausted, Vested

(* What a withdraw pays is what the table then owes less.                  *)
LEMMA TableWithdraw ==
  ASSUME TInv, NEW h \in Holders
  PROVE  /\ Sound(RowsAfterWithdraw(h))
         /\ TotalClaimable(h) \in Int
         /\ Owing(RowsAfterWithdraw(h)) = Owing(allocs[h]) - TotalClaimable(h)
<1> DEFINE rows == allocs[h]
           U == Unlocked(h)
           E == Exhausted(h)
           u == RowsAfterWithdraw(h)
           due == [id \in DOMAIN rows |->
                     ClaimableNow(rows[id]) - rows[id].tokens_claimed]
           pay == [id \in DOMAIN rows |-> IF id \in U THEN due[id] ELSE 0]
           owed == [id \in DOMAIN rows |->
                      rows[id].tokens_allocated - rows[id].tokens_claimed]
           left == [id \in DOMAIN rows |-> owed[id] - pay[id]]
           after == [id \in DOMAIN u |->
                       u[id].tokens_allocated - u[id].tokens_claimed]
<1>1. /\ Sound(rows) /\ IsFiniteSet(DOMAIN rows) /\ DOMAIN rows \subseteq Nat
      /\ U \subseteq DOMAIN rows /\ E \subseteq U
  BY DEF TInv, Sound, IsTable, Unlocked, Exhausted
<1>2. /\ IsFiniteSet(DOMAIN u)
      /\ DOMAIN u = DOMAIN rows \ E
      /\ u = [id \in DOMAIN u |-> u[id]]
      /\ \A id \in DOMAIN u :
           IF id \in U THEN u[id] = Claimed(rows[id], ClaimableNow(rows[id]))
           ELSE u[id] = rows[id]
  <2>1. /\ DOMAIN u = DOMAIN rows \ E
        /\ u = [id \in DOMAIN u |-> u[id]]
        /\ \A id \in DOMAIN u :
             IF id \in U THEN u[id] = Claimed(rows[id], ClaimableNow(rows[id]))
             ELSE u[id] = rows[id]
    BY DEF RowsAfterWithdraw
  <2> HIDE DEF u
  <2> QED BY <1>1, <2>1, FS_Subset
<1>3. \A id \in U :
        /\ ClaimableNow(rows[id]) \in Nat
        /\ ClaimableNow(rows[id]) <= rows[id].tokens_allocated
        /\ id \in E <=> ClaimableNow(rows[id]) = rows[id].tokens_allocated
  BY UnlockedRow DEF Exhausted
<1>4. \A id \in DOMAIN rows :
        /\ rows[id] \in Allocation
        /\ rows[id].tokens_allocated \in Nat /\ rows[id].tokens_claimed \in Nat
        /\ rows[id].tokens_claimed < rows[id].tokens_allocated
  BY <1>1, SoundRow
<1> HIDE DEF rows, U, E, u
<1>5. \A id \in DOMAIN u :
        /\ u[id] \in Allocation
        /\ u[id].tokens_claimed < u[id].tokens_allocated
        /\ after[id] = left[id]
  <2> TAKE id \in DOMAIN u
  <2>1. id \in DOMAIN rows /\ id \notin E
    BY <1>2
  <2>2. CASE id \in U
    <3>1. u[id] = Claimed(rows[id], ClaimableNow(rows[id]))
      BY <1>2, <2>2
    <3>2. /\ ClaimableNow(rows[id]) \in Nat
          /\ ClaimableNow(rows[id]) < rows[id].tokens_allocated
      BY <1>3, <1>4, <2>1, <2>2
    <3>3. /\ u[id] \in Allocation
          /\ u[id].tokens_claimed = ClaimableNow(rows[id])
          /\ u[id].tokens_allocated = rows[id].tokens_allocated
      BY <1>4, <2>1, <3>1, <3>2, ClaimedRow
    <3> QED BY <1>4, <2>1, <2>2, <3>2, <3>3
  <2>3. CASE id \notin U
    <3>1. u[id] = rows[id]
      BY <1>2, <2>3
    <3> QED BY <1>4, <2>1, <2>3, <3>1
  <2> QED BY <2>2, <2>3
<1>6. Sound(u)
  <2>1. DOMAIN u \subseteq Nat /\ u \in [DOMAIN u -> Allocation]
    BY <1>1, <1>2, <1>5
  <2> QED BY <1>2, <1>5, <2>1 DEF Sound, IsTable
<1>7. \A id \in DOMAIN rows :
        /\ owed[id] \in Int /\ pay[id] \in Int /\ left[id] \in Int
        /\ owed[id] = left[id] + pay[id]
        /\ id \notin DOMAIN u => left[id] = 0
        /\ id \notin U => pay[id] = 0
        /\ id \in U => pay[id] = due[id]
  BY <1>1, <1>2, <1>3, <1>4
<1>8. /\ DOMAIN owed = DOMAIN rows /\ DOMAIN left = DOMAIN rows
      /\ DOMAIN pay = DOMAIN rows /\ DOMAIN after = DOMAIN u
  OBVIOUS
<1>9. /\ Owing(rows) = SumFunction(owed) /\ Owing(u) = SumFunction(after)
  BY DEF Owing
<1>10. TotalClaimable(h) = SumFunctionOnSet(due, U)
  BY DEF TotalClaimable, rows, U
<1> HIDE DEF owed, pay, left, after, due
<1>11. SumFunction(owed) = SumFunction(left) + SumFunction(pay)
  BY <1>1, <1>7, <1>8, SumFunctionPlus
<1>12. SumFunction(left) = SumFunction(after)
  BY <1>1, <1>2, <1>5, <1>7, <1>8, SumFunctionSupport
<1>13. SumFunction(pay) = SumFunctionOnSet(due, U)
  <2>1. IsFiniteSet(U)
    BY <1>1, FS_Subset
  <2>2. SumFunctionOnSet(pay, DOMAIN rows) = SumFunctionOnSet(pay, U)
    BY <1>1, <1>7, SumSupport
  <2>3. SumFunctionOnSet(pay, U) = SumFunctionOnSet(due, U)
    BY <1>1, <1>7, <2>1, SumSame
  <2> QED BY <1>8, <2>2, <2>3 DEF SumFunction
<1>14. SumFunction(left) \in Int /\ SumFunction(pay) \in Int
  BY <1>1, <1>7, <1>8, SumFunctionInt
<1> QED BY <1>6, <1>9, <1>10, <1>11, <1>12, <1>13, <1>14 DEF u, rows

(* Nothing is taken back from a holder whose rows are covered.             *)
LEMMA ClaimableNat ==
  ASSUME TInv, Covered, now >= settings.launch_date, NEW h \in Holders
  PROVE  TotalClaimable(h) \in Nat
<1> DEFINE due == [id \in DOMAIN allocs[h] |->
                     ClaimableNow(allocs[h][id]) - allocs[h][id].tokens_claimed]
<1>1. \A id \in Unlocked(h) : due[id] \in Nat
  <2> TAKE id \in Unlocked(h)
  <2>1. /\ id \in DOMAIN allocs[h]
        /\ ClaimableNow(allocs[h][id]) \in Nat
        /\ Vested(allocs[h][id], settings.launch_date, now)
             = ClaimableNow(allocs[h][id])
    BY UnlockedRow
  <2>2. /\ allocs[h][id].tokens_claimed \in Nat
        /\ allocs[h][id].tokens_claimed <= ClaimableNow(allocs[h][id])
    BY <2>1, SoundRow DEF TInv, Covered
  <2> QED BY <2>1, <2>2
<1>2. IsFiniteSet(Unlocked(h))
  <2>1. IsFiniteSet(DOMAIN allocs[h]) /\ Unlocked(h) \subseteq DOMAIN allocs[h]
    BY DEF TInv, Sound, Unlocked
  <2> QED BY <2>1, FS_Subset
<1>3. TotalClaimable(h) = SumFunctionOnSet(due, Unlocked(h))
  BY DEF TotalClaimable
<1> HIDE DEF due
<1> QED BY <1>1, <1>2, <1>3, SumNat
----------------------------------------------------------------------------
(* The steps.                                                              *)

LEMMA HoldersFacts ==
  /\ IsFiniteSet(Holders) /\ VestingTmy \in Accounts
  /\ Holders \subseteq Accounts /\ VestingTmy \notin Holders
BY VestingAssumption, FS_Subset DEF VestingAssumption

LEMMA OwedNat ==
  ASSUME TInv
  PROVE  /\ Owed \in Nat
         /\ \A h \in Holders : Owing(allocs[h]) \in Nat /\ Owing(allocs[h]) <= Owed
<1> DEFINE f == [h \in Holders |-> Owing(allocs[h])]
<1>1. IsFiniteSet(DOMAIN f) /\ \A h \in DOMAIN f : f[h] \in Nat
  BY HoldersFacts, OwingNat DEF TInv
<1>2. Owed = SumFunction(f)
  BY DEF Owed
<1>3. \A h \in Holders : f[h] = Owing(allocs[h]) /\ h \in DOMAIN f
  OBVIOUS
<1> HIDE DEF f
<1> QED BY <1>1, <1>2, <1>3, SumFunctionNat

(* One table changes.                                                      *)
LEMMA OneTable ==
  ASSUME TInv, NEW h \in Holders, NEW u, Sound(u),
         allocs' = [allocs EXCEPT ![h] = u]
  PROVE  /\ allocs' = [g \in Holders |-> allocs'[g]]
         /\ \A g \in Holders : Sound(allocs'[g])
         /\ allocs'[h] = u
         /\ \A g \in Holders : g # h => allocs'[g] = allocs[g]
         /\ Owed' = Owed + Owing(u) - Owing(allocs[h])
<1>1. /\ allocs' = [g \in Holders |-> allocs'[g]]
      /\ allocs'[h] = u
      /\ \A g \in Holders : g # h => allocs'[g] = allocs[g]
  BY DEF TInv
<1>2. \A g \in Holders : Sound(allocs'[g]) /\ Sound(allocs[g])
  BY <1>1 DEF TInv
<1> DEFINE f == [g \in Holders |-> Owing(allocs[g])]
           k == [g \in Holders |-> Owing(allocs'[g])]
<1>3. /\ DOMAIN f = Holders /\ DOMAIN k = Holders
      /\ \A g \in Holders : f[g] \in Int /\ k[g] \in Int
      /\ \A g \in Holders : g # h => f[g] = k[g]
      /\ f[h] = Owing(allocs[h]) /\ k[h] = Owing(u)
  BY <1>1, <1>2, OwingNat
<1>4. Owed = SumFunction(f) /\ Owed' = SumFunction(k)
  BY DEF Owed
<1> HIDE DEF f, k
<1>5. SumFunction(k) = SumFunction(f) + k[h] - f[h]
  BY <1>3, HoldersFacts, SumFunctionUpdate
<1> QED BY <1>1, <1>2, <1>3, <1>4, <1>5

LEMMA TransferType ==
  ASSUME balance \in [Accounts -> Nat], NEW from, NEW to, NEW q \in Int,
         CanTransfer(balance, from, to, q),
         balance' = AfterTransfer(balance, from, to, q)
  PROVE  /\ balance' \in [Accounts -> Nat]
         /\ balance'[from] = balance[from] - q
         /\ balance'[to] = balance[to] + q
         /\ \A a \in Accounts \ {from, to} : balance'[a] = balance[a]
BY DEF CanTransfer, AfterTransfer

(* What an action does to the tables of the holder h: it makes them u.     *)
TableStep(h, u) ==
  /\ h \in Holders /\ Sound(u)
  /\ allocs' = [allocs EXCEPT ![h] = u]
  /\ UNCHANGED <<now, settings>>
  /\ balance' \in [Accounts -> Nat]
  /\ balance'[VestingTmy] - balance[VestingTmy] = Owing(u) - Owing(allocs[h])

LEMMA TableStepKeeps ==
  ASSUME TInv, NEW h, NEW u, TableStep(h, u)
  PROVE  /\ TInv'
         /\ Custody => Custody'
<1>1. /\ h \in Holders /\ Sound(u)
      /\ allocs' = [allocs EXCEPT ![h] = u]
  BY DEF TableStep
<1>2. /\ allocs' = [g \in Holders |-> allocs'[g]]
      /\ \A g \in Holders : Sound(allocs'[g])
      /\ Owed' = Owed + Owing(u) - Owing(allocs[h])
  BY <1>1, OneTable
<1>3. TInv'
  BY <1>2 DEF TInv, TableStep
<1>4. /\ Owing(u) \in Nat /\ Owing(allocs[h]) \in Nat /\ Owed \in Nat
      /\ balance[VestingTmy] \in Nat /\ balance'[VestingTmy] \in Nat
  BY <1>1, OwingNat, OwedNat, HoldersFacts DEF TInv, TableStep
<1>5. balance'[VestingTmy] - balance[VestingTmy] = Owing(u) - Owing(allocs[h])
  BY DEF TableStep
<1>6. Custody => Custody'
  <2> HIDE DEF Owed
  <2> QED BY <1>2, <1>4, <1>5 DEF Custody
<1> QED BY <1>3, <1>6

(* A table step that leaves the rows of h covered.                         *)
LEMMA TableStepCovered ==
  ASSUME TInv, Covered, NEW h, NEW u, TableStep(h, u),
         \A id \in DOMAIN u :
            u[id].tokens_claimed <= Vested(u[id], settings.launch_date, now)
  PROVE  Covered'
<1>1. /\ h \in Holders /\ Sound(u)
      /\ allocs' = [allocs EXCEPT ![h] = u]
      /\ now' = now /\ settings' = settings
  BY DEF TableStep
<1>2. /\ allocs'[h] = u
      /\ \A g \in Holders : g # h => allocs'[g] = allocs[g]
  BY <1>1, OneTable
<1>3. ASSUME NEW g \in Holders, NEW id \in DOMAIN allocs'[g]
      PROVE  allocs'[g][id].tokens_claimed
               <= Vested(allocs'[g][id], settings.launch_date, now)
  <2>1. CASE g = h
    BY <1>2, <2>1
  <2>2. CASE g # h
    BY <1>2, <2>2 DEF Covered
  <2> QED BY <2>1, <2>2
<1> QED BY <1>1, <1>3 DEF Covered

LEMMA AssignStep ==
  ASSUME TInv, NEW s \in Senders, NEW h \in Holders, NEW q \in Quantities,
         NEW c \in DOMAIN Categories, AssignTokens(s, h, q, c)
  PROVE  \E u : /\ TableStep(h, u)
                /\ DOMAIN allocs[h] \subseteq DOMAIN u
                /\ \A id \in DOMAIN allocs[h] : u[id] = allocs[h][id]
                /\ \A id \in DOMAIN u \ DOMAIN allocs[h] : u[id].tokens_claimed = 0
<1> DEFINE row == NewAllocation(q, c)
           id == AvailablePrimaryKey(allocs[h])
           u == WithRow(allocs[h], id, row)
<1>1. /\ q \in Nat \ {0} /\ s \in Accounts /\ Sound(allocs[h])
      /\ balance \in [Accounts -> Nat]
  BY VestingAssumption DEF VestingAssumption, TInv
<1>2. id \in Nat /\ id \notin DOMAIN allocs[h]
  BY <1>1, FreshKey DEF Sound, IsTable
<1>3. /\ row \in Allocation /\ row.tokens_claimed = 0 /\ row.tokens_allocated = q
  BY <1>1, TimeType DEF AssignTokens, NewAllocation, Allocation, TokenSymbols
<1> HIDE DEF row, id
<1>4. Sound(u) /\ Owing(u) = Owing(allocs[h]) + q
  BY <1>1, <1>2, <1>3, TableAssign
<1>5. /\ DOMAIN u = DOMAIN allocs[h] \cup {id} /\ u[id] = row
      /\ \A k \in DOMAIN allocs[h] : u[k] = allocs[h][k]
  BY <1>2 DEF WithRow
<1>6. /\ allocs' = [allocs EXCEPT ![h] = u]
      /\ CanTransfer(balance, s, VestingTmy, q)
      /\ balance' = AfterTransfer(balance, s, VestingTmy, q)
      /\ UNCHANGED <<now, settings>>
  BY DEF AssignTokens, id, row
<1> HIDE DEF u
<1>7. /\ balance' \in [Accounts -> Nat]
      /\ balance'[VestingTmy] = balance[VestingTmy] + q
  BY <1>1, <1>6, TransferType
<1>8. TableStep(h, u)
  BY <1>1, <1>4, <1>6, <1>7, OwingNat, HoldersFacts DEF TableStep
<1> QED BY <1>3, <1>5, <1>8

LEMMA WithdrawStep ==
  ASSUME TInv, NEW h \in Holders, Withdraw(h), TotalClaimable(h) \in Nat
  PROVE  TableStep(h, RowsAfterWithdraw(h))
<1> DEFINE u == RowsAfterWithdraw(h)
           n == TotalClaimable(h)
<1>1. /\ Sound(u) /\ Owing(u) = Owing(allocs[h]) - n
      /\ balance \in [Accounts -> Nat] /\ Sound(allocs[h])
  BY TableWithdraw DEF TInv
<1>2. /\ allocs' = [allocs EXCEPT ![h] = u]
      /\ UNCHANGED <<now, settings>>
      /\ \/ /\ CanTransfer(balance, VestingTmy, h, n)
            /\ balance' = AfterTransfer(balance, VestingTmy, h, n)
         \/ n <= 0 /\ UNCHANGED balance
  BY DEF Withdraw
<1> HIDE DEF u, n
<1>3. n \in Nat
  BY DEF n
<1>4. Owing(u) \in Nat /\ Owing(allocs[h]) \in Nat
  BY <1>1, OwingNat
<1>5. /\ balance' \in [Accounts -> Nat]
      /\ balance'[VestingTmy] = balance[VestingTmy] - n
  <2>1. CASE n <= 0 /\ UNCHANGED balance
    BY <1>1, <1>3, <2>1, HoldersFacts
  <2>2. CASE /\ CanTransfer(balance, VestingTmy, h, n)
             /\ balance' = AfterTransfer(balance, VestingTmy, h, n)
    BY <1>1, <1>3, <2>2, TransferType
  <2> QED BY <1>2, <2>1, <2>2
<1>6. balance[VestingTmy] \in Nat
  BY <1>1, HoldersFacts
<1> QED BY <1>1, <1>2, <1>3, <1>4, <1>5, <1>6 DEF TableStep, u

LEMMA MigrateAllocStep ==
  ASSUME TInv, NEW s \in Senders, NEW h \in Holders, NEW q \in Quantities,
         NEW c \in DOMAIN Categories, NEW id \in DOMAIN allocs[h],
         MigrateAlloc(s, h, id, q, c)
  PROVE  TableStep(h, [allocs[h] EXCEPT ![id] = Reallocated(allocs[h][id], q, c)])
<1> DEFINE old == allocs[h][id]
           row == Reallocated(old, q, c)
           u == [allocs[h] EXCEPT ![id] = row]
           n == q - old.tokens_allocated
<1>1. /\ q \in Nat \ {0} /\ Sound(allocs[h]) /\ balance \in [Accounts -> Nat]
  BY VestingAssumption DEF VestingAssumption, TInv
<1>2. /\ old \in Allocation /\ old.tokens_allocated \in Nat
      /\ old.tokens_claimed \in Nat
  BY <1>1, SoundRow
<1>3. /\ row \in Allocation /\ row.tokens_allocated = q
      /\ row.tokens_claimed = old.tokens_claimed
  BY <1>1, <1>2 DEF Reallocated, Allocation, TokenSymbols
<1>4. /\ old.tokens_claimed < q
      /\ allocs' = [allocs EXCEPT ![h] = u]
      /\ SettleChange(s, n)
      /\ UNCHANGED <<now, settings>>
  BY DEF MigrateAlloc
<1> HIDE DEF row, old
<1>5. Sound(u) /\ Owing(u) = Owing(allocs[h]) + n
  BY <1>1, <1>3, <1>4, TableChange DEF old
<1>6. n \in Int
  BY <1>1, <1>2
<1> HIDE DEF u, n
<1>7. /\ balance' \in [Accounts -> Nat]
      /\ balance'[VestingTmy] = balance[VestingTmy] + n
  <2>1. CASE /\ CanTransfer(balance, s, VestingTmy, n)
             /\ balance' = AfterTransfer(balance, s, VestingTmy, n)
    BY <1>1, <1>6, <2>1, TransferType
  <2>2. CASE /\ CanTransfer(balance, VestingTmy, s, -n)
             /\ balance' = AfterTransfer(balance, VestingTmy, s, -n)
    <3>1. -n \in Int
      BY <1>6
    <3>2. /\ balance' \in [Accounts -> Nat]
          /\ balance'[VestingTmy] = balance[VestingTmy] - (-n)
      BY <1>1, <2>2, <3>1, TransferType
    <3>3. balance[VestingTmy] \in Nat
      BY <1>1, HoldersFacts
    <3> QED BY <1>6, <3>2, <3>3
  <2>3. CASE n = 0 /\ UNCHANGED balance
    BY <1>1, <2>3, HoldersFacts
  <2> QED BY <1>4, <2>1, <2>2, <2>3 DEF SettleChange
<1>8. balance[VestingTmy] \in Nat /\ Owing(allocs[h]) \in Nat
  BY <1>1, HoldersFacts, OwingNat
<1> QED BY <1>4, <1>5, <1>6, <1>7, <1>8 DEF TableStep, u, row, old

LEMMA MigrateAccStep ==
  ASSUME TInv, NEW h \in Holders, MigrateAcc(h)
  PROVE  TableStep(h, [id \in DOMAIN allocs[h] |-> Renamed(allocs[h][id])])
<1> DEFINE u == [id \in DOMAIN allocs[h] |-> Renamed(allocs[h][id])]
<1>1. Sound(allocs[h]) /\ balance \in [Accounts -> Nat]
  BY DEF TInv
<1>2. \A id \in DOMAIN allocs[h] :
        /\ u[id] \in Allocation
        /\ u[id].tokens_allocated = allocs[h][id].tokens_allocated
        /\ u[id].tokens_claimed = allocs[h][id].tokens_claimed
  <2> TAKE id \in DOMAIN allocs[h]
  <2> DEFINE row == allocs[h][id]
  <2>1. row \in Allocation /\ u[id] = Renamed(row)
    BY <1>1, SoundRow
  <2> HIDE DEF u, row
  <2>2. /\ Renamed(row) \in Allocation
        /\ Renamed(row).tokens_allocated = row.tokens_allocated
        /\ Renamed(row).tokens_claimed = row.tokens_claimed
    BY <2>1 DEF Renamed, Allocation, TokenSymbols
  <2> QED BY <2>1, <2>2 DEF row
<1>3. IsTable(u) /\ DOMAIN u = DOMAIN allocs[h]
  BY <1>1, <1>2 DEF IsTable, Sound
<1>4. /\ allocs' = [allocs EXCEPT ![h] = u]
      /\ UNCHANGED <<now, settings, balance>>
  BY DEF MigrateAcc
<1> HIDE DEF u
<1>5. Sound(u) /\ Owing(u) = Owing(allocs[h])
  BY <1>1, <1>2, <1>3, TableSame
<1>6. balance[VestingTmy] \in Nat /\ Owing(allocs[h]) \in Nat
  BY <1>1, HoldersFacts, OwingNat
<1> QED BY <1>1, <1>4, <1>5, <1>6 DEF TableStep, u

(* A withdraw of rows that may have more claimed than the terms now grant. *)
LEMMA WithdrawType ==
  ASSUME TInv, NEW h \in Holders, Withdraw(h)
  PROVE  TInv'
<1> DEFINE u == RowsAfterWithdraw(h)
           n == TotalClaimable(h)
<1>1. Sound(u) /\ n \in Int /\ balance \in [Accounts -> Nat]
  BY TableWithdraw DEF TInv
<1>2. /\ allocs' = [allocs EXCEPT ![h] = u]
      /\ UNCHANGED <<now, settings>>
      /\ \/ /\ CanTransfer(balance, VestingTmy, h, n)
            /\ balance' = AfterTransfer(balance, VestingTmy, h, n)
         \/ UNCHANGED balance
  BY DEF Withdraw
<1> HIDE DEF u, n
<1>3. balance' \in [Accounts -> Nat]
  BY <1>1, <1>2, TransferType
<1>4. /\ allocs' = [g \in Holders |-> allocs'[g]]
      /\ \A g \in Holders : Sound(allocs'[g])
  BY <1>1, <1>2, OneTable
<1> QED BY <1>2, <1>3, <1>4 DEF TInv

LEMMA TInvInit == Init => TInv
<1> SUFFICES ASSUME Init PROVE TInv
  OBVIOUS
<1>1. /\ 0 \in 0 .. MaxTime /\ InitialBalance \in [Accounts -> Nat]
      /\ InitialSettings \in Settings
      /\ InitialAllocs = [h \in Holders |-> InitialAllocs[h]]
      /\ \A h \in Holders : Sound(InitialAllocs[h])
  BY VestingAssumption DEF VestingAssumption, Sound
<1> QED BY <1>1 DEF Init, TInv

(* The transfers of the others leave the contract what it has.             *)
LEMMA TransferKeeps ==
  ASSUME TInv, NEW a \in Payers, NEW b \in Accounts, NEW q \in Quantities,
         Transfer(a, b, q)
  PROVE  /\ balance' \in [Accounts -> Nat]
         /\ balance'[VestingTmy] >= balance[VestingTmy]
         /\ UNCHANGED <<now, settings, allocs>>
<1>1. /\ a \in Accounts /\ a # VestingTmy /\ q \in Nat
      /\ balance \in [Accounts -> Nat] /\ VestingTmy \in Accounts
  BY VestingAssumption DEF VestingAssumption, TInv
<1>2. /\ CanTransfer(balance, a, b, q)
      /\ balance' = AfterTransfer(balance, a, b, q)
      /\ UNCHANGED <<now, settings, allocs>>
  BY DEF Transfer
<1>3. /\ balance' \in [Accounts -> Nat]
      /\ balance'[b] = balance[b] + q
      /\ \A c \in Accounts \ {a, b} : balance'[c] = balance[c]
  BY <1>1, <1>2, TransferType
<1>4. balance'[VestingTmy] >= balance[VestingTmy]
  BY <1>1, <1>3
<1> QED BY <1>2, <1>3, <1>4

LEMMA TInvStep == TInv /\ [Next]_vars => TInv'
<1> SUFFICES ASSUME TInv, [Next]_vars PROVE TInv'
  OBVIOUS
<1>1. ASSUME NEW s \in Senders, NEW h \in Holders, NEW q \in Quantities,
             NEW c \in DOMAIN Categories, AssignTokens(s, h, q, c)
      PROVE  TInv'
  BY <1>1, AssignStep, TableStepKeeps
<1>2. ASSUME NEW h \in Holders, Withdraw(h) PROVE TInv'
  BY <1>2, WithdrawType
<1>3. ASSUME NEW h \in Holders, MigrateAcc(h) PROVE TInv'
  BY <1>3, MigrateAccStep, TableStepKeeps
<1>4. CASE Tick
  BY <1>4, VestingAssumption DEF Tick, TInv, VestingAssumption
<1>5. ASSUME NEW s \in SalesDates, NEW l \in LaunchDates, SetSettings(s, l) PROVE TInv'
  <2>1. s \in Nat /\ l \in Nat
    BY VestingAssumption DEF VestingAssumption
  <2> QED BY <1>5, <2>1 DEF SetSettings, TInv, Settings
<1>6. ASSUME NEW s \in Senders, NEW h \in Holders, NEW q \in Quantities,
             NEW c \in DOMAIN Categories, NEW id \in DOMAIN allocs[h],
             MigrateAlloc(s, h, id, q, c)
      PROVE  TInv'
  BY <1>6, MigrateAllocStep, TableStepKeeps
<1>7. ASSUME NEW a \in Payers, NEW b \in Accounts, NEW q \in Quantities,
             Transfer(a, b, q)
      PROVE  TInv'
  BY <1>7, TransferKeeps DEF TInv
<1>8. CASE UNCHANGED vars
  BY <1>8 DEF vars, TInv
<1> QED BY <1>1, <1>2, <1>3, <1>4, <1>5, <1>6, <1>7, <1>8 DEF Next, Users

LEMMA CoveredInit == Init => Covered /\ Custody
<1> SUFFICES ASSUME Init PROVE Covered /\ Custody
  OBVIOUS
<1>1. TInv
  BY TInvInit
<1>2. ASSUME NEW h \in Holders, NEW id \in DOMAIN allocs[h]
      PROVE  allocs[h][id].tokens_claimed
               <= Vested(allocs[h][id], settings.launch_date, now)
  <2>1. allocs[h][id].tokens_claimed = 0
    BY VestingAssumption DEF VestingAssumption, Init
  <2>2. allocs[h][id] \in Allocation
    BY <1>1, SoundRow DEF TInv
  <2>3. Vested(allocs[h][id], settings.launch_date, now) \in Nat
    BY <1>1, <2>2, VestedBounds, TimeType
  <2> QED BY <2>1, <2>3
<1>3. Owed <= balance[VestingTmy]
  BY VestingAssumption DEF VestingAssumption, Owed, Init
<1>4. Owed \in Nat /\ balance[VestingTmy] \in Nat
  BY <1>1, OwedNat, HoldersFacts DEF TInv
<1> HIDE DEF Owed
<1> QED BY <1>2, <1>3, <1>4 DEF Covered, Custody

LEMMA AssignCovered ==
  ASSUME IInv, NEW s \in Senders, NEW h \in Holders, NEW q \in Quantities,
         NEW c \in DOMAIN Categories, AssignTokens(s, h, q, c)
  PROVE  Covered' /\ Custody'
<1>0. TInv /\ Covered /\ Custody
  BY DEF IInv
<1>1. PICK u : /\ TableStep(h, u)
               /\ DOMAIN allocs[h] \subseteq DOMAIN u
               /\ \A id \in DOMAIN allocs[h] : u[id] = allocs[h][id]
               /\ \A id \in DOMAIN u \ DOMAIN allocs[h] : u[id].tokens_claimed = 0
  BY <1>0, AssignStep
<1>2. ASSUME NEW id \in DOMAIN u
      PROVE  u[id].tokens_claimed <= Vested(u[id], settings.launch_date, now)
  <2>1. CASE id \in DOMAIN allocs[h]
    BY <1>0, <1>1, <2>1 DEF Covered
  <2>2. CASE id \notin DOMAIN allocs[h]
    <3>1. u[id] \in Allocation /\ u[id].tokens_claimed = 0
      BY <1>1, <2>2, SoundRow DEF TableStep
    <3>2. now \in Nat /\ settings.launch_date \in Nat
      BY <1>0, TimeType
    <3>3. Vested(u[id], settings.launch_date, now) \in Nat
      BY <3>1, <3>2, VestedBounds
    <3> QED BY <3>1, <3>3
  <2> QED BY <2>1, <2>2
<1> QED BY <1>0, <1>1, <1>2, TableStepKeeps, TableStepCovered

LEMMA WithdrawCovered ==
  ASSUME IInv, NEW h \in Holders, Withdraw(h)
  PROVE  Covered' /\ Custody'
<1> DEFINE u == RowsAfterWithdraw(h)
<1>1. TInv /\ Covered /\ Custody /\ now >= settings.launch_date
  BY DEF IInv, Withdraw
<1>2. TableStep(h, u)
  BY <1>1, ClaimableNat, WithdrawStep
<1>3. ASSUME NEW id \in DOMAIN u
      PROVE  u[id].tokens_claimed <= Vested(u[id], settings.launch_date, now)
  <2>1. id \in DOMAIN allocs[h] /\ allocs[h][id] \in Allocation
    BY <1>1, SoundRow DEF RowsAfterWithdraw, TInv
  <2>2. CASE id \in Unlocked(h)
    <3>1. u[id] = Claimed(allocs[h][id], ClaimableNow(allocs[h][id]))
      BY <2>2 DEF RowsAfterWithdraw
    <3>2. /\ ClaimableNow(allocs[h][id]) \in Nat
          /\ Vested(allocs[h][id], settings.launch_date, now)
               = ClaimableNow(allocs[h][id])
      BY <1>1, <2>2, UnlockedRow
    <3>3. /\ u[id].tokens_claimed = ClaimableNow(allocs[h][id])
          /\ Vested(u[id], settings.launch_date, now)
               = Vested(allocs[h][id], settings.launch_date, now)
      BY <2>1, <3>1, <3>2, ClaimedRow
    <3> QED BY <3>2, <3>3
  <2>3. CASE id \notin Unlocked(h)
    <3>1. u[id] = allocs[h][id]
      BY <2>3 DEF RowsAfterWithdraw
    <3> QED BY <1>1, <2>1, <3>1 DEF Covered
  <2> QED BY <2>2, <2>3
<1> HIDE DEF u
<1> QED BY <1>1, <1>2, <1>3, TableStepKeeps, TableStepCovered

LEMMA MigrateAccCovered ==
  ASSUME IInv, NEW h \in Holders, MigrateAcc(h)
  PROVE  Covered' /\ Custody'
<1> DEFINE u == [id \in DOMAIN allocs[h] |-> Renamed(allocs[h][id])]
<1>1. TInv /\ Covered /\ Custody
  BY DEF IInv
<1>2. TableStep(h, u)
  BY <1>1, MigrateAccStep
<1>3. ASSUME NEW id \in DOMAIN u
      PROVE  u[id].tokens_claimed <= Vested(u[id], settings.launch_date, now)
  <2> DEFINE row == allocs[h][id]
  <2>1. row \in Allocation /\ u[id] = Renamed(row)
    BY <1>1, SoundRow DEF TInv
  <2>2. row.tokens_claimed <= Vested(row, settings.launch_date, now)
    BY <1>1 DEF Covered
  <2> HIDE DEF u, row
  <2>3. /\ Renamed(row).tokens_claimed = row.tokens_claimed
        /\ Renamed(row).tokens_allocated = row.tokens_allocated
        /\ Renamed(row).vesting_category_type = row.vesting_category_type
    BY <2>1 DEF Renamed, Allocation
  <2>4. TermsOf(Renamed(row)) = TermsOf(row)
    BY <2>3 DEF TermsOf
  <2>5. Vested(Renamed(row), settings.launch_date, now)
          = Vested(row, settings.launch_date, now)
    BY <2>3, <2>4
       DEF Vested, CliffFinished, Claimable, Share, VestingStart, VestingEnd
  <2> QED BY <2>1, <2>2, <2>3, <2>5
<1> HIDE DEF u
<1> QED BY <1>1, <1>2, <1>3, TableStepKeeps, TableStepCovered

LEMMA TickCovered ==
  ASSUME IInv, Tick
  PROVE  Covered' /\ Custody'
<1>1. ASSUME NEW h \in Holders, NEW id \in DOMAIN allocs[h]
      PROVE  allocs[h][id].tokens_claimed
               <= Vested(allocs[h][id], settings.launch_date, now + 1)
  <2>1. /\ allocs[h][id] \in Allocation /\ allocs[h][id].tokens_claimed \in Nat
        /\ now \in Nat /\ settings.launch_date \in Nat
    BY SoundRow, TimeType DEF IInv, TInv
  <2>2. Vested(allocs[h][id], settings.launch_date, now)
          <= Vested(allocs[h][id], settings.launch_date, now + 1)
    BY <2>1, VestedGrows
  <2>3. /\ Vested(allocs[h][id], settings.launch_date, now) \in Nat
        /\ Vested(allocs[h][id], settings.launch_date, now + 1) \in Nat
    <3>1. now + 1 \in Nat
      BY <2>1
    <3> QED BY <2>1, <3>1, VestedBounds
  <2>4. allocs[h][id].tokens_claimed
          <= Vested(allocs[h][id], settings.launch_date, now)
    BY DEF IInv, Covered
  <2> QED BY <2>1, <2>2, <2>3, <2>4
<1>2. now' = now + 1 /\ UNCHANGED <<balance, settings, allocs>>
  BY DEF Tick
<1>3. Covered'
  BY <1>1, <1>2 DEF Covered
<1>4. Custody'
  BY <1>2 DEF IInv, Custody, Owed
<1> QED BY <1>3, <1>4

(* A careful change of the dates.                                          *)
LEMMA SettingsCovered ==
  ASSUME IInv, NEW s \in SalesDates, NEW l \in LaunchDates, SetSettings(s, l),
         \A h \in Holders : \A id \in DOMAIN allocs[h] :
            allocs[h][id].tokens_claimed <= Vested(allocs[h][id], l, now)
  PROVE  Covered' /\ Custody'
<1>1. settings'.launch_date = l /\ UNCHANGED <<now, balance, allocs>>
  BY DEF SetSettings
<1>2. Covered'
  BY <1>1 DEF Covered
<1>3. Custody'
  BY <1>1 DEF IInv, Custody, Owed
<1> QED BY <1>2, <1>3

(* A careful change of the terms of a row.                                 *)
LEMMA MigrateAllocCovered ==
  ASSUME IInv, NEW s \in Senders, NEW h \in Holders, NEW q \in Quantities,
         NEW c \in DOMAIN Categories, NEW id \in DOMAIN allocs[h],
         MigrateAlloc(s, h, id, q, c),
         allocs[h][id].tokens_claimed
           <= Vested(Reallocated(allocs[h][id], q, c), settings.launch_date, now)
  PROVE  Covered' /\ Custody'
<1> DEFINE row == Reallocated(allocs[h][id], q, c)
           u == [allocs[h] EXCEPT ![id] = row]
<1>1. TInv /\ Covered /\ Custody
  BY DEF IInv
<1>2. TableStep(h, u)
  BY <1>1, MigrateAllocStep
<1>3. row.tokens_claimed = allocs[h][id].tokens_claimed
  <2>1. allocs[h][id] \in Allocation
    BY <1>1, SoundRow DEF TInv
  <2> QED BY <2>1 DEF Reallocated, Allocation
<1> HIDE DEF row
<1>4. ASSUME NEW k \in DOMAIN u
      PROVE  u[k].tokens_claimed <= Vested(u[k], settings.launch_date, now)
  <2>1. CASE k = id
    BY <1>3, <2>1 DEF row
  <2>2. CASE k # id
    BY <1>1, <2>2 DEF Covered
  <2> QED BY <2>1, <2>2
<1> HIDE DEF u
<1> QED BY <1>1, <1>2, <1>4, TableStepKeeps, TableStepCovered

LEMMA TransferCovered ==
  ASSUME IInv, NEW a \in Payers, NEW b \in Accounts, NEW q \in Quantities,
         Transfer(a, b, q)
  PROVE  Covered' /\ Custody'
<1>1. TInv /\ Covered /\ Custody /\ Owed \in Nat
  BY OwedNat DEF IInv
<1>2. /\ balance' \in [Accounts -> Nat]
      /\ balance'[VestingTmy] >= balance[VestingTmy]
      /\ UNCHANGED <<now, settings, allocs>>
  BY <1>1, TransferKeeps
<1>3. Covered'
  BY <1>1, <1>2 DEF Covered
<1>4. Owed' = Owed
  BY <1>2 DEF Owed
<1>5. balance[VestingTmy] \in Nat /\ balance'[VestingTmy] \in Nat
  BY <1>1, <1>2, HoldersFacts DEF TInv
<1> HIDE DEF Owed
<1> QED BY <1>1, <1>2, <1>3, <1>4, <1>5 DEF Custody

LEMMA IInvInit == Init => IInv
BY TInvInit, CoveredInit DEF IInv

LEMMA IInvStep == IInv /\ [CarefulNext]_vars => IInv'
<1> SUFFICES ASSUME IInv, [CarefulNext]_vars PROVE IInv'
  OBVIOUS
<1>1. TInv'
  <2>1. [Next]_vars
    BY DEF CarefulNext, Next
  <2> QED BY <2>1, TInvStep DEF IInv
<1>2. ASSUME NEW s \in Senders, NEW h \in Holders, NEW q \in Quantities,
             NEW c \in DOMAIN Categories, AssignTokens(s, h, q, c)
      PROVE  Covered' /\ Custody'
  BY <1>2, AssignCovered
<1>3. ASSUME NEW h \in Holders, Withdraw(h) PROVE Covered' /\ Custody'
  BY <1>3, WithdrawCovered
<1>4. ASSUME NEW h \in Holders, MigrateAcc(h) PROVE Covered' /\ Custody'
  BY <1>4, MigrateAccCovered
<1>5. ASSUME Tick PROVE Covered' /\ Custody'
  BY <1>5, TickCovered
<1>6. ASSUME NEW s \in SalesDates, NEW l \in LaunchDates, SetSettings(s, l),
             \A h \in Holders : \A id \in DOMAIN allocs[h] :
               allocs[h][id].tokens_claimed <= Vested(allocs[h][id], l, now)
      PROVE  Covered' /\ Custody'
  BY <1>6, SettingsCovered
<1>7. ASSUME NEW s \in Senders, NEW h \in Holders, NEW q \in Quantities,
             NEW c \in DOMAIN Categories, NEW id \in DOMAIN allocs[h],
             allocs[h][id].tokens_claimed
               <= Vested(Reallocated(allocs[h][id], q, c), settings.launch_date, now),
             MigrateAlloc(s, h, id, q, c)
      PROVE  Covered' /\ Custody'
  BY <1>7, MigrateAllocCovered
<1>8. ASSUME NEW a \in Payers, NEW b \in Accounts, NEW q \in Quantities,
             Transfer(a, b, q)
      PROVE  Covered' /\ Custody'
  BY <1>8, TransferCovered
<1>9. ASSUME UNCHANGED vars PROVE Covered' /\ Custody'
  BY <1>9 DEF vars, IInv, Covered, Custody, Owed
<1>10. Covered' /\ Custody'
  BY <1>2, <1>3, <1>4, <1>5, <1>6, <1>7, <1>8, <1>9 DEF CarefulNext, Users
<1> QED BY <1>1, <1>10 DEF IInv
----------------------------------------------------------------------------
(* The schedule.                                                           *)

(* A step that leaves every row with its claim is on schedule.             *)
LEMMA ClaimsKept ==
  ASSUME TInv,
         \A h \in Holders : \A id \in DOMAIN allocs[h] :
            /\ id \in DOMAIN allocs'[h]
            /\ allocs'[h][id].tokens_claimed = allocs[h][id].tokens_claimed
  PROVE  OnSchedule
<1>1. \A h \in Holders : \A id \in DOMAIN allocs[h] :
        allocs[h][id].tokens_claimed \in Nat
  BY SoundRow DEF TInv
<1> QED BY <1>1 DEF OnSchedule

(* The same, of the rows of the one holder h.                              *)
LEMMA ClaimsKeptOf ==
  ASSUME TInv, NEW h, NEW u, TableStep(h, u),
         \A id \in DOMAIN allocs[h] :
            id \in DOMAIN u /\ u[id].tokens_claimed = allocs[h][id].tokens_claimed
  PROVE  OnSchedule
<1>1. /\ h \in Holders /\ Sound(u)
      /\ allocs' = [allocs EXCEPT ![h] = u]
  BY DEF TableStep
<1>2. /\ allocs'[h] = u
      /\ \A g \in Holders : g # h => allocs'[g] = allocs[g]
  BY <1>1, OneTable
<1>3. \A g \in Holders : \A id \in DOMAIN allocs[g] :
        /\ id \in DOMAIN allocs'[g]
        /\ allocs'[g][id].tokens_claimed = allocs[g][id].tokens_claimed
  BY <1>2
<1> QED BY <1>3, ClaimsKept

LEMMA WithdrawOnSchedule ==
  ASSUME TInv, NEW h \in Holders, Withdraw(h)
  PROVE  OnSchedule
<1> DEFINE u == RowsAfterWithdraw(h)
<1>1. /\ allocs'[h] = u
      /\ \A g \in Holders : g # h => allocs'[g] = allocs[g]
  BY DEF Withdraw, TInv
<1>2. ASSUME NEW g \in Holders, NEW id \in DOMAIN allocs[g]
      PROVE  LET row == allocs[g][id]
             IN  IF id \in DOMAIN allocs'[g]
                 THEN allocs'[g][id].tokens_claimed > row.tokens_claimed
                        => Elapsed(row) >= TermsOf(row).cliff_period
                 ELSE /\ Elapsed(row) >= TermsOf(row).cliff_period
                      /\ Elapsed(row) >= TermsOf(row).vesting_period
  <2>0. /\ allocs[g][id] \in Allocation /\ allocs[g][id].tokens_claimed \in Nat
        /\ now \in Nat /\ settings.launch_date \in Nat
    BY SoundRow, TimeType DEF TInv
  <2>1. CASE g # h
    BY <1>1, <2>0, <2>1
  <2>2. CASE g = h /\ id \notin Unlocked(h)
    <3>1. id \in DOMAIN u /\ u[id] = allocs[g][id]
      BY <2>2 DEF RowsAfterWithdraw, Exhausted
    <3> QED BY <1>1, <2>0, <2>2, <3>1
  <2>3. CASE g = h /\ id \in Unlocked(h)
    <3> DEFINE row == allocs[g][id]
    <3>1. /\ TermsOf(row).cliff_period \in Nat /\ TermsOf(row).start_delay \in Nat
          /\ TermsOf(row).vesting_period \in Nat
      BY <2>0, TermsType DEF Category
    <3>2. CliffFinished(row, settings.launch_date, now)
      BY <2>3 DEF Unlocked
    <3>3. Elapsed(row) >= TermsOf(row).cliff_period
      BY <2>0, <3>1, <3>2 DEF CliffFinished, VestingStart, Elapsed
    <3>4. ASSUME id \notin DOMAIN allocs'[g]
          PROVE  Elapsed(row) >= TermsOf(row).vesting_period
      <4>1. id \in Exhausted(h)
        BY <1>1, <2>3, <3>4 DEF RowsAfterWithdraw
      <4>2. now >= VestingEnd(row, settings.launch_date)
        BY <2>3, <4>1, UnlockedRow
      <4> QED BY <2>0, <3>1, <4>2 DEF VestingEnd, VestingStart, Elapsed
    <3> QED BY <3>3, <3>4
  <2> QED BY <2>1, <2>2, <2>3
<1> QED BY <1>2 DEF OnSchedule

LEMMA ScheduleStep == TInv /\ [Next]_vars => [OnSchedule]_vars
<1> SUFFICES ASSUME TInv, Next PROVE OnSchedule
  OBVIOUS
<1>1. ASSUME NEW s \in Senders, NEW h \in Holders, NEW q \in Quantities,
             NEW c \in DOMAIN Categories, AssignTokens(s, h, q, c)
      PROVE  OnSchedule
  <2>1. PICK u : /\ TableStep(h, u)
                 /\ DOMAIN allocs[h] \subseteq DOMAIN u
                 /\ \A id \in DOMAIN allocs[h] : u[id] = allocs[h][id]
    BY <1>1, AssignStep
  <2> QED BY <2>1, ClaimsKeptOf
<1>2. ASSUME NEW h \in Holders, Withdraw(h) PROVE OnSchedule
  BY <1>2, WithdrawOnSchedule
<1>3. ASSUME NEW h \in Holders, MigrateAcc(h) PROVE OnSchedule
  <2> DEFINE u == [id \in DOMAIN allocs[h] |-> Renamed(allocs[h][id])]
  <2>1. TableStep(h, u)
    BY <1>3, MigrateAccStep
  <2>2. ASSUME NEW id \in DOMAIN allocs[h]
        PROVE  id \in DOMAIN u /\ u[id].tokens_claimed = allocs[h][id].tokens_claimed
    <3> DEFINE row == allocs[h][id]
    <3>1. row \in Allocation /\ u[id] = Renamed(row)
      BY SoundRow DEF TInv
    <3> HIDE DEF row
    <3>2. Renamed(row).tokens_claimed = row.tokens_claimed
      BY <3>1 DEF Renamed, Allocation
    <3> QED BY <3>1, <3>2 DEF row
  <2> HIDE DEF u
  <2> QED BY <2>1, <2>2, ClaimsKeptOf
<1>4. ASSUME NEW s \in Senders, NEW h \in Holders, NEW q \in Quantities,
             NEW c \in DOMAIN Categories, NEW id \in DOMAIN allocs[h],
             MigrateAlloc(s, h, id, q, c)
      PROVE  OnSchedule
  <2> DEFINE row == Reallocated(allocs[h][id], q, c)
             u == [allocs[h] EXCEPT ![id] = row]
  <2>1. TableStep(h, u)
    BY <1>4, MigrateAllocStep
  <2>2. row.tokens_claimed = allocs[h][id].tokens_claimed
    <3>1. allocs[h][id] \in Allocation
      BY SoundRow DEF TInv
    <3> QED BY <3>1 DEF Reallocated, Allocation
  <2> HIDE DEF row
  <2>3. \A k \in DOMAIN allocs[h] :
          k \in DOMAIN u /\ u[k].tokens_claimed = allocs[h][k].tokens_claimed
    BY <2>2
  <2> HIDE DEF u
  <2> QED BY <2>1, <2>3, ClaimsKeptOf DEF row, u
<1>5. ASSUME UNCHANGED allocs PROVE OnSchedule
  BY <1>5, ClaimsKept
<1> QED BY <1>1, <1>2, <1>3, <1>4, <1>5 DEF Next, Users, Tick, SetSettings, Transfer
----------------------------------------------------------------------------
(* The theorems.                                                           *)

LEMMA CarefulIsSpec == CarefulSpec => Spec
<1>1. CarefulNext => Next
  BY DEF CarefulNext, Next
<1> QED BY <1>1, PTL DEF CarefulSpec, Spec

LEMMA Sounds == Spec => []TInv
BY TInvInit, TInvStep, PTL DEF Spec

(* Under any administrator the rows keep their types and no row that is    *)
(* there has all of its tokens claimed: withdraw erases it in time         *)
(* (vesting.tmy.cpp:128-138).                                              *)
THEOREM VestingTypeCorrect == Spec => []TypeOK
<1>1. TInv => TypeOK
  BY DEF TInv, TypeOK, Sound
<1> QED BY <1>1, Sounds, PTL

(* The rows and the balance of the contract under a careful administrator: *)
(* she keeps every row covered.                                            *)
THEOREM RowsCovered == CarefulSpec => []IInv
BY IInvInit, IInvStep, PTL DEF CarefulSpec

(* Under a careful administrator the contract holds what it has allocated  *)
(* and not paid (vesting.tmy.cpp:88-160, 189-209).                         *)
THEOREM VestingCustody == CarefulSpec => []Custody
BY RowsCovered, PTL DEF IInv

(* Under a careful administrator no withdraw takes anything back, or fails *)
(* for want of tokens (vesting.tmy.cpp:149-158).                           *)
THEOREM WithdrawAlwaysPayable == CarefulSpec => []WithdrawPayable
<1>1. IInv => WithdrawPayable
  <2> SUFFICES ASSUME IInv, NEW h \in Holders, now >= settings.launch_date
               PROVE  /\ TotalClaimable(h) >= 0
                      /\ TotalClaimable(h) <= balance[VestingTmy]
    BY DEF WithdrawPayable
  <2>1. TInv /\ Covered /\ Custody /\ Sound(RowsAfterWithdraw(h))
    BY TableWithdraw DEF IInv
  <2>2. TotalClaimable(h) \in Nat
    BY <2>1, ClaimableNat
  <2>3. /\ Owing(RowsAfterWithdraw(h)) = Owing(allocs[h]) - TotalClaimable(h)
        /\ Owing(RowsAfterWithdraw(h)) \in Nat
    BY <2>1, TableWithdraw, OwingNat
  <2>4. /\ Owing(allocs[h]) \in Nat /\ Owed \in Nat /\ Owing(allocs[h]) <= Owed
        /\ balance[VestingTmy] \in Nat
    BY <2>1, OwedNat, HoldersFacts DEF TInv
  <2>5. Owed <= balance[VestingTmy]
    BY <2>1 DEF Custody
  <2> HIDE DEF Owed
  <2> QED BY <2>2, <2>3, <2>4, <2>5
<1> QED BY <1>1, RowsCovered, PTL

(* Whatever the administrator does, nothing is claimed before its cliff,   *)
(* and no row goes before its vesting is over (vesting.tmy.cpp:96-135).    *)
THEOREM ScheduleAlwaysHonoured == Spec => ScheduleHonoured
BY Sounds, ScheduleStep, PTL DEF Spec, ScheduleHonoured
----------------------------------------------------------------------------
(* The books: what is allocated and not paid is kept as Custodian says.    *)

(* The instance copies the operators of the modules that Custodian         *)
(* extends; they say the same.                                             *)
LEMMA BooksSum == \A f : Books!SumFunction(f) = SumFunction(f)
BY DEF SumFunction, Books!SumFunction, SumFunctionOnSet,
       Books!SumFunctionOnSet, FoldFunctionOnSet, Books!FoldFunctionOnSet,
       MapThenFoldSet, Books!MapThenFoldSet

LEMMA BooksMove ==
  ASSUME balance \in [Accounts -> Nat],
         NEW from, NEW to, NEW n \in Nat, CanTransfer(balance, from, to, n),
         balance' = AfterTransfer(balance, from, to, n)
  PROVE  Books!MoveTokens(from, to, n) /\ balance' # balance
<1>1. Books!MoveTokens(from, to, n)
  BY DEF Books!MoveTokens, CanTransfer, Books!CanTransfer,
         AfterTransfer, Books!AfterTransfer
<1>2. n > 0 /\ balance[to] \in Nat /\ balance'[to] = balance[to] + n
  BY TransferType DEF CanTransfer
<1> QED BY <1>1, <1>2

LEMMA ClaimsFacts ==
  ASSUME TInv
  PROVE  /\ Claims \in [Holders -> Nat]
         /\ \A h \in Holders : Claims[h] = Owing(allocs[h])
         /\ SumFunction(Claims) = Owed
<1>1. \A h \in Holders : Owing(allocs[h]) \in Nat
  BY OwedNat
<1> QED BY <1>1 DEF Claims, Owed

(* The claim of h grows by what the contract receives.                     *)
LEMMA ClaimsStep ==
  ASSUME TInv, NEW h, NEW u, TableStep(h, u)
  PROVE  /\ h \in Holders
         /\ Books!Inflow \in Int
         /\ Books!Inflow = balance'[VestingTmy] - balance[VestingTmy]
         /\ Claims[h] + Books!Inflow \in Nat
         /\ Claims' = [Claims EXCEPT ![h] = @ + Books!Inflow]
<1>1. /\ h \in Holders /\ Sound(u) /\ allocs' = [allocs EXCEPT ![h] = u]
      /\ balance' \in [Accounts -> Nat]
      /\ balance'[VestingTmy] - balance[VestingTmy] = Owing(u) - Owing(allocs[h])
  BY DEF TableStep
<1>2. /\ Owing(u) \in Nat /\ Owing(allocs[h]) \in Nat
      /\ balance[VestingTmy] \in Nat /\ balance'[VestingTmy] \in Nat
      /\ Claims \in [Holders -> Nat] /\ Claims[h] = Owing(allocs[h])
  BY <1>1, OwingNat, ClaimsFacts, HoldersFacts DEF TInv
<1>3. Books!Inflow = balance'[VestingTmy] - balance[VestingTmy]
  BY DEF Books!Inflow
<1>4. Books!Inflow \in Int /\ Claims[h] + Books!Inflow = Owing(u)
  BY <1>1, <1>2, <1>3
<1>5. Claims' = [Claims EXCEPT ![h] = Owing(u)]
  <2>1. allocs'[h] = u /\ \A g \in Holders : g # h => allocs'[g] = allocs[g]
    BY <1>1, OneTable
  <2> QED BY <2>1 DEF Claims
<1> QED BY <1>1, <1>2, <1>3, <1>4, <1>5

(* Tokens come in for h from the account s ...                             *)
LEMMA DepositStep ==
  ASSUME TInv, NEW h, NEW u, TableStep(h, u), NEW s, NEW n \in Nat,
         CanTransfer(balance, s, VestingTmy, n),
         balance' = AfterTransfer(balance, s, VestingTmy, n)
  PROVE  Books!CustodianNext
<1>1. /\ balance \in [Accounts -> Nat] /\ balance[VestingTmy] \in Nat
      /\ s \in Accounts
  BY HoldersFacts DEF TInv, CanTransfer
<1>2. balance'[VestingTmy] = balance[VestingTmy] + n
  BY <1>1, TransferType
<1>3. h \in Holders /\ Claims' = [Claims EXCEPT ![h] = @ + n]
      /\ Books!Inflow = n
  BY <1>1, <1>2, ClaimsStep
<1>4. Books!Deposit(s, h, n) /\ balance' # balance
  BY <1>1, <1>3, BooksMove DEF Books!Deposit
<1> QED BY <1>1, <1>3, <1>4 DEF Books!CustodianNext

(* ... or go back to s.                                                    *)
LEMMA RefundStep ==
  ASSUME TInv, NEW h, NEW u, TableStep(h, u), NEW s \in Senders, NEW n \in Nat,
         CanTransfer(balance, VestingTmy, s, n),
         balance' = AfterTransfer(balance, VestingTmy, s, n)
  PROVE  Books!CustodianNext
<1>1. balance \in [Accounts -> Nat] /\ balance[VestingTmy] \in Nat
  BY HoldersFacts DEF TInv
<1>2. balance'[VestingTmy] = balance[VestingTmy] - n
  BY <1>1, TransferType
<1>3. /\ h \in Holders /\ Claims \in [Holders -> Nat]
      /\ Claims' = [Claims EXCEPT ![h] = @ + Books!Inflow]
      /\ Books!Inflow = -n /\ Claims[h] + Books!Inflow \in Nat
  BY <1>1, <1>2, ClaimsStep, ClaimsFacts
<1>4. Claims[h] + Books!Inflow = Claims[h] - n /\ n <= Claims[h] /\ -Books!Inflow = n
  BY <1>3
<1>6. Claims' = [Claims EXCEPT ![h] = @ - n]
  BY <1>3, <1>4
<1>5. Books!Refund(s, h, n) /\ balance' # balance
  BY <1>1, <1>3, <1>4, <1>6, BooksMove DEF Books!Refund
<1> QED BY <1>3, <1>4, <1>5 DEF Books!CustodianNext

(* A sum with one term.                                                    *)
LEMMA OneTerm ==
  ASSUME NEW h \in Holders, NEW n \in Int, NEW f, DOMAIN f = Holders,
         \A c \in Holders : f[c] = IF c = h THEN n ELSE 0
  PROVE  SumFunction(f) = n
<1>1. IsFiniteSet(Holders) /\ {h} \in SUBSET Holders
  BY HoldersFacts
<1>2. SumFunctionOnSet(f, Holders) = SumFunctionOnSet(f, {h})
  BY <1>1, SumSupport
<1>3. SumFunctionOnSet(f, {h}) = n
  BY SumSingle
<1> QED BY <1>2, <1>3 DEF SumFunction

(* The holder is paid.                                                     *)
LEMMA PaidStep ==
  ASSUME TInv, NEW h, NEW u, TableStep(h, u), NEW n \in Nat,
         CanTransfer(balance, VestingTmy, h, n),
         balance' = AfterTransfer(balance, VestingTmy, h, n)
  PROVE  Books!CustodianNext
<1> DEFINE paid == Books!Received
           granted == Books!Granted
<1>1. /\ balance \in [Accounts -> Nat] /\ balance[VestingTmy] \in Nat
      /\ h \in Holders /\ Holders \subseteq Accounts /\ VestingTmy \in Accounts
      /\ VestingTmy \notin Holders
      /\ n <= balance[VestingTmy]
  BY HoldersFacts DEF TInv, CanTransfer, TableStep
<1>2. /\ balance' \in [Accounts -> Nat]
      /\ balance'[VestingTmy] = balance[VestingTmy] - n
      /\ balance'[h] = balance[h] + n
      /\ \A a \in Accounts \ {VestingTmy, h} : balance'[a] = balance[a]
  BY <1>1, TransferType
<1>3. /\ Claims \in [Holders -> Nat] /\ Books!Inflow = -n
      /\ Claims[h] + Books!Inflow \in Nat
      /\ Claims' = [Claims EXCEPT ![h] = @ + Books!Inflow]
  BY <1>1, <1>2, ClaimsStep, ClaimsFacts
<1>4. /\ Claims[h] + Books!Inflow = Claims[h] - n /\ n <= Claims[h]
      /\ \A c \in Holders :
           /\ Claims[c] \in Nat
           /\ Claims'[c] = IF c = h THEN Claims[c] - n ELSE Claims[c]
      /\ Claims' = [c \in Holders |-> Claims'[c]]
  <2>1. Claims[h] + Books!Inflow = Claims[h] - n /\ n <= Claims[h]
    BY <1>1, <1>3
  <2>2. Claims' = [Claims EXCEPT ![h] = Claims[h] - n]
    BY <1>3, <2>1
  <2> QED BY <1>3, <2>1, <2>2
<1>5. /\ DOMAIN paid = Holders
      /\ \A c \in Holders : paid[c] = IF c = h THEN n ELSE 0
  BY <1>1, <1>2 DEF Books!Received
<1>6. /\ DOMAIN granted = Holders
      /\ \A c \in Holders : granted[c] = 0
  <2>1. granted = [c \in Holders |-> Claims'[c] - Claims[c] + paid[c]]
    BY DEF Books!Granted
  <2> HIDE DEF paid, granted
  <2>2. \A c \in Holders : Claims'[c] - Claims[c] + paid[c] = 0
    BY <1>3, <1>4, <1>5
  <2> QED BY <2>1, <2>2
<1> HIDE DEF paid, granted
<1>7. SumFunction(paid) = n /\ SumFunction(granted) = 0
  <2>1. \A c \in Holders : granted[c] = IF c = h THEN 0 ELSE 0
    BY <1>6
  <2> QED BY <1>1, <1>5, <1>6, <2>1, OneTerm
<1>8. Books!SumFunction(paid) = n /\ Books!SumFunction(granted) = 0
  BY <1>7, BooksSum
<1>9. balance' = [a \in Accounts |->
                    IF a = VestingTmy THEN balance[a] - n
                    ELSE IF a \in Holders THEN balance[a] + paid[a]
                    ELSE balance[a]]
  BY <1>1, <1>2, <1>5
<1>10. Claims' = [c \in Holders |-> Claims[c] - paid[c] + granted[c]]
  <2>1. \A c \in Holders : Claims'[c] = Claims[c] - paid[c] + granted[c]
    BY <1>4, <1>5, <1>6
  <2> QED BY <1>4, <2>1
<1>11. \A c \in Holders : paid[c] \in 0 .. Claims[c] /\ granted[c] \in Nat
  BY <1>3, <1>4, <1>5, <1>6
<1>12. Books!Settle(paid, granted)
  <2>1. \E c \in Holders : paid[c] > 0 \/ granted[c] > 0
    BY <1>1, <1>5 DEF CanTransfer
  <2> QED BY <1>1, <1>8, <1>9, <1>10, <1>11, <2>1 DEF Books!Settle
<1> QED BY <1>12 DEF Books!CustodianNext, paid, granted

(* Nothing moves.                                                          *)
LEMMA NothingMoves ==
  ASSUME TInv, NEW h, NEW u, TableStep(h, u), balance' = balance
  PROVE  UNCHANGED Books!books
<1>1. /\ Books!Inflow = balance'[VestingTmy] - balance[VestingTmy]
      /\ Claims' = [Claims EXCEPT ![h] = @ + Books!Inflow]
      /\ Claims \in [Holders -> Nat] /\ h \in Holders
      /\ balance[VestingTmy] \in Nat
  BY ClaimsStep, ClaimsFacts, HoldersFacts DEF TInv
<1>2. Books!Inflow = 0
  BY <1>1
<1>3. Claims' = Claims
  BY <1>1, <1>2
<1> QED BY <1>3 DEF Books!books

LEMMA BooksInit == Init => Books!CustodianInit
<1> SUFFICES ASSUME Init PROVE Books!CustodianInit
  OBVIOUS
<1>1. TInv /\ Custody
  BY TInvInit, CoveredInit
<1>2. /\ Claims \in [Holders -> Nat]
      /\ Books!SumFunction(Claims) = Owed
  BY <1>1, ClaimsFacts, BooksSum
<1>3. balance[VestingTmy] >= 0 + Books!SumFunction(Claims)
  <2>1. Owed \in Nat
    BY <1>1, OwedNat
  <2> HIDE DEF Owed
  <2> QED BY <1>1, <1>2, <2>1 DEF Custody
<1> QED BY <1>1, <1>2, <1>3
   DEF Books!CustodianInit, Books!BooksTypeOK, Books!BooksCovered, TInv

LEMMA BooksNext ==
  IInv /\ [CarefulNext]_vars => [Books!CustodianNext]_(Books!books)
<1> SUFFICES ASSUME IInv, [CarefulNext]_vars
             PROVE  Books!CustodianNext \/ UNCHANGED Books!books
  OBVIOUS
<1>0. TInv /\ Covered
  BY DEF IInv
<1>1. ASSUME NEW s \in Senders, NEW h \in Holders, NEW q \in Quantities,
             NEW c \in DOMAIN Categories, AssignTokens(s, h, q, c)
      PROVE  Books!CustodianNext
  <2>1. PICK u : TableStep(h, u)
    BY <1>0, <1>1, AssignStep
  <2>2. /\ CanTransfer(balance, s, VestingTmy, q)
        /\ balance' = AfterTransfer(balance, s, VestingTmy, q)
        /\ q \in Nat
    BY <1>1, VestingAssumption DEF AssignTokens, VestingAssumption
  <2> QED BY <1>0, <2>1, <2>2, DepositStep
<1>2. ASSUME NEW h \in Holders, Withdraw(h)
      PROVE  Books!CustodianNext \/ UNCHANGED Books!books
  <2> DEFINE n == TotalClaimable(h)
  <2>1. n \in Nat
    BY <1>0, <1>2, ClaimableNat DEF Withdraw
  <2>2. TableStep(h, RowsAfterWithdraw(h))
    BY <1>0, <1>2, <2>1, WithdrawStep
  <2>3. \/ /\ CanTransfer(balance, VestingTmy, h, n)
           /\ balance' = AfterTransfer(balance, VestingTmy, h, n)
        \/ balance' = balance
    BY <1>2 DEF Withdraw
  <2> HIDE DEF n
  <2> QED BY <1>0, <2>1, <2>2, <2>3, PaidStep, NothingMoves
<1>3. ASSUME NEW h \in Holders, MigrateAcc(h) PROVE UNCHANGED Books!books
  <2>1. balance' = balance
    BY <1>3 DEF MigrateAcc
  <2> QED BY <1>0, <1>3, <2>1, MigrateAccStep, NothingMoves
<1>4. ASSUME NEW a \in Payers, NEW b \in Accounts, NEW q \in Quantities,
             Transfer(a, b, q)
      PROVE  Books!CustodianNext
  <2>1. /\ CanTransfer(balance, a, b, q)
        /\ balance' = AfterTransfer(balance, a, b, q)
        /\ allocs' = allocs
        /\ q \in Nat /\ a \in Accounts /\ a # VestingTmy
        /\ balance \in [Accounts -> Nat]
    BY <1>0, <1>4, VestingAssumption DEF Transfer, VestingAssumption, TInv
  <2>2. balance'[b] - balance[b] = q
    <3>1. balance'[b] = balance[b] + q /\ balance[b] \in Nat
      BY <2>1, TransferType
    <3> QED BY <2>1, <3>1
  <2>3. Books!Spend(a, b, q) /\ balance' # balance
    <3>1. Claims' = Claims
      BY <2>1 DEF Claims
    <3> QED BY <2>1, <3>1, BooksMove DEF Books!Spend
  <2> QED BY <2>1, <2>2, <2>3 DEF Books!CustodianNext
<1>5. ASSUME NEW s \in Senders, NEW h \in Holders, NEW q \in Quantities,
             NEW c \in DOMAIN Categories, NEW id \in DOMAIN allocs[h],
             MigrateAlloc(s, h, id, q, c)
      PROVE  Books!CustodianNext \/ UNCHANGED Books!books
  <2> DEFINE n == q - allocs[h][id].tokens_allocated
  <2>1. PICK u : TableStep(h, u)
    BY <1>0, <1>5, MigrateAllocStep
  <2>2. SettleChange(s, n)
    BY <1>5 DEF MigrateAlloc
  <2>3. n \in Int
    BY <1>0, SoundRow, VestingAssumption DEF TInv, VestingAssumption
  <2> HIDE DEF n
  <2>4. CASE /\ n > 0 /\ CanTransfer(balance, s, VestingTmy, n)
             /\ balance' = AfterTransfer(balance, s, VestingTmy, n)
    BY <1>0, <2>1, <2>3, <2>4, DepositStep
  <2>5. CASE /\ n < 0 /\ CanTransfer(balance, VestingTmy, s, -n)
             /\ balance' = AfterTransfer(balance, VestingTmy, s, -n)
    <3>1. -n \in Nat
      BY <2>3, <2>5
    <3> QED BY <1>0, <2>1, <2>5, <3>1, RefundStep
  <2>6. CASE balance' = balance
    BY <1>0, <2>1, <2>6, NothingMoves
  <2> QED BY <2>2, <2>4, <2>5, <2>6 DEF SettleChange
<1>6. ASSUME UNCHANGED <<balance, allocs>> PROVE UNCHANGED Books!books
  BY <1>6 DEF Books!books, Claims
<1> QED BY <1>1, <1>2, <1>3, <1>4, <1>5, <1>6
   DEF CarefulNext, Users, Tick, SetSettings, vars

(* Under a careful administrator the contract keeps its books as Custodian *)
(* says, whatever the order of assignments, withdrawals, careful changes   *)
(* of the dates and of the terms, and transfers of others: what a holder   *)
(* loses of a claim that holder is paid, or the sender that migratealloc   *)
(* names gets back (vesting.tmy.cpp:33-209).                               *)
THEOREM ImplementsCustodian == CarefulSpec => KeepsAllocations
BY BooksInit, BooksNext, RowsCovered, PTL
   DEF CarefulSpec, KeepsAllocations, Books!CustodianSpec
----------------------------------------------------------------------------
(* What was paid is not forgotten.                                         *)

(* What is claimed of each row that stays only grows.                      *)
LEMMA WithdrawRemembers ==
  ASSUME IInv, NEW h \in Holders, Withdraw(h), NEW g \in Holders,
         NEW id \in DOMAIN allocs[g] \cap DOMAIN allocs'[g]
  PROVE  allocs'[g][id].tokens_claimed >= allocs[g][id].tokens_claimed
<1> DEFINE u == RowsAfterWithdraw(h)
           row == allocs[g][id]
<1>1. TInv /\ Covered /\ now >= settings.launch_date
  BY DEF IInv, Withdraw
<1>2. allocs'[h] = u /\ \A k \in Holders : k # h => allocs'[k] = allocs[k]
  BY <1>1 DEF Withdraw, TInv
<1>3. row \in Allocation /\ row.tokens_claimed \in Nat
  BY <1>1, SoundRow DEF TInv
<1>4. CASE g # h \/ id \notin Unlocked(h)
  <2>1. allocs'[g][id] = row
    BY <1>2, <1>4 DEF RowsAfterWithdraw
  <2> QED BY <1>3, <2>1
<1>5. CASE g = h /\ id \in Unlocked(h)
  <2>1. allocs'[g][id] = Claimed(row, ClaimableNow(row))
    BY <1>2, <1>5 DEF RowsAfterWithdraw
  <2>2. /\ ClaimableNow(row) \in Nat
        /\ Vested(row, settings.launch_date, now) = ClaimableNow(row)
    BY <1>1, <1>5, UnlockedRow
  <2>3. row.tokens_claimed <= Vested(row, settings.launch_date, now)
    BY <1>1 DEF Covered
  <2> HIDE DEF row
  <2>4. allocs'[g][id].tokens_claimed = ClaimableNow(row)
    BY <1>3, <2>1, <2>2, ClaimedRow
  <2> QED BY <1>3, <2>2, <2>3, <2>4 DEF row
<1> QED BY <1>4, <1>5

(* A step that leaves every row of the table it changes with its claim.    *)
LEMMA TableRemembers ==
  ASSUME TInv, NEW h, NEW u, TableStep(h, u),
         \A id \in DOMAIN allocs[h] \cap DOMAIN u :
            u[id].tokens_claimed = allocs[h][id].tokens_claimed
  PROVE  NoneForgotten
<1>1. /\ h \in Holders /\ Sound(u) /\ allocs' = [allocs EXCEPT ![h] = u]
  BY DEF TableStep
<1>2. allocs'[h] = u /\ \A g \in Holders : g # h => allocs'[g] = allocs[g]
  BY <1>1, OneTable
<1>3. \A g \in Holders : \A id \in DOMAIN allocs[g] :
        allocs[g][id].tokens_claimed \in Nat
  BY SoundRow DEF TInv
<1> QED BY <1>2, <1>3 DEF NoneForgotten

LEMMA RememberStep == IInv /\ [CarefulNext]_vars => [NoneForgotten]_vars
<1> SUFFICES ASSUME IInv, CarefulNext PROVE NoneForgotten
  OBVIOUS
<1>0. TInv
  BY DEF IInv
<1>1. ASSUME NEW s \in Senders, NEW h \in Holders, NEW q \in Quantities,
             NEW c \in DOMAIN Categories, AssignTokens(s, h, q, c)
      PROVE  NoneForgotten
  <2>1. PICK u : /\ TableStep(h, u)
                 /\ \A id \in DOMAIN allocs[h] : u[id] = allocs[h][id]
    BY <1>0, <1>1, AssignStep
  <2> QED BY <1>0, <2>1, TableRemembers
<1>2. ASSUME NEW h \in Holders, Withdraw(h) PROVE NoneForgotten
  BY <1>2, WithdrawRemembers DEF NoneForgotten
<1>3. ASSUME NEW h \in Holders, MigrateAcc(h) PROVE NoneForgotten
  <2> DEFINE u == [id \in DOMAIN allocs[h] |-> Renamed(allocs[h][id])]
  <2>1. TableStep(h, u)
    BY <1>0, <1>3, MigrateAccStep
  <2>2. ASSUME NEW id \in DOMAIN allocs[h]
        PROVE  u[id].tokens_claimed = allocs[h][id].tokens_claimed
    <3>1. allocs[h][id] \in Allocation
      BY <1>0, SoundRow DEF TInv
    <3> QED BY <3>1 DEF Renamed, Allocation
  <2> HIDE DEF u
  <2> QED BY <1>0, <2>1, <2>2, TableRemembers
<1>4. ASSUME NEW s \in Senders, NEW h \in Holders, NEW q \in Quantities,
             NEW c \in DOMAIN Categories, NEW id \in DOMAIN allocs[h],
             MigrateAlloc(s, h, id, q, c)
      PROVE  NoneForgotten
  <2> DEFINE row == Reallocated(allocs[h][id], q, c)
             u == [allocs[h] EXCEPT ![id] = row]
  <2>1. TableStep(h, u)
    BY <1>0, <1>4, MigrateAllocStep
  <2>2. row.tokens_claimed = allocs[h][id].tokens_claimed
    <3>1. allocs[h][id] \in Allocation
      BY <1>0, SoundRow DEF TInv
    <3> QED BY <3>1 DEF Reallocated, Allocation
  <2> HIDE DEF row
  <2>3. \A k \in DOMAIN allocs[h] : u[k].tokens_claimed = allocs[h][k].tokens_claimed
    BY <2>2
  <2> HIDE DEF u
  <2> QED BY <1>0, <2>1, <2>3, TableRemembers
<1>5. ASSUME UNCHANGED allocs PROVE NoneForgotten
  <2>1. \A g \in Holders : \A id \in DOMAIN allocs[g] :
          allocs[g][id].tokens_claimed \in Nat
    BY <1>0, SoundRow DEF TInv
  <2> QED BY <1>5, <2>1 DEF NoneForgotten
<1> QED BY <1>1, <1>2, <1>3, <1>4, <1>5
   DEF CarefulNext, Users, Tick, SetSettings, Transfer

(* Under a careful administrator no withdraw forgets what it paid before:  *)
(* what is claimed of a row never shrinks (vesting.tmy.cpp:110-145, 178).  *)
THEOREM PaymentsAlwaysRemembered == CarefulSpec => PaymentsRemembered
BY RememberStep, RowsCovered, PTL DEF CarefulSpec, PaymentsRemembered
=============================================================================
