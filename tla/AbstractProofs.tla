--------------------------- MODULE AbstractProofs ---------------------------
(***************************************************************************)
(* What follows from the two abstract specifications, and so for every     *)
(* contract that implements one: in TokenLedger the supply is what is      *)
(* held, in Custodian the keeper has what its books say.                   *)
(***************************************************************************)
EXTENDS TokenLedger, Custodian, SumTheorems

LInv == LedgerTypeOK /\ Backed

(* One owner's holding changes.                                            *)
LEMMA HoldingChanges ==
  ASSUME NEW f \in [Owners -> Int], NEW g \in [Owners -> Int],
         NEW a \in Owners, NEW d \in Int, IsFiniteSet(Owners),
         g[a] = f[a] + d, \A b \in Owners : b # a => g[b] = f[b]
  PROVE  /\ SumFunction(g) = SumFunction(f) + d
         /\ SumFunction(f) \in Int
<1>1. SumFunction(g) = SumFunction(f) + g[a] - f[a]
  BY SumFunctionUpdate
<1>2. SumFunction(f) \in Int
  BY SumFunctionInt
<1> QED BY <1>1, <1>2

LEMMA LedgerStep ==
  ASSUME IsFiniteSet(Owners), Amounts \subseteq Nat, LInv, [LedgerNext]_ledger
  PROVE  LInv'
<1> USE DEF LInv, LedgerTypeOK, Backed
<1>0. held \in [Owners -> Int] /\ supply \in Int /\ \A q \in Amounts : q \in Nat
  OBVIOUS
<1>1. ASSUME NEW a \in Owners, NEW b \in Owners, NEW q \in Amounts, Move(a, b, q)
      PROVE  LInv'
  <2> DEFINE less == [c \in Owners |-> IF c = a THEN held[a] - q ELSE held[c]]
  <2>1. /\ a # b /\ q \in Nat /\ q <= held[a]
        /\ UNCHANGED supply
        /\ held' = [held EXCEPT ![a] = @ - q, ![b] = @ + q]
    BY <1>1 DEF Move, CanTransfer, AfterTransfer
  <2>2. /\ held' \in [Owners -> Nat]
        /\ held'[a] = held[a] - q /\ held'[b] = held[b] + q
        /\ \A c \in Owners : c # a /\ c # b => held'[c] = held[c]
    BY <2>1
  <2>3. /\ less \in [Owners -> Int]
        /\ less[a] = held[a] + (-q)
        /\ \A c \in Owners : c # a => less[c] = held[c]
    BY <1>0, <2>1
  <2>7. /\ held'[b] = less[b] + q
        /\ \A c \in Owners : c # b => held'[c] = less[c]
    BY <1>0, <2>1, <2>2
  <2> HIDE DEF less
  <2>4. SumFunction(less) = SumFunction(held) + (-q) /\ SumFunction(held) \in Int
    BY <1>0, <2>3, HoldingChanges
  <2>5. held' \in [Owners -> Int] /\ less \in [Owners -> Int]
    BY <2>2, <2>3
  <2>6. SumFunction(held') = SumFunction(less) + q
    BY <1>0, <2>5, <2>7, HoldingChanges
  <2> QED BY <2>1, <2>2, <2>4, <2>6
<1>2. ASSUME NEW a \in Owners, NEW q \in Amounts, Mint(a, q)
      PROVE  LInv'
  <2>1. /\ q \in Nat /\ supply' = supply + q
        /\ held' = [held EXCEPT ![a] = @ + q]
    BY <1>2 DEF Mint
  <2>2. /\ held' \in [Owners -> Nat] /\ held' \in [Owners -> Int]
        /\ held'[a] = held[a] + q
        /\ \A c \in Owners : c # a => held'[c] = held[c]
    BY <2>1
  <2>3. SumFunction(held') = SumFunction(held) + q
    BY <1>0, <2>2, HoldingChanges
  <2> QED BY <2>1, <2>2, <2>3
<1>3. ASSUME NEW a \in Owners, NEW q \in Amounts, Burn(a, q)
      PROVE  LInv'
  <2>1. /\ q \in Nat /\ supply' = supply - q /\ q <= held[a]
        /\ held' = [held EXCEPT ![a] = @ - q]
    BY <1>0, <1>3 DEF Burn
  <2>2. /\ held' \in [Owners -> Nat] /\ held' \in [Owners -> Int]
        /\ held'[a] = held[a] + (-q)
        /\ \A c \in Owners : c # a => held'[c] = held[c]
    BY <1>0, <2>1
  <2>3. SumFunction(held') = SumFunction(held) + (-q)
    <3>1. -q \in Int
      BY <1>0
    <3> QED BY <1>0, <2>2, <3>1, HoldingChanges
  <2>4. SumFunction(held') \in Nat
    BY <2>2, SumFunctionNat
  <2> QED BY <2>1, <2>2, <2>3, <2>4
<1>4. CASE UNCHANGED ledger
  BY <1>4 DEF ledger
<1> QED BY <1>1, <1>2, <1>3, <1>4 DEF LedgerNext

(* No token exists in an implementation of the ledger that was not minted, *)
(* and none is lost that was not burnt.                                    *)
THEOREM LedgerBacked ==
  ASSUME IsFiniteSet(Owners), Amounts \subseteq Nat
  PROVE  LedgerSpec => []Backed
<1>1. LedgerInit => LInv
  <2> SUFFICES ASSUME LedgerInit PROVE LInv
    OBVIOUS
  <2>1. held \in [Owners -> Nat] /\ supply = 0 /\ \A a \in Owners : held[a] = 0
    BY DEF LedgerInit
  <2>2. SumFunction(held) = 0
    BY <2>1, SumZero DEF SumFunction
  <2> QED BY <2>1, <2>2 DEF LInv, LedgerTypeOK, Backed
<1>2. LInv /\ [LedgerNext]_ledger => LInv'
  BY LedgerStep
<1>3. LInv => Backed
  BY DEF LInv
<1> QED BY <1>1, <1>2, <1>3, PTL DEF LedgerSpec
----------------------------------------------------------------------------
(* The custodian.                                                          *)

(* Of the instances: the keeper and its clients are different accounts.    *)
KeeperApart ==
  /\ IsFiniteSet(Wallets)
  /\ Keeper \in Wallets /\ Clients \subseteq Wallets \ {Keeper}
  /\ Refundees \subseteq Wallets /\ Sweepers \subseteq Wallets

BInv == BooksTypeOK /\ BooksCovered

LEMMA BooksSums ==
  ASSUME KeeperApart, BooksTypeOK
  PROVE  /\ IsFiniteSet(Clients)
         /\ SumFunction(claim) \in Nat
         /\ wallet[Keeper] \in Nat
<1>1. IsFiniteSet(Clients)
  BY FS_Subset DEF KeeperApart
<1>2. SumFunction(claim) \in Nat
  BY <1>1, SumFunctionNat DEF BooksTypeOK
<1> QED BY <1>1, <1>2 DEF KeeperApart, BooksTypeOK

LEMMA TokensMoved ==
  ASSUME BooksTypeOK, NEW a, NEW b, NEW n, MoveTokens(a, b, n)
  PROVE  /\ wallet' \in [Wallets -> Nat]
         /\ a \in Wallets /\ b \in Wallets /\ a # b
         /\ n \in Nat \ {0} /\ n <= wallet[a]
         /\ wallet'[a] = wallet[a] - n /\ wallet'[b] = wallet[b] + n
         /\ \A c \in Wallets : c # a /\ c # b => wallet'[c] = wallet[c]
<1>1. /\ a \in Wallets /\ b \in Wallets /\ a # b /\ n > 0 /\ n <= wallet[a]
      /\ n \in Nat
      /\ wallet' = [wallet EXCEPT ![a] = @ - n, ![b] = @ + n]
  BY DEF MoveTokens, CanTransfer, AfterTransfer, BooksTypeOK
<1> QED BY <1>1 DEF BooksTypeOK

(* One client's claim changes by n.                                        *)
LEMMA OneClaim ==
  ASSUME KeeperApart, BooksTypeOK, NEW c \in Clients, NEW n \in Int,
         claim[c] + n >= 0, claim' = [claim EXCEPT ![c] = @ + n]
  PROVE  /\ claim' \in [Clients -> Nat]
         /\ SumFunction(claim') = SumFunction(claim) + n
<1>1. /\ claim' \in [Clients -> Nat]
      /\ claim'[c] = claim[c] + n
      /\ \A d \in Clients : d # c => claim'[d] = claim[d]
  BY DEF BooksTypeOK
<1>2. IsFiniteSet(Clients) /\ SumFunction(claim) \in Nat
  BY BooksSums
<1>3. SumFunction(claim') = SumFunction(claim) + claim'[c] - claim[c]
  <2>1. /\ DOMAIN claim = Clients /\ DOMAIN claim' = Clients
        /\ \A d \in Clients : claim[d] \in Int /\ claim'[d] \in Int
    BY <1>1 DEF BooksTypeOK
  <2> QED BY <1>1, <1>2, <2>1, SumFunctionUpdate
<1> QED BY <1>1, <1>2, <1>3 DEF BooksTypeOK

LEMMA SettleKeeps ==
  ASSUME KeeperApart, BInv, NEW paid, NEW granted,
         DOMAIN paid = Clients, DOMAIN granted = Clients,
         Settle(paid, granted)
  PROVE  BInv'
<1> DEFINE kept == [c \in Clients |-> claim[c] - paid[c]]
           p == SumFunction(paid)
           g == SumFunction(granted)
<1>1. /\ IsFiniteSet(Clients) /\ Keeper \in Wallets /\ Keeper \notin Clients
      /\ Clients \subseteq Wallets
      /\ claim \in [Clients -> Nat] /\ wallet \in [Wallets -> Nat] /\ pool \in Int
  BY BooksSums DEF BInv, BooksTypeOK, KeeperApart
<1>2. \A c \in Clients : /\ paid[c] \in Nat /\ paid[c] <= claim[c]
                         /\ granted[c] \in Nat
  BY <1>1 DEF Settle
<1>3. p \in Nat /\ g \in Nat /\ SumFunction(claim) \in Nat
  BY <1>1, <1>2, SumFunctionNat
<1>4. SumFunction(claim) = SumFunction(kept) + p
  BY <1>1, <1>2, SumFunctionPlus
<1>5. SumFunction(kept) \in Int
  BY <1>1, <1>2, SumFunctionInt
<1>6. claim' = [c \in Clients |-> kept[c] + granted[c]]
  BY <1>1, <1>2 DEF Settle
<1>7. SumFunction(claim') = SumFunction(kept) + g
  BY <1>1, <1>2, <1>6, SumFunctionPlus
<1>8. claim' \in [Clients -> Nat]
  BY <1>1, <1>2, <1>6
<1> HIDE DEF kept
<1>9. p <= wallet[Keeper] /\ pool' = pool - g
      /\ wallet' = [a \in Wallets |->
                      IF a = Keeper THEN wallet[a] - p
                      ELSE IF a \in Clients THEN wallet[a] + paid[a]
                      ELSE wallet[a]]
  BY DEF Settle
<1> HIDE DEF p, g
<1>10. wallet' \in [Wallets -> Nat] /\ wallet'[Keeper] = wallet[Keeper] - p
  BY <1>1, <1>2, <1>3, <1>9
<1>11. pool' \in Int /\ wallet[Keeper] >= pool + SumFunction(claim)
       /\ wallet[Keeper] \in Nat
  BY <1>1, <1>3, <1>9 DEF BInv, BooksCovered
<1>12. wallet'[Keeper] >= pool' + SumFunction(claim')
  BY <1>1, <1>3, <1>4, <1>5, <1>7, <1>9, <1>10, <1>11
<1> QED BY <1>8, <1>10, <1>11, <1>12 DEF BInv, BooksTypeOK, BooksCovered

LEMMA FundKeeps ==
  ASSUME KeeperApart, BInv, NEW a \in Wallets, NEW n, Fund(a, n)
  PROVE  BInv'
<1>1. MoveTokens(a, Keeper, n) /\ pool' = pool + n /\ UNCHANGED claim
  BY DEF Fund
<1>2. /\ wallet' \in [Wallets -> Nat] /\ n \in Nat
      /\ wallet'[Keeper] = wallet[Keeper] + n
  BY <1>1, TokensMoved DEF BInv
<1>3. SumFunction(claim) \in Nat /\ wallet[Keeper] \in Nat
  BY BooksSums DEF BInv
<1> QED BY <1>1, <1>2, <1>3 DEF BInv, BooksTypeOK, BooksCovered

LEMMA DepositKeeps ==
  ASSUME KeeperApart, BInv, NEW a \in Wallets, NEW c \in Clients, NEW n,
         Deposit(a, c, n)
  PROVE  BInv'
<1>1. /\ MoveTokens(a, Keeper, n) /\ UNCHANGED pool
      /\ claim' = [claim EXCEPT ![c] = @ + n]
  BY DEF Deposit
<1>2. /\ wallet' \in [Wallets -> Nat] /\ n \in Nat
      /\ wallet'[Keeper] = wallet[Keeper] + n
  BY <1>1, TokensMoved DEF BInv
<1>3. SumFunction(claim) \in Nat /\ wallet[Keeper] \in Nat /\ claim[c] + n >= 0
  BY <1>2, BooksSums DEF BInv, BooksTypeOK
<1>4. claim' \in [Clients -> Nat] /\ SumFunction(claim') = SumFunction(claim) + n
  <2>1. BooksTypeOK /\ n \in Int
    BY <1>2 DEF BInv
  <2> QED BY <1>1, <1>3, <2>1, OneClaim
<1> QED BY <1>1, <1>2, <1>3, <1>4 DEF BInv, BooksTypeOK, BooksCovered

LEMMA RefundKeeps ==
  ASSUME KeeperApart, BInv, NEW a \in Refundees, NEW c \in Clients, NEW n,
         Refund(a, c, n)
  PROVE  BInv'
<1> DEFINE m == -n
<1>1. /\ MoveTokens(Keeper, a, n) /\ UNCHANGED pool /\ n <= claim[c]
      /\ claim' = [claim EXCEPT ![c] = @ - n]
  BY DEF Refund
<1>2. /\ wallet' \in [Wallets -> Nat] /\ n \in Nat
      /\ wallet'[Keeper] = wallet[Keeper] - n
  BY <1>1, TokensMoved DEF BInv
<1>3. /\ SumFunction(claim) \in Nat /\ wallet[Keeper] \in Nat /\ claim[c] \in Nat
      /\ claim \in [Clients -> Nat]
  BY BooksSums DEF BInv, BooksTypeOK
<1>4. m \in Int /\ claim[c] + m >= 0 /\ claim[c] - n = claim[c] + m
  BY <1>1, <1>2, <1>3
<1>5. claim' \in [Clients -> Nat] /\ SumFunction(claim') = SumFunction(claim) + m
  <2> HIDE DEF m
  <2>1. claim' = [claim EXCEPT ![c] = @ + m]
    BY <1>1, <1>4
  <2> QED BY <1>4, <2>1, OneClaim DEF BInv
<1> QED BY <1>1, <1>2, <1>3, <1>5 DEF BInv, BooksTypeOK, BooksCovered

LEMMA SpendKeeps ==
  ASSUME KeeperApart, BInv, NEW a \in Wallets, NEW b \in Wallets, NEW n,
         Spend(a, b, n)
  PROVE  BInv'
<1>1. MoveTokens(a, b, n) /\ a # Keeper /\ UNCHANGED <<claim, pool>>
  BY DEF Spend
<1>2. /\ wallet' \in [Wallets -> Nat] /\ wallet'[Keeper] >= wallet[Keeper]
  BY <1>1, TokensMoved, BooksSums DEF BInv, KeeperApart
<1>3. SumFunction(claim) \in Nat /\ wallet[Keeper] \in Nat
      /\ wallet'[Keeper] \in Nat
  BY <1>2, BooksSums DEF BInv, KeeperApart
<1> QED BY <1>1, <1>2, <1>3 DEF BInv, BooksTypeOK, BooksCovered

LEMMA SweepKeeps ==
  ASSUME KeeperApart, BInv, NEW a \in Sweepers, Sweep(a)
  PROVE  BInv'
<1> DEFINE n == pool + SumFunction(claim)
<1>1. SumFunction(claim) \in Nat /\ IsFiniteSet(Clients) /\ pool \in Int
  BY BooksSums DEF BInv, BooksTypeOK
<1>2. /\ n \in Int /\ MoveTokens(Keeper, a, n)
      /\ claim' = [c \in Clients |-> 0] /\ pool' = 0
  BY <1>1 DEF Sweep
<1> HIDE DEF n
<1>3. wallet' \in [Wallets -> Nat]
  BY <1>2, TokensMoved DEF BInv
<1>4. SumFunction(claim') = 0
  BY <1>1, <1>2, SumZero DEF SumFunction
<1> QED BY <1>2, <1>3, <1>4
   DEF BInv, BooksTypeOK, BooksCovered, KeeperApart

LEMMA BooksStep ==
  ASSUME KeeperApart, BInv, [CustodianNext]_books
  PROVE  BInv'
<1>1. ASSUME NEW a \in Wallets, NEW c \in Clients, Deposit(a, c, Inflow)
      PROVE  BInv'
  BY <1>1, DepositKeeps
<1>2. ASSUME NEW a \in Wallets, Fund(a, Inflow) PROVE BInv'
  BY <1>2, FundKeeps
<1>3. CASE Settle(Received, Granted)
  <2>1. DOMAIN Received = Clients /\ DOMAIN Granted = Clients
    BY DEF Received, Granted
  <2> QED BY <1>3, <2>1, SettleKeeps
<1>4. ASSUME NEW a \in Refundees, NEW c \in Clients, Refund(a, c, -Inflow)
      PROVE  BInv'
  BY <1>4, RefundKeeps
<1>5. ASSUME NEW a \in Wallets, NEW b \in Wallets,
             Spend(a, b, wallet'[b] - wallet[b])
      PROVE  BInv'
  BY <1>5, SpendKeeps
<1>6. ASSUME NEW a \in Sweepers, Sweep(a) PROVE BInv'
  BY <1>6, SweepKeeps
<1>7. CASE UNCHANGED books
  BY <1>7 DEF books, BInv, BooksTypeOK, BooksCovered
<1> QED BY <1>1, <1>2, <1>3, <1>4, <1>5, <1>6, <1>7 DEF CustodianNext

LEMMA BooksInvariant ==
  ASSUME KeeperApart
  PROVE  CustodianSpec => []BInv
<1>1. CustodianInit => BInv
  BY DEF CustodianInit, BInv
<1>2. BInv /\ [CustodianNext]_books => BInv'
  BY BooksStep
<1> QED BY <1>1, <1>2, PTL DEF CustodianSpec

(* A contract that implements Custodian has, at all times, what it owes    *)
(* its clients and what is in the pool.                                    *)
THEOREM BooksAlwaysCovered ==
  ASSUME KeeperApart
  PROVE  CustodianSpec => []BooksCovered
<1>1. BInv => BooksCovered
  BY DEF BInv
<1> QED BY <1>1, BooksInvariant, PTL

(* Where nobody refunds or sweeps, no client's claim shrinks but by what   *)
(* that client receives in the same step.                                  *)
THEOREM ClaimsOnlyPaid ==
  ASSUME KeeperApart, Refundees = {}, Sweepers = {}
  PROVE  CustodianSpec => [][ClaimsHonoured]_books
<1>1. ASSUME BInv, CustodianNext PROVE ClaimsHonoured
  <2> SUFFICES ASSUME NEW c \in Clients, claim'[c] < claim[c]
               PROVE  claim[c] - claim'[c] <= Received[c]
    BY DEF ClaimsHonoured
  <2>1. claim \in [Clients -> Nat] /\ claim[c] \in Nat
    BY <1>1 DEF BInv, BooksTypeOK
  <2>2. ASSUME NEW a \in Wallets, NEW d \in Clients, Deposit(a, d, Inflow)
        PROVE  FALSE
    <3>1. Inflow \in Nat /\ claim' = [claim EXCEPT ![d] = @ + Inflow]
      BY <2>2 DEF Deposit, MoveTokens
    <3> HIDE DEF Inflow
    <3> QED BY <2>1, <3>1
  <2>3. CASE Settle(Received, Granted)
    <3>1. /\ Received[c] \in 0 .. claim[c] /\ Granted[c] \in Nat
          /\ claim'[c] = claim[c] - Received[c] + Granted[c]
      BY <2>3 DEF Settle
    <3> HIDE DEF Received, Granted
    <3> QED BY <2>1, <3>1
  <2>4. claim' # claim
    BY <2>1
  <2> QED BY <1>1, <2>2, <2>3, <2>4 DEF CustodianNext, Fund, Spend
<1>2. BInv /\ [CustodianNext]_books => [ClaimsHonoured]_books
  BY <1>1
<1> QED BY <1>2, BooksInvariant, PTL DEF CustodianSpec
=============================================================================
