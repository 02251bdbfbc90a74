---------------------------- MODULE SumTheorems ----------------------------
(***************************************************************************)
(* What the community operator SumFunctionOnSet(f, S), the sum of f[x]     *)
(* over a finite set S, computes.  The totals that the contracts keep next *)
(* to their tables (total_staked, total_releasing, supply, ...) are stated *)
(* in the specifications with this operator; the lemmas below are what the *)
(* proofs about those totals use.                                          *)
(*                                                                         *)
(* Induction is by minimal counterexample, over a set Q of subsets of S,   *)
(* so that no lemma takes an operator for a parameter.                     *)
(***************************************************************************)
EXTENDS Functions, FiniteSetTheorems, TLAPS

(* A set Q that contains a subset T of S whenever it contains all strict   *)
(* subsets of T, contains every subset of the finite set S.                *)
LEMMA SubsetInduction ==
  ASSUME NEW S, IsFiniteSet(S), NEW Q,
         \A T \in SUBSET S :
            (\A U \in SUBSET T : U # T => U \in Q) => T \in Q
  PROVE  SUBSET S \subseteq Q
<1> SUFFICES ASSUME ~(SUBSET S \subseteq Q)
             PROVE  FALSE
  OBVIOUS
<1> DEFINE Bad == {T \in SUBSET S : T \notin Q}
           R   == StrictSubsetOrdering(S)
<1>1. IsWellFoundedOn(R, SUBSET S)
  <2>1. FiniteSubsetsOf(S) = SUBSET S
    BY FS_FiniteSubsetsOfFinite
  <2>2. IsWellFoundedOn(StrictSubsetOrdering(S), FiniteSubsetsOf(S))
    BY FS_StrictSubsetOrderingWellFounded
  <2> QED BY <2>1, <2>2
<1>2. Bad \subseteq SUBSET S /\ Bad # {}
  OBVIOUS
<1>3. PICK T \in Bad : \A U \in Bad : <<U, T>> \notin R
  <2> HIDE DEF R, Bad
  <2> QED BY <1>1, <1>2, WFMin
<1>4. \A U \in SUBSET T : U # T => U \in Q
  BY <1>3 DEF StrictSubsetOrdering
<1> QED BY <1>4

(* The element that SumFunctionOnSet takes out of T first.                 *)
Pick(T) == CHOOSE x \in T : TRUE

(* g holds the partial sums of f over the subsets of S.                    *)
Sums(f, S, g) ==
  g = [T \in SUBSET S |-> IF T = {} THEN 0
                          ELSE f[Pick(T)] + g[T \ {Pick(T)}]]

LEMMA PickIn == ASSUME NEW T, T # {} PROVE Pick(T) \in T
  BY DEF Pick

LEMMA SumsApply ==
  ASSUME NEW f, NEW S, NEW g, Sums(f, S, g), NEW T \in SUBSET S
  PROVE  g[T] = IF T = {} THEN 0 ELSE f[Pick(T)] + g[T \ {Pick(T)}]
<1> DEFINE body(h) == [U \in SUBSET S |-> IF U = {} THEN 0
                          ELSE f[Pick(U)] + h[U \ {Pick(U)}]]
<1>1. g = body(g)
  BY DEF Sums
<1>2. body(g)[T] = IF T = {} THEN 0 ELSE f[Pick(T)] + g[T \ {Pick(T)}]
  OBVIOUS
<1> QED BY <1>1, <1>2

(* Two tables of partial sums of f agree where both are defined.           *)
LEMMA SumsAgree ==
  ASSUME NEW f, NEW S, IsFiniteSet(S), NEW g, Sums(f, S, g),
         NEW U, NEW h, Sums(f, U, h), NEW T, T \subseteq S, T \subseteq U
  PROVE  g[T] = h[T]
<1> DEFINE Q == {V \in SUBSET T : g[V] = h[V]}
<1>1. ASSUME NEW V \in SUBSET T,
             \A W \in SUBSET V : W # V => W \in Q
      PROVE  V \in Q
  <2>1. CASE V = {}
    BY <2>1, SumsApply
  <2>2. CASE V # {}
    <3>1. V \ {Pick(V)} \in Q
      BY <2>2, <1>1, PickIn
    <3>2. /\ g[V] = f[Pick(V)] + g[V \ {Pick(V)}]
          /\ h[V] = f[Pick(V)] + h[V \ {Pick(V)}]
      BY <2>2, SumsApply
    <3> QED BY <3>1, <3>2
  <2> QED BY <2>1, <2>2
<1>2. IsFiniteSet(T)
  BY FS_Subset
<1>3. SUBSET T \subseteq Q
  <2> HIDE DEF Q
  <2> QED BY <1>1, <1>2, SubsetInduction
<1> QED BY <1>3

(* The table of partial sums of f exists for every finite set.             *)
LEMMA SumsExist ==
  ASSUME NEW f, NEW S, IsFiniteSet(S)
  PROVE  \E g : Sums(f, S, g)
<1> DEFINE Q == {T \in SUBSET S : \E g : Sums(f, T, g)}
<1>1. ASSUME NEW T \in SUBSET S,
             \A U \in SUBSET T : U # T => U \in Q
      PROVE  T \in Q
  <2> DEFINE G(U) == CHOOSE g : Sums(f, U, g)
             val(U) == G(U)[U]
             g == [U \in SUBSET T |-> IF U = {} THEN 0
                                      ELSE f[Pick(U)] + val(U \ {Pick(U)})]
  <2>1. ASSUME NEW U \in SUBSET T, U # T
        PROVE  Sums(f, U, G(U))
    BY <1>1, <2>1
  <2>2. ASSUME NEW U \in SUBSET T, U # T
        PROVE  g[U] = val(U)
    <3>1. CASE U = {}
      BY <2>1, <2>2, <3>1, SumsApply
    <3>2. CASE U # {}
      <4> DEFINE W == U \ {Pick(U)}
      <4>1. W \in SUBSET T /\ W # T /\ W \subseteq U
        BY <2>2, <3>2, PickIn
      <4>2. Sums(f, U, G(U)) /\ Sums(f, W, G(W))
        BY <2>1, <2>2, <4>1
      <4>3. IsFiniteSet(U)
        BY FS_Subset
      <4>4. G(U)[W] = G(W)[W]
        <5> HIDE DEF G, W
        <5> QED BY <4>1, <4>2, <4>3, SumsAgree
      <4>5. G(U)[U] = f[Pick(U)] + G(U)[W]
        <5> HIDE DEF G
        <5> QED BY <4>2, <3>2, SumsApply
      <4> QED BY <4>4, <4>5, <3>2
    <3> QED BY <3>1, <3>2
  <2>3. g = [U \in SUBSET T |-> IF U = {} THEN 0
                                ELSE f[Pick(U)] + g[U \ {Pick(U)}]]
    <3>1. ASSUME NEW U \in SUBSET T, U # {}
          PROVE  val(U \ {Pick(U)}) = g[U \ {Pick(U)}]
      <4>1. U \ {Pick(U)} \in SUBSET T /\ U \ {Pick(U)} # T
        BY <3>1, PickIn
      <4> HIDE DEF g, val
      <4> QED BY <4>1, <2>2
    <3> HIDE DEF val
    <3> QED BY <3>1
  <2>4. Sums(f, T, g)
    <3> HIDE DEF g
    <3> QED BY <2>3 DEF Sums
  <2> QED BY <2>4
<1>2. SUBSET S \subseteq Q
  <2> HIDE DEF Q
  <2> QED BY <1>1, SubsetInduction
<1> QED BY <1>2

(* The sum over the empty set, and over a set whose first element is x.    *)
LEMMA SumUnfold ==
  ASSUME NEW f, NEW S, IsFiniteSet(S)
  PROVE  /\ SumFunctionOnSet(f, {}) = 0
         /\ S # {} => SumFunctionOnSet(f, S)
                         = f[Pick(S)] + SumFunctionOnSet(f, S \ {Pick(S)})
<1> DEFINE iter(T) == CHOOSE g : Sums(f, T, g)
<1>1. ASSUME NEW T
      PROVE  SumFunctionOnSet(f, T) = iter(T)[T]
  BY DEF SumFunctionOnSet, FoldFunctionOnSet, MapThenFoldSet, Sums, Pick
<1>2. ASSUME NEW T, IsFiniteSet(T)
      PROVE  Sums(f, T, iter(T))
  BY <1>2, SumsExist
<1>3. IsFiniteSet({})
  BY FS_EmptySet
<1>4. SumFunctionOnSet(f, {}) = 0
  <2>1. iter({})[{}] = 0
    <3> HIDE DEF iter
    <3> QED BY <1>2, <1>3, SumsApply
  <2> QED BY <2>1, <1>1
<1>5. ASSUME S # {}
      PROVE  SumFunctionOnSet(f, S)
               = f[Pick(S)] + SumFunctionOnSet(f, S \ {Pick(S)})
  <2> DEFINE W == S \ {Pick(S)}
  <2>1. W \subseteq S /\ IsFiniteSet(W)
    BY FS_Subset
  <2>2. iter(S)[S] = f[Pick(S)] + iter(S)[W]
    <3> HIDE DEF iter
    <3> QED BY <1>2, <1>5, SumsApply
  <2>3. iter(S)[W] = iter(W)[W]
    <3>1. Sums(f, S, iter(S)) /\ Sums(f, W, iter(W))
      BY <1>2, <2>1
    <3> HIDE DEF iter, W
    <3> QED BY <3>1, <2>1, SumsAgree
  <2>4. SumFunctionOnSet(f, S) = iter(S)[S] /\ SumFunctionOnSet(f, W) = iter(W)[W]
    BY <1>1
  <2> HIDE DEF iter
  <2> QED BY <2>2, <2>3, <2>4
<1> QED BY <1>4, <1>5

LEMMA SumEmpty == ASSUME NEW f PROVE SumFunctionOnSet(f, {}) = 0
BY FS_EmptySet, SumUnfold

(* A sum of integers is an integer.                                        *)
LEMMA SumInt ==
  ASSUME NEW f, NEW S, IsFiniteSet(S), \A x \in S : f[x] \in Int
  PROVE  SumFunctionOnSet(f, S) \in Int
<1> DEFINE Q == {T \in SUBSET S : SumFunctionOnSet(f, T) \in Int}
<1>1. ASSUME NEW T \in SUBSET S,
             \A U \in SUBSET T : U # T => U \in Q
      PROVE  T \in Q
  <2>1. CASE T = {}
    BY <2>1, SumEmpty
  <2>2. CASE T # {}
    <3>1. T \ {Pick(T)} \in Q /\ f[Pick(T)] \in Int
      BY <1>1, <2>2, PickIn
    <3>2. IsFiniteSet(T)
      BY FS_Subset
    <3> QED BY <2>2, <3>1, <3>2, SumUnfold
  <2> QED BY <2>1, <2>2
<1>2. SUBSET S \subseteq Q
  <2> HIDE DEF Q
  <2> QED BY <1>1, SubsetInduction
<1> QED BY <1>2

(* Any element can be taken out of the sum first.                          *)
LEMMA SumRemove ==
  ASSUME NEW f, NEW S, IsFiniteSet(S), \A x \in S : f[x] \in Int,
         NEW e \in S
  PROVE  SumFunctionOnSet(f, S) = f[e] + SumFunctionOnSet(f, S \ {e})
<1> DEFINE sum(T) == SumFunctionOnSet(f, T)
           Q == {T \in SUBSET S : \A x \in T : sum(T) = f[x] + sum(T \ {x})}
<1>0. ASSUME NEW T \in SUBSET S
      PROVE  IsFiniteSet(T) /\ sum(T) \in Int
  <2>1. IsFiniteSet(T)
    BY FS_Subset
  <2> QED BY <2>1, SumInt
<1>1. ASSUME NEW T \in SUBSET S,
             \A U \in SUBSET T : U # T => U \in Q,
             NEW x \in T
      PROVE  sum(T) = f[x] + sum(T \ {x})
  <2> DEFINE c == Pick(T)
  <2>1. c \in T /\ sum(T) = f[c] + sum(T \ {c})
    BY <1>0, SumUnfold, PickIn
  <2>2. CASE x = c
    BY <2>1, <2>2
  <2>3. CASE x # c
    <3>1. sum(T \ {c}) = f[x] + sum((T \ {c}) \ {x})
      <4>1. T \ {c} \in Q /\ x \in T \ {c}
        BY <1>1, <2>1, <2>3
      <4> QED BY <4>1
    <3>2. sum(T \ {x}) = f[c] + sum((T \ {x}) \ {c})
      <4>1. T \ {x} \in Q /\ c \in T \ {x}
        BY <1>1, <2>1, <2>3
      <4> QED BY <4>1
    <3>3. (T \ {c}) \ {x} = (T \ {x}) \ {c}
      OBVIOUS
    <3>4. sum((T \ {x}) \ {c}) \in Int /\ f[x] \in Int /\ f[c] \in Int
      BY <1>0, <2>1
    <3>5. \A s, u, v, w, k, l \in Int :
             u = l + v /\ v = k + s /\ w = l + s => u = k + w
      OBVIOUS
    <3>6. sum(T) \in Int /\ sum(T \ {c}) \in Int /\ sum(T \ {x}) \in Int
      BY <1>0
    <3> HIDE DEF sum, c
    <3> QED BY <2>1, <3>1, <3>2, <3>3, <3>4, <3>5, <3>6
  <2> QED BY <2>2, <2>3
<1>2. SUBSET S \subseteq Q
  <2>1. ASSUME NEW T \in SUBSET S,
               \A U \in SUBSET T : U # T => U \in Q
        PROVE  T \in Q
    BY <1>1, <2>1
  <2> HIDE DEF Q
  <2> QED BY <2>1, SubsetInduction
<1> QED BY <1>2

LEMMA SumAdd ==
  ASSUME NEW f, NEW S, IsFiniteSet(S), NEW e, e \notin S,
         \A x \in S \cup {e} : f[x] \in Int
  PROVE  SumFunctionOnSet(f, S \cup {e}) = f[e] + SumFunctionOnSet(f, S)
<1>1. IsFiniteSet(S \cup {e})
  BY FS_AddElement
<1>2. (S \cup {e}) \ {e} = S
  OBVIOUS
<1>3. SumFunctionOnSet(f, S \cup {e})
        = f[e] + SumFunctionOnSet(f, (S \cup {e}) \ {e})
  BY <1>1, SumRemove
<1> QED BY <1>2, <1>3

(* A sum depends only on the values of f in S.                             *)
LEMMA SumSame ==
  ASSUME NEW f, NEW g, NEW S, IsFiniteSet(S), \A x \in S : f[x] = g[x]
  PROVE  SumFunctionOnSet(f, S) = SumFunctionOnSet(g, S)
<1> DEFINE Q == {T \in SUBSET S :
                    SumFunctionOnSet(f, T) = SumFunctionOnSet(g, T)}
<1>1. ASSUME NEW T \in SUBSET S,
             \A U \in SUBSET T : U # T => U \in Q
      PROVE  T \in Q
  <2>1. CASE T = {}
    BY <2>1, SumEmpty
  <2>2. CASE T # {}
    <3>1. T \ {Pick(T)} \in Q /\ f[Pick(T)] = g[Pick(T)]
      BY <1>1, <2>2, PickIn
    <3>2. IsFiniteSet(T)
      BY FS_Subset
    <3> QED BY <2>2, <3>1, <3>2, SumUnfold
  <2> QED BY <2>1, <2>2
<1>2. SUBSET S \subseteq Q
  <2> HIDE DEF Q
  <2> QED BY <1>1, SubsetInduction
<1> QED BY <1>2

(* The sum of h = f + g is the sum of f plus the sum of g.                 *)
LEMMA SumPlus ==
  ASSUME NEW f, NEW g, NEW h, NEW S, IsFiniteSet(S),
         \A x \in S : f[x] \in Int /\ g[x] \in Int /\ h[x] = f[x] + g[x]
  PROVE  SumFunctionOnSet(h, S)
           = SumFunctionOnSet(f, S) + SumFunctionOnSet(g, S)
<1> DEFINE Q == {T \in SUBSET S : SumFunctionOnSet(h, T)
                    = SumFunctionOnSet(f, T) + SumFunctionOnSet(g, T)}
<1>1. ASSUME NEW T \in SUBSET S,
             \A U \in SUBSET T : U # T => U \in Q
      PROVE  T \in Q
  <2>1. CASE T = {}
    BY <2>1, SumEmpty
  <2>2. CASE T # {}
    <3> DEFINE c == Pick(T)
               W == T \ {c}
    <3>1. W \in Q /\ c \in T
      BY <1>1, <2>2, PickIn
    <3>2. IsFiniteSet(T) /\ IsFiniteSet(W)
      BY FS_Subset
    <3>3. /\ SumFunctionOnSet(f, W) \in Int
          /\ SumFunctionOnSet(g, W) \in Int
      BY <3>2, SumInt
    <3>4. /\ SumFunctionOnSet(f, T) = f[c] + SumFunctionOnSet(f, W)
          /\ SumFunctionOnSet(g, T) = g[c] + SumFunctionOnSet(g, W)
          /\ SumFunctionOnSet(h, T) = h[c] + SumFunctionOnSet(h, W)
      BY <2>2, <3>2, SumUnfold
    <3>5. h[c] = f[c] + g[c] /\ f[c] \in Int /\ g[c] \in Int
      BY <3>1
    <3> HIDE DEF c, W
    <3> QED BY <3>1, <3>3, <3>4, <3>5
  <2> QED BY <2>1, <2>2
<1>2. SUBSET S \subseteq Q
  <2> HIDE DEF Q
  <2> QED BY <1>1, SubsetInduction
<1> QED BY <1>2

(* A sum of natural numbers is one, and bounds each of its terms.          *)
LEMMA SumNat ==
  ASSUME NEW f, NEW S, IsFiniteSet(S), \A x \in S : f[x] \in Nat
  PROVE  /\ SumFunctionOnSet(f, S) \in Nat
         /\ \A x \in S : f[x] <= SumFunctionOnSet(f, S)
<1> DEFINE Q == {T \in SUBSET S : SumFunctionOnSet(f, T) \in Nat}
<1>1. ASSUME NEW T \in SUBSET S,
             \A U \in SUBSET T : U # T => U \in Q
      PROVE  T \in Q
  <2>1. CASE T = {}
    BY <2>1, SumEmpty
  <2>2. CASE T # {}
    <3>1. T \ {Pick(T)} \in Q /\ f[Pick(T)] \in Nat
      BY <1>1, <2>2, PickIn
    <3>2. IsFiniteSet(T)
      BY FS_Subset
    <3> QED BY <2>2, <3>1, <3>2, SumUnfold
  <2> QED BY <2>1, <2>2
<1>2. SUBSET S \subseteq Q
  <2> HIDE DEF Q
  <2> QED BY <1>1, SubsetInduction
<1>3. ASSUME NEW x \in S
      PROVE  f[x] <= SumFunctionOnSet(f, S)
  <2>1. SumFunctionOnSet(f, S) = f[x] + SumFunctionOnSet(f, S \ {x})
    BY SumRemove
  <2>2. SumFunctionOnSet(f, S \ {x}) \in Nat
    BY <1>2
  <2> QED BY <2>1, <2>2
<1> QED BY <1>2, <1>3

(* Changing f at one element of S moves the sum by the difference.         *)
LEMMA SumUpdate ==
  ASSUME NEW f, NEW g, NEW S, IsFiniteSet(S), NEW e \in S,
         \A x \in S : f[x] \in Int /\ g[x] \in Int,
         \A x \in S : x # e => f[x] = g[x]
  PROVE  SumFunctionOnSet(g, S) = SumFunctionOnSet(f, S) + g[e] - f[e]
<1>1. IsFiniteSet(S \ {e})
  BY FS_Subset
<1>2. SumFunctionOnSet(f, S \ {e}) = SumFunctionOnSet(g, S \ {e})
  BY <1>1, SumSame
<1>3. SumFunctionOnSet(f, S \ {e}) \in Int
  BY <1>1, SumInt
<1>4. /\ SumFunctionOnSet(f, S) = f[e] + SumFunctionOnSet(f, S \ {e})
      /\ SumFunctionOnSet(g, S) = g[e] + SumFunctionOnSet(g, S \ {e})
  BY SumRemove
<1> QED BY <1>2, <1>3, <1>4

(* A sum of zeros is zero.                                                 *)
LEMMA SumZero ==
  ASSUME NEW f, NEW S, IsFiniteSet(S), \A x \in S : f[x] = 0
  PROVE  SumFunctionOnSet(f, S) = 0
<1>1. SumFunctionOnSet(f, S) = SumFunctionOnSet(f, S) + SumFunctionOnSet(f, S)
  BY SumPlus
<1>2. SumFunctionOnSet(f, S) \in Int
  BY SumInt
<1>3. \A s \in Int : s = s + s => s = 0
  OBVIOUS
<1> QED BY <1>1, <1>2, <1>3

(* The sum over S is the sum over a part T of S and over the rest.         *)
LEMMA SumSplit ==
  ASSUME NEW f, NEW S, IsFiniteSet(S), \A x \in S : f[x] \in Int,
         NEW T \in SUBSET S
  PROVE  SumFunctionOnSet(f, S)
           = SumFunctionOnSet(f, S \ T) + SumFunctionOnSet(f, T)
<1> DEFINE sum(U) == SumFunctionOnSet(f, U)
           Q == {U \in SUBSET S : sum(U) = sum(U \ T) + sum(U \cap T)}
<1>1. ASSUME NEW U \in SUBSET S
      PROVE  IsFiniteSet(U) /\ sum(U) \in Int
  <2>1. IsFiniteSet(U)
    BY FS_Subset
  <2> QED BY <2>1, SumInt
<1>2. ASSUME NEW U \in SUBSET S,
             \A W \in SUBSET U : W # U => W \in Q
      PROVE  U \in Q
  <2>1. CASE U = {}
    <3>1. U \ T = {} /\ U \cap T = {}
      BY <2>1
    <3> QED BY <2>1, <3>1, SumEmpty
  <2>2. CASE U # {}
    <3> DEFINE c == Pick(U)
               W == U \ {c}
    <3>1. c \in U /\ W \in Q
      BY <1>2, <2>2, PickIn
    <3>2. sum(U) = f[c] + sum(W) /\ sum(W) = sum(W \ T) + sum(W \cap T)
      BY <1>1, <2>2, <3>1, SumUnfold
    <3>3. f[c] \in Int /\ sum(W \ T) \in Int /\ sum(W \cap T) \in Int
      BY <1>1, <3>1
    <3>4. CASE c \in T
      <4>1. /\ (U \cap T) \ {c} = W \cap T
            /\ U \ T = W \ T
            /\ c \in U \cap T
        BY <3>1, <3>4
      <4>2. sum(U \cap T) = f[c] + sum((U \cap T) \ {c})
        BY <1>1, <4>1, SumRemove
      <4>3. \A s, u, v, w, k \in Int :
               u = k + v /\ v = w + s => u = w + (k + s)
        OBVIOUS
      <4>4. sum(U) \in Int /\ sum(W) \in Int
        BY <1>1
      <4> HIDE DEF sum, c, W
      <4>5. sum(U) = sum(W \ T) + (f[c] + sum(W \cap T))
        BY <3>2, <3>3, <4>3, <4>4
      <4> QED BY <4>1, <4>2, <4>5
    <3>5. CASE c \notin T
      <4>1. /\ (U \ T) \ {c} = W \ T
            /\ U \cap T = W \cap T
            /\ c \in U \ T
        BY <3>1, <3>5
      <4>2. sum(U \ T) = f[c] + sum((U \ T) \ {c})
        BY <1>1, <4>1, SumRemove
      <4>3. \A s, u, v, w, k \in Int :
               u = k + v /\ v = w + s => u = (k + w) + s
        OBVIOUS
      <4>4. sum(U) \in Int /\ sum(W) \in Int
        BY <1>1
      <4> HIDE DEF sum, c, W
      <4>5. sum(U) = (f[c] + sum(W \ T)) + sum(W \cap T)
        BY <3>2, <3>3, <4>3, <4>4
      <4> QED BY <4>1, <4>2, <4>5
    <3> QED BY <3>4, <3>5
  <2> QED BY <2>1, <2>2
<1>3. SUBSET S \subseteq Q
  <2> HIDE DEF Q
  <2> QED BY <1>2, SubsetInduction
<1>4. sum(S) = sum(S \ T) + sum(S \cap T)
  BY <1>3
<1>5. S \cap T = T
  OBVIOUS
<1> HIDE DEF sum
<1>6. sum(S) = sum(S \ T) + sum(T)
  BY <1>4, <1>5
<1> QED BY <1>6 DEF sum

(* A sum does not notice elements at which f is zero.                      *)
LEMMA SumSupport ==
  ASSUME NEW f, NEW S, IsFiniteSet(S), \A x \in S : f[x] \in Int,
         NEW T \in SUBSET S, \A x \in S \ T : f[x] = 0
  PROVE  SumFunctionOnSet(f, S) = SumFunctionOnSet(f, T)
<1>1. IsFiniteSet(S \ T) /\ IsFiniteSet(T)
  BY FS_Subset
<1>2. SumFunctionOnSet(f, S \ T) = 0
  BY <1>1, SumZero
<1>3. SumFunctionOnSet(f, T) \in Int
  BY <1>1, SumInt
<1>4. SumFunctionOnSet(f, S)
        = SumFunctionOnSet(f, S \ T) + SumFunctionOnSet(f, T)
  BY SumSplit
<1> QED BY <1>2, <1>3, <1>4

(* The sum over one element.                                               *)
LEMMA SumSingle ==
  ASSUME NEW f, NEW e, f[e] \in Int
  PROVE  SumFunctionOnSet(f, {e}) = f[e]
<1>1. {} \cup {e} = {e}
  OBVIOUS
<1>2. SumFunctionOnSet(f, {} \cup {e}) = f[e] + SumFunctionOnSet(f, {})
  BY FS_EmptySet, SumAdd
<1> QED BY <1>1, <1>2, SumEmpty

(* A finite set of natural numbers has a largest element.                  *)
LEMMA LargestExists ==
  ASSUME NEW S \in SUBSET Nat, IsFiniteSet(S), S # {}
  PROVE  \E m \in S : \A x \in S : m >= x
<1> DEFINE Q == {T \in SUBSET S : T # {} => \E m \in T : \A x \in T : m >= x}
<1>1. ASSUME NEW T \in SUBSET S,
             \A U \in SUBSET T : U # T => U \in Q
      PROVE  T \in Q
  <2>1. CASE T # {}
    <3> DEFINE c == Pick(T)
    <3>1. T \ {c} \in Q /\ c \in T /\ c \in Nat
      BY <1>1, <2>1, PickIn
    <3> HIDE DEF c
    <3>2. CASE T \ {c} = {}
      BY <3>1, <3>2
    <3>3. CASE T \ {c} # {}
      <4>1. PICK m \in T \ {c} : \A x \in T \ {c} : m >= x
        BY <3>1, <3>3
      <4>2. CASE m >= c
        BY <4>1, <4>2
      <4>3. CASE ~(m >= c)
        <5>1. m \in Nat /\ T \subseteq Nat
          OBVIOUS
        <5>2. \A x \in T : c >= x
          BY <3>1, <4>1, <4>3, <5>1
        <5> QED BY <3>1, <5>2
      <4> QED BY <4>2, <4>3
    <3> QED BY <3>2, <3>3
  <2> QED BY <2>1
<1>2. SUBSET S \subseteq Q
  <2> HIDE DEF Q
  <2> QED BY <1>1, SubsetInduction
<1> QED BY <1>2

(***************************************************************************)
(* The same about SumFunction(f), the sum over the whole domain of f, for  *)
(* the ways in which a table's rows change.                                *)
(***************************************************************************)
LEMMA SumFunctionInt ==
  ASSUME NEW f, IsFiniteSet(DOMAIN f), \A x \in DOMAIN f : f[x] \in Int
  PROVE  SumFunction(f) \in Int
BY SumInt DEF SumFunction

LEMMA SumFunctionNat ==
  ASSUME NEW f, IsFiniteSet(DOMAIN f), \A x \in DOMAIN f : f[x] \in Nat
  PROVE  /\ SumFunction(f) \in Nat
         /\ \A x \in DOMAIN f : f[x] <= SumFunction(f)
BY SumNat DEF SumFunction

LEMMA SumFunctionEmpty ==
  ASSUME NEW f, DOMAIN f = {} PROVE SumFunction(f) = 0
BY SumEmpty DEF SumFunction

LEMMA SumFunctionSame ==
  ASSUME NEW f, NEW g, IsFiniteSet(DOMAIN f), DOMAIN g = DOMAIN f,
         \A x \in DOMAIN f : f[x] = g[x]
  PROVE  SumFunction(f) = SumFunction(g)
BY SumSame DEF SumFunction

(* A new row.                                                              *)
LEMMA SumFunctionAdd ==
  ASSUME NEW f, NEW g, IsFiniteSet(DOMAIN f),
         NEW e, e \notin DOMAIN f, DOMAIN g = DOMAIN f \cup {e}, g[e] \in Int,
         \A x \in DOMAIN f : f[x] \in Int /\ g[x] = f[x]
  PROVE  SumFunction(g) = SumFunction(f) + g[e]
<1> DEFINE D == DOMAIN f
<1>1. SumFunctionOnSet(g, D \cup {e}) = g[e] + SumFunctionOnSet(g, D)
  <2>1. \A x \in D \cup {e} : g[x] \in Int
    OBVIOUS
  <2> HIDE DEF D
  <2> QED BY <2>1, SumAdd DEF D
<1>2. SumFunctionOnSet(f, D) = SumFunctionOnSet(g, D)
  BY SumSame
<1>3. SumFunctionOnSet(f, D) \in Int
  BY SumInt
<1> QED BY <1>1, <1>2, <1>3 DEF SumFunction

(* One row changes.                                                        *)
LEMMA SumFunctionUpdate ==
  ASSUME NEW f, NEW g, IsFiniteSet(DOMAIN f), DOMAIN g = DOMAIN f,
         NEW e \in DOMAIN f,
         \A x \in DOMAIN f : f[x] \in Int /\ g[x] \in Int,
         \A x \in DOMAIN f : x # e => f[x] = g[x]
  PROVE  SumFunction(g) = SumFunction(f) + g[e] - f[e]
BY SumUpdate DEF SumFunction

(* The rows in T go.                                                       *)
LEMMA SumFunctionRemove ==
  ASSUME NEW f, NEW g, IsFiniteSet(DOMAIN f), NEW T \in SUBSET DOMAIN f,
         DOMAIN g = DOMAIN f \ T, \A x \in DOMAIN f : f[x] \in Int,
         \A x \in DOMAIN g : g[x] = f[x]
  PROVE  SumFunction(g) = SumFunction(f) - SumFunctionOnSet(f, T)
<1> DEFINE D == DOMAIN f
<1>1. IsFiniteSet(D \ T) /\ IsFiniteSet(T)
  BY FS_Subset
<1>2. SumFunctionOnSet(f, D)
        = SumFunctionOnSet(f, D \ T) + SumFunctionOnSet(f, T)
  BY SumSplit
<1>3. SumFunctionOnSet(f, D \ T) = SumFunctionOnSet(g, D \ T)
  BY <1>1, SumSame
<1>4. SumFunctionOnSet(f, D \ T) \in Int /\ SumFunctionOnSet(f, T) \in Int
  BY <1>1, SumInt
<1> QED BY <1>2, <1>3, <1>4 DEF SumFunction

(* Every row grows by what g says.                                         *)
LEMMA SumFunctionPlus ==
  ASSUME NEW f, NEW g, NEW h, IsFiniteSet(DOMAIN f),
         DOMAIN g = DOMAIN f, DOMAIN h = DOMAIN f,
         \A x \in DOMAIN f :
            f[x] \in Int /\ g[x] \in Int /\ h[x] = f[x] + g[x]
  PROVE  SumFunction(h) = SumFunction(f) + SumFunction(g)
BY SumPlus DEF SumFunction

(* The rows of S alone matter when the others are zero.                    *)
LEMMA SumFunctionSupport ==
  ASSUME NEW f, NEW g, IsFiniteSet(DOMAIN f), DOMAIN g \subseteq DOMAIN f,
         \A x \in DOMAIN f : f[x] \in Int,
         \A x \in DOMAIN f \ DOMAIN g : f[x] = 0,
         \A x \in DOMAIN g : g[x] = f[x]
  PROVE  SumFunction(f) = SumFunction(g)
<1>1. IsFiniteSet(DOMAIN g)
  BY FS_Subset
<1>2. SumFunctionOnSet(f, DOMAIN f) = SumFunctionOnSet(f, DOMAIN g)
  BY SumSupport
<1>3. SumFunctionOnSet(f, DOMAIN g) = SumFunctionOnSet(g, DOMAIN g)
  BY <1>1, SumSame
<1> QED BY <1>2, <1>3 DEF SumFunction

=============================================================================
