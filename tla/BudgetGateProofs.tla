-------------------------- MODULE BudgetGateProofs --------------------------
(***************************************************************************)
(* Theorems about BudgetGate for every number of runs, administrators and  *)
(* scopes, every calendar and every cost of a run.                         *)
(***************************************************************************)
EXTENDS BudgetGate, FiniteSetTheorems, WellFoundedInduction, TLAPS

-----------------------------------------------------------------------------
(* Sums over finite sets.  The bill is a fold, hence a recursive function; *)
(* what it computes follows by a minimal counterexample.                   *)

Total(f) == FoldFunction(+, 0, f)

\* The order of the naturals as a set of pairs.
Below == {p \in Nat \X Nat : p[1] < p[2]}

LEMMA BelowWellFounded == IsWellFoundedOn(Below, Nat)
<1>1. Below = OpToRel(<, Nat)
  BY Zenon DEF Below, OpToRel
<1>2. IsWellFoundedOn(OpToRel(<, Nat), Nat)
  BY NatLessThanWellFounded, Zenon
<1>. QED  BY <1>1, <1>2, Zenon

LEMMA Least ==
    ASSUME NEW T, T \subseteq Nat, T # {}
    PROVE  \E n \in T : \A m \in T : n <= m
<1>1. PICK n \in T : \A m \in T : ~ (<<m, n>> \in Below)
  BY BelowWellFounded, WFMin
<1>2. ASSUME NEW m \in T
      PROVE  n <= m
  <2>1. n \in Nat /\ m \in Nat
    OBVIOUS
  <2>2. <<m, n>> \in Below <=> m < n
    BY <2>1 DEF Below
  <2>. QED  BY <1>1, <2>1, <2>2
<1>. QED  BY <1>2

\* iter adds up the values of f, in the order of CHOOSE, on every subset of D.
Adds(f, D, iter) ==
    /\ iter \in [SUBSET D -> Nat]
    /\ \A s \in SUBSET D : iter[s] = IF s = {} THEN 0
          ELSE f[CHOOSE y \in s : TRUE] + iter[s \ {CHOOSE y \in s : TRUE}]

\* The equation by which the fold is defined.
IsSum(f, D, iter) == iter = [s \in SUBSET D |-> IF s = {} THEN 0
                   ELSE f[CHOOSE y \in s : TRUE] + iter[s \ {CHOOSE y \in s : TRUE}]]

\* Partial sums exist up to every size.
AddsUpTo(f, D, n, iter) ==
    /\ iter \in [{s \in SUBSET D : Cardinality(s) <= n} -> Nat]
    /\ \A s \in DOMAIN iter : iter[s] = IF s = {} THEN 0
          ELSE f[CHOOSE y \in s : TRUE] + iter[s \ {CHOOSE y \in s : TRUE}]

LEMMA SmallerPart ==
    ASSUME NEW D, IsFiniteSet(D), NEW s \in SUBSET D, s # {}
    PROVE  LET x == CHOOSE y \in s : TRUE
           IN  /\ x \in s /\ x \in D /\ s \ {x} \in SUBSET D
               /\ Cardinality(s) \in Nat /\ Cardinality(s \ {x}) \in Nat
               /\ Cardinality(s \ {x}) = Cardinality(s) - 1
<1> DEFINE x == CHOOSE y \in s : TRUE
<1>1. x \in s
  OBVIOUS
<1> HIDE DEF x
<1>2. IsFiniteSet(s)
  BY FS_Subset
<1>3. Cardinality(s) \in Nat /\ Cardinality(s \ {x}) \in Nat /\ Cardinality(s \ {x}) = Cardinality(s) - 1
  BY <1>1, <1>2, FS_RemoveElement, FS_CardinalityType
<1>. QED  BY <1>1, <1>3 DEF x

LEMMA PartialSums ==
    ASSUME NEW D, IsFiniteSet(D), NEW f \in [D -> Nat], NEW n \in Nat
    PROVE  \E iter : AddsUpTo(f, D, n, iter)
<1> DEFINE Bad == {k \in Nat : ~ \E iter : AddsUpTo(f, D, k, iter)}
<1> SUFFICES ASSUME Bad # {} PROVE FALSE
  OBVIOUS
<1>1. PICK k \in Bad : \A m \in Bad : k <= m
  <2> HIDE DEF Bad
  <2>1. Bad \subseteq Nat
    BY DEF Bad
  <2>. QED  BY <2>1, Least
<1>2. CASE k = 0
  <2> DEFINE zero == [s \in {s \in SUBSET D : Cardinality(s) <= 0} |-> 0]
  <2>1. \A s \in SUBSET D : Cardinality(s) <= 0 => s = {}
    <3> SUFFICES ASSUME NEW s \in SUBSET D, s # {}
                 PROVE  ~ (Cardinality(s) <= 0)
      OBVIOUS
    <3>1. /\ Cardinality(s) \in Nat /\ Cardinality(s \ {CHOOSE y \in s : TRUE}) \in Nat
          /\ Cardinality(s \ {CHOOSE y \in s : TRUE}) = Cardinality(s) - 1
      BY SmallerPart
    <3>. QED  BY <3>1
  <2>1a. zero \in [{s \in SUBSET D : Cardinality(s) <= 0} -> Nat]
    OBVIOUS
  <2>1b. \A s \in DOMAIN zero : s = {} /\ zero[s] = 0
    BY <2>1
  <2> HIDE DEF zero
  <2>2. AddsUpTo(f, D, 0, zero)
    BY <2>1a, <2>1b DEF AddsUpTo
  <2>. QED  BY <1>1, <1>2, <2>2
<1>3. CASE k # 0
  <2>1. k \in Nat /\ k - 1 \in Nat /\ k - 1 \notin Bad
    BY <1>1, <1>3
  <2>2. PICK old : AddsUpTo(f, D, k - 1, old)
    BY <2>1
  <2> DEFINE new == [s \in {s \in SUBSET D : Cardinality(s) <= k} |-> IF s = {} THEN 0
                       ELSE f[CHOOSE y \in s : TRUE] + old[s \ {CHOOSE y \in s : TRUE}]]
  <2>3. ASSUME NEW s \in SUBSET D, s # {}, Cardinality(s) <= k
        PROVE  /\ s \ {CHOOSE y \in s : TRUE} \in DOMAIN old
               /\ f[CHOOSE y \in s : TRUE] \in Nat
               /\ old[s \ {CHOOSE y \in s : TRUE}] \in Nat
    <3>1. s \ {CHOOSE y \in s : TRUE} \in DOMAIN old
      BY <2>1, <2>2, <2>3, SmallerPart DEF AddsUpTo
    <3>. QED  BY <2>2, <2>3, <3>1, SmallerPart DEF AddsUpTo
  <2>4. new \in [{s \in SUBSET D : Cardinality(s) <= k} -> Nat]
    <3> DEFINE value(s) == IF s = {} THEN 0
                           ELSE f[CHOOSE y \in s : TRUE] + old[s \ {CHOOSE y \in s : TRUE}]
    <3>1. ASSUME NEW s \in SUBSET D, Cardinality(s) <= k
          PROVE  value(s) \in Nat
      <4>1. CASE s = {}
        BY <4>1
      <4>2. CASE s # {}
        <5>1. /\ f[CHOOSE y \in s : TRUE] \in Nat
              /\ old[s \ {CHOOSE y \in s : TRUE}] \in Nat
          BY <2>3, <3>1, <4>2
        <5>2. value(s) = f[CHOOSE y \in s : TRUE] + old[s \ {CHOOSE y \in s : TRUE}]
          BY <4>2
        <5>. QED  BY <5>1, <5>2
      <4>. QED  BY <4>1, <4>2
    <3> HIDE DEF value
    <3>2. [s \in {s \in SUBSET D : Cardinality(s) <= k} |-> value(s)]
            \in [{s \in SUBSET D : Cardinality(s) <= k} -> Nat]
      BY <3>1
    <3>. QED  BY <3>2 DEF value
  <2>5. ASSUME NEW s \in SUBSET D, Cardinality(s) <= k - 1
        PROVE  new[s] = old[s]
    <3>1. Cardinality(s) <= k
      BY <2>1, <2>5, FS_Subset, FS_CardinalityType
    <3>. QED  BY <2>2, <2>5, <3>1 DEF AddsUpTo
  <2>6. ASSUME NEW s \in SUBSET D, s # {}, Cardinality(s) <= k
        PROVE  new[s \ {CHOOSE y \in s : TRUE}] = old[s \ {CHOOSE y \in s : TRUE}]
    <3>1. Cardinality(s \ {CHOOSE y \in s : TRUE}) <= k - 1 /\ s \ {CHOOSE y \in s : TRUE} \in SUBSET D
      BY <2>1, <2>6, SmallerPart
    <3> HIDE DEF new
    <3>. QED  BY <2>5, <3>1
  <2>7. AddsUpTo(f, D, k, new)
    <3>1. \A s \in DOMAIN new : new[s] = IF s = {} THEN 0
            ELSE f[CHOOSE y \in s : TRUE] + old[s \ {CHOOSE y \in s : TRUE}]
      OBVIOUS
    <3> HIDE DEF new
    <3>. QED  BY <2>4, <2>6, <3>1 DEF AddsUpTo
  <2>. QED  BY <1>1, <2>7
<1>. QED  BY <1>2, <1>3

\* The sum of a function over a finite set is the fold of the model.
LEMMA SumExists ==
    ASSUME NEW D, IsFiniteSet(D), NEW f \in [D -> Nat]
    PROVE  \E iter : Adds(f, D, iter) /\ FoldFunction(+, 0, f) = iter[D]
<1> DEFINE n == Cardinality(D)
           it == CHOOSE iter : IsSum(f, D, iter)
<1>1. n \in Nat
  BY FS_CardinalityType
<1>2. PICK g : AddsUpTo(f, D, n, g)
  BY <1>1, PartialSums
<1>3. {s \in SUBSET D : Cardinality(s) <= n} = SUBSET D
  BY FS_Subset
<1>4. IsSum(f, D, g)
  BY <1>2, <1>3 DEF AddsUpTo, IsSum
<1>5. IsSum(f, D, it)
  BY <1>4
<1>6. FoldFunction(+, 0, f) = it[D]
  BY DEF IsSum, FoldFunction, FoldFunctionOnSet, MapThenFoldSet
<1> HIDE DEF it
<1>7. ASSUME NEW k \in Nat
      PROVE  \A s \in SUBSET D : Cardinality(s) = k => it[s] = g[s]
  <2> DEFINE Bad == {m \in Nat : \E s \in SUBSET D : Cardinality(s) = m /\ it[s] # g[s]}
  <2> SUFFICES ASSUME Bad # {} PROVE FALSE
    OBVIOUS
  <2>1. PICK m \in Bad : \A j \in Bad : m <= j
    <3> HIDE DEF Bad
    <3>1. Bad \subseteq Nat
      BY DEF Bad
    <3>. QED  BY <3>1, Least
  <2>2. PICK s \in SUBSET D : Cardinality(s) = m /\ it[s] # g[s]
    BY <2>1
  <2>3. s # {}
    BY <1>4, <1>5, <2>2 DEF IsSum
  <2> DEFINE x == CHOOSE y \in s : TRUE
  <2>4. /\ s \ {x} \in SUBSET D /\ Cardinality(s \ {x}) \in Nat
        /\ Cardinality(s \ {x}) = m - 1 /\ m \in Nat
    BY <2>2, <2>3, SmallerPart
  <2>5. m - 1 \notin Bad /\ m - 1 \in Nat
    BY <2>1, <2>4
  <2>6. it[s \ {x}] = g[s \ {x}]
    BY <2>4, <2>5
  <2>7. it[s] = f[x] + it[s \ {x}] /\ g[s] = f[x] + g[s \ {x}]
    BY <1>4, <1>5, <2>3 DEF IsSum
  <2>. QED  BY <2>2, <2>6, <2>7
<1>8. it[D] = g[D]
  BY <1>1, <1>7
<1>9. Adds(f, D, g)
  BY <1>2, <1>3 DEF AddsUpTo, Adds
<1>. QED  BY <1>6, <1>8, <1>9

LEMMA TotalTyped ==
    ASSUME NEW D, IsFiniteSet(D), NEW f \in [D -> Nat]
    PROVE  Total(f) \in Nat
<1>1. PICK g : Adds(f, D, g) /\ Total(f) = g[D]
  BY SumExists DEF Total
<1>. QED  BY <1>1 DEF Adds

LEMMA TotalOfZeros ==
    ASSUME NEW D, IsFiniteSet(D)
    PROVE  Total([d \in D |-> 0]) = 0
<1> DEFINE zero == [d \in D |-> 0]
<1>1. zero \in [D -> Nat]
  OBVIOUS
<1>2. PICK g : Adds(zero, D, g) /\ Total(zero) = g[D]
  BY <1>1, SumExists DEF Total
<1> DEFINE Bad == {m \in Nat : \E s \in SUBSET D : Cardinality(s) = m /\ g[s] # 0}
<1>3. Bad = {}
  <2> SUFFICES ASSUME Bad # {} PROVE FALSE
    OBVIOUS
  <2>1. PICK m \in Bad : \A j \in Bad : m <= j
    <3> HIDE DEF Bad
    <3>1. Bad \subseteq Nat
      BY DEF Bad
    <3>. QED  BY <3>1, Least
  <2>2. PICK s \in SUBSET D : Cardinality(s) = m /\ g[s] # 0
    BY <2>1
  <2>3. s # {}
    BY <1>2, <2>2 DEF Adds
  <2> DEFINE x == CHOOSE y \in s : TRUE
  <2>4. /\ s \ {x} \in SUBSET D /\ Cardinality(s \ {x}) \in Nat /\ x \in D
        /\ Cardinality(s \ {x}) = m - 1 /\ m \in Nat
    BY <2>2, <2>3, SmallerPart
  <2>5. m - 1 \notin Bad /\ m - 1 \in Nat
    BY <2>1, <2>4
  <2>6. g[s \ {x}] = 0
    BY <2>4, <2>5
  <2>7. g[s] = zero[x] + g[s \ {x}]
    BY <1>2, <2>3 DEF Adds
  <2>. QED  BY <2>2, <2>4, <2>6, <2>7
<1>4. Cardinality(D) \in Nat
  BY FS_CardinalityType
<1>. QED  BY <1>2, <1>3, <1>4

LEMMA TotalOfChange ==
    ASSUME NEW D, IsFiniteSet(D), NEW f \in [D -> Nat], NEW h \in [D -> Nat], NEW d \in D,
           \A y \in D : y # d => h[y] = f[y]
    PROVE  Total(h) + f[d] = Total(f) + h[d]
<1>1. PICK g : Adds(f, D, g) /\ Total(f) = g[D]
  BY SumExists DEF Total
<1>2. PICK u : Adds(h, D, u) /\ Total(h) = u[D]
  BY SumExists DEF Total
<1> DEFINE Differ(s) == IF d \in s THEN u[s] + f[d] = g[s] + h[d] ELSE u[s] = g[s]
           Bad == {m \in Nat : \E s \in SUBSET D : Cardinality(s) = m /\ ~ Differ(s)}
<1>3. Bad = {}
  <2> SUFFICES ASSUME Bad # {} PROVE FALSE
    OBVIOUS
  <2>1. PICK m \in Bad : \A j \in Bad : m <= j
    <3> HIDE DEF Bad
    <3>1. Bad \subseteq Nat
      BY DEF Bad
    <3>. QED  BY <3>1, Least
  <2>2. PICK s \in SUBSET D : Cardinality(s) = m /\ ~ Differ(s)
    BY <2>1
  <2>3. s # {}
    <3>1. u[{}] = 0 /\ g[{}] = 0 /\ d \notin {}
      BY <1>1, <1>2 DEF Adds
    <3>. QED  BY <2>2, <3>1
  <2> DEFINE x == CHOOSE y \in s : TRUE
  <2>4. /\ s \ {x} \in SUBSET D /\ Cardinality(s \ {x}) \in Nat /\ x \in D /\ x \in s
        /\ Cardinality(s \ {x}) = m - 1 /\ m \in Nat
    BY <2>2, <2>3, SmallerPart
  <2>5. m - 1 \notin Bad /\ m - 1 \in Nat
    BY <2>1, <2>4
  <2>6. Differ(s \ {x})
    BY <2>4, <2>5
  <2>7. u[s] = h[x] + u[s \ {x}] /\ g[s] = f[x] + g[s \ {x}]
    BY <1>1, <1>2, <2>3 DEF Adds
  <2>8. /\ g[s \ {x}] \in Nat /\ u[s \ {x}] \in Nat /\ f[x] \in Nat /\ h[x] \in Nat
        /\ f[d] \in Nat /\ h[d] \in Nat
    BY <1>1, <1>2, <2>4 DEF Adds
  <2> HIDE DEF x
  <2>9. CASE x = d
    <3>1. u[s \ {x}] = g[s \ {x}] /\ d \in s
      BY <2>4, <2>6, <2>9
    <3>2. u[s] + f[d] = g[s] + h[d]
      BY <2>7, <2>8, <2>9, <3>1
    <3>. QED  BY <2>2, <3>1, <3>2
  <2>10. CASE x # d
    <3>1. h[x] = f[x] /\ (d \in s \ {x} <=> d \in s)
      BY <2>4, <2>10
    <3>2. CASE d \in s
      <4>1. u[s \ {x}] + f[d] = g[s \ {x}] + h[d]
        BY <2>6, <3>1, <3>2
      <4>2. u[s] + f[d] = g[s] + h[d]
        BY <2>7, <2>8, <3>1, <4>1
      <4>. QED  BY <2>2, <3>2, <4>2
    <3>3. CASE d \notin s
      BY <2>2, <2>6, <2>7, <3>1, <3>3
    <3>. QED  BY <3>2, <3>3
  <2>. QED  BY <2>9, <2>10
<1>4. Cardinality(D) \in Nat
  BY FS_CardinalityType
<1>5. Differ(D)
  BY <1>3, <1>4
<1>. QED  BY <1>1, <1>2, <1>5
-----------------------------------------------------------------------------
USE BudgetAssumption

-----------------------------------------------------------------------------
(* The inductive invariant: below the limit there is room for what every   *)
(* turn in flight may still cost, and tomorrow nothing has been used yet.  *)

N == Cardinality(Runs)

Room(limit, total, count) ==
    /\ total + MaxCost * count < limit + MaxCost * N
    /\ limit = 0 => count = 0

\* p admits nothing that q refuses.
NoLooser(p, q) ==
    /\ q.hard => p.hard
    /\ q.daily # NoLimit => p.daily # NoLimit /\ p.daily <= q.daily
    /\ q.monthly # NoLimit => p.monthly # NoLimit /\ p.monthly <= q.monthly

PoliciesWithinLoosest ==
    /\ \A s \in Scopes : NoLooser(policy[s], loosest[s])
    /\ \A r \in Runs : pc[r] = "weighing" => NoLooser(seen[r], loosest[scope[r]])

FutureIsUnused ==
    \A s \in Scopes : /\ \A d \in Days : d > today => used[s][d] = 0
                      /\ \A m \in Months : m > MonthOf[today] => spent[s][m] = 0

DailyRoom ==
    \A s \in Scopes : loosest[s].hard /\ loosest[s].daily # NoLimit =>
        Room(loosest[s].daily, used[s][today], Cardinality(Turns(s)))

MonthlyRoom ==
    \A s \in Scopes : loosest[s].hard /\ loosest[s].monthly # NoLimit =>
        Room(loosest[s].monthly, spent[s][MonthOf[today]], Cardinality(Turns(s)))

IInv ==
    /\ TypeOK
    /\ PoliciesWithinLoosest
    /\ FutureIsUnused
    /\ DailyRoom /\ MonthlyRoom
    /\ DailyOvershootBounded /\ MonthlyOvershootBounded

-----------------------------------------------------------------------------
(* Counting turns.                                                         *)

LEMMA RunsCounted == N \in Nat /\ N >= 1
  BY FS_CardinalityType, FS_EmptySet DEF N

LEMMA TurnsCounted ==
    ASSUME NEW s
    PROVE  /\ IsFiniteSet(Turns(s))
           /\ Cardinality(Turns(s)) \in Nat
           /\ Cardinality(Turns(s)) <= N
<1>1. Turns(s) \in SUBSET Runs
  BY DEF Turns
<1>. QED  BY <1>1, FS_Subset, FS_CardinalityType DEF N

LEMMA FewerTurns ==
    ASSUME NEW s, Turns(s)' \subseteq Turns(s)
    PROVE  /\ Cardinality(Turns(s)') \in Nat
           /\ Cardinality(Turns(s)') <= Cardinality(Turns(s))
  BY TurnsCounted, FS_Subset, FS_CardinalityType

LEMMA Products ==
    ASSUME NEW a \in Nat, NEW b \in Nat, a <= b
    PROVE  MaxCost * a \in Nat /\ MaxCost * b \in Nat /\ MaxCost * a <= MaxCost * b
  OBVIOUS

LEMMA ProductStep ==
    ASSUME NEW a \in Nat, a >= 1
    PROVE  a - 1 \in Nat /\ MaxCost * a = MaxCost * (a - 1) + MaxCost
  OBVIOUS

LEMMA RoomForFewer ==
    ASSUME NEW l \in Nat, NEW k \in Nat, l <= k, NEW total \in Nat,
           NEW a \in Nat, NEW b \in Nat, b <= a, Room(l, total, a)
    PROVE  Room(k, total, b)
<1>1. MaxCost * b <= MaxCost * a /\ MaxCost * a \in Nat /\ MaxCost * b \in Nat
  BY Products
<1>2. MaxCost * N \in Nat
  BY RunsCounted, Products
<1>. QED  BY <1>1, <1>2 DEF Room

LEMMA RoomToStart ==
    ASSUME NEW l \in Nat, NEW total \in Nat, total < l, NEW a \in Nat, a <= N
    PROVE  Room(l, total, a)
<1>1. MaxCost * a <= MaxCost * N /\ MaxCost * a \in Nat /\ MaxCost * N \in Nat
  BY RunsCounted, Products
<1>. QED  BY <1>1 DEF Room

LEMMA RoomToCharge ==
    ASSUME NEW l \in Nat, NEW total \in Nat, NEW a \in Nat, a >= 1, NEW n \in 0..MaxCost,
           Room(l, total, a)
    PROVE  Room(l, total + n, a - 1)
<1>1. a - 1 \in Nat /\ MaxCost * a = MaxCost * (a - 1) + MaxCost /\ MaxCost * (a - 1) \in Nat
  BY ProductStep, Products
<1>2. MaxCost * N \in Nat
  BY RunsCounted, Products
<1>. QED  BY <1>1, <1>2 DEF Room

LEMMA RoomOfTomorrow ==
    ASSUME NEW l \in Nat, NEW total \in Nat, NEW a \in Nat, a <= N, Room(l, total, a)
    PROVE  Room(l, 0, a)
<1>1. MaxCost * a <= MaxCost * N /\ MaxCost * a \in Nat /\ MaxCost * N \in Nat
  BY RunsCounted, Products
<1>2. MaxCost * N >= 1
  BY RunsCounted, Products, ProductStep
<1>. QED  BY <1>1, <1>2 DEF Room

LEMMA RoomIsBound ==
    ASSUME NEW l \in Nat, NEW total \in Nat, NEW a \in Nat, Room(l, total, a)
    PROVE  total < l + N * MaxCost
<1>1. MaxCost * a \in Nat /\ MaxCost * N = N * MaxCost /\ MaxCost * N \in Nat
  BY RunsCounted, Products
<1>. QED  BY <1>1 DEF Room
-----------------------------------------------------------------------------
(* Type correctness.                                                       *)

LEMMA PatchTyped ==
    ASSUME NEW p \in Policies, NEW fields, NEW values \in Policies
    PROVE  Patch(p, fields, values) \in Policies
  BY DEF Patch, Policies

LEMMA LoosenTyped ==
    ASSUME NEW p \in Policies, NEW q \in Policies
    PROVE  /\ Loosen(p, q) \in Policies
           /\ NoLooser(p, Loosen(p, q)) /\ NoLooser(q, Loosen(p, q))
<1>1. Looser(p.daily, q.daily) \in MaybeLimits /\ Looser(p.monthly, q.monthly) \in MaybeLimits
  BY DEF Looser, Policies
<1>2. Loosen(p, q) \in Policies
  BY <1>1 DEF Loosen, Policies
<1>2a. /\ {p.daily, p.monthly, q.daily, q.monthly} \subseteq MaybeLimits
       /\ p.hard \in BOOLEAN /\ q.hard \in BOOLEAN
  BY DEF Policies
<1>2b. ASSUME NEW l \in MaybeLimits, NEW k \in MaybeLimits, Looser(l, k) # NoLimit
       PROVE  l # NoLimit /\ k # NoLimit /\ l <= Looser(l, k) /\ k <= Looser(l, k)
  BY <1>2b DEF Looser, MaybeLimits
<1>3. NoLooser(p, Loosen(p, q)) /\ NoLooser(q, Loosen(p, q))
  BY <1>2a, <1>2b DEF Loosen, NoLooser
<1>. QED  BY <1>2, <1>3

LEMMA NoLooserTransitive ==
    ASSUME NEW p \in Policies, NEW q \in Policies, NEW l \in Policies, NoLooser(p, q), NoLooser(q, l)
    PROVE  NoLooser(p, l)
<1>1. /\ {p.daily, p.monthly, q.daily, q.monthly, l.daily, l.monthly} \subseteq MaybeLimits
      /\ p.hard \in BOOLEAN /\ q.hard \in BOOLEAN /\ l.hard \in BOOLEAN
  BY DEF Policies
<1>2. \A n \in MaybeLimits : n # NoLimit => n \in Nat
  BY DEF MaybeLimits
<1>3. l.hard => p.hard
  BY <1>1 DEF NoLooser
<1>4. l.daily # NoLimit => p.daily # NoLimit /\ p.daily <= l.daily
  <2>1. SUFFICES ASSUME l.daily # NoLimit
                 PROVE  p.daily # NoLimit /\ p.daily <= l.daily
    OBVIOUS
  <2>2. q.daily # NoLimit /\ q.daily <= l.daily /\ p.daily # NoLimit /\ p.daily <= q.daily
    BY <2>1 DEF NoLooser
  <2>. QED  BY <1>1, <1>2, <2>1, <2>2
<1>5. l.monthly # NoLimit => p.monthly # NoLimit /\ p.monthly <= l.monthly
  <2>1. SUFFICES ASSUME l.monthly # NoLimit
                 PROVE  p.monthly # NoLimit /\ p.monthly <= l.monthly
    OBVIOUS
  <2>2. q.monthly # NoLimit /\ q.monthly <= l.monthly /\ p.monthly # NoLimit /\ p.monthly <= q.monthly
    BY <2>1 DEF NoLooser
  <2>. QED  BY <1>1, <1>2, <2>1, <2>2
<1>. QED  BY <1>3, <1>4, <1>5 DEF NoLooser

LEMMA CalendarTyped ==
    ASSUME NEW d \in Days
    PROVE  MonthOf[d] \in Months /\ MonthOf[d] \in Nat /\ Months \subseteq Nat /\ d \in Nat
  BY DEF Months

LEMMA ChargeTyped ==
    ASSUME NEW S, NEW D, NEW table \in [S -> [D -> Nat]], NEW s \in S, NEW d \in D, NEW n \in Nat
    PROVE  /\ [table EXCEPT ![s][d] = @ + n] \in [S -> [D -> Nat]]
           /\ \A z \in S, e \in D :
                e # d => [table EXCEPT ![s][d] = @ + n][z][e] = table[z][e]
<1> DEFINE row == [table[s] EXCEPT ![d] = @ + n]
<1>1. table[s] \in [D -> Nat]
  OBVIOUS
<1>2. row \in [D -> Nat] /\ \A e \in D : e # d => row[e] = table[s][e]
  BY <1>1
<1>3. [table EXCEPT ![s][d] = @ + n] = [table EXCEPT ![s] = row]
  OBVIOUS
<1> HIDE DEF row
<1>4. [table EXCEPT ![s] = row] \in [S -> [D -> Nat]]
  BY <1>2
<1>5. \A z \in S, e \in D : e # d => [table EXCEPT ![s] = row][z][e] = table[z][e]
  BY <1>2
<1>. QED  BY <1>3, <1>4, <1>5

LEMMA UnlimitedTyped == Unlimited \in Policies
  BY DEF Unlimited, Policies, MaybeLimits

LEMMA InitTyped == Init => TypeOK
  BY UnlimitedTyped DEF Init, TypeOK, Steps

LEMMA StepKeepsTypes ==
    ASSUME TypeOK, [Next]_vars
    PROVE  TypeOK'
<1>1. ASSUME NEW r \in Runs, NEW s \in Scopes, StartRun(r, s)
      PROVE  TypeOK'
  BY <1>1 DEF StartRun, TypeOK, Go, Steps, Calls, repoVars, counters
<1>2. ASSUME NEW r \in Runs, ReadPolicy(r) \/ WeighUsage(r)
      PROVE  TypeOK'
  <2>1. CASE ReadPolicy(r)
    BY <2>1 DEF ReadPolicy, TypeOK, Go, Steps, Calls, repoVars, counters, historyVars
  <2>2. CASE WeighUsage(r)
    BY <2>2, UnlimitedTyped DEF WeighUsage, TypeOK, Go, Forget, Steps, Calls, repoVars, counters, historyVars
  <2>. QED  BY <1>2, <2>1, <2>2
<1>3. ASSUME NEW r \in Runs, CountRejection(r) \/ LogRejection(r) \/ ReplyToRun(r)
      PROVE  TypeOK'
  <2>1. scope[r] \in Scopes /\ r \in Calls /\ cost[r] \in Nat
    BY DEF TypeOK, Calls
  <2>2. \A table, n : table \in [Scopes -> Nat] /\ n \in Nat => Add(table, scope[r], n) \in [Scopes -> Nat]
    BY <2>1 DEF Add
  <2>3. {rejected, audited, refusals, answered, worked}' \subseteq [Scopes -> Nat]
    <3>1. {rejected, audited, refusals, answered, worked} \subseteq [Scopes -> Nat] /\ 1 \in Nat
      BY DEF TypeOK
    <3>2. CASE CountRejection(r)
      BY <2>2, <3>1, <3>2 DEF CountRejection, historyVars
    <3>3. CASE LogRejection(r)
      BY <2>2, <3>1, <3>3 DEF LogRejection
    <3>4. CASE ReplyToRun(r)
      BY <2>1, <2>2, <3>1, <3>4 DEF ReplyToRun, repoVars
    <3>. QED  BY <1>3, <3>2, <3>3, <3>4
  <2>. QED  BY <1>3, <2>1, <2>3 DEF CountRejection, LogRejection, ReplyToRun, TypeOK, Go, Steps,
                                    requestVars, repoVars, counters, historyVars
<1>4. ASSUME NEW r \in Runs, EndTurn(r)
      PROVE  TypeOK'
  <2>1. PICK n \in 1..MaxCost : cost' = [cost EXCEPT ![r] = n] /\ worked' = Add(worked, scope[r], n)
    BY <1>4 DEF EndTurn
  <2>2. scope[r] \in Scopes /\ r \in Calls
    BY DEF TypeOK, Calls
  <2>3. worked' \in [Scopes -> Nat]
    BY <2>1, <2>2 DEF TypeOK, Add
  <2>. QED  BY <1>4, <2>1, <2>2, <2>3 DEF EndTurn, TypeOK, Go, Steps, repoVars, counters
<1>5. ASSUME NEW r \in Runs, ChargeRun(r)
      PROVE  TypeOK'
  <2>1. scope[r] \in Scopes /\ r \in Calls /\ cost[r] \in Nat /\ today \in Days
        /\ MonthOf[today] \in Months
    BY CalendarTyped DEF TypeOK, Calls
  <2>a. /\ used \in [Scopes -> [Days -> Nat]] /\ spent \in [Scopes -> [Months -> Nat]]
        /\ used' = [used EXCEPT ![scope[r]][today] = @ + cost[r]]
        /\ spent' = [spent EXCEPT ![scope[r]][MonthOf[today]] = @ + cost[r]]
    BY <1>5 DEF ChargeRun, TypeOK
  <2>2. used' \in [Scopes -> [Days -> Nat]]
    <3>1. [used EXCEPT ![scope[r]][today] = @ + cost[r]] \in [Scopes -> [Days -> Nat]]
      BY <2>a, <2>1, ChargeTyped
    <3>. QED  BY <2>a, <3>1
  <2>3. spent' \in [Scopes -> [Months -> Nat]]
    <3>1. [spent EXCEPT ![scope[r]][MonthOf[today]] = @ + cost[r]] \in [Scopes -> [Months -> Nat]]
      BY <2>a, <2>1, ChargeTyped
    <3>. QED  BY <2>a, <3>1
  <2>. QED  BY <1>5, <2>1, <2>2, <2>3 DEF ChargeRun, TypeOK, Go, Steps, requestVars, counters, historyVars
<1>6. ASSUME NEW a \in Admins, NEW s \in Scopes, StartUpdate(a, s)
      PROVE  TypeOK'
  BY <1>6 DEF StartUpdate, TypeOK, Go, Steps, Calls, repoVars, historyVars
<1>7. ASSUME NEW a \in Admins, WriteUpdate(a)
      PROVE  TypeOK'
  <2>1. PICK fields \in Patches, values \in Policies :
          /\ policy' = [policy EXCEPT ![scope[a]] = Patch(seen[a], fields, values)]
          /\ loosest' = [loosest EXCEPT ![scope[a]] = Loosen(@, Patch(seen[a], fields, values))]
          /\ asked' = [asked EXCEPT ![scope[a]] = Patch(@, fields, values)]
          /\ contested' = Contest(a, {scope[a]} \X fields)
          /\ barred' = barred \ Waiting(scope[a])
    BY <1>7 DEF WriteUpdate
  <2>2. scope[a] \in Scopes /\ a \in Calls /\ seen[a] \in Policies
    BY DEF TypeOK, Calls
  <2>3. Patch(seen[a], fields, values) \in Policies /\ Patch(asked[scope[a]], fields, values) \in Policies
        /\ Loosen(loosest[scope[a]], Patch(seen[a], fields, values)) \in Policies
    BY <2>2, PatchTyped, LoosenTyped DEF TypeOK
  <2>4. contested' \subseteq Scopes \X Fields
    <3>1. {scope[a]} \X fields \subseteq Scopes \X Fields /\ contested \subseteq Scopes \X Fields
      BY <2>2, BudgetAssumption DEF Fields, TypeOK
    <3>. QED  BY <2>1, <3>1 DEF Contest
  <2>5. seen' \in [Calls -> Policies] /\ pc' \in [Calls -> Steps \cup {"idle"}]
    BY <1>7, <2>2, UnlimitedTyped DEF WriteUpdate, Forget, Go, TypeOK
  <2>6. policy' \in [Scopes -> Policies] /\ loosest' \in [Scopes -> Policies]
        /\ asked' \in [Scopes -> Policies] /\ barred' \subseteq Runs
    BY <2>1, <2>2, <2>3 DEF TypeOK
  <2>7. UNCHANGED <<scope, cost, used, spent, rejected, audited, refusals, answered, worked,
                    today, started, updates, faults>>
    BY <1>7 DEF WriteUpdate, counters
  <2>. QED  BY <2>4, <2>5, <2>6, <2>7 DEF TypeOK
<1>8. ASSUME NEW x \in Calls, Fail(x)
      PROVE  TypeOK'
  BY <1>8 DEF Fail, TypeOK, Go, requestVars, repoVars, historyVars
<1>9. CASE Midnight
  BY <1>9 DEF Midnight, TypeOK, requestVars, repoVars, counters
<1>10. CASE UNCHANGED vars
  BY <1>10 DEF vars, TypeOK, requestVars, repoVars, counters, historyVars
<1>. QED  BY <1>1, <1>2, <1>3, <1>4, <1>5, <1>6, <1>7, <1>8, <1>9, <1>10 DEF Next, RunStep
-----------------------------------------------------------------------------
(* The room for the turns in flight.  The steps fall into five kinds.      *)

Gate == PoliciesWithinLoosest /\ FutureIsUnused /\ DailyRoom /\ MonthlyRoom

\* What a limit that counts looks like.
LEMMA LimitTyped ==
    ASSUME TypeOK, NEW s \in Scopes
    PROVE  /\ policy[s] \in Policies /\ loosest[s] \in Policies
           /\ loosest[s].daily # NoLimit => loosest[s].daily \in Nat
           /\ loosest[s].monthly # NoLimit => loosest[s].monthly \in Nat
           /\ used[s][today] \in Nat /\ spent[s][MonthOf[today]] \in Nat
           /\ today \in Days /\ MonthOf[today] \in Months
<1>1. policy[s] \in Policies /\ loosest[s] \in Policies
  BY DEF TypeOK
<1>2. /\ loosest[s].daily # NoLimit => loosest[s].daily \in Nat
      /\ loosest[s].monthly # NoLimit => loosest[s].monthly \in Nat
  BY <1>1 DEF Policies, MaybeLimits
<1>3. today \in Days /\ MonthOf[today] \in Months
  BY CalendarTyped DEF TypeOK
<1>4. used[s][today] \in Nat /\ spent[s][MonthOf[today]] \in Nat
  BY <1>3 DEF TypeOK
<1>. QED  BY <1>1, <1>2, <1>3, <1>4

\* A step that neither starts a turn nor charges one.
LEMMA QuietStepKeepsRoom ==
    ASSUME TypeOK, TypeOK', DailyRoom, MonthlyRoom, UNCHANGED <<used, spent, today, loosest>>,
           \A s \in Scopes : Turns(s)' \subseteq Turns(s)
    PROVE  DailyRoom' /\ MonthlyRoom'
<1> SUFFICES ASSUME NEW s \in Scopes, loosest[s].hard
             PROVE  /\ loosest[s].daily # NoLimit =>
                          Room(loosest[s].daily, used[s][today], Cardinality(Turns(s)'))
                    /\ loosest[s].monthly # NoLimit =>
                          Room(loosest[s].monthly, spent[s][MonthOf[today]], Cardinality(Turns(s)'))
  BY DEF DailyRoom, MonthlyRoom
<1>1. /\ Cardinality(Turns(s)') \in Nat /\ Cardinality(Turns(s)) \in Nat
      /\ Cardinality(Turns(s)') <= Cardinality(Turns(s))
  BY FewerTurns, TurnsCounted
<1>2. loosest[s].daily # NoLimit => Room(loosest[s].daily, used[s][today], Cardinality(Turns(s)'))
  BY <1>1, LimitTyped, RoomForFewer DEF DailyRoom
<1>3. loosest[s].monthly # NoLimit =>
        Room(loosest[s].monthly, spent[s][MonthOf[today]], Cardinality(Turns(s)'))
  BY <1>1, LimitTyped, RoomForFewer DEF MonthlyRoom
<1>. QED  BY <1>2, <1>3

LEMMA GateStepKeepsRoom ==
    ASSUME TypeOK, TypeOK', Gate, NEW r \in Runs, WeighUsage(r)
    PROVE  DailyRoom' /\ MonthlyRoom'
<1>1. UNCHANGED <<used, spent, today, loosest, scope, policy>> /\ pc[r] = "weighing" /\ r \in Calls
  BY DEF WeighUsage, repoVars, historyVars, Calls
<1>2. CASE Exceeded(seen[r], scope[r])
  <2>1. \A s \in Scopes : Turns(s)' \subseteq Turns(s)
    BY <1>1, <1>2 DEF WeighUsage, Go, Turns, TypeOK
  <2>. QED  BY <1>1, <2>1, QuietStepKeepsRoom DEF Gate
<1>3. CASE ~Exceeded(seen[r], scope[r])
  <2> SUFFICES ASSUME NEW s \in Scopes, loosest[s].hard
               PROVE  /\ loosest[s].daily # NoLimit =>
                            Room(loosest[s].daily, used[s][today], Cardinality(Turns(s)'))
                      /\ loosest[s].monthly # NoLimit =>
                            Room(loosest[s].monthly, spent[s][MonthOf[today]], Cardinality(Turns(s)'))
    BY <1>1 DEF DailyRoom, MonthlyRoom
  <2>1. CASE s = scope[r]
    <3>1. seen[r] \in Policies /\ NoLooser(seen[r], loosest[s])
      BY <1>1, <2>1 DEF Gate, PoliciesWithinLoosest, TypeOK, Calls
    <3>2. Cardinality(Turns(s)') \in Nat /\ Cardinality(Turns(s)') <= N
      <4>1. Turns(s)' \in SUBSET Runs
        BY DEF Turns
      <4>. QED  BY <4>1, FS_Subset, FS_CardinalityType DEF N
    <3>3. seen[r].hard
      BY <3>1 DEF NoLooser
    <3>4. loosest[s].daily # NoLimit => used[s][today] < loosest[s].daily
      <4>1. SUFFICES ASSUME loosest[s].daily # NoLimit PROVE used[s][today] < loosest[s].daily
        OBVIOUS
      <4>2. seen[r].daily # NoLimit /\ seen[r].daily <= loosest[s].daily
        BY <3>1, <4>1 DEF NoLooser
      <4>3. seen[r].daily \in Nat
        BY <3>1, <4>2 DEF Policies, MaybeLimits
      <4>4. ~(used[s][today] >= seen[r].daily)
        BY <1>3, <2>1, <3>3, <4>2 DEF Exceeded, Reached
      <4>. QED  BY <4>1, <4>2, <4>3, <4>4, LimitTyped
    <3>5. loosest[s].monthly # NoLimit => spent[s][MonthOf[today]] < loosest[s].monthly
      <4>1. SUFFICES ASSUME loosest[s].monthly # NoLimit
                     PROVE  spent[s][MonthOf[today]] < loosest[s].monthly
        OBVIOUS
      <4>2. seen[r].monthly # NoLimit /\ seen[r].monthly <= loosest[s].monthly
        BY <3>1, <4>1 DEF NoLooser
      <4>3. seen[r].monthly \in Nat
        BY <3>1, <4>2 DEF Policies, MaybeLimits
      <4>4. ~(spent[s][MonthOf[today]] >= seen[r].monthly)
        BY <1>3, <2>1, <3>3, <4>2 DEF Exceeded, Reached
      <4>. QED  BY <4>1, <4>2, <4>3, <4>4, LimitTyped
    <3>. QED  BY <3>2, <3>4, <3>5, LimitTyped, RoomToStart
  <2>2. CASE s # scope[r]
    <3>1. Turns(s)' = Turns(s)
      BY <1>1, <2>2 DEF WeighUsage, Go, Turns, TypeOK
    <3>. QED  BY <3>1 DEF Gate, DailyRoom, MonthlyRoom
  <2>. QED  BY <2>1, <2>2
<1>. QED  BY <1>2, <1>3

LEMMA ChargeKeepsRoom ==
    ASSUME TypeOK, TypeOK', Gate, NEW r \in Runs, ChargeRun(r)
    PROVE  DailyRoom' /\ MonthlyRoom'
<1>1. /\ UNCHANGED <<today, loosest, scope>> /\ pc[r] = "charging" /\ r \in Calls
      /\ scope[r] \in Scopes /\ cost[r] \in 0..MaxCost
      /\ pc' = [pc EXCEPT ![r] = "replying"]
      /\ used' = [used EXCEPT ![scope[r]][today] = @ + cost[r]]
      /\ spent' = [spent EXCEPT ![scope[r]][MonthOf[today]] = @ + cost[r]]
  BY DEF ChargeRun, Go, historyVars, requestVars, Calls, TypeOK
<1> SUFFICES ASSUME NEW s \in Scopes, loosest[s].hard
             PROVE  /\ loosest[s].daily # NoLimit =>
                          Room(loosest[s].daily, used'[s][today], Cardinality(Turns(s)'))
                    /\ loosest[s].monthly # NoLimit =>
                          Room(loosest[s].monthly, spent'[s][MonthOf[today]], Cardinality(Turns(s)'))
  BY <1>1 DEF DailyRoom, MonthlyRoom
<1>2. CASE s = scope[r]
  <2>1. r \in Turns(s) /\ Turns(s)' = Turns(s) \ {r}
    BY <1>1, <1>2 DEF Turns, TypeOK
  <2>2. /\ Cardinality(Turns(s)) \in Nat /\ Cardinality(Turns(s)) >= 1
        /\ Cardinality(Turns(s)') = Cardinality(Turns(s)) - 1
    <3>1. IsFiniteSet(Turns(s)) /\ Cardinality(Turns(s)) \in Nat
      BY TurnsCounted
    <3>2. Cardinality(Turns(s)) # 0
      BY <2>1, <3>1, FS_EmptySet
    <3>3. Cardinality(Turns(s) \ {r}) = Cardinality(Turns(s)) - 1
      BY <2>1, <3>1, FS_RemoveElement
    <3>. QED  BY <2>1, <3>1, <3>2, <3>3
  <2>3. used'[s][today] = used[s][today] + cost[r]
    BY <1>1, <1>2, LimitTyped DEF TypeOK
  <2>4. spent'[s][MonthOf[today]] = spent[s][MonthOf[today]] + cost[r]
    BY <1>1, <1>2, LimitTyped DEF TypeOK
  <2>. QED  BY <1>1, <2>2, <2>3, <2>4, LimitTyped, RoomToCharge DEF Gate, DailyRoom, MonthlyRoom
<1>3. CASE s # scope[r]
  <2>1. Turns(s)' = Turns(s)
    BY <1>1, <1>3 DEF Turns, TypeOK
  <2>2. used'[s] = used[s] /\ spent'[s] = spent[s]
    BY <1>1, <1>3 DEF TypeOK
  <2>. QED  BY <2>1, <2>2 DEF Gate, DailyRoom, MonthlyRoom
<1>. QED  BY <1>2, <1>3
-----------------------------------------------------------------------------
(* The other parts of the invariant, action by action.                     *)

LEMMA MidnightKeepsRoom ==
    ASSUME TypeOK, TypeOK', Gate, Midnight
    PROVE  DailyRoom' /\ MonthlyRoom' /\ FutureIsUnused'
<1>1. /\ UNCHANGED <<loosest, scope, pc, used, spent>>
      /\ today \in Days /\ today' \in Days /\ today' = today + 1
      /\ MonthOf[today] \in Nat /\ MonthOf[today'] \in Nat /\ MonthOf[today'] \in Months
      /\ MonthOf[today] <= MonthOf[today']
  BY CalendarTyped DEF Midnight, TypeOK, requestVars, repoVars
<1>2. FutureIsUnused'
  <2> SUFFICES ASSUME NEW s \in Scopes
               PROVE  /\ \A d \in Days : d > today' => used[s][d] = 0
                      /\ \A m \in Months : m > MonthOf[today'] => spent[s][m] = 0
    BY <1>1 DEF FutureIsUnused
  <2>1. Days \subseteq Nat /\ Months \subseteq Nat
    BY CalendarTyped
  <2>2. \A d \in Days : d > today' => d > today
    BY <1>1, <2>1
  <2>3. \A m \in Months : m > MonthOf[today'] => m > MonthOf[today]
    BY <1>1, <2>1
  <2>. QED  BY <2>2, <2>3 DEF Gate, FutureIsUnused
<1>3. ASSUME NEW s \in Scopes, loosest[s].hard
      PROVE  /\ loosest[s].daily # NoLimit =>
                   Room(loosest[s].daily, used[s][today'], Cardinality(Turns(s)))
             /\ loosest[s].monthly # NoLimit =>
                   Room(loosest[s].monthly, spent[s][MonthOf[today']], Cardinality(Turns(s)))
  <2>1. used[s][today'] = 0
    <3>1. today' > today
      BY <1>1
    <3>. QED  BY <1>1, <3>1 DEF Gate, FutureIsUnused
  <2>2. spent[s][MonthOf[today']] = spent[s][MonthOf[today]] \/ spent[s][MonthOf[today']] = 0
    <3>1. MonthOf[today'] = MonthOf[today] \/ MonthOf[today'] > MonthOf[today]
      BY <1>1
    <3>. QED  BY <1>1, <3>1 DEF Gate, FutureIsUnused
  <2>3. loosest[s].daily # NoLimit => Room(loosest[s].daily, 0, Cardinality(Turns(s)))
    BY <1>3, LimitTyped, TurnsCounted, RoomOfTomorrow DEF Gate, DailyRoom
  <2>4. loosest[s].monthly # NoLimit =>
          /\ Room(loosest[s].monthly, 0, Cardinality(Turns(s)))
          /\ Room(loosest[s].monthly, spent[s][MonthOf[today]], Cardinality(Turns(s)))
    BY <1>3, LimitTyped, TurnsCounted, RoomOfTomorrow DEF Gate, MonthlyRoom
  <2>. QED  BY <2>1, <2>2, <2>3, <2>4
<1>4. \A s : Turns(s)' = Turns(s)
  BY <1>1 DEF Turns
<1>. QED  BY <1>1, <1>2, <1>3, <1>4 DEF DailyRoom, MonthlyRoom

\* A limit that is loosened leaves more room.
LEMMA UpdateKeepsGate ==
    ASSUME TypeOK, TypeOK', Gate, NEW a \in Admins, WriteUpdate(a)
    PROVE  Gate'
<1>1. PICK next \in Policies :
        /\ policy' = [policy EXCEPT ![scope[a]] = next]
        /\ loosest' = [loosest EXCEPT ![scope[a]] = Loosen(@, next)]
  <2>1. seen[a] \in Policies
    BY DEF TypeOK, Calls
  <2>. QED  BY <2>1, PatchTyped DEF WriteUpdate
<1>2. /\ UNCHANGED <<used, spent, today, scope>> /\ a \in Calls /\ a \notin Runs
      /\ pc' = [pc EXCEPT ![a] = "idle"] /\ seen' = [seen EXCEPT ![a] = Unlimited]
  BY BudgetAssumption DEF WriteUpdate, Go, Forget, Calls
<1>3. \A s \in Scopes : /\ NoLooser(loosest[s], loosest'[s]) /\ NoLooser(policy'[s], loosest'[s])
                        /\ loosest[s] \in Policies /\ loosest'[s] \in Policies
  <2> SUFFICES ASSUME NEW s \in Scopes
               PROVE  /\ NoLooser(loosest[s], loosest'[s]) /\ NoLooser(policy'[s], loosest'[s])
                      /\ loosest[s] \in Policies /\ loosest'[s] \in Policies
    OBVIOUS
  <2>1. CASE s = scope[a]
    BY <1>1, <2>1, LimitTyped, LoosenTyped DEF TypeOK
  <2>2. CASE s # scope[a]
    <3>1. policy'[s] = policy[s] /\ loosest'[s] = loosest[s]
      BY <1>1, <2>2 DEF TypeOK
    <3>2. NoLooser(loosest[s], loosest[s])
      BY LimitTyped DEF NoLooser
    <3>. QED  BY <3>1, <3>2, LimitTyped DEF Gate, PoliciesWithinLoosest
  <2>. QED  BY <2>1, <2>2
<1>4. PoliciesWithinLoosest'
  <2>1. ASSUME NEW r \in Runs, pc[r] = "weighing"
        PROVE  NoLooser(seen[r], loosest'[scope[r]])
    <3>1. scope[r] \in Scopes /\ seen[r] \in Policies
      BY DEF TypeOK, Calls
    <3>. QED  BY <1>3, <2>1, <3>1, NoLooserTransitive DEF Gate, PoliciesWithinLoosest
  <2>2. \A r \in Runs : pc'[r] = pc[r] /\ seen'[r] = seen[r]
    BY <1>2 DEF TypeOK, Calls
  <2>. QED  BY <1>2, <1>3, <2>1, <2>2 DEF PoliciesWithinLoosest
<1>5. \A s : Turns(s)' = Turns(s)
  BY <1>2 DEF Turns, TypeOK, Calls
<1>6. ASSUME NEW s \in Scopes, loosest'[s].hard
      PROVE  /\ loosest'[s].daily # NoLimit =>
                   Room(loosest'[s].daily, used[s][today], Cardinality(Turns(s)))
             /\ loosest'[s].monthly # NoLimit =>
                   Room(loosest'[s].monthly, spent[s][MonthOf[today]], Cardinality(Turns(s)))
  <2>1. /\ loosest'[s] \in Policies /\ NoLooser(loosest[s], loosest'[s])
        /\ Cardinality(Turns(s)) \in Nat
    BY <1>3, TurnsCounted
  <2>2. /\ loosest'[s].daily # NoLimit => loosest'[s].daily \in Nat
        /\ loosest'[s].monthly # NoLimit => loosest'[s].monthly \in Nat
    BY <2>1 DEF Policies, MaybeLimits
  <2>3. loosest[s].hard
    BY <1>6, <2>1 DEF NoLooser
  <2>4. loosest'[s].daily # NoLimit =>
          Room(loosest'[s].daily, used[s][today], Cardinality(Turns(s)))
    BY <2>1, <2>2, <2>3, LimitTyped, RoomForFewer DEF NoLooser, Gate, DailyRoom
  <2>5. loosest'[s].monthly # NoLimit =>
          Room(loosest'[s].monthly, spent[s][MonthOf[today]], Cardinality(Turns(s)))
    BY <2>1, <2>2, <2>3, LimitTyped, RoomForFewer DEF NoLooser, Gate, MonthlyRoom
  <2>. QED  BY <2>4, <2>5
<1>7. DailyRoom' /\ MonthlyRoom'
  BY <1>2, <1>5, <1>6 DEF DailyRoom, MonthlyRoom
<1>8. FutureIsUnused'
  BY <1>2 DEF Gate, FutureIsUnused
<1>. QED  BY <1>4, <1>7, <1>8 DEF Gate
LEMMA StepKeepsGate ==
    ASSUME TypeOK, TypeOK', Gate, [Next]_vars
    PROVE  Gate'
<1>1. ASSUME NEW r \in Runs, NEW s \in Scopes, StartRun(r, s)
      PROVE  Gate'
  <2>1. /\ UNCHANGED <<used, spent, today, loosest, policy, seen>> /\ pc[r] = "idle" /\ r \in Calls
        /\ pc' = [pc EXCEPT ![r] = "gating"] /\ scope' = [scope EXCEPT ![r] = s]
    BY <1>1 DEF StartRun, Go, repoVars, Calls
  <2>2. \A z \in Scopes : Turns(z)' \subseteq Turns(z)
    BY <2>1 DEF Turns, TypeOK
  <2>3. PoliciesWithinLoosest'
    BY <2>1 DEF Gate, PoliciesWithinLoosest, TypeOK, Calls
  <2>4. FutureIsUnused'
    BY <2>1 DEF Gate, FutureIsUnused
  <2>. QED  BY <2>1, <2>2, <2>3, <2>4, QuietStepKeepsRoom DEF Gate
<1>2. ASSUME NEW r \in Runs, ReadPolicy(r)
      PROVE  Gate'
  <2>1. /\ UNCHANGED <<used, spent, today, loosest, policy, scope>> /\ pc[r] = "gating" /\ r \in Calls
        /\ pc' = [pc EXCEPT ![r] = "weighing"] /\ seen' = [seen EXCEPT ![r] = policy[scope[r]]]
    BY <1>2 DEF ReadPolicy, Go, repoVars, historyVars, Calls
  <2>2. \A z \in Scopes : Turns(z)' \subseteq Turns(z)
    BY <2>1 DEF Turns, TypeOK
  <2>3. PoliciesWithinLoosest'
    BY <2>1 DEF Gate, PoliciesWithinLoosest, TypeOK, Calls
  <2>4. FutureIsUnused'
    BY <2>1 DEF Gate, FutureIsUnused
  <2>. QED  BY <2>1, <2>2, <2>3, <2>4, QuietStepKeepsRoom DEF Gate
<1>3. ASSUME NEW r \in Runs, WeighUsage(r)
      PROVE  Gate'
  <2>1. UNCHANGED <<used, spent, today, loosest, policy, scope>>
        /\ \A q \in Runs : pc'[q] = "weighing" => pc[q] = "weighing" /\ seen'[q] = seen[q]
    BY <1>3 DEF WeighUsage, Go, Forget, repoVars, historyVars, TypeOK, Calls
  <2>2. PoliciesWithinLoosest' /\ FutureIsUnused'
    BY <2>1 DEF Gate, PoliciesWithinLoosest, FutureIsUnused
  <2>. QED  BY <1>3, <2>2, GateStepKeepsRoom DEF Gate
<1>4. ASSUME NEW r \in Runs, CountRejection(r) \/ LogRejection(r) \/ EndTurn(r) \/ ReplyToRun(r)
      PROVE  Gate'
  <2>1. /\ UNCHANGED <<used, spent, today, loosest, policy, seen, scope>>
        /\ \/ pc[r] \in {"counting", "logging", "replying"} /\ pc' = [pc EXCEPT ![r] = "idle"]
           \/ pc[r] = "counting" /\ pc' = [pc EXCEPT ![r] = "logging"]
           \/ pc[r] = "running" /\ pc' = [pc EXCEPT ![r] = "charging"]
    BY <1>4 DEF CountRejection, LogRejection, EndTurn, ReplyToRun, Go, repoVars, historyVars, requestVars
  <2>3. \A q \in Runs : /\ pc'[q] = "weighing" => pc[q] = "weighing"
                        /\ pc'[q] \in {"running", "charging"} => pc[q] \in {"running", "charging"}
    BY <2>1 DEF TypeOK, Calls
  <2>2. \A z \in Scopes : Turns(z)' \subseteq Turns(z)
    BY <2>1, <2>3 DEF Turns
  <2>a. UNCHANGED <<used, spent, today, loosest, policy, seen, scope>>
    BY <2>1
  <2>4. PoliciesWithinLoosest' /\ FutureIsUnused'
    <3>1. \A q \in Runs : pc'[q] = "weighing" => pc[q] = "weighing"
      BY <2>3
    <3>2. PoliciesWithinLoosest'
      BY <2>a, <3>1 DEF Gate, PoliciesWithinLoosest
    <3>3. FutureIsUnused'
      BY <2>a DEF Gate, FutureIsUnused
    <3>. QED  BY <3>2, <3>3
  <2>. QED  BY <2>1, <2>2, <2>4, QuietStepKeepsRoom DEF Gate
<1>5. ASSUME NEW r \in Runs, ChargeRun(r)
      PROVE  Gate'
  <2>1. /\ UNCHANGED <<today, loosest, policy, seen, scope>> /\ today \in Days /\ MonthOf[today] \in Nat
        /\ \A q \in Runs : pc'[q] = "weighing" => pc[q] = "weighing"
    BY <1>5, CalendarTyped DEF ChargeRun, Go, historyVars, requestVars, TypeOK, Calls
  <2>2. PoliciesWithinLoosest'
    BY <2>1 DEF Gate, PoliciesWithinLoosest
  <2>3. \A s \in Scopes : /\ \A d \in Days : d # today => used'[s][d] = used[s][d]
                         /\ \A m \in Months : m # MonthOf[today] => spent'[s][m] = spent[s][m]
    <3>1. /\ scope[r] \in Scopes /\ cost[r] \in Nat /\ MonthOf[today] \in Months
          /\ used \in [Scopes -> [Days -> Nat]] /\ spent \in [Scopes -> [Months -> Nat]]
      BY <2>1, CalendarTyped DEF TypeOK, Calls
    <3>2. /\ used' = [used EXCEPT ![scope[r]][today] = @ + cost[r]]
          /\ spent' = [spent EXCEPT ![scope[r]][MonthOf[today]] = @ + cost[r]]
      BY <1>5 DEF ChargeRun
    <3>3. \A s \in Scopes, d \in Days : d # today =>
            [used EXCEPT ![scope[r]][today] = @ + cost[r]][s][d] = used[s][d]
      BY <2>1, <3>1, ChargeTyped
    <3>4. \A s \in Scopes, m \in Months : m # MonthOf[today] =>
            [spent EXCEPT ![scope[r]][MonthOf[today]] = @ + cost[r]][s][m] = spent[s][m]
      BY <3>1, ChargeTyped
    <3>. QED  BY <3>2, <3>3, <3>4
  <2>4. FutureIsUnused'
    <3>1. FutureIsUnused /\ today' = today
      BY <2>1 DEF Gate
    <3>2. ASSUME NEW s \in Scopes, NEW d \in Days, d > today
          PROVE  used'[s][d] = 0
      <4>1. d # today
        BY <3>2, <2>1, CalendarTyped
      <4>. QED  BY <4>1, <3>1, <3>2, <2>3 DEF FutureIsUnused
    <3>3. ASSUME NEW s \in Scopes, NEW m \in Months, m > MonthOf[today]
          PROVE  spent'[s][m] = 0
      <4>1. m # MonthOf[today]
        BY <3>3, <2>1, CalendarTyped
      <4>. QED  BY <4>1, <3>1, <3>3, <2>3 DEF FutureIsUnused
    <3>. QED  BY <3>1, <3>2, <3>3 DEF FutureIsUnused
  <2>. QED  BY <1>5, <2>2, <2>4, ChargeKeepsRoom DEF Gate
<1>6. ASSUME NEW a \in Admins, NEW s \in Scopes, StartUpdate(a, s)
      PROVE  Gate'
  <2>1. /\ UNCHANGED <<used, spent, today, loosest, policy>> /\ a \notin Runs /\ a \in Calls
        /\ pc' = [pc EXCEPT ![a] = "writing"] /\ scope' = [scope EXCEPT ![a] = s]
        /\ seen' = [seen EXCEPT ![a] = policy[s]]
    BY <1>6 DEF StartUpdate, Go, repoVars, historyVars, Calls
  <2>2. \A q \in Runs : pc'[q] = pc[q] /\ scope'[q] = scope[q] /\ seen'[q] = seen[q]
    BY <2>1 DEF TypeOK, Calls
  <2>3. \A z \in Scopes : Turns(z)' \subseteq Turns(z)
    BY <2>2 DEF Turns
  <2>4. PoliciesWithinLoosest' /\ FutureIsUnused'
    BY <2>1, <2>2 DEF Gate, PoliciesWithinLoosest, FutureIsUnused
  <2>. QED  BY <2>1, <2>3, <2>4, QuietStepKeepsRoom DEF Gate
<1>7. ASSUME NEW a \in Admins, WriteUpdate(a)
      PROVE  Gate'
  BY <1>7, UpdateKeepsGate
<1>8. ASSUME NEW x \in Calls, Fail(x)
      PROVE  Gate'
  <2>1. /\ UNCHANGED <<used, spent, today, loosest, policy, seen, scope>>
        /\ pc' = [pc EXCEPT ![x] = "idle"]
    BY <1>8 DEF Fail, Go, repoVars, historyVars, requestVars
  <2>2. \A z \in Scopes : Turns(z)' \subseteq Turns(z)
    BY <2>1 DEF Turns, TypeOK
  <2>3. \A q \in Runs : pc'[q] = "weighing" => pc[q] = "weighing"
    BY <2>1 DEF TypeOK, Calls
  <2>4. PoliciesWithinLoosest' /\ FutureIsUnused'
    BY <2>1, <2>3 DEF Gate, PoliciesWithinLoosest, FutureIsUnused
  <2>. QED  BY <2>1, <2>2, <2>4, QuietStepKeepsRoom DEF Gate
<1>9. CASE Midnight
  <2>1. UNCHANGED <<loosest, policy, seen, scope, pc>>
    BY <1>9 DEF Midnight, repoVars, requestVars
  <2>2. PoliciesWithinLoosest'
    BY <2>1 DEF Gate, PoliciesWithinLoosest
  <2>. QED  BY <1>9, <2>2, MidnightKeepsRoom DEF Gate
<1>10. CASE UNCHANGED vars
  BY <1>10 DEF vars, repoVars, requestVars, historyVars, counters, Gate, PoliciesWithinLoosest,
               FutureIsUnused, DailyRoom, MonthlyRoom, Turns
<1>. QED  BY <1>1, <1>2, <1>3, <1>4, <1>5, <1>6, <1>7, <1>8, <1>9, <1>10 DEF Next, RunStep
-----------------------------------------------------------------------------
(* The bound follows from the room today, and is kept for the other days.  *)

LEMMA StepLoosens ==
    ASSUME TypeOK, [Next]_vars, NEW s \in Scopes
    PROVE  NoLooser(loosest[s], loosest'[s])
<1>1. CASE loosest' = loosest
  BY <1>1, LimitTyped DEF NoLooser
<1>2. ASSUME NEW a \in Admins, WriteUpdate(a)
      PROVE  NoLooser(loosest[s], loosest'[s])
  <2>1. seen[a] \in Policies /\ scope[a] \in Scopes
    BY DEF TypeOK, Calls
  <2>2. PICK next \in Policies : loosest' = [loosest EXCEPT ![scope[a]] = Loosen(@, next)]
    BY <1>2, <2>1, PatchTyped DEF WriteUpdate
  <2>3. CASE s = scope[a]
    BY <2>2, <2>3, LimitTyped, LoosenTyped DEF TypeOK
  <2>4. CASE s # scope[a]
    <3>1. loosest'[s] = loosest[s]
      BY <2>2, <2>4 DEF TypeOK
    <3>. QED  BY <3>1, LimitTyped DEF NoLooser
  <2>. QED  BY <2>3, <2>4
<1>3. loosest' = loosest \/ \E a \in Admins : WriteUpdate(a)
  BY DEF Next, vars, historyVars, RunStep, StartRun, ReadPolicy, WeighUsage, CountRejection, LogRejection,
         EndTurn, ChargeRun, ReplyToRun, StartUpdate, Midnight, Fail
<1>. QED  BY <1>1, <1>2, <1>3

LEMMA StepChargesToday ==
    ASSUME TypeOK, [Next]_vars, NEW s \in Scopes
    PROVE  /\ \A d \in Days : d # today' => used'[s][d] = used[s][d]
           /\ \A m \in Months : m # MonthOf[today'] => spent'[s][m] = spent[s][m]
<1>1. CASE UNCHANGED <<used, spent>>
  BY <1>1
<1>2. ASSUME NEW r \in Runs, ChargeRun(r)
      PROVE  /\ \A d \in Days : d # today' => used'[s][d] = used[s][d]
             /\ \A m \in Months : m # MonthOf[today'] => spent'[s][m] = spent[s][m]
  BY <1>2 DEF ChargeRun, TypeOK
<1>3. UNCHANGED <<used, spent>> \/ \E r \in Runs : ChargeRun(r)
  BY DEF Next, vars, repoVars, RunStep, StartRun, ReadPolicy, WeighUsage, CountRejection, LogRejection,
         EndTurn, ReplyToRun, StartUpdate, WriteUpdate, Midnight, Fail
<1>. QED  BY <1>1, <1>2, <1>3

LEMMA StepKeepsBounds ==
    ASSUME TypeOK, TypeOK', [Next]_vars, DailyRoom', MonthlyRoom',
           DailyOvershootBounded, MonthlyOvershootBounded
    PROVE  DailyOvershootBounded' /\ MonthlyOvershootBounded'
<1>1. N * MaxCost \in Nat
  BY RunsCounted
<1>2. ASSUME NEW s \in Scopes, loosest'[s].hard
      PROVE  /\ loosest'[s].daily # NoLimit => \A d \in Days : used'[s][d] < loosest'[s].daily + N * MaxCost
             /\ loosest'[s].monthly # NoLimit =>
                   \A m \in Months : spent'[s][m] < loosest'[s].monthly + N * MaxCost
  <2>1. /\ loosest[s] \in Policies /\ loosest'[s] \in Policies /\ NoLooser(loosest[s], loosest'[s])
        /\ loosest[s].hard
    BY <1>2, LimitTyped, StepLoosens DEF TypeOK, NoLooser
  <2>2. /\ Cardinality(Turns(s)') \in Nat
        /\ today' \in Days /\ MonthOf[today'] \in Months
        /\ used[s] \in [Days -> Nat] /\ used'[s] \in [Days -> Nat]
        /\ spent[s] \in [Months -> Nat] /\ spent'[s] \in [Months -> Nat]
    <3>1. Turns(s)' \in SUBSET Runs
      BY DEF Turns
    <3>2. Cardinality(Turns(s)') \in Nat
      BY <3>1, FS_Subset, FS_CardinalityType
    <3>3. today' \in Days /\ MonthOf[today'] \in Months
      BY CalendarTyped DEF TypeOK
    <3>. QED  BY <3>2, <3>3 DEF TypeOK
  <2>3. ASSUME loosest'[s].daily # NoLimit, NEW d \in Days
        PROVE  used'[s][d] < loosest'[s].daily + N * MaxCost
    <3>1. /\ loosest'[s].daily \in Nat /\ loosest[s].daily \in Nat
          /\ loosest[s].daily # NoLimit /\ loosest[s].daily <= loosest'[s].daily
      BY <2>1, <2>3 DEF NoLooser, Policies, MaybeLimits
    <3>2. CASE d = today'
      <4>1. Room(loosest'[s].daily, used'[s][d], Cardinality(Turns(s)'))
        BY <1>2, <2>3, <3>2 DEF DailyRoom
      <4>2. used'[s][d] \in Nat
        BY <2>2
      <4>. QED  BY <2>2, <3>1, <4>1, <4>2, RoomIsBound
    <3>3. CASE d # today'
      <4>1. used'[s][d] = used[s][d] /\ used[s][d] \in Nat
        BY <2>2, <3>3, StepChargesToday
      <4>2. used[s][d] < loosest[s].daily + N * MaxCost
        BY <2>1, <3>1 DEF DailyOvershootBounded, N
      <4>. QED  BY <1>1, <3>1, <4>1, <4>2
    <3>. QED  BY <3>2, <3>3
  <2>4. ASSUME loosest'[s].monthly # NoLimit, NEW m \in Months
        PROVE  spent'[s][m] < loosest'[s].monthly + N * MaxCost
    <3>1. /\ loosest'[s].monthly \in Nat /\ loosest[s].monthly \in Nat
          /\ loosest[s].monthly # NoLimit /\ loosest[s].monthly <= loosest'[s].monthly
      BY <2>1, <2>4 DEF NoLooser, Policies, MaybeLimits
    <3>2. CASE m = MonthOf[today']
      <4>1. Room(loosest'[s].monthly, spent'[s][m], Cardinality(Turns(s)'))
        BY <1>2, <2>4, <3>2 DEF MonthlyRoom
      <4>2. spent'[s][m] \in Nat
        BY <2>2
      <4>. QED  BY <2>2, <3>1, <4>1, <4>2, RoomIsBound
    <3>3. CASE m # MonthOf[today']
      <4>1. spent'[s][m] = spent[s][m] /\ spent[s][m] \in Nat
        BY <2>2, <3>3, StepChargesToday
      <4>2. spent[s][m] < loosest[s].monthly + N * MaxCost
        BY <2>1, <3>1 DEF MonthlyOvershootBounded, N
      <4>. QED  BY <1>1, <3>1, <4>1, <4>2
    <3>. QED  BY <3>2, <3>3
  <2>. QED  BY <2>3, <2>4
<1>. QED  BY <1>2 DEF DailyOvershootBounded, MonthlyOvershootBounded, N

LEMMA InitEstablishesIInv == Init => IInv
<1> SUFFICES ASSUME Init PROVE IInv
  OBVIOUS
<1>1. TypeOK
  BY InitTyped
<1>2. \A s \in Scopes : Turns(s) = {}
  BY DEF Init, Turns, Calls
<1>3. N \in Nat /\ N >= 1 /\ MaxCost * N \in Nat /\ MaxCost * N >= 1 /\ MaxCost * N = N * MaxCost
      /\ MaxCost * 0 = 0
  BY RunsCounted, Products, ProductStep
<1>4. PoliciesWithinLoosest
  <2>1. \A s \in Scopes : NoLooser(policy[s], loosest[s])
    BY <1>1, LimitTyped DEF Init, NoLooser
  <2>. QED  BY <2>1 DEF Init, PoliciesWithinLoosest, Calls
<1>5. \A s \in Scopes : /\ \A d \in Days : used[s][d] = 0
                        /\ \A m \in Months : spent[s][m] = 0
  BY DEF Init
<1>6. ASSUME NEW l \in Nat
      PROVE  Room(l, 0, 0) /\ 0 < l + N * MaxCost
  BY <1>3 DEF Room
<1>7. FutureIsUnused
  BY <1>5 DEF FutureIsUnused
<1>8. DailyRoom /\ MonthlyRoom
  BY <1>1, <1>2, <1>5, <1>6, LimitTyped, FS_EmptySet DEF DailyRoom, MonthlyRoom
<1>9. DailyOvershootBounded /\ MonthlyOvershootBounded
  BY <1>1, <1>5, <1>6, LimitTyped DEF DailyOvershootBounded, MonthlyOvershootBounded, N
<1>. QED  BY <1>1, <1>4, <1>7, <1>8, <1>9 DEF IInv

LEMMA StepKeepsIInv == IInv /\ [Next]_vars => IInv'
<1> SUFFICES ASSUME IInv, [Next]_vars PROVE IInv'
  OBVIOUS
<1>1. TypeOK'
  BY StepKeepsTypes DEF IInv
<1>2. Gate'
  BY <1>1, StepKeepsGate DEF IInv, Gate
<1>3. DailyOvershootBounded' /\ MonthlyOvershootBounded'
  BY <1>1, <1>2, StepKeepsBounds DEF IInv, Gate
<1>. QED  BY <1>1, <1>2, <1>3 DEF IInv, Gate

\* Every variable keeps its type, whatever runs and updates overlap.
THEOREM BudgetTypeCorrect == Spec => []TypeOK
<1>1. IInv => TypeOK
  BY DEF IInv
<1>. QED  BY <1>1, InitEstablishesIInv, StepKeepsIInv, PTL DEF Spec

\* The gate of agent.run lets a scope pass its limit by less than one run's
\* cost for each run that can be in flight, however the awaits of the gate,
\* the charges, the policy updates and the change of the day interleave.
THEOREM OvershootIsBounded == Spec => []OvershootBounded
<1>1. IInv => OvershootBounded
  BY DEF IInv, OvershootBounded
<1>. QED  BY <1>1, InitEstablishesIInv, StepKeepsIInv, PTL DEF Spec
-----------------------------------------------------------------------------
(* Runs that are over the budget when they are requested.  What makes them *)
(* so stays true up to the step that refuses them: usage only grows within *)
(* a day, and a change of the policy takes the runs at the gate off the    *)
(* list.                                                                   *)

BarredInv ==
    \A r \in barred :
        /\ pc[r] \notin {"running", "charging", "replying"}
        /\ pc[r] = "gating" => Exceeded(policy[scope[r]], scope[r])
        /\ pc[r] = "weighing" => Exceeded(seen[r], scope[r])

LEMMA ExceededStays ==
    ASSUME TypeOK, TypeOK', [Next]_vars, today' = today, NEW s \in Scopes
    PROVE  \A p \in Policies : Exceeded(p, s) =>
              p.hard /\ (\/ Reached(p.daily, used'[s][today'])
                         \/ Reached(p.monthly, spent'[s][MonthOf[today']]))
<1>1. /\ used[s][today] \in Nat /\ spent[s][MonthOf[today]] \in Nat
      /\ used'[s][today] \in Nat /\ spent'[s][MonthOf[today]] \in Nat
  <2>1. today \in Days /\ MonthOf[today] \in Months
    <3>1. today \in Days
      BY DEF TypeOK
    <3>. QED  BY <3>1, CalendarTyped
  <2>2. used[s][today] \in Nat /\ spent[s][MonthOf[today]] \in Nat
    BY <2>1 DEF TypeOK
  <2>3. used' \in [Scopes -> [Days -> Nat]] /\ spent' \in [Scopes -> [Months -> Nat]]
    BY DEF TypeOK
  <2>4. used'[s][today] \in Nat
    BY <2>1, <2>3
  <2>5. spent'[s][MonthOf[today]] \in Nat
    BY <2>1, <2>3
  <2>. QED  BY <2>2, <2>4, <2>5
<1>2. used'[s][today] >= used[s][today] /\ spent'[s][MonthOf[today]] >= spent[s][MonthOf[today]]
  <2>1. CASE UNCHANGED <<used, spent>>
    BY <1>1, <2>1
  <2>2. ASSUME NEW r \in Runs, ChargeRun(r)
        PROVE  used'[s][today] >= used[s][today] /\ spent'[s][MonthOf[today]] >= spent[s][MonthOf[today]]
    <3>1. /\ scope[r] \in Scopes /\ cost[r] \in Nat /\ today \in Days /\ MonthOf[today] \in Months
          /\ used' = [used EXCEPT ![scope[r]][today] = @ + cost[r]]
          /\ spent' = [spent EXCEPT ![scope[r]][MonthOf[today]] = @ + cost[r]]
      BY <2>2, CalendarTyped DEF ChargeRun, TypeOK, Calls
    <3>2. CASE s = scope[r]
      <4>1. used'[s][today] = used[s][today] + cost[r]
        BY <3>1, <3>2 DEF TypeOK
      <4>2. spent'[s][MonthOf[today]] = spent[s][MonthOf[today]] + cost[r]
        BY <3>1, <3>2 DEF TypeOK
      <4>. QED  BY <1>1, <3>1, <4>1, <4>2
    <3>3. CASE s # scope[r]
      <4>1. used'[s] = used[s] /\ spent'[s] = spent[s]
        BY <3>1, <3>3 DEF TypeOK
      <4>. QED  BY <1>1, <4>1
    <3>. QED  BY <3>2, <3>3
  <2>3. UNCHANGED <<used, spent>> \/ \E r \in Runs : ChargeRun(r)
    BY DEF Next, vars, repoVars, RunStep, StartRun, ReadPolicy, WeighUsage, CountRejection, LogRejection,
           EndTurn, ReplyToRun, StartUpdate, WriteUpdate, Midnight, Fail
  <2>. QED  BY <2>1, <2>2, <2>3
<1>3. ASSUME NEW l \in MaybeLimits, NEW m \in Nat, NEW n \in Nat, m <= n, Reached(l, m)
      PROVE  Reached(l, n)
  BY <1>3 DEF Reached, MaybeLimits
<1>. QED  BY <1>1, <1>2, <1>3 DEF Exceeded, Policies

\* A run whose place, scope and policy read stay as they are.
LEMMA WaiterStaysBarred ==
    ASSUME TypeOK, TypeOK', [Next]_vars, BarredInv, today' = today, NEW q \in barred,
           pc'[q] = pc[q], scope'[q] = scope[q], seen'[q] = seen[q],
           pc[q] = "gating" => policy'[scope[q]] = policy[scope[q]]
    PROVE  /\ pc'[q] \notin {"running", "charging", "replying"}
           /\ pc'[q] = "gating" => Exceeded(policy[scope[q]], scope[q])'
           /\ pc'[q] = "weighing" => Exceeded(seen[q], scope[q])'
<1>1. q \in Runs /\ scope[q] \in Scopes /\ policy[scope[q]] \in Policies /\ seen[q] \in Policies
  BY DEF TypeOK, Calls
<1>2. pc[q] = "gating" => Exceeded(policy[scope[q]], scope[q])'
  <2>1. ASSUME pc[q] = "gating"
        PROVE  Exceeded(policy[scope[q]], scope[q])'
    <3>1. Exceeded(policy[scope[q]], scope[q])
      BY <2>1 DEF BarredInv
    <3>. QED  BY <1>1, <2>1, <3>1, ExceededStays DEF Exceeded
  <2>. QED  BY <2>1
<1>3. pc[q] = "weighing" => Exceeded(seen[q], scope[q])'
  <2>1. ASSUME pc[q] = "weighing"
        PROVE  Exceeded(seen[q], scope[q])'
    <3>1. Exceeded(seen[q], scope[q])
      BY <2>1 DEF BarredInv
    <3>. QED  BY <1>1, <3>1, ExceededStays DEF Exceeded
  <2>. QED  BY <2>1
<1>. QED  BY <1>2, <1>3 DEF BarredInv

LEMMA StepKeepsBarred ==
    ASSUME TypeOK, TypeOK', [Next]_vars, BarredInv
    PROVE  BarredInv'
<1> SUFFICES ASSUME NEW q \in barred'
             PROVE  /\ pc'[q] \notin {"running", "charging", "replying"}
                    /\ pc'[q] = "gating" => Exceeded(policy[scope[q]], scope[q])'
                    /\ pc'[q] = "weighing" => Exceeded(seen[q], scope[q])'
  BY DEF BarredInv
<1>0. q \in Runs /\ q \in Calls /\ q \notin Admins
  BY DEF TypeOK, Calls
<1>1. ASSUME NEW r \in Runs, NEW s \in Scopes, StartRun(r, s)
      PROVE  /\ pc'[q] \notin {"running", "charging", "replying"}
             /\ pc'[q] = "gating" => Exceeded(policy[scope[q]], scope[q])'
             /\ pc'[q] = "weighing" => Exceeded(seen[q], scope[q])'
  <2>1. UNCHANGED <<seen, policy, used, spent, today>> /\ r \in Calls
    BY <1>1 DEF StartRun, repoVars, Calls
  <2>2. CASE q = r
    <3>1. pc'[q] = "gating" /\ scope'[q] = s
      BY <1>1, <2>1, <2>2 DEF StartRun, Go, TypeOK
    <3>2. Exceeded(policy[s], s)
      BY <1>1, <2>2 DEF StartRun
    <3>. QED  BY <2>1, <3>1, <3>2 DEF Exceeded
  <2>3. CASE q # r
    <3>1. q \in barred /\ pc'[q] = pc[q] /\ scope'[q] = scope[q]
      BY <1>0, <1>1, <2>3 DEF StartRun, Go, TypeOK
    <3>. QED  BY <2>1, <3>1, WaiterStaysBarred
  <2>. QED  BY <2>2, <2>3
<1>2. ASSUME NEW r \in Runs, ReadPolicy(r)
      PROVE  /\ pc'[q] \notin {"running", "charging", "replying"}
             /\ pc'[q] = "gating" => Exceeded(policy[scope[q]], scope[q])'
             /\ pc'[q] = "weighing" => Exceeded(seen[q], scope[q])'
  <2>1. UNCHANGED <<scope, policy, used, spent, today, barred>> /\ r \in Calls /\ pc[r] = "gating"
    BY <1>2 DEF ReadPolicy, repoVars, Calls, historyVars
  <2>2. CASE q = r
    <3>1. pc'[q] = "weighing" /\ seen'[q] = policy[scope[q]]
      BY <1>2, <2>1, <2>2 DEF ReadPolicy, Go, TypeOK
    <3>2. Exceeded(policy[scope[q]], scope[q])
      BY <2>1, <2>2 DEF BarredInv
    <3>. QED  BY <2>1, <3>1, <3>2 DEF Exceeded
  <2>3. CASE q # r
    <3>1. pc'[q] = pc[q] /\ seen'[q] = seen[q]
      BY <1>0, <1>2, <2>3 DEF ReadPolicy, Go, TypeOK
    <3>. QED  BY <2>1, <3>1, WaiterStaysBarred
  <2>. QED  BY <2>2, <2>3
<1>3. ASSUME NEW r \in Runs, WeighUsage(r)
      PROVE  /\ pc'[q] \notin {"running", "charging", "replying"}
             /\ pc'[q] = "gating" => Exceeded(policy[scope[q]], scope[q])'
             /\ pc'[q] = "weighing" => Exceeded(seen[q], scope[q])'
  <2>1. UNCHANGED <<scope, policy, today, barred>> /\ r \in Calls /\ pc[r] = "weighing"
    BY <1>3 DEF WeighUsage, repoVars, Calls, historyVars
  <2>2. CASE q = r
    <3>1. Exceeded(seen[r], scope[r])
      BY <2>1, <2>2 DEF BarredInv
    <3>2. pc'[q] = "counting"
      BY <1>3, <2>1, <2>2, <3>1 DEF WeighUsage, Go, TypeOK
    <3>. QED  BY <3>2
  <2>3. CASE q # r
    <3>1. pc'[q] = pc[q] /\ seen'[q] = seen[q]
      BY <1>0, <1>3, <2>3 DEF WeighUsage, Go, Forget, TypeOK
    <3>. QED  BY <2>1, <3>1, WaiterStaysBarred
  <2>. QED  BY <2>2, <2>3
<1>4. ASSUME NEW r \in Runs,
             CountRejection(r) \/ LogRejection(r) \/ EndTurn(r) \/ ChargeRun(r) \/ ReplyToRun(r)
      PROVE  /\ pc'[q] \notin {"running", "charging", "replying"}
             /\ pc'[q] = "gating" => Exceeded(policy[scope[q]], scope[q])'
             /\ pc'[q] = "weighing" => Exceeded(seen[q], scope[q])'
  <2>1. /\ UNCHANGED <<scope, seen, policy, today, barred>> /\ r \in Calls
        /\ pc[r] \in {"counting", "logging", "running", "charging", "replying"}
        /\ pc[r] \in {"running", "charging", "replying"} \/ pc' = [pc EXCEPT ![r] = "logging"]
             \/ pc' = [pc EXCEPT ![r] = "idle"]
        /\ \A x \in Calls : x # r => pc'[x] = pc[x]
    BY <1>4 DEF CountRejection, LogRejection, EndTurn, ChargeRun, ReplyToRun, Go, TypeOK,
                requestVars, repoVars, Calls, historyVars
  <2>2. CASE q = r
    <3>1. pc[r] \notin {"running", "charging", "replying"}
      BY <2>1, <2>2 DEF BarredInv
    <3>2. pc'[q] \in {"logging", "idle"}
      BY <2>1, <2>2, <3>1 DEF TypeOK
    <3>. QED  BY <3>2
  <2>3. CASE q # r
    <3>1. pc'[q] = pc[q]
      BY <1>0, <2>1, <2>3
    <3>. QED  BY <2>1, <3>1, WaiterStaysBarred
  <2>. QED  BY <2>2, <2>3
<1>5. ASSUME NEW a \in Admins, NEW s \in Scopes, StartUpdate(a, s)
      PROVE  /\ pc'[q] \notin {"running", "charging", "replying"}
             /\ pc'[q] = "gating" => Exceeded(policy[scope[q]], scope[q])'
             /\ pc'[q] = "weighing" => Exceeded(seen[q], scope[q])'
  <2>1. UNCHANGED <<policy, today, barred>>
        /\ pc'[q] = pc[q] /\ scope'[q] = scope[q] /\ seen'[q] = seen[q]
    BY <1>0, <1>5 DEF StartUpdate, Go, TypeOK, repoVars, historyVars
  <2>. QED  BY <2>1, WaiterStaysBarred
<1>6. ASSUME NEW a \in Admins, WriteUpdate(a)
      PROVE  /\ pc'[q] \notin {"running", "charging", "replying"}
             /\ pc'[q] = "gating" => Exceeded(policy[scope[q]], scope[q])'
             /\ pc'[q] = "weighing" => Exceeded(seen[q], scope[q])'
  <2>1. PICK fields \in Patches, values \in Policies :
          /\ policy' = [policy EXCEPT ![scope[a]] = Patch(seen[a], fields, values)]
          /\ barred' = barred \ Waiting(scope[a])
    BY <1>6 DEF WriteUpdate
  <2>2. UNCHANGED <<scope, today>> /\ pc'[q] = pc[q] /\ seen'[q] = seen[q] /\ q \in barred
    <3>1. q \in barred /\ q # a
      BY <1>0, <2>1
    <3>. QED  BY <1>0, <1>6, <3>1 DEF WriteUpdate, Go, Forget, TypeOK
  <2>3. pc[q] = "gating" => scope[q] # scope[a]
    BY <1>0, <2>1 DEF Waiting
  <2>4. pc[q] = "gating" => policy'[scope[q]] = policy[scope[q]]
    BY <1>0, <2>1, <2>3 DEF TypeOK
  <2>. QED  BY <2>2, <2>4, WaiterStaysBarred
<1>7. ASSUME NEW x \in Calls, Fail(x)
      PROVE  /\ pc'[q] \notin {"running", "charging", "replying"}
             /\ pc'[q] = "gating" => Exceeded(policy[scope[q]], scope[q])'
             /\ pc'[q] = "weighing" => Exceeded(seen[q], scope[q])'
  <2>1. UNCHANGED <<scope, seen, policy, today, barred>>
        /\ (pc'[q] = pc[q] \/ pc'[q] = "idle")
    BY <1>0, <1>7 DEF Fail, Go, TypeOK, requestVars, repoVars, historyVars
  <2>. QED  BY <2>1, WaiterStaysBarred
<1>8. CASE Midnight
  BY <1>8 DEF Midnight
<1>9. CASE UNCHANGED vars
  BY <1>9, WaiterStaysBarred DEF vars, requestVars, repoVars, historyVars
<1>. QED  BY <1>1, <1>2, <1>3, <1>4, <1>5, <1>6, <1>7, <1>8, <1>9 DEF Next, RunStep

\* A run that is requested over the budget gets no turn before the policy
\* changes or the day ends, although policy and usage are read in two awaits.
THEOREM BarredGetNoTurn == Spec => []BarredAreRefused
<1>1. Init => TypeOK /\ BarredInv
  BY InitTyped DEF Init, BarredInv
<1>2. TypeOK /\ BarredInv /\ [Next]_vars => TypeOK' /\ BarredInv'
  BY StepKeepsTypes, StepKeepsBarred
<1>3. BarredInv => BarredAreRefused
  BY DEF BarredInv, BarredAreRefused
<1>. QED  BY <1>1, <1>2, <1>3, PTL DEF Spec
-----------------------------------------------------------------------------
(* Refusals: between the counter and the audit log stand at most the runs  *)
(* that have been counted and are not logged yet, and those that failed    *)
(* there.                                                                  *)

Logging(s) == {r \in Runs : pc[r] = "logging" /\ scope[r] = s}

TracedInv ==
    \A s \in Scopes : /\ refusals[s] <= audited[s]
                      /\ audited[s] + Cardinality(Logging(s)) <= rejected[s]

LEMMA LoggingCounted ==
    ASSUME NEW s
    PROVE  IsFiniteSet(Logging(s)) /\ Cardinality(Logging(s)) \in Nat
<1>1. Logging(s) \in SUBSET Runs
  BY DEF Logging
<1>. QED  BY <1>1, FS_Subset, FS_CardinalityType

LEMMA QuietStepKeepsTraces ==
    ASSUME TypeOK, TracedInv, UNCHANGED <<refusals, audited, rejected>>,
           \A s \in Scopes : Logging(s)' \subseteq Logging(s)
    PROVE  TracedInv'
<1> SUFFICES ASSUME NEW s \in Scopes
             PROVE  /\ refusals[s] <= audited[s]
                    /\ audited[s] + Cardinality(Logging(s)') <= rejected[s]
  BY DEF TracedInv
<1>1. /\ Cardinality(Logging(s)') \in Nat /\ Cardinality(Logging(s)) \in Nat
      /\ Cardinality(Logging(s)') <= Cardinality(Logging(s))
  BY LoggingCounted, FS_Subset, FS_CardinalityType
<1>2. audited[s] \in Nat /\ rejected[s] \in Nat
  BY DEF TypeOK
<1>. QED  BY <1>1, <1>2 DEF TracedInv

LEMMA StepKeepsTraces ==
    ASSUME TypeOK, TypeOK', [Next]_vars, TracedInv
    PROVE  TracedInv'
<1>1. ASSUME NEW r \in Runs, CountRejection(r)
      PROVE  TracedInv'
  <2>1. /\ UNCHANGED <<scope, refusals, audited>> /\ pc[r] = "counting" /\ r \in Calls
        /\ scope[r] \in Scopes
        /\ pc' = [pc EXCEPT ![r] = "logging"] /\ rejected' = [rejected EXCEPT ![scope[r]] = @ + 1]
    BY <1>1 DEF CountRejection, Go, Add, Calls, TypeOK, requestVars, historyVars
  <2> SUFFICES ASSUME NEW s \in Scopes
               PROVE  /\ refusals[s] <= audited[s]
                      /\ audited[s] + Cardinality(Logging(s)') <= rejected'[s]
    BY <2>1 DEF TracedInv
  <2>2. /\ audited[s] \in Nat /\ rejected[s] \in Nat /\ refusals[s] <= audited[s]
        /\ audited[s] + Cardinality(Logging(s)) <= rejected[s]
    BY DEF TypeOK, TracedInv
  <2>3. CASE s = scope[r]
    <3>1. r \notin Logging(s) /\ Logging(s)' = Logging(s) \cup {r}
      BY <2>1, <2>3 DEF Logging, TypeOK
    <3>2. Cardinality(Logging(s)') = Cardinality(Logging(s)) + 1
      BY <3>1, LoggingCounted, FS_AddElement
    <3>3. rejected'[s] = rejected[s] + 1
      BY <2>1, <2>3 DEF TypeOK
    <3>. QED  BY <2>2, <3>2, <3>3, LoggingCounted
  <2>4. CASE s # scope[r]
    <3>1. Logging(s)' = Logging(s) /\ rejected'[s] = rejected[s]
      BY <2>1, <2>4 DEF Logging, TypeOK
    <3>. QED  BY <2>2, <3>1
  <2>. QED  BY <2>3, <2>4
<1>2. ASSUME NEW r \in Runs, LogRejection(r)
      PROVE  TracedInv'
  <2>1. /\ UNCHANGED <<scope, rejected>> /\ pc[r] = "logging" /\ r \in Calls
        /\ scope[r] \in Scopes /\ pc' = [pc EXCEPT ![r] = "idle"]
        /\ audited' = [audited EXCEPT ![scope[r]] = @ + 1]
        /\ refusals' = [refusals EXCEPT ![scope[r]] = @ + 1]
    BY <1>2 DEF LogRejection, Go, Add, Calls, TypeOK, requestVars
  <2> SUFFICES ASSUME NEW s \in Scopes
               PROVE  /\ refusals'[s] <= audited'[s]
                      /\ audited'[s] + Cardinality(Logging(s)') <= rejected[s]
    BY <2>1 DEF TracedInv
  <2>2. /\ audited[s] \in Nat /\ rejected[s] \in Nat /\ refusals[s] \in Nat
        /\ refusals[s] <= audited[s]
        /\ audited[s] + Cardinality(Logging(s)) <= rejected[s]
    BY DEF TypeOK, TracedInv
  <2>3. CASE s = scope[r]
    <3>1. r \in Logging(s) /\ Logging(s)' = Logging(s) \ {r}
      BY <2>1, <2>3 DEF Logging, TypeOK
    <3>2. Cardinality(Logging(s)') = Cardinality(Logging(s)) - 1
      BY <3>1, LoggingCounted, FS_RemoveElement
    <3>3. audited'[s] = audited[s] + 1 /\ refusals'[s] = refusals[s] + 1
      BY <2>1, <2>3 DEF TypeOK
    <3>. QED  BY <2>2, <3>2, <3>3, LoggingCounted
  <2>4. CASE s # scope[r]
    <3>1. Logging(s)' = Logging(s) /\ audited'[s] = audited[s] /\ refusals'[s] = refusals[s]
      BY <2>1, <2>4 DEF Logging, TypeOK
    <3>. QED  BY <2>2, <3>1
  <2>. QED  BY <2>3, <2>4
<1>3. ASSUME NEW r \in Runs, NEW s \in Scopes, StartRun(r, s)
      PROVE  TracedInv'
  <2>1. UNCHANGED <<refusals, audited, rejected>>
    BY <1>3 DEF StartRun, repoVars
  <2>2. \A z \in Scopes : Logging(z)' \subseteq Logging(z)
    BY <1>3 DEF StartRun, Go, Logging, TypeOK, Calls
  <2>. QED  BY <2>1, <2>2, QuietStepKeepsTraces
<1>4. ASSUME NEW r \in Runs,
             ReadPolicy(r) \/ WeighUsage(r) \/ EndTurn(r) \/ ChargeRun(r) \/ ReplyToRun(r)
      PROVE  TracedInv'
  <2>1. UNCHANGED <<scope, refusals, audited, rejected>>
    BY <1>4 DEF ReadPolicy, WeighUsage, EndTurn, ChargeRun, ReplyToRun, requestVars, repoVars, historyVars
  <2>2. pc'[r] # "logging" /\ \A x \in Calls : x # r => pc'[x] = pc[x]
    BY <1>4 DEF ReadPolicy, WeighUsage, EndTurn, ChargeRun, ReplyToRun, Go, TypeOK, Calls
  <2>3. \A z \in Scopes : Logging(z)' \subseteq Logging(z)
    BY <2>1, <2>2 DEF Logging, Calls
  <2>. QED  BY <2>1, <2>3, QuietStepKeepsTraces
<1>5. ASSUME NEW a \in Admins, (\E s \in Scopes : StartUpdate(a, s)) \/ WriteUpdate(a)
      PROVE  TracedInv'
  <2>1. UNCHANGED <<refusals, audited, rejected>>
    BY <1>5 DEF StartUpdate, WriteUpdate, repoVars, historyVars
  <2>2. \A x \in Runs : pc'[x] = pc[x] /\ scope'[x] = scope[x]
    BY <1>5 DEF StartUpdate, WriteUpdate, Go, TypeOK, Calls, requestVars
  <2>3. \A z \in Scopes : Logging(z)' \subseteq Logging(z)
    BY <2>2 DEF Logging
  <2>. QED  BY <2>1, <2>3, QuietStepKeepsTraces
<1>6. ASSUME NEW x \in Calls, Fail(x)
      PROVE  TracedInv'
  <2>1. UNCHANGED <<scope, refusals, audited, rejected>>
    BY <1>6 DEF Fail, requestVars, repoVars, historyVars
  <2>2. \A y \in Calls : pc'[y] = pc[y] \/ pc'[y] = "idle"
    BY <1>6 DEF Fail, Go, TypeOK
  <2>3. \A z \in Scopes : Logging(z)' \subseteq Logging(z)
    BY <2>1, <2>2 DEF Logging, Calls
  <2>. QED  BY <2>1, <2>3, QuietStepKeepsTraces
<1>7. CASE Midnight \/ UNCHANGED vars
  <2>1. UNCHANGED <<pc, scope, refusals, audited, rejected>>
    BY <1>7 DEF Midnight, vars, requestVars, repoVars, historyVars
  <2>. QED  BY <2>1, QuietStepKeepsTraces DEF Logging
<1>. QED  BY <1>1, <1>2, <1>3, <1>4, <1>5, <1>6, <1>7 DEF Next, RunStep

\* Every refusal a client sees is in the audit log, and the log has no more
\* entries than were counted, for any number of overlapping and failing runs.
THEOREM RefusalsLeaveTraces == Spec => []RefusalsAreTraced
<1>1. Init => TypeOK /\ TracedInv
  <2>1. ASSUME Init
        PROVE  TypeOK /\ TracedInv
    <3>1. \A s \in Scopes : Logging(s) = {}
      BY <2>1 DEF Init, Logging, Calls
    <3>2. \A s \in Scopes : refusals[s] = 0 /\ audited[s] = 0 /\ rejected[s] = 0
      BY <2>1 DEF Init
    <3>3. \A s \in Scopes : Cardinality(Logging(s)) = 0
      BY <3>1, FS_EmptySet
    <3>. QED  BY <2>1, <3>2, <3>3, InitTyped DEF TracedInv
  <2>. QED  BY <2>1
<1>2. TypeOK /\ TracedInv /\ [Next]_vars => TypeOK' /\ TracedInv'
  BY StepKeepsTypes, StepKeepsTraces
<1>3. TypeOK /\ TracedInv => RefusalsAreTraced
  <2>1. ASSUME TypeOK, TracedInv, NEW s \in Scopes
        PROVE  refusals[s] <= audited[s] /\ audited[s] <= rejected[s]
    <3>1. /\ audited[s] \in Nat /\ rejected[s] \in Nat
          /\ refusals[s] <= audited[s] /\ audited[s] + Cardinality(Logging(s)) <= rejected[s]
      BY <2>1 DEF TypeOK, TracedInv
    <3>. QED  BY <3>1, LoggingCounted
  <2>. QED  BY <2>1 DEF RefusalsAreTraced
<1>. QED  BY <1>1, <1>2, <1>3, PTL DEF Spec
-----------------------------------------------------------------------------
(* The bill.  Between the tokens of the answered runs and the bill stand   *)
(* the charged runs that are not answered; between the bill and the tokens *)
(* of the ended turns the runs that are not charged.  Runs that fail there *)
(* make the inequalities strict.                                           *)

\* The tokens of the runs of s at a step.
Parked(step, s) == [r \in Runs |-> IF pc[r] = step /\ scope[r] = s THEN cost[r] ELSE 0]

BillInv ==
    \A s \in Scopes :
        /\ answered[s] + Total(Parked("replying", s)) <= Total(spent[s])
        /\ Total(spent[s]) + Total(Parked("charging", s)) <= worked[s]

LEMMA ParkedTyped ==
    ASSUME TypeOK, NEW step, NEW s
    PROVE  Parked(step, s) \in [Runs -> Nat] /\ Total(Parked(step, s)) \in Nat
<1>1. Parked(step, s) \in [Runs -> Nat]
  BY DEF Parked, TypeOK
<1>. QED  BY <1>1, TotalTyped

LEMMA ParkedTypedNext ==
    ASSUME TypeOK', NEW step, NEW s
    PROVE  Parked(step, s)' \in [Runs -> Nat] /\ Total(Parked(step, s)') \in Nat
<1>1. Parked(step, s)' \in [Runs -> Nat]
  <2>1. \A q \in Runs : (IF pc'[q] = step /\ scope'[q] = s THEN cost'[q] ELSE 0) \in Nat
    BY DEF TypeOK
  <2>. QED  BY <2>1 DEF Parked
<1>. QED  BY <1>1, TotalTyped

\* The calendar ends: the bill of a scope is a sum over its months.
FiniteCalendar == IsFiniteSet(Months)

LEMMA BillTyped ==
    ASSUME FiniteCalendar, TypeOK, NEW s \in Scopes
    PROVE  /\ spent[s] \in [Months -> Nat] /\ Total(spent[s]) \in Nat
           /\ answered[s] \in Nat /\ worked[s] \in Nat
<1>1. spent[s] \in [Months -> Nat] /\ answered[s] \in Nat /\ worked[s] \in Nat
  BY DEF TypeOK
<1>. QED  BY <1>1, TotalTyped DEF FiniteCalendar

\* What one run contributes is all that a step of this run changes.
LEMMA ParkedChange ==
    ASSUME TypeOK, TypeOK', NEW r \in Runs, NEW step, NEW s,
           \A q \in Runs : q # r => pc'[q] = pc[q] /\ scope'[q] = scope[q] /\ cost'[q] = cost[q]
    PROVE  Total(Parked(step, s)') + Parked(step, s)[r] = Total(Parked(step, s)) + Parked(step, s)'[r]
<1> DEFINE P == Parked(step, s)
           Q == Parked(step, s)'
<1>1. P \in [Runs -> Nat]
  BY ParkedTyped
<1>2. Q \in [Runs -> Nat]
  BY ParkedTypedNext
<1>3. \A q \in Runs : q # r => Q[q] = P[q]
  BY DEF Parked
<1> HIDE DEF P, Q
<1>4. Total(Q) + P[r] = Total(P) + Q[r]
  BY <1>1, <1>2, <1>3, TotalOfChange
<1>. QED  BY <1>4 DEF P, Q

\* A run that moves between steps at which its cost is not parked, or leaves
\* them without paying.
LEMMA RunLeavesBill ==
    ASSUME FiniteCalendar, TypeOK, TypeOK', BillInv, UNCHANGED <<spent, answered, worked>>,
           NEW r \in Runs, pc'[r] \notin {"charging", "replying"},
           \A q \in Runs : q # r => pc'[q] = pc[q] /\ scope'[q] = scope[q] /\ cost'[q] = cost[q]
    PROVE  BillInv'
<1> SUFFICES ASSUME NEW s \in Scopes
             PROVE  /\ answered[s] + Total(Parked("replying", s)') <= Total(spent[s])
                    /\ Total(spent[s]) + Total(Parked("charging", s)') <= worked[s]
  BY DEF BillInv
<1>1. ASSUME NEW step \in {"charging", "replying"}
      PROVE  /\ Total(Parked(step, s)') \in Nat /\ Total(Parked(step, s)) \in Nat
             /\ Total(Parked(step, s)') <= Total(Parked(step, s))
  <2>1. Total(Parked(step, s)') + Parked(step, s)[r] = Total(Parked(step, s)) + Parked(step, s)'[r]
    BY ParkedChange
  <2>2. Parked(step, s)'[r] = 0
    BY <1>1 DEF Parked
  <2>2a. Parked(step, s)[r] \in Nat
    BY ParkedTyped
  <2>3. Total(Parked(step, s)) \in Nat
    BY ParkedTyped
  <2>4. Total(Parked(step, s)') \in Nat
    BY ParkedTypedNext
  <2>. QED  BY <2>1, <2>2, <2>2a, <2>3, <2>4
<1>2. /\ Total(spent[s]) \in Nat /\ answered[s] \in Nat /\ worked[s] \in Nat
      /\ answered[s] + Total(Parked("replying", s)) <= Total(spent[s])
      /\ Total(spent[s]) + Total(Parked("charging", s)) <= worked[s]
  BY BillTyped DEF BillInv
<1>. QED  BY <1>1, <1>2

\* A step that moves no run.
LEMMA OtherStepKeepsBill ==
    ASSUME BillInv, UNCHANGED <<spent, answered, worked>>,
           \A q \in Runs : pc'[q] = pc[q] /\ scope'[q] = scope[q] /\ cost'[q] = cost[q]
    PROVE  BillInv'
<1>1. \A step, s : Parked(step, s)' = Parked(step, s)
  BY DEF Parked
<1>. QED  BY <1>1 DEF BillInv

LEMMA EndTurnKeepsBill ==
    ASSUME FiniteCalendar, TypeOK, TypeOK', BillInv, NEW r \in Runs, EndTurn(r)
    PROVE  BillInv'
<1>1. PICK n \in 1..MaxCost : cost' = [cost EXCEPT ![r] = n] /\ worked' = Add(worked, scope[r], n)
  BY DEF EndTurn
<1>2. /\ UNCHANGED <<scope, spent, answered>> /\ pc[r] = "running" /\ pc'[r] = "charging"
      /\ scope[r] \in Scopes /\ cost'[r] = n
      /\ \A q \in Runs : q # r => pc'[q] = pc[q] /\ scope'[q] = scope[q] /\ cost'[q] = cost[q]
  BY <1>1 DEF EndTurn, Go, repoVars, TypeOK, Calls
<1> SUFFICES ASSUME NEW s \in Scopes
             PROVE  /\ answered[s] + Total(Parked("replying", s)') <= Total(spent[s])
                    /\ Total(spent[s]) + Total(Parked("charging", s)') <= worked'[s]
  BY <1>2 DEF BillInv
<1>3. /\ Total(spent[s]) \in Nat /\ answered[s] \in Nat /\ worked[s] \in Nat
      /\ answered[s] + Total(Parked("replying", s)) <= Total(spent[s])
      /\ Total(spent[s]) + Total(Parked("charging", s)) <= worked[s]
  BY BillTyped DEF BillInv
<1>4. /\ Total(Parked("replying", s)') \in Nat /\ Total(Parked("charging", s)') \in Nat
      /\ Total(Parked("replying", s)) \in Nat /\ Total(Parked("charging", s)) \in Nat
  BY ParkedTyped, ParkedTypedNext
<1>5. /\ Parked("replying", s)[r] = 0 /\ Parked("replying", s)'[r] = 0
      /\ Parked("charging", s)[r] = 0
      /\ Parked("charging", s)'[r] = IF s = scope[r] THEN n ELSE 0
  BY <1>2 DEF Parked
<1>6. Total(Parked("replying", s)') + Parked("replying", s)[r]
        = Total(Parked("replying", s)) + Parked("replying", s)'[r]
  BY <1>2, ParkedChange
<1>7. Total(Parked("charging", s)') + Parked("charging", s)[r]
        = Total(Parked("charging", s)) + Parked("charging", s)'[r]
  BY <1>2, ParkedChange
<1>8. worked'[s] = IF s = scope[r] THEN worked[s] + n ELSE worked[s]
  BY <1>1, <1>2 DEF Add, TypeOK
<1>. QED  BY <1>3, <1>4, <1>5, <1>6, <1>7, <1>8

LEMMA ChargeKeepsBill ==
    ASSUME FiniteCalendar, TypeOK, TypeOK', BillInv, NEW r \in Runs, ChargeRun(r)
    PROVE  BillInv'
<1>1. /\ UNCHANGED <<scope, cost, worked, answered>> /\ pc[r] = "charging" /\ pc'[r] = "replying"
      /\ scope[r] \in Scopes /\ cost[r] \in Nat
      /\ \A q \in Runs : q # r => pc'[q] = pc[q] /\ scope'[q] = scope[q] /\ cost'[q] = cost[q]
      /\ spent' = [spent EXCEPT ![scope[r]][MonthOf[today]] = @ + cost[r]]
      /\ today \in Days /\ MonthOf[today] \in Months
  BY CalendarTyped DEF ChargeRun, Go, requestVars, historyVars, TypeOK, Calls
<1> SUFFICES ASSUME NEW s \in Scopes
             PROVE  /\ answered[s] + Total(Parked("replying", s)') <= Total(spent'[s])
                    /\ Total(spent'[s]) + Total(Parked("charging", s)') <= worked[s]
  BY <1>1 DEF BillInv
<1>2. /\ Total(spent[s]) \in Nat /\ answered[s] \in Nat /\ worked[s] \in Nat
      /\ spent[s] \in [Months -> Nat]
      /\ answered[s] + Total(Parked("replying", s)) <= Total(spent[s])
      /\ Total(spent[s]) + Total(Parked("charging", s)) <= worked[s]
  BY BillTyped DEF BillInv
<1>3. /\ Total(Parked("replying", s)') \in Nat /\ Total(Parked("charging", s)') \in Nat
      /\ Total(Parked("replying", s)) \in Nat /\ Total(Parked("charging", s)) \in Nat
  BY ParkedTyped, ParkedTypedNext
<1>4. Total(Parked("replying", s)') + Parked("replying", s)[r]
        = Total(Parked("replying", s)) + Parked("replying", s)'[r]
  BY <1>1, ParkedChange
<1>5. Total(Parked("charging", s)') + Parked("charging", s)[r]
        = Total(Parked("charging", s)) + Parked("charging", s)'[r]
  BY <1>1, ParkedChange
<1>6. CASE s = scope[r]
  <2>1. /\ Parked("replying", s)[r] = 0 /\ Parked("replying", s)'[r] = cost[r]
        /\ Parked("charging", s)[r] = cost[r] /\ Parked("charging", s)'[r] = 0
    BY <1>1, <1>6 DEF Parked
  <2>2. Total(spent'[s]) = Total(spent[s]) + cost[r]
    <3>1. spent'[s] \in [Months -> Nat]
      BY DEF TypeOK
    <3>2. /\ \A m \in Months : m # MonthOf[today] => spent'[s][m] = spent[s][m]
          /\ spent'[s][MonthOf[today]] = spent[s][MonthOf[today]] + cost[r]
      BY <1>1, <1>2, <1>6 DEF TypeOK
    <3>3. Total(spent'[s]) + spent[s][MonthOf[today]] = Total(spent[s]) + spent'[s][MonthOf[today]]
      BY <1>1, <1>2, <3>1, <3>2, TotalOfChange DEF FiniteCalendar
    <3>4. Total(spent'[s]) \in Nat /\ spent[s][MonthOf[today]] \in Nat
      BY <1>1, <1>2, <3>1, TotalTyped DEF FiniteCalendar
    <3>. QED  BY <1>1, <1>2, <3>2, <3>3, <3>4
  <2>. QED  BY <1>1, <1>2, <1>3, <1>4, <1>5, <2>1, <2>2
<1>7. CASE s # scope[r]
  <2>1. /\ Parked("replying", s)[r] = 0 /\ Parked("replying", s)'[r] = 0
        /\ Parked("charging", s)[r] = 0 /\ Parked("charging", s)'[r] = 0
    BY <1>1, <1>7 DEF Parked
  <2>2. spent'[s] = spent[s]
    BY <1>1, <1>7 DEF TypeOK
  <2>. QED  BY <1>2, <1>3, <1>4, <1>5, <2>1, <2>2
<1>. QED  BY <1>6, <1>7

LEMMA ReplyKeepsBill ==
    ASSUME FiniteCalendar, TypeOK, TypeOK', BillInv, NEW r \in Runs, ReplyToRun(r)
    PROVE  BillInv'
<1>1. /\ UNCHANGED <<scope, cost, worked, spent>> /\ pc[r] = "replying" /\ pc'[r] = "idle"
      /\ scope[r] \in Scopes /\ cost[r] \in Nat
      /\ \A q \in Runs : q # r => pc'[q] = pc[q] /\ scope'[q] = scope[q] /\ cost'[q] = cost[q]
      /\ answered' = [answered EXCEPT ![scope[r]] = @ + cost[r]]
  BY DEF ReplyToRun, Go, Add, requestVars, repoVars, TypeOK, Calls
<1> SUFFICES ASSUME NEW s \in Scopes
             PROVE  /\ answered'[s] + Total(Parked("replying", s)') <= Total(spent[s])
                    /\ Total(spent[s]) + Total(Parked("charging", s)') <= worked[s]
  BY <1>1 DEF BillInv
<1>2. /\ Total(spent[s]) \in Nat /\ answered[s] \in Nat /\ worked[s] \in Nat
      /\ answered[s] + Total(Parked("replying", s)) <= Total(spent[s])
      /\ Total(spent[s]) + Total(Parked("charging", s)) <= worked[s]
  BY BillTyped DEF BillInv
<1>3. /\ Total(Parked("replying", s)') \in Nat /\ Total(Parked("charging", s)') \in Nat
      /\ Total(Parked("replying", s)) \in Nat /\ Total(Parked("charging", s)) \in Nat
  BY ParkedTyped, ParkedTypedNext
<1>4. Total(Parked("replying", s)') + Parked("replying", s)[r]
        = Total(Parked("replying", s)) + Parked("replying", s)'[r]
  BY <1>1, ParkedChange
<1>5. Total(Parked("charging", s)') + Parked("charging", s)[r]
        = Total(Parked("charging", s)) + Parked("charging", s)'[r]
  BY <1>1, ParkedChange
<1>6. /\ Parked("replying", s)[r] = (IF s = scope[r] THEN cost[r] ELSE 0)
      /\ Parked("replying", s)'[r] = 0
      /\ Parked("charging", s)[r] = 0 /\ Parked("charging", s)'[r] = 0
  BY <1>1 DEF Parked
<1>7. answered'[s] = IF s = scope[r] THEN answered[s] + cost[r] ELSE answered[s]
  BY <1>1 DEF TypeOK
<1>. QED  BY <1>1, <1>2, <1>3, <1>4, <1>5, <1>6, <1>7

LEMMA StepKeepsBill ==
    ASSUME FiniteCalendar, TypeOK, TypeOK', [Next]_vars, BillInv
    PROVE  BillInv'
<1>1. ASSUME NEW r \in Runs, NEW s \in Scopes, StartRun(r, s)
      PROVE  BillInv'
  <2>1. /\ UNCHANGED <<spent, answered, worked>> /\ pc'[r] = "gating"
        /\ \A q \in Runs : q # r => pc'[q] = pc[q] /\ scope'[q] = scope[q] /\ cost'[q] = cost[q]
    BY <1>1 DEF StartRun, Go, repoVars, TypeOK, Calls
  <2>. QED  BY <2>1, RunLeavesBill
<1>2. ASSUME NEW r \in Runs, ReadPolicy(r) \/ WeighUsage(r) \/ CountRejection(r) \/ LogRejection(r)
      PROVE  BillInv'
  <2>1. UNCHANGED <<spent, answered, worked, scope, cost>>
    BY <1>2 DEF ReadPolicy, WeighUsage, CountRejection, LogRejection, requestVars, repoVars, historyVars
  <2>2. /\ pc'[r] \notin {"charging", "replying"}
        /\ \A q \in Runs : q # r => pc'[q] = pc[q]
    BY <1>2 DEF ReadPolicy, WeighUsage, CountRejection, LogRejection, Go, TypeOK, Calls
  <2>. QED  BY <2>1, <2>2, RunLeavesBill
<1>3. ASSUME NEW a \in Admins, (\E s \in Scopes : StartUpdate(a, s)) \/ WriteUpdate(a)
      PROVE  BillInv'
  <2>1. UNCHANGED <<spent, answered, worked, cost>>
    BY <1>3 DEF StartUpdate, WriteUpdate, requestVars, repoVars, historyVars
  <2>2. \A q \in Runs : pc'[q] = pc[q] /\ scope'[q] = scope[q]
    BY <1>3 DEF StartUpdate, WriteUpdate, Go, TypeOK, Calls, requestVars
  <2>. QED  BY <2>1, <2>2, OtherStepKeepsBill
<1>4. ASSUME NEW x \in Calls, Fail(x)
      PROVE  BillInv'
  <2>1. /\ UNCHANGED <<spent, answered, worked, scope, cost>> /\ pc'[x] = "idle"
        /\ \A y \in Calls : y # x => pc'[y] = pc[y]
    BY <1>4 DEF Fail, Go, TypeOK, requestVars, repoVars, historyVars
  <2>2. CASE x \in Runs
    BY <2>1, <2>2, RunLeavesBill DEF Calls
  <2>3. CASE x \notin Runs
    BY <2>1, <2>3, OtherStepKeepsBill DEF Calls
  <2>. QED  BY <2>2, <2>3
<1>5. CASE Midnight \/ UNCHANGED vars
  <2>1. UNCHANGED <<pc, scope, cost, spent, answered, worked>>
    BY <1>5 DEF Midnight, vars, requestVars, repoVars, historyVars
  <2>. QED  BY <2>1, OtherStepKeepsBill
<1>. QED  BY <1>1, <1>2, <1>3, <1>4, <1>5, EndTurnKeepsBill, ChargeKeepsBill, ReplyKeepsBill
          DEF Next, RunStep

LEMMA InitBill ==
    ASSUME FiniteCalendar, Init
    PROVE  BillInv
<1> SUFFICES ASSUME NEW s \in Scopes
             PROVE  /\ answered[s] + Total(Parked("replying", s)) <= Total(spent[s])
                    /\ Total(spent[s]) + Total(Parked("charging", s)) <= worked[s]
  BY DEF BillInv
<1>1. answered[s] = 0 /\ worked[s] = 0 /\ spent[s] = [m \in Months |-> 0]
  BY DEF Init
<1>2. \A step \in {"charging", "replying"} : Parked(step, s) = [r \in Runs |-> 0]
  BY DEF Init, Parked, Calls
<1>3. Total([m \in Months |-> 0]) = 0 /\ Total([r \in Runs |-> 0]) = 0
  BY TotalOfZeros DEF FiniteCalendar
<1>. QED  BY <1>1, <1>2, <1>3

\* For any number of runs that overlap, end together or fail at any await,
\* over any finite calendar: the bill holds every answered run and nothing no
\* turn has used, and no refusal is missing from the books.
THEOREM BooksStayExact ==
    ASSUME FiniteCalendar
    PROVE  Spec => []BooksAreExact
<1>1. Init => TypeOK /\ BillInv
  BY InitTyped, InitBill
<1>2. TypeOK /\ BillInv /\ [Next]_vars => TypeOK' /\ BillInv'
  BY StepKeepsTypes, StepKeepsBill
<1>3. TypeOK /\ BillInv => BillingIsExact
  <2> SUFFICES ASSUME TypeOK, BillInv, NEW s \in Scopes
               PROVE  answered[s] <= Total(spent[s]) /\ Total(spent[s]) <= worked[s]
    BY DEF BillingIsExact, Total
  <2>1. /\ Total(spent[s]) \in Nat /\ answered[s] \in Nat /\ worked[s] \in Nat
        /\ answered[s] + Total(Parked("replying", s)) <= Total(spent[s])
        /\ Total(spent[s]) + Total(Parked("charging", s)) <= worked[s]
    BY BillTyped DEF BillInv
  <2>2. Total(Parked("replying", s)) \in Nat /\ Total(Parked("charging", s)) \in Nat
    BY ParkedTyped
  <2>. QED  BY <2>1, <2>2
<1>4. Spec => []BillingIsExact
  BY <1>1, <1>2, <1>3, PTL DEF Spec
<1>5. BillingIsExact /\ RefusalsAreTraced => BooksAreExact
  BY DEF BooksAreExact
<1>. QED  BY <1>4, <1>5, RefusalsLeaveTraces, PTL
-----------------------------------------------------------------------------
(* Policy updates.  What an administrator has read is stale only in fields *)
(* that are contested: a write that finds it under way marks them.         *)

CopiesAreCurrent ==
    \A b \in Admins, f \in Fields :
        pc[b] = "writing" /\ <<scope[b], f>> \notin contested => seen[b][f] = asked[scope[b]][f]

LEMMA PatchField ==
    ASSUME NEW p, NEW fields, NEW values, NEW f \in Fields
    PROVE  Patch(p, fields, values)[f] = IF f \in fields THEN values[f] ELSE p[f]
<1>1. CASE f = "daily"
  BY <1>1 DEF Patch
<1>2. CASE f = "monthly"
  BY <1>2 DEF Patch
<1>3. CASE f = "hard"
  BY <1>3 DEF Patch
<1>. QED  BY <1>1, <1>2, <1>3 DEF Fields

\* What a write leaves uncontested it has written alone or not at all.
LEMMA WriteKeepsPatches ==
    ASSUME TypeOK, PatchesSurvive, CopiesAreCurrent, NEW a \in Admins, WriteUpdate(a)
    PROVE  PatchesSurvive' /\ CopiesAreCurrent'
<1>1. PICK fields \in Patches, values \in Policies :
        /\ policy' = [policy EXCEPT ![scope[a]] = Patch(seen[a], fields, values)]
        /\ asked' = [asked EXCEPT ![scope[a]] = Patch(@, fields, values)]
        /\ contested' = Contest(a, {scope[a]} \X fields)
  BY DEF WriteUpdate
<1>2. /\ scope' = scope /\ pc[a] = "writing" /\ scope[a] \in Scopes /\ a \in Calls
      /\ pc'[a] = "idle"
      /\ \A b \in Admins : b # a => pc'[b] = pc[b] /\ seen'[b] = seen[b]
  BY DEF WriteUpdate, Go, Forget, TypeOK, Calls
<1>3. ASSUME NEW s \in Scopes, s # scope[a]
      PROVE  /\ policy'[s] = policy[s] /\ asked'[s] = asked[s]
             /\ \A f \in Fields : <<s, f>> \in contested' <=> <<s, f>> \in contested
  BY <1>1, <1>2, <1>3 DEF Contest, TypeOK
<1>4. ASSUME NEW f \in Fields
      PROVE  /\ policy'[scope[a]][f] = IF f \in fields THEN values[f] ELSE seen[a][f]
             /\ asked'[scope[a]][f] = IF f \in fields THEN values[f] ELSE asked[scope[a]][f]
  BY <1>1, <1>2, PatchField DEF TypeOK
<1>5. ASSUME NEW f \in Fields, <<scope[a], f>> \notin contested', f \notin fields
      PROVE  <<scope[a], f>> \notin contested
  BY <1>1, <1>5 DEF Contest
<1>6. ASSUME NEW b \in Admins, b # a, pc[b] = "writing", scope[b] = scope[a], NEW f \in Fields,
             <<scope[a], f>> \notin contested'
      PROVE  f \notin fields
  BY <1>1, <1>6 DEF Contest
<1>7. PatchesSurvive'
  <2> SUFFICES ASSUME NEW s \in Scopes, NEW f \in Fields, <<s, f>> \notin contested'
               PROVE  policy'[s][f] = asked'[s][f]
    BY DEF PatchesSurvive
  <2>1. CASE s # scope[a]
    BY <1>3, <2>1 DEF PatchesSurvive
  <2>2. CASE s = scope[a] /\ f \in fields
    BY <1>4, <2>2
  <2>3. CASE s = scope[a] /\ f \notin fields
    BY <1>2, <1>4, <1>5, <2>3 DEF CopiesAreCurrent
  <2>. QED  BY <2>1, <2>2, <2>3
<1>8. CopiesAreCurrent'
  <2> SUFFICES ASSUME NEW b \in Admins, NEW f \in Fields, pc'[b] = "writing",
                      <<scope[b], f>> \notin contested'
               PROVE  seen'[b][f] = asked'[scope[b]][f]
    BY <1>2 DEF CopiesAreCurrent
  <2>1. b # a /\ pc[b] = "writing" /\ seen'[b] = seen[b] /\ scope[b] \in Scopes
    BY <1>2 DEF TypeOK, Calls
  <2>2. CASE scope[b] # scope[a]
    BY <1>3, <2>1, <2>2 DEF CopiesAreCurrent
  <2>3. CASE scope[b] = scope[a]
    BY <1>4, <1>5, <1>6, <2>1, <2>3 DEF CopiesAreCurrent
  <2>. QED  BY <2>2, <2>3
<1>. QED  BY <1>7, <1>8

LEMMA StepKeepsPatches ==
    ASSUME TypeOK, PatchesSurvive, CopiesAreCurrent, [Next]_vars
    PROVE  PatchesSurvive' /\ CopiesAreCurrent'
<1>0. Runs \cap Admins = {}
  BY BudgetAssumption
<1>1. ASSUME NEW r \in Runs, (\E s \in Scopes : StartRun(r, s)) \/ RunStep(r)
      PROVE  PatchesSurvive' /\ CopiesAreCurrent'
  <2>1. UNCHANGED <<policy, asked, contested>>
    BY <1>1 DEF StartRun, RunStep, ReadPolicy, WeighUsage, CountRejection, LogRejection, EndTurn,
                ChargeRun, ReplyToRun, repoVars, historyVars
  <2>2. \A a \in Admins : pc'[a] = pc[a] /\ seen'[a] = seen[a] /\ scope'[a] = scope[a]
    <3>1. \A a \in Admins : a # r /\ a \in Calls
      BY <1>0 DEF Calls
    <3>. QED  BY <1>1, <3>1 DEF StartRun, RunStep, ReadPolicy, WeighUsage, CountRejection,
                LogRejection, EndTurn, ChargeRun, ReplyToRun, requestVars, Go, Forget, TypeOK
  <2>. QED  BY <2>1, <2>2 DEF PatchesSurvive, CopiesAreCurrent
<1>2. ASSUME NEW a \in Admins, NEW s \in Scopes, StartUpdate(a, s)
      PROVE  PatchesSurvive' /\ CopiesAreCurrent'
  <2>1. UNCHANGED <<policy, asked, contested>> /\ seen'[a] = policy[s] /\ scope'[a] = s
    BY <1>2 DEF StartUpdate, repoVars, historyVars, TypeOK, Calls
  <2>2. \A b \in Admins : b # a => pc'[b] = pc[b] /\ seen'[b] = seen[b] /\ scope'[b] = scope[b]
    BY <1>2 DEF StartUpdate, Go, TypeOK, Calls
  <2>. QED  BY <2>1, <2>2 DEF PatchesSurvive, CopiesAreCurrent
<1>3. ASSUME NEW a \in Admins, WriteUpdate(a)
      PROVE  PatchesSurvive' /\ CopiesAreCurrent'
  BY <1>3, WriteKeepsPatches
<1>4. ASSUME NEW x \in Calls, Fail(x)
      PROVE  PatchesSurvive' /\ CopiesAreCurrent'
  <2>1. UNCHANGED <<policy, asked, contested, seen, scope>>
    BY <1>4 DEF Fail, repoVars, requestVars, historyVars
  <2>2. \A a \in Admins : pc'[a] = pc[a] \/ pc'[a] = "idle"
    BY <1>4 DEF Fail, Go, TypeOK, Calls
  <2>. QED  BY <2>1, <2>2 DEF PatchesSurvive, CopiesAreCurrent
<1>5. CASE Midnight \/ UNCHANGED vars
  BY <1>5 DEF Midnight, vars, requestVars, repoVars, historyVars, PatchesSurvive, CopiesAreCurrent
<1>. QED  BY <1>1, <1>2, <1>3, <1>4, <1>5 DEF Next

\* Whichever administrators update a scope at once, and whichever of them fail,
\* a field that was written while no other update stood between its read and
\* its write keeps the value written, until it is written again.
THEOREM PatchesAreKept == Spec => []PatchesSurvive
<1>1. Init => TypeOK /\ PatchesSurvive /\ CopiesAreCurrent
  <2> SUFFICES ASSUME Init PROVE PatchesSurvive /\ CopiesAreCurrent
    BY InitTyped
  <2>1. policy = asked /\ \A x \in Admins : pc[x] # "writing"
    BY DEF Init, Calls
  <2>. QED  BY <2>1 DEF PatchesSurvive, CopiesAreCurrent
<1>2. TypeOK /\ PatchesSurvive /\ CopiesAreCurrent /\ [Next]_vars
        => TypeOK' /\ PatchesSurvive' /\ CopiesAreCurrent'
  BY StepKeepsTypes, StepKeepsPatches
<1>. QED  BY <1>1, <1>2, PTL DEF Spec
=============================================================================
