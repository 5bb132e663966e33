----------------------------- MODULE DataProofs -----------------------------
(***************************************************************************)
(* Facts about natural numbers and about sums over finite sets that the    *)
(* proofs of several components rest on.  The sum of the community modules *)
(* is a recursive function that picks the elements one after the other;    *)
(* what is shown is that the order does not matter.                        *)
(*                                                                         *)
(* Inductions are on a least counterexample, which exists because strict   *)
(* inclusion between finite sets is well-founded.                          *)
(***************************************************************************)
EXTENDS FiniteSetsExt, FiniteSetTheorems, TLAPS

\* A set of natural numbers that is not empty has a least one.
LEMMA LeastNumber ==
    ASSUME NEW S, S \subseteq Nat, S # {}
    PROVE  \E n \in S : \A m \in S : n <= m
  <1> DEFINE below == {1..n : n \in S}
  <1>1. below \subseteq FiniteSubsetsOf(Nat) /\ below # {}
    <2>1. ASSUME NEW n \in S PROVE 1..n \in FiniteSubsetsOf(Nat)
      <3>1. n \in Int /\ 1..n \subseteq Nat
        OBVIOUS
      <3>2. IsFiniteSet(1..n)
        BY <3>1, FS_Interval
      <3> QED BY <3>1, <3>2 DEF FiniteSubsetsOf
    <2> QED BY <2>1
  <1>2. IsWellFoundedOn(StrictSubsetOrdering(Nat), FiniteSubsetsOf(Nat))
    BY FS_StrictSubsetOrderingWellFounded
  <1> HIDE DEF below
  <1>3. PICK x \in below : \A y \in below : <<y, x>> \notin StrictSubsetOrdering(Nat)
    BY <1>1, <1>2, WFMin
  <1>4. PICK n \in S : x = 1..n
    BY DEF below
  <1>5. ASSUME NEW m \in S, m < n PROVE FALSE
    <2>1. 1..m \in below
      BY DEF below
    <2>2. 1..m \subseteq 1..n /\ n \in 1..n /\ n \notin 1..m /\ 1..n \subseteq Nat
      BY <1>5
    <2> QED BY <1>3, <1>4, <2>1, <2>2 DEF StrictSubsetOrdering
  <1> QED BY <1>5

\* Of the finite sets in a set of sets, one has the fewest elements.
LEMMA SmallestSet ==
    ASSUME NEW S, IsFiniteSet(S), NEW T, T \subseteq SUBSET S, T # {}
    PROVE  \E s \in T : \A t \in SUBSET S : Cardinality(t) < Cardinality(s) => t \notin T
  <1> DEFINE sizes == {Cardinality(s) : s \in T}
  <1>1. \A s \in SUBSET S : Cardinality(s) \in Nat
    BY FS_Subset, FS_CardinalityType
  <1>2. sizes \subseteq Nat /\ sizes # {}
    BY <1>1
  <1> HIDE DEF sizes
  <1>3. PICK n \in sizes : \A m \in sizes : n <= m
    BY <1>2, LeastNumber
  <1>4. PICK s \in T : n = Cardinality(s)
    BY DEF sizes
  <1>5. ASSUME NEW t \in SUBSET S, Cardinality(t) < Cardinality(s), t \in T PROVE FALSE
    <2>1. Cardinality(t) \in sizes
      BY <1>5 DEF sizes
    <2> QED BY <1>1, <1>3, <1>4, <1>5, <2>1
  <1> QED BY <1>5

\* A finite set of numbers that is not empty has a greatest one.
LEMMA GreatestNumber ==
    ASSUME NEW S, IsFiniteSet(S), S \subseteq Nat, S # {}
    PROVE  \E n \in S : \A m \in S : m <= n
  <1> DEFINE tops(s) == {n \in s : \A m \in s : m <= n}
             bad == {s \in SUBSET S : s # {} /\ tops(s) = {}}
  <1>1. SUFFICES ASSUME bad # {} PROVE FALSE
    OBVIOUS
  <1>2. bad \subseteq SUBSET S
    OBVIOUS
  <1>3. PICK s \in bad : \A t \in SUBSET S : Cardinality(t) < Cardinality(s) => t \notin bad
    <2> HIDE DEF bad
    <2> QED BY <1>1, <1>2, SmallestSet
  <1>4. PICK x \in s : TRUE
    OBVIOUS
  <1>5. PICK t : t = s \ {x}
    OBVIOUS
  <1>6. /\ IsFiniteSet(s) /\ Cardinality(t) < Cardinality(s) /\ t \in SUBSET S
        /\ x \in Nat /\ t \subseteq Nat
    <2>1. IsFiniteSet(s)
      BY FS_Subset
    <2>2. Cardinality(t) = Cardinality(s) - 1 /\ Cardinality(s) \in Nat
      BY <1>5, <2>1, FS_RemoveElement, FS_CardinalityType
    <2> QED BY <1>5, <2>1, <2>2
  <1>7. t \notin bad
    BY <1>3, <1>6
  <1>8. CASE t = {}
    <2>1. x \in tops(s)
      BY <1>5, <1>6, <1>8
    <2> QED BY <2>1
  <1>9. CASE t # {}
    <2>1. PICK n \in t : \A m \in t : m <= n
      BY <1>6, <1>7, <1>9
    <2>2. CASE n <= x
      <3>1. x \in tops(s)
        BY <1>5, <1>6, <2>1, <2>2
      <3> QED BY <3>1
    <2>3. CASE x < n
      <3>1. n \in tops(s)
        BY <1>5, <1>6, <2>1, <2>3
      <3> QED BY <3>1
    <2> QED BY <1>6, <2>1, <2>2, <2>3
  <1> QED BY <1>8, <1>9

\* The least and the greatest of a set of numbers, where there are any.
LEMMA LeastIs ==
    ASSUME NEW S, S \subseteq Int, NEW n \in S, \A m \in S : n <= m
    PROVE  Min(S) = n
  <1>1. PICK k : k = Min(S)
    OBVIOUS
  <1>2. k \in S /\ \A m \in S : k <= m
    BY <1>1 DEF Min
  <1>3. k \in Int /\ n \in Int /\ k <= n /\ n <= k
    BY <1>2
  <1> QED BY <1>1, <1>3

\* The same for the greatest.
LEMMA GreatestIs ==
    ASSUME NEW S, S \subseteq Int, NEW n \in S, \A m \in S : m <= n
    PROVE  Max(S) = n
  <1>1. PICK k : k = Max(S)
    OBVIOUS
  <1>2. k \in S /\ \A m \in S : k >= m
    BY <1>1 DEF Max
  <1>3. k \in Int /\ n \in Int /\ k <= n /\ n <= k
    BY <1>2
  <1> QED BY <1>1, <1>3

\* A series has a first day and a last.
LEMMA FirstAndLast ==
    ASSUME NEW S, IsFiniteSet(S), S \subseteq Nat, S # {}
    PROVE  /\ Min(S) \in S /\ Max(S) \in S /\ Min(S) \in Nat /\ Max(S) \in Nat
           /\ \A d \in S : Min(S) <= d /\ d <= Max(S)
  <1>1. PICK n \in S : \A m \in S : n <= m
    BY LeastNumber
  <1>2. PICK k \in S : \A m \in S : m <= k
    BY GreatestNumber
  <1>0. S \subseteq Int
    OBVIOUS
  <1>3. Min(S) = n
    BY <1>0, <1>1, LeastIs
  <1>4. Max(S) = k
    BY <1>0, <1>2, GreatestIs
  <1> QED BY <1>1, <1>2, <1>3, <1>4

\* Whole division.
LEMMA Division ==
    ASSUME NEW a \in Nat, NEW b \in Nat \ {0}, NEW q, q = a \div b
    PROVE  q \in Nat /\ q * b <= a /\ a < q * b + b
  BY SMT

\* Multiples of a number are in the order of their factors.
LEMMA Multiples ==
    ASSUME NEW i \in Nat, NEW k \in Nat, NEW s \in Nat, i <= k
    PROVE  i * s <= k * s /\ (i < k => i * s + s <= k * s) /\ i * s \in Nat
  <1>1. PICK e \in Nat : k = i + e
    <2>1. k - i \in Nat /\ k = i + (k - i)
      OBVIOUS
    <2> QED BY <2>1
  <1>2. k * s = i * s + e * s /\ i * s \in Nat /\ e * s \in Nat
    BY <1>1, SMT
  <1>3. e # 0 => e * s >= s
    <2>1. ASSUME e # 0 PROVE \E f \in Nat : e = f + 1
      <3>1. e - 1 \in Nat /\ e = (e - 1) + 1
        BY <2>1
      <3> QED BY <3>1
    <2>2. ASSUME NEW f \in Nat, e = f + 1 PROVE e * s >= s
      <3>1. e * s = f * s + s /\ f * s \in Nat
        BY <2>2, SMT
      <3> QED BY <3>1
    <2> QED BY <2>1, <2>2
  <1> QED BY <1>1, <1>2, <1>3

-----------------------------------------------------------------------------
Pick(s) == CHOOSE x \in s : TRUE

\* g sums f over the subsets of S, taking the elements in some order
Sums(g, f, S) ==
    g = [s \in SUBSET S |-> IF s = {} THEN 0 ELSE f[Pick(s)] + g[s \ {Pick(s)}]]

SumOn(f, S) == (CHOOSE g : Sums(g, f, S))[S]

\* What is left when an element is picked is smaller.
LEMMA PickedAway ==
    ASSUME NEW S, IsFiniteSet(S), NEW s \in SUBSET S, s # {}
    PROVE  /\ Pick(s) \in s
           /\ \A x \in s : /\ s \ {x} \in SUBSET S
                           /\ Cardinality(s \ {x}) = Cardinality(s) - 1
           /\ Cardinality(s) \in Nat \ {0}
  <1>1. Pick(s) \in s
    BY DEF Pick
  <1>2. IsFiniteSet(s) /\ Cardinality(s) \in Nat
    BY FS_Subset, FS_CardinalityType
  <1>3. Cardinality(s) # 0
    BY <1>2, FS_EmptySet
  <1>4. \A x \in s : Cardinality(s \ {x}) = Cardinality(s) - 1
    BY <1>2, FS_RemoveElement
  <1> QED BY <1>1, <1>2, <1>3, <1>4

\* There is such a g: it is right for larger and larger subsets.
LEMMA SumsExist ==
    ASSUME NEW S, IsFiniteSet(S), NEW f, \A x \in S : f[x] \in Int
    PROVE  \E g \in [SUBSET S -> Int] : Sums(g, f, S)
  <1> DEFINE Step(g, s) == IF s = {} THEN 0 ELSE f[Pick(s)] + g[s \ {Pick(s)}]
             UpTo(n) == \E g \in [SUBSET S -> Int] :
                           \A s \in SUBSET S : Cardinality(s) <= n => g[s] = Step(g, s)
             Bad == {n \in Nat : ~UpTo(n)}
  <1>1. ASSUME NEW g \in [SUBSET S -> Int], NEW s \in SUBSET S PROVE Step(g, s) \in Int
    <2>1. CASE s = {}
      BY <2>1
    <2>2. CASE s # {}
      BY <1>1, <2>2, PickedAway
    <2> QED BY <2>1, <2>2
  <1>2. UpTo(0)
    <2> DEFINE g == [s \in SUBSET S |-> 0]
    <2>1. \A s \in SUBSET S : Cardinality(s) <= 0 => s = {}
      BY PickedAway
    <2>2. \A s \in SUBSET S : Cardinality(s) <= 0 => g[s] = Step(g, s)
      BY <2>1
    <2>3. g \in [SUBSET S -> Int]
      OBVIOUS
    <2> HIDE DEF g
    <2> QED BY <2>2, <2>3
  <1>3. ASSUME NEW n \in Nat, UpTo(n) PROVE UpTo(n + 1)
    <2>1. PICK g \in [SUBSET S -> Int] :
             \A s \in SUBSET S : Cardinality(s) <= n => g[s] = Step(g, s)
      BY <1>3
    <2> DEFINE h == [s \in SUBSET S |-> Step(g, s)]
    <2>2. h \in [SUBSET S -> Int]
      BY <1>1
    <2>3. ASSUME NEW s \in SUBSET S, Cardinality(s) <= n + 1 PROVE h[s] = Step(h, s)
      <3>1. CASE s = {}
        BY <3>1
      <3>2. CASE s # {}
        <4>1. /\ s \ {Pick(s)} \in SUBSET S /\ Cardinality(s) \in Nat
              /\ Cardinality(s \ {Pick(s)}) = Cardinality(s) - 1
          BY <3>2, PickedAway
        <4>2. Cardinality(s \ {Pick(s)}) <= n
          BY <2>3, <4>1
        <4>3. h[s \ {Pick(s)}] = g[s \ {Pick(s)}]
          BY <2>1, <4>1, <4>2
        <4> QED BY <3>2, <4>3
      <3> QED BY <3>1, <3>2
    <2> HIDE DEF h
    <2> QED BY <2>2, <2>3
  <1>4. Bad = {}
    <2> SUFFICES ASSUME Bad # {} PROVE FALSE
      OBVIOUS
    <2> HIDE DEF UpTo
    <2>1. PICK n \in Bad : \A m \in Bad : n <= m
      <3>1. Bad \subseteq Nat
        OBVIOUS
      <3> HIDE DEF Bad
      <3> QED BY <3>1, LeastNumber
    <2>2. n \in Nat /\ ~UpTo(n) /\ n # 0
      BY <1>2
    <2>3. n - 1 \in Nat /\ n - 1 \notin Bad
      BY <2>1, <2>2
    <2>4. UpTo(n - 1)
      BY <2>3
    <2>5. UpTo(n - 1 + 1)
      BY <1>3, <2>3, <2>4
    <2> QED BY <2>2, <2>5
  <1>5. Cardinality(S) \in Nat /\ \A s \in SUBSET S : Cardinality(s) <= Cardinality(S)
    BY FS_Subset, FS_CardinalityType
  <1>6. UpTo(Cardinality(S))
    <2> HIDE DEF UpTo
    <2> QED BY <1>4, <1>5
  <1>7. PICK g \in [SUBSET S -> Int] : \A s \in SUBSET S : g[s] = Step(g, s)
    BY <1>5, <1>6
  <1>8. g = [s \in SUBSET S |-> Step(g, s)]
    BY <1>7
  <1> QED BY <1>8 DEF Sums

\* Whichever element is taken first, the sum is that element and the rest.
LEMMA AnyFirst ==
    ASSUME NEW S, IsFiniteSet(S), NEW f, \A x \in S : f[x] \in Int, NEW g, Sums(g, f, S)
    PROVE  /\ g[{}] = 0
           /\ \A s \in SUBSET S :
                 g[s] \in Int /\ \A x \in s : g[s] = f[x] + g[s \ {x}]
  <1> DEFINE Good(s) == g[s] \in Int /\ \A x \in s : g[s] = f[x] + g[s \ {x}]
             Bad == {s \in SUBSET S : ~Good(s)}
  <1>1. \A s \in SUBSET S : g[s] = IF s = {} THEN 0 ELSE f[Pick(s)] + g[s \ {Pick(s)}]
    BY DEF Sums
  <1>2. g[{}] = 0
    BY <1>1
  <1>3. ASSUME NEW s \in SUBSET S,
               \A t \in SUBSET S : Cardinality(t) < Cardinality(s) => Good(t)
        PROVE  Good(s)
    <2>1. CASE s = {}
      BY <1>2, <2>1
    <2>2. CASE s # {}
      <3> DEFINE y == Pick(s)
      <3>1. /\ y \in s /\ Cardinality(s) \in Nat
            /\ \A x \in s : s \ {x} \in SUBSET S /\ Cardinality(s \ {x}) < Cardinality(s)
        BY <2>2, PickedAway
      <3>2. g[s] = f[y] + g[s \ {y}]
        BY <1>1, <2>2
      <3> HIDE DEF y
      <3>3. \A x \in s : Good(s \ {x})
        BY <1>3, <3>1
      <3>4. f[y] \in Int /\ g[s \ {y}] \in Int
        BY <3>1, <3>3
      <3>5. ASSUME NEW x \in s PROVE g[s] = f[x] + g[s \ {x}]
        <4>1. CASE x = y
          BY <3>2, <4>1
        <4>2. CASE x # y
          <5>1. g[s \ {y}] = f[x] + g[(s \ {y}) \ {x}]
            BY <3>1, <3>3, <4>2
          <5>2. g[s \ {x}] = f[y] + g[(s \ {x}) \ {y}]
            BY <3>1, <3>3, <4>2
          <5>3. (s \ {y}) \ {x} = (s \ {x}) \ {y}
            OBVIOUS
          <5>4. Cardinality((s \ {x}) \ {y}) < Cardinality(s)
            <6>1. s \ {x} \in SUBSET S /\ s \ {x} # {} /\ y \in s \ {x}
              BY <3>1, <4>2
            <6>2. /\ Cardinality((s \ {x}) \ {y}) = Cardinality(s \ {x}) - 1
                  /\ Cardinality(s \ {x}) \in Nat
              BY <6>1, PickedAway
            <6>3. Cardinality(s \ {x}) < Cardinality(s)
              BY <3>1
            <6> QED BY <3>1, <6>2, <6>3
          <5>5. g[(s \ {x}) \ {y}] \in Int
            BY <1>3, <5>4
          <5>6. PICK c \in Int : c = g[(s \ {x}) \ {y}]
            BY <5>5
          <5>7. PICK a \in Int, b \in Int : a = f[x] /\ b = f[y]
            BY <3>4
          <5>8. g[s \ {y}] = a + c /\ g[s \ {x}] = b + c
            BY <5>1, <5>2, <5>3, <5>6, <5>7
          <5>9. g[s] = b + (a + c)
            BY <3>2, <5>7, <5>8
          <5>10. b + (a + c) = a + (b + c)
            OBVIOUS
          <5> QED BY <5>7, <5>8, <5>9, <5>10
        <4> QED BY <4>1, <4>2
      <3>6. g[s] \in Int
        <4>1. PICK a \in Int, b \in Int : a = f[y] /\ b = g[s \ {y}]
          BY <3>4
        <4>2. g[s] = a + b
          BY <3>2, <4>1
        <4> QED BY <4>2
      <3> QED BY <3>5, <3>6
    <2> QED BY <2>1, <2>2
  <1> HIDE DEF Good
  <1>4. Bad = {}
    <2> SUFFICES ASSUME Bad # {} PROVE FALSE
      OBVIOUS
    <2>1. PICK s \in Bad : \A t \in SUBSET S : Cardinality(t) < Cardinality(s) => t \notin Bad
      <3>1. Bad \subseteq SUBSET S
        OBVIOUS
      <3> HIDE DEF Bad
      <3> QED BY <3>1, SmallestSet
    <2>2. \A t \in SUBSET S : Cardinality(t) < Cardinality(s) => Good(t)
      BY <2>1
    <2> QED BY <1>3, <2>2
  <1>5. \A s \in SUBSET S : Good(s)
    BY <1>4
  <1> QED BY <1>2, <1>5 DEF Good

\* Two such sums agree where their functions do, in whichever set they are taken.
LEMMA SumsAgree ==
    ASSUME NEW S, IsFiniteSet(S), NEW T, IsFiniteSet(T), S \subseteq T,
           NEW f, \A x \in S : f[x] \in Int,
           NEW h, \A x \in T : h[x] \in Int, \A x \in S : f[x] = h[x],
           NEW g, Sums(g, f, S), NEW k, Sums(k, h, T)
    PROVE  g[S] = k[S]
  <1> DEFINE Bad == {s \in SUBSET S : g[s] # k[s]}
  <1>1. /\ \A s \in SUBSET S : s = {} \/ g[s] = f[Pick(s)] + g[s \ {Pick(s)}]
        /\ \A s \in SUBSET T : s = {} \/ k[s] = h[Pick(s)] + k[s \ {Pick(s)}]
        /\ g[{}] = 0 /\ k[{}] = 0
    BY DEF Sums
  <1>2. ASSUME NEW s \in SUBSET S,
               \A t \in SUBSET S : Cardinality(t) < Cardinality(s) => g[t] = k[t]
        PROVE  g[s] = k[s]
    <2>1. CASE s = {}
      BY <1>1, <2>1
    <2>2. CASE s # {}
      <3>1. /\ Pick(s) \in s /\ s \ {Pick(s)} \in SUBSET S
            /\ Cardinality(s \ {Pick(s)}) < Cardinality(s)
        BY <2>2, PickedAway
      <3>2. g[s \ {Pick(s)}] = k[s \ {Pick(s)}] /\ f[Pick(s)] = h[Pick(s)]
        BY <1>2, <3>1
      <3>3. s \in SUBSET T
        OBVIOUS
      <3> QED BY <1>1, <2>2, <3>2, <3>3
    <2> QED BY <2>1, <2>2
  <1>3. Bad = {}
    <2> SUFFICES ASSUME Bad # {} PROVE FALSE
      OBVIOUS
    <2>1. PICK s \in Bad : \A t \in SUBSET S : Cardinality(t) < Cardinality(s) => t \notin Bad
      <3>1. Bad \subseteq SUBSET S
        OBVIOUS
      <3> HIDE DEF Bad
      <3> QED BY <3>1, SmallestSet
    <2>2. \A t \in SUBSET S : Cardinality(t) < Cardinality(s) => g[t] = k[t]
      BY <2>1
    <2> QED BY <1>2, <2>2
  <1> QED BY <1>3

\* A sum over a finite set is a whole number, the empty sum is zero, and an
\* element that joins the set adds its own value.
LEMMA SumFacts ==
    ASSUME NEW S, IsFiniteSet(S), NEW f, \A x \in S : f[x] \in Int
    PROVE  /\ SumOn(f, S) \in Int
           /\ SumOn(f, {}) = 0
           /\ \A x \in S : SumOn(f, S) = f[x] + SumOn(f, S \ {x})
  <1>1. ASSUME NEW s \in SUBSET S PROVE Sums(CHOOSE g : Sums(g, f, s), f, s)
    <2>1. IsFiniteSet(s)
      BY FS_Subset
    <2>2. \E g : Sums(g, f, s)
      BY <2>1, SumsExist
    <2> QED BY <2>2
  <1>2. PICK k : k = (CHOOSE g : Sums(g, f, S)) /\ Sums(k, f, S)
    BY <1>1
  <1>3. ASSUME NEW s \in SUBSET S PROVE SumOn(f, s) = k[s]
    <2>1. PICK g : g = (CHOOSE a : Sums(a, f, s)) /\ Sums(g, f, s)
      BY <1>1
    <2>2. IsFiniteSet(s)
      BY FS_Subset
    <2>3. g[s] = k[s]
      BY <1>2, <2>1, <2>2, SumsAgree
    <2> QED BY <2>1, <2>3 DEF SumOn
  <1>4. /\ k[{}] = 0 /\ k[S] \in Int
        /\ \A x \in S : k[S] = f[x] + k[S \ {x}]
    <2>1. S \in SUBSET S
      OBVIOUS
    <2>2. \A s \in SUBSET S : k[s] \in Int /\ \A x \in s : k[s] = f[x] + k[s \ {x}]
      <3>1. Sums(k, f, S)
        BY <1>2
      <3>2. ASSUME NEW s \in SUBSET S PROVE k[s] \in Int
        BY <3>1, AnyFirst
      <3>3. ASSUME NEW s \in SUBSET S, NEW x \in s PROVE k[s] = f[x] + k[s \ {x}]
        BY <3>1, AnyFirst
      <3> QED BY <3>2, <3>3
    <2>3. k[{}] = 0
      BY <1>2, AnyFirst
    <2> QED BY <2>1, <2>2, <2>3
  <1> QED BY <1>3, <1>4

\* Functions that agree on a set have the same sum over it.
LEMMA SameSum ==
    ASSUME NEW S, IsFiniteSet(S), NEW f, \A x \in S : f[x] \in Int,
           NEW h, \A x \in S : f[x] = h[x]
    PROVE  SumOn(f, S) = SumOn(h, S)
  <1>1. PICK g : g = (CHOOSE a : Sums(a, f, S)) /\ Sums(g, f, S)
    <2>1. \E g : Sums(g, f, S)
      BY SumsExist
    <2> QED BY <2>1
  <1>2. PICK k : k = (CHOOSE a : Sums(a, h, S)) /\ Sums(k, h, S)
    <2>1. \E k : Sums(k, h, S)
      BY SumsExist
    <2> QED BY <2>1
  <1>3. g[S] = k[S]
    BY <1>1, <1>2, SumsAgree
  <1> QED BY <1>1, <1>2, <1>3 DEF SumOn

\* Disjoint sets of a finite set have as many elements together as all of them
\* have, so a sum of numbers that each stay within one is within the whole.
LEMMA SumWithin ==
    ASSUME NEW S, IsFiniteSet(S), NEW T, IsFiniteSet(T), NEW f, NEW C,
           \A x \in S : f[x] \in Nat /\ C[x] \subseteq T /\ f[x] <= Cardinality(C[x]),
           \A x, y \in S : x # y => C[x] \cap C[y] = {}
    PROVE  SumOn(f, S) <= Cardinality(T)
  <1> DEFINE All(s) == UNION {C[x] : x \in s}
             Bad == {s \in SUBSET S : ~(SumOn(f, s) <= Cardinality(All(s)))}
  <1>1. ASSUME NEW s \in SUBSET S
        PROVE  /\ IsFiniteSet(s) /\ IsFiniteSet(All(s)) /\ Cardinality(All(s)) \in Nat
               /\ Cardinality(All(s)) <= Cardinality(T)
               /\ SumOn(f, s) \in Int /\ SumOn(f, {}) = 0
               /\ \A x \in s : SumOn(f, s) = f[x] + SumOn(f, s \ {x})
    <2>1. All(s) \in SUBSET T
      OBVIOUS
    <2> HIDE DEF All
    <2>2. IsFiniteSet(s) /\ IsFiniteSet(All(s)) /\ Cardinality(All(s)) \in Nat
          /\ Cardinality(All(s)) <= Cardinality(T)
      BY <2>1, FS_Subset, FS_CardinalityType
    <2>3. \A x \in s : f[x] \in Int
      OBVIOUS
    <2> QED BY <2>2, <2>3, SumFacts
  <1>2. ASSUME Bad # {} PROVE FALSE
    <2>1. PICK s \in Bad :
             \A t \in SUBSET S : Cardinality(t) < Cardinality(s) => t \notin Bad
      <3> HIDE DEF Bad
      <3>1. Bad \subseteq SUBSET S
        BY DEF Bad
      <3> QED BY <1>2, <3>1, SmallestSet
    <2>2. s \in SUBSET S /\ ~(SumOn(f, s) <= Cardinality(All(s)))
      OBVIOUS
    <2>3. s # {}
      <3>1. Cardinality(All(s)) \in Nat /\ SumOn(f, {}) = 0
        BY <1>1, <2>2
      <3> HIDE DEF All
      <3> QED BY <2>2, <3>1
    <2>4. PICK x \in s : TRUE
      BY <2>3
    <2>5. PICK t \in SUBSET S : t = s \ {x} /\ Cardinality(t) < Cardinality(s)
      <3> HIDE DEF All, Bad
      <3>1. /\ s \ {x} \in SUBSET S /\ Cardinality(s \ {x}) = Cardinality(s) - 1
            /\ Cardinality(s) \in Nat
        BY <2>2, <2>3, <2>4, PickedAway
      <3> QED BY <3>1
    <2>6. SumOn(f, t) <= Cardinality(All(t))
      BY <2>1, <2>5
    <2>7. All(s) = C[x] \cup All(t) /\ C[x] \cap All(t) = {}
      BY <2>2, <2>4, <2>5
    <2>8. C[x] \in SUBSET T /\ f[x] \in Nat /\ f[x] <= Cardinality(C[x])
      BY <2>2, <2>4
    <2>9. SumOn(f, s) = f[x] + SumOn(f, t)
      BY <1>1, <2>2, <2>4, <2>5
    <2>10. /\ Cardinality(All(s)) \in Nat /\ Cardinality(All(t)) \in Nat
           /\ IsFiniteSet(All(t)) /\ SumOn(f, t) \in Int
      BY <1>1, <2>2
    <2> HIDE DEF All, Bad
    <2>11. IsFiniteSet(C[x]) /\ Cardinality(C[x]) \in Nat
      BY <2>8, FS_Subset, FS_CardinalityType
    <2>12. Cardinality(All(s)) = Cardinality(C[x]) + Cardinality(All(t))
      <3>1. Cardinality(C[x] \cup All(t))
              = Cardinality(C[x]) + Cardinality(All(t)) - Cardinality(C[x] \cap All(t))
        BY <2>10, <2>11, FS_Union
      <3>2. Cardinality(C[x] \cap All(t)) = 0
        BY <2>7, FS_EmptySet
      <3> QED BY <2>7, <2>10, <2>11, <3>1, <3>2
    <2> QED BY <2>2, <2>6, <2>8, <2>9, <2>10, <2>11, <2>12
  <1>3. S \in SUBSET S /\ S \notin Bad
    BY <1>2
  <1>4. SumOn(f, S) <= Cardinality(All(S))
    BY <1>3
  <1>5. /\ SumOn(f, S) \in Int /\ Cardinality(All(S)) \in Nat
        /\ Cardinality(All(S)) <= Cardinality(T) /\ Cardinality(T) \in Nat
    BY <1>1, <1>3, FS_CardinalityType
  <1> HIDE DEF All
  <1> QED BY <1>4, <1>5

-----------------------------------------------------------------------------
\* g lists what f gives when it is applied again and again
Iterates(g, f, a, n) == g = [k \in 0..n |-> IF k = 0 THEN a ELSE f[g[k - 1]]]

\* There is such a list, as long as one likes.
LEMMA IterationsExist ==
    ASSUME NEW S, NEW f \in [S -> S], NEW a \in S, NEW n \in Nat
    PROVE  \E g \in [0..n -> S] : Iterates(g, f, a, n)
  <1> DEFINE Iterated(g, m) ==
                g \in [0..m -> S] /\ g[0] = a /\ \A k \in 1..m : g[k] = f[g[k - 1]]
             Bad == {m \in Nat : ~\E g : Iterated(g, m)}
  <1>1. \E g : Iterated(g, 0)
    <2>1. Iterated([k \in 0..0 |-> a], 0)
      OBVIOUS
    <2> HIDE DEF Iterated
    <2> QED BY <2>1
  <1>2. ASSUME NEW m \in Nat, NEW g, Iterated(g, m) PROVE \E h : Iterated(h, m + 1)
    <2> DEFINE h == [k \in 0..m + 1 |-> IF k = m + 1 THEN f[g[m]] ELSE g[k]]
    <2>1. h \in [0..m + 1 -> S]
      BY <1>2
    <2>2. h[0] = a
      BY <1>2
    <2>3. ASSUME NEW k \in 1..m + 1 PROVE h[k] = f[h[k - 1]]
      <3>1. CASE k = m + 1
        BY <1>2, <3>1
      <3>2. CASE k # m + 1
        <4>1. k \in 1..m /\ k - 1 \in 0..m
          BY <3>2
        <4> QED BY <1>2, <4>1
      <3> QED BY <3>1, <3>2
    <2>4. Iterated(h, m + 1)
      BY <2>1, <2>2, <2>3
    <2> HIDE DEF Iterated, h
    <2> QED BY <2>4
  <1> HIDE DEF Iterated
  <1>3. Bad = {}
    <2> SUFFICES ASSUME Bad # {} PROVE FALSE
      OBVIOUS
    <2>1. Bad \subseteq Nat
      OBVIOUS
    <2>2. PICK m \in Bad : \A k \in Bad : m <= k
      BY <2>1, LeastNumber
    <2>3. m # 0 /\ m - 1 \in Nat /\ m - 1 \notin Bad
      BY <1>1, <2>1, <2>2
    <2>4. PICK g : Iterated(g, m - 1)
      BY <2>3
    <2>5. \E h : Iterated(h, m - 1 + 1)
      BY <1>2, <2>3, <2>4
    <2>6. m - 1 + 1 = m
      BY <2>1
    <2> QED BY <2>2, <2>5, <2>6
  <1>4. PICK g : Iterated(g, n)
    BY <1>3
  <1>5. g \in [0..n -> S] /\ g[0] = a /\ \A k \in 1..n : g[k] = f[g[k - 1]]
    BY <1>4 DEF Iterated
  <1>6. Iterates(g, f, a, n)
    <2> DEFINE h == [k \in 0..n |-> IF k = 0 THEN a ELSE f[g[k - 1]]]
    <2>1. \A k \in 0..n : g[k] = h[k]
      BY <1>5
    <2>2. DOMAIN h = 0..n /\ DOMAIN g = 0..n
      BY <1>5
    <2>3. g = [k \in 0..n |-> g[k]]
      BY <1>5
    <2> QED BY <2>1, <2>3 DEF Iterates
  <1> QED BY <1>5, <1>6

\* The lesser of two numbers.
LEMMA LesserIs ==
    ASSUME NEW a \in Int, NEW b \in Int
    PROVE  Min({a, b}) = IF a <= b THEN a ELSE b
  <1>1. {a, b} \subseteq Int
    OBVIOUS
  <1>2. CASE a <= b
    BY <1>1, <1>2, LeastIs
  <1>3. CASE b < a
    <2>1. b \in {a, b} /\ \A m \in {a, b} : b <= m
      BY <1>3
    <2>2. Min({a, b}) = b
      BY <1>1, <2>1, LeastIs
    <2> QED BY <1>3, <2>2
  <1> QED BY <1>2, <1>3

\* The image of a finite set is finite.
LEMMA ImageIsFinite ==
    ASSUME NEW S, IsFiniteSet(S), NEW f
    PROVE  IsFiniteSet({f[x] : x \in S})
  <1> DEFINE T == {f[x] : x \in S}
             g == [x \in S |-> f[x]]
  <1>1. g \in Surjection(S, T)
    BY DEF Surjection
  <1> HIDE DEF g, T
  <1>2. IsFiniteSet(T)
    BY <1>1, FS_Surjection
  <1> QED BY <1>2 DEF T

\* Numbers can be put in order.
LEMMA OrderExists ==
    ASSUME NEW S, IsFiniteSet(S), S \subseteq Nat
    PROVE  \E s \in [1..Cardinality(S) -> S] : \A i, j \in DOMAIN s : i < j => s[i] < s[j]
  <1> DEFINE Rising(T) == \E s \in [1..Cardinality(T) -> T] : \A i, j \in DOMAIN s : i < j => s[i] < s[j]
             Bad == {T \in SUBSET S : ~Rising(T)}
  <1>1. ASSUME Bad # {} PROVE FALSE
    <2>1. PICK T \in Bad : \A U \in SUBSET S : Cardinality(U) < Cardinality(T) => U \notin Bad
      <3> HIDE DEF Bad
      <3>1. Bad \subseteq SUBSET S
        BY DEF Bad
      <3> QED BY <1>1, <3>1, SmallestSet
    <2>2. T \in SUBSET S /\ ~Rising(T)
      OBVIOUS
    <2> HIDE DEF Rising
    <2>3. IsFiniteSet(T) /\ T \subseteq Nat
      BY <2>2, FS_Subset
    <2>4. T # {}
      <3>1. Cardinality({}) = 0
        BY FS_EmptySet
      <3>2. <<>> \in [1..0 -> {}] /\ DOMAIN <<>> = {}
        OBVIOUS
      <3>3. Rising({})
        BY <3>1, <3>2 DEF Rising
      <3> QED BY <2>2, <3>3
    <2>5. PICK m \in T : \A e \in T : e <= m
      BY <2>3, <2>4, GreatestNumber
    <2>6. PICK n \in Nat : n + 1 = Cardinality(T)
      <3>1. Cardinality(T) \in Nat \ {0}
        BY <2>2, <2>4, PickedAway
      <3>2. Cardinality(T) - 1 \in Nat /\ (Cardinality(T) - 1) + 1 = Cardinality(T)
        BY <3>1
      <3> QED BY <3>2
    <2>7. PICK U \in SUBSET S : U = T \ {m} /\ Cardinality(U) = n
      <3>1. T \ {m} \in SUBSET S /\ Cardinality(T \ {m}) = Cardinality(T) - 1
        BY <2>2, <2>4, PickedAway
      <3> QED BY <2>6, <3>1
    <2>8. Rising(U)
      BY <2>1, <2>6, <2>7
    <2>9. PICK q \in [1..n -> U] : \A i, j \in 1..n : i < j => q[i] < q[j]
      <3>1. PICK q \in [1..Cardinality(U) -> U] : \A i, j \in DOMAIN q : i < j => q[i] < q[j]
        BY <2>8 DEF Rising
      <3> QED BY <2>7, <3>1
    <2> DEFINE s == [i \in 1..n + 1 |-> IF i = n + 1 THEN m ELSE q[i]]
    <2>10. \A i \in 1..n : i \in 1..n + 1 /\ i # n + 1 /\ s[i] = q[i] /\ q[i] \in T /\ q[i] < m
      <3>1. ASSUME NEW i \in 1..n PROVE q[i] \in T /\ q[i] # m
        BY <2>7, <2>9
      <3>2. ASSUME NEW i \in 1..n PROVE q[i] < m
        <4>1. q[i] \in Nat /\ m \in Nat /\ q[i] <= m /\ q[i] # m
          BY <2>3, <2>5, <3>1, <3>2
        <4> QED BY <4>1
      <3> QED BY <3>1, <3>2
    <2>11. \A i \in 1..n + 1 : i \in 1..n \/ i = n + 1
      OBVIOUS
    <2>12. s[n + 1] = m /\ DOMAIN s = 1..n + 1
      OBVIOUS
    <2>13. s \in [1..n + 1 -> T]
      BY <2>10, <2>11
    <2> HIDE DEF s
    <2>14. ASSUME NEW i \in 1..n + 1, NEW j \in 1..n + 1, i < j PROVE s[i] < s[j]
      <3>1. i \in 1..n
        BY <2>14
      <3>2. CASE j \in 1..n
        BY <2>9, <2>10, <2>14, <3>1, <3>2
      <3>3. CASE j = n + 1
        BY <2>10, <2>12, <3>1, <3>3
      <3> QED BY <2>11, <3>2, <3>3
    <2>15. Rising(T)
      BY <2>6, <2>12, <2>13, <2>14 DEF Rising
    <2> QED BY <2>2, <2>15
  <1>2. S \in SUBSET S /\ Rising(S)
    BY <1>1
  <1> QED BY <1>2

\* A sum of zeros.
LEMMA SumOfZeros ==
    ASSUME NEW S, IsFiniteSet(S), NEW f, \A x \in S : f[x] = 0
    PROVE  SumOn(f, S) = 0
  <1> DEFINE Bad == {s \in SUBSET S : SumOn(f, s) # 0}
  <1>1. ASSUME Bad # {} PROVE FALSE
    <2>1. PICK s \in Bad : \A t \in SUBSET S : Cardinality(t) < Cardinality(s) => t \notin Bad
      <3> HIDE DEF Bad
      <3>1. Bad \subseteq SUBSET S
        BY DEF Bad
      <3> QED BY <1>1, <3>1, SmallestSet
    <2>2. s \in SUBSET S /\ SumOn(f, s) # 0 /\ IsFiniteSet(s)
      BY FS_Subset
    <2>3. \A x \in s : f[x] \in Int /\ f[x] = 0
      BY <2>2
    <2>4. SumOn(f, {}) = 0 /\ \A x \in s : SumOn(f, s) = f[x] + SumOn(f, s \ {x})
      BY <2>2, <2>3, SumFacts
    <2>5. PICK x \in s : TRUE
      BY <2>2, <2>4
    <2>6. s \ {x} \in SUBSET S /\ Cardinality(s \ {x}) < Cardinality(s)
      BY <2>2, <2>5, PickedAway
    <2>7. SumOn(f, s \ {x}) = 0
      BY <2>1, <2>6
    <2> QED BY <2>2, <2>3, <2>4, <2>5, <2>7
  <1>2. S \in SUBSET S
    OBVIOUS
  <1> QED BY <1>1, <1>2

\* Adding one for each element of a part adds as many as the part has.
LEMMA SumOfOnesMore ==
    ASSUME NEW S, IsFiniteSet(S), NEW f, \A x \in S : f[x] \in Int, NEW P, NEW h,
           \A x \in S : h[x] = f[x] + IF x \in P THEN 1 ELSE 0
    PROVE  SumOn(h, S) = SumOn(f, S) + Cardinality(P \cap S)
  <1> DEFINE Right(s) == SumOn(h, s) = SumOn(f, s) + Cardinality(P \cap s)
             Bad == {s \in SUBSET S : ~Right(s)}
  <1>1. ASSUME Bad # {} PROVE FALSE
    <2>1. PICK s \in Bad : \A t \in SUBSET S : Cardinality(t) < Cardinality(s) => t \notin Bad
      <3> HIDE DEF Bad
      <3>1. Bad \subseteq SUBSET S
        BY DEF Bad
      <3> QED BY <1>1, <3>1, SmallestSet
    <2>2. s \in SUBSET S /\ ~Right(s) /\ IsFiniteSet(s)
      BY FS_Subset
    <2>3. \A x \in s : f[x] \in Int /\ h[x] \in Int /\ h[x] = f[x] + IF x \in P THEN 1 ELSE 0
      BY <2>2
    <2>4. /\ SumOn(f, s) \in Int /\ SumOn(f, {}) = 0
          /\ \A x \in s : SumOn(f, s) = f[x] + SumOn(f, s \ {x})
      BY <2>2, <2>3, SumFacts
    <2>5. /\ SumOn(h, s) \in Int /\ SumOn(h, {}) = 0
          /\ \A x \in s : SumOn(h, s) = h[x] + SumOn(h, s \ {x})
      BY <2>2, <2>3, SumFacts
    <2>6. s # {}
      <3>1. P \cap {} = {} /\ Cardinality({}) = 0
        BY FS_EmptySet
      <3>2. Right({})
        BY <2>4, <2>5, <3>1
      <3> QED BY <2>2, <3>2
    <2>7. PICK x \in s : TRUE
      BY <2>6
    <2>8. PICK t \in SUBSET S : t = s \ {x} /\ Cardinality(t) < Cardinality(s) /\ IsFiniteSet(t)
      <3>1. s \ {x} \in SUBSET S /\ Cardinality(s \ {x}) < Cardinality(s)
        BY <2>2, <2>7, PickedAway
      <3> QED BY <3>1, FS_Subset
    <2>9. Right(t)
      BY <2>1, <2>8
    <2>10. SumOn(f, t) \in Int
      BY <2>3, <2>8, SumFacts
    <2>11. IsFiniteSet(P \cap t) /\ Cardinality(P \cap t) \in Nat
      BY <2>8, FS_Intersection, FS_CardinalityType
    <2>12. Cardinality(P \cap s) = Cardinality(P \cap t) + IF x \in P THEN 1 ELSE 0
      <3>1. CASE x \in P
        <4>1. P \cap s = (P \cap t) \cup {x} /\ x \notin P \cap t
          BY <2>7, <2>8, <3>1
        <4>2. Cardinality((P \cap t) \cup {x}) = Cardinality(P \cap t) + 1
          BY <2>11, <4>1, FS_AddElement
        <4> QED BY <3>1, <4>1, <4>2
      <3>2. CASE x \notin P
        <4>1. P \cap s = P \cap t
          BY <2>7, <2>8, <3>2
        <4>2. Cardinality(P \cap t) + 0 = Cardinality(P \cap t)
          BY <2>11
        <4> QED BY <3>2, <4>1, <4>2
      <3> QED BY <3>1, <3>2
    <2>13. SumOn(f, s) = f[x] + SumOn(f, t) /\ SumOn(h, s) = h[x] + SumOn(h, t)
      BY <2>4, <2>5, <2>7, <2>8
    <2> HIDE DEF Bad
    <2> QED BY <2>2, <2>3, <2>7, <2>9, <2>10, <2>11, <2>12, <2>13
  <1>2. S \in SUBSET S /\ Right(S)
    BY <1>1
  <1> QED BY <1>2

-----------------------------------------------------------------------------
\* g folds F over 1..n from a on, the numbers one after the other: what the folds of
\* the community modules are, for an operator that F is the function of
Folds(g, F, a, n) ==
    g = [s \in SUBSET (1..n) |-> IF s = {} THEN a ELSE F[<<Max(s), g[s \ {Max(s)}]>>]]

\* The last of some numbers is taken away, of which there are fewer then.
LEMMA LastTakenAway ==
    ASSUME NEW n \in Nat, NEW s \in SUBSET (1..n), s # {}
    PROVE  /\ Max(s) \in s /\ Max(s) \in 1..n /\ s \ {Max(s)} \in SUBSET (1..n)
           /\ Cardinality(s) \in Nat \ {0}
           /\ Cardinality(s \ {Max(s)}) = Cardinality(s) - 1
  <1>1. IsFiniteSet(1..n)
    BY FS_Interval
  <1>2. IsFiniteSet(s) /\ s \subseteq Nat
    <2>1. IsFiniteSet(s)
      BY <1>1, FS_Subset
    <2>2. s \subseteq Nat
      OBVIOUS
    <2> QED BY <2>1, <2>2
  <1>3. Max(s) \in s
    BY <1>2, FirstAndLast
  <1>4. /\ \A x \in s : s \ {x} \in SUBSET (1..n) /\ Cardinality(s \ {x}) = Cardinality(s) - 1
        /\ Cardinality(s) \in Nat \ {0}
    BY <1>1, PickedAway
  <1> QED BY <1>3, <1>4

\* There is such a g: it is right for larger and larger sets of numbers.
LEMMA FoldsExist ==
    ASSUME NEW T, NEW n \in Nat, NEW F \in [(1..n) \X T -> T], NEW a \in T
    PROVE  \E g \in [SUBSET (1..n) -> T] : Folds(g, F, a, n)
  <1> DEFINE S == 1..n
             Next1(g, s) == IF s = {} THEN a ELSE F[<<Max(s), g[s \ {Max(s)}]>>]
             UpTo(m) == \E g \in [SUBSET S -> T] :
                           \A s \in SUBSET S : Cardinality(s) <= m => g[s] = Next1(g, s)
             Bad == {m \in Nat : ~UpTo(m)}
  <1>1. ASSUME NEW g \in [SUBSET S -> T], NEW s \in SUBSET S PROVE Next1(g, s) \in T
    <2>1. CASE s = {}
      BY <2>1
    <2>2. CASE s # {}
      <3>1. Max(s) \in S /\ s \ {Max(s)} \in SUBSET S
        BY <2>2, LastTakenAway
      <3>2. <<Max(s), g[s \ {Max(s)}]>> \in S \X T
        BY <3>1
      <3> QED BY <2>2, <3>2
    <2> QED BY <2>1, <2>2
  <1>2. UpTo(0)
    <2> DEFINE g == [s \in SUBSET S |-> a]
    <2>1. ASSUME NEW s \in SUBSET (1..n), Cardinality(s) <= 0, s # {} PROVE FALSE
      <3>1. Cardinality(s) \in Nat \ {0}
        BY <2>1, LastTakenAway
      <3> QED BY <2>1, <3>1
    <2>2. \A s \in SUBSET S : Cardinality(s) <= 0 => g[s] = Next1(g, s)
      BY <2>1
    <2>3. g \in [SUBSET S -> T]
      OBVIOUS
    <2> HIDE DEF g
    <2> QED BY <2>2, <2>3
  <1>3. ASSUME NEW m \in Nat, UpTo(m) PROVE UpTo(m + 1)
    <2>1. PICK g \in [SUBSET S -> T] :
             \A s \in SUBSET S : Cardinality(s) <= m => g[s] = Next1(g, s)
      BY <1>3
    <2> DEFINE h == [s \in SUBSET S |-> Next1(g, s)]
    <2>2. h \in [SUBSET S -> T]
      BY <1>1
    <2>3. ASSUME NEW s \in SUBSET S, Cardinality(s) <= m + 1 PROVE h[s] = Next1(h, s)
      <3>1. CASE s = {}
        BY <3>1
      <3>2. CASE s # {}
        <4>1. /\ s \ {Max(s)} \in SUBSET S /\ Cardinality(s) \in Nat
              /\ Cardinality(s \ {Max(s)}) = Cardinality(s) - 1
          BY <3>2, LastTakenAway
        <4>2. Cardinality(s \ {Max(s)}) <= m
          BY <2>3, <4>1
        <4>3. h[s \ {Max(s)}] = g[s \ {Max(s)}]
          BY <2>1, <4>1, <4>2
        <4> QED BY <3>2, <4>3
      <3> QED BY <3>1, <3>2
    <2> HIDE DEF h
    <2> QED BY <2>2, <2>3
  <1>4. Bad = {}
    <2> SUFFICES ASSUME Bad # {} PROVE FALSE
      OBVIOUS
    <2> HIDE DEF UpTo
    <2>1. PICK m \in Bad : \A k \in Bad : m <= k
      <3>1. Bad \subseteq Nat
        OBVIOUS
      <3> HIDE DEF Bad
      <3> QED BY <3>1, LeastNumber
    <2>2. m \in Nat /\ ~UpTo(m) /\ m # 0
      BY <1>2
    <2>3. m - 1 \in Nat /\ m - 1 \notin Bad
      BY <2>1, <2>2
    <2>4. UpTo(m - 1)
      BY <2>3
    <2>5. UpTo(m - 1 + 1)
      BY <1>3, <2>3, <2>4
    <2> QED BY <2>2, <2>5
  <1>5. Cardinality(S) \in Nat /\ \A s \in SUBSET S : Cardinality(s) <= Cardinality(S)
    <2>1. IsFiniteSet(S)
      BY FS_Interval
    <2> HIDE DEF S
    <2> QED BY <2>1, FS_Subset, FS_CardinalityType
  <1>6. UpTo(Cardinality(S))
    <2> HIDE DEF UpTo
    <2> QED BY <1>4, <1>5
  <1>7. PICK g \in [SUBSET S -> T] : \A s \in SUBSET S : g[s] = Next1(g, s)
    BY <1>5, <1>6
  <1>8. g = [s \in SUBSET S |-> Next1(g, s)]
    BY <1>7
  <1> QED BY <1>8 DEF Folds

\* g agrees with F where what was folded before is of the type of F.
Agrees(g, F, T, a, n) ==
    /\ g[{}] = a
    /\ \A s \in SUBSET (1..n) :
          s # {} /\ g[s \ {Max(s)}] \in T => g[s] = F[<<Max(s), g[s \ {Max(s)}]>>]

\* what is folded up to each number
FoldedUp(r, F, g, a, n) ==
    r[0] = a /\ r[n] = g[1..n] /\ \A k \in 1..n : r[k] = F[<<k, r[k - 1]>>]

\* What such a g has folded up to each number.
LEMMA FoldGoesUp ==
    ASSUME NEW T, NEW n \in Nat, NEW F \in [(1..n) \X T -> T], NEW a \in T, NEW g,
           Agrees(g, F, T, a, n)
    PROVE  \E r \in [0..n -> T] : FoldedUp(r, F, g, a, n)
  <1> DEFINE Typed(k) == g[1..k] \in T
             Bad == {k \in 0..n : ~Typed(k)}
  <1>1. 1..0 = {}
    OBVIOUS
  <1>2. ASSUME NEW k \in 1..n
        PROVE  /\ 1..k \in SUBSET (1..n) /\ 1..k # {} /\ Max(1..k) = k
               /\ (1..k) \ {k} = 1..k - 1
    <2>1. 1..k \subseteq Int /\ k \in 1..k /\ \A m \in 1..k : m <= k
      OBVIOUS
    <2>2. Max(1..k) = k
      BY <2>1, GreatestIs
    <2>3. (1..k) \ {k} = 1..k - 1
      OBVIOUS
    <2>4. 1..k \subseteq 1..n
      OBVIOUS
    <2> QED BY <2>1, <2>2, <2>3, <2>4
  <1>3. ASSUME NEW k \in 1..n, Typed(k - 1) PROVE g[1..k] = F[<<k, g[1..k - 1]>>] /\ Typed(k)
    <2>1. g[1..k] = F[<<k, g[1..k - 1]>>]
      BY <1>2, <1>3 DEF Agrees
    <2> QED BY <1>3, <2>1
  <1>4. Bad = {}
    <2> SUFFICES ASSUME Bad # {} PROVE FALSE
      OBVIOUS
    <2>1. PICK k \in Bad : \A m \in Bad : k <= m
      <3>1. Bad \subseteq Nat
        OBVIOUS
      <3> HIDE DEF Bad
      <3> QED BY <3>1, LeastNumber
    <2>2. k # 0
      BY <1>1 DEF Agrees
    <2>3. k \in 1..n /\ k - 1 \in 0..n /\ k - 1 \notin Bad
      BY <2>1, <2>2
    <2>4. Typed(k - 1)
      BY <2>3
    <2> HIDE DEF Typed
    <2>5. Typed(k)
      BY <1>3, <2>3, <2>4
    <2> QED BY <2>1, <2>5
  <1>5. \A k \in 0..n : g[1..k] \in T
    BY <1>4
  <1> DEFINE r == [k \in 0..n |-> g[1..k]]
  <1>6. r \in [0..n -> T]
    BY <1>5
  <1>7. r[0] = a /\ r[n] = g[1..n]
    BY <1>1 DEF Agrees
  <1>8. \A k \in 1..n : r[k] = F[<<k, r[k - 1]>>]
    BY <1>3, <1>5
  <1> HIDE DEF r
  <1> QED BY <1>6, <1>7, <1>8 DEF FoldedUp
=============================================================================
