------------------------------- MODULE SumLemmas -------------------------------
(***************************************************************************)
(* What the sum of a function over a finite set is: SumFunctionOnSet picks *)
(* the elements in an order it does not tell, so that every fact about it  *)
(* rests on an induction over the subsets.  It is made here with a smallest*)
(* counterexample, which exists because strict inclusion is well-founded.  *)
(***************************************************************************)
EXTENDS Integers, FiniteSets, Functions, FiniteSetTheorems, TLAPS

\* The recursive function that SumFunctionOnSet defines, by its name.
Pick(s) == CHOOSE x \in s : TRUE
Step(w, g, s) == IF s = {} THEN 0 ELSE w[Pick(s)] + g[s \ {Pick(s)}]
Summing(w, S) == CHOOSE g : g = [s \in SUBSET S |-> Step(w, g, s)]

LEMMA SumIsSumming ==
  ASSUME NEW w, NEW S
  PROVE  SumFunctionOnSet(w, S) = Summing(w, S)[S]
  BY DEF SumFunctionOnSet, FoldFunctionOnSet, MapThenFoldSet, Summing, Step, Pick

\* A set of subsets of a finite set has a smallest member.
LEMMA SmallestSubset ==
  ASSUME NEW S, IsFiniteSet(S), NEW B \in SUBSET SUBSET S, B # {}
  PROVE  \E m \in B : \A t \in B : t \subseteq m => t = m
<1>1. IsWellFoundedOn(StrictSubsetOrdering(S), SUBSET S)
  BY FS_StrictSubsetOrderingWellFounded, FS_FiniteSubsetsOfFinite
<1>2. PICK m \in B : \A t \in B : ~ (<<t, m>> \in StrictSubsetOrdering(S))
  BY <1>1, WFMin
<1>. QED  BY <1>2 DEF StrictSubsetOrdering

\* A set of natural numbers has a smallest member.
LEMMA SmallestNat ==
  ASSUME NEW B \in SUBSET Nat, B # {}
  PROVE  \E m \in B : \A n \in B : m <= n
<1> DEFINE Less == {ss \in Nat \X Nat : ss[1] < ss[2]}
<1>1. IsWellFoundedOn(Less, Nat)
  BY NatLessThanWellFounded DEF OpToRel
<1>2. PICK m \in B : \A n \in B : ~ (<<n, m>> \in Less)
  <2> HIDE DEF Less
  <2>. QED  BY <1>1, WFMin
<1>3. ASSUME NEW n \in B PROVE m <= n
  <2>1. <<n, m>> \in Nat \X Nat /\ m \in Nat /\ n \in Nat
    OBVIOUS
  <2>2. ~ (n < m)
    BY <1>2, <2>1
  <2>. QED  BY <2>1, <2>2
<1>. QED  BY <1>3

LEMMA PickRemoves ==
  ASSUME NEW S, IsFiniteSet(S), NEW s \in SUBSET S, s # {}
  PROVE  /\ Pick(s) \in s
         /\ s \ {Pick(s)} \in SUBSET S
         /\ Cardinality(s) \in Nat
         /\ Cardinality(s \ {Pick(s)}) = Cardinality(s) - 1
<1>1. Pick(s) \in s
  BY DEF Pick
<1>2. IsFiniteSet(s) /\ Cardinality(s) \in Nat
  BY FS_Subset, FS_CardinalityType
<1>. QED  BY <1>1, <1>2, FS_RemoveElement

\* The recursion has a solution on the subsets of up to n members ...
LEMMA SummingUpTo ==
  ASSUME NEW w, NEW S, IsFiniteSet(S), NEW n \in Nat
  PROVE  \E g : \A s \in SUBSET S : Cardinality(s) <= n => g[s] = Step(w, g, s)
<1> DEFINE Solves(g, k) == \A s \in SUBSET S : Cardinality(s) <= k => g[s] = Step(w, g, s)
           Bad == {k \in Nat : ~ \E g : Solves(g, k)}
<1>1. SUFFICES ASSUME Bad # {} PROVE FALSE
  OBVIOUS
<1>2. PICK k \in Bad : \A j \in Bad : k <= j
  <2>1. Bad \in SUBSET Nat
    OBVIOUS
  <2> HIDE DEF Bad
  <2>. QED  BY <1>1, <2>1, SmallestNat
<1>3. \A s \in SUBSET S : IsFiniteSet(s) /\ Cardinality(s) \in Nat
  BY FS_Subset, FS_CardinalityType
<1>4. k # 0
  <2>1. SUFFICES Solves([s \in SUBSET S |-> 0], 0)
    OBVIOUS
  <2>2. ASSUME NEW s \in SUBSET S, Cardinality(s) <= 0 PROVE s = {}
    BY <2>2, <1>3, FS_EmptySet
  <2>. QED  BY <2>2 DEF Step
<1>5. PICK g : Solves(g, k - 1)
  <2>1. k - 1 \in Nat /\ ~ (k <= k - 1)
    BY <1>4
  <2>. QED  BY <2>1, <1>2
<1> DEFINE h == [s \in SUBSET S |-> IF Cardinality(s) <= k - 1 THEN g[s] ELSE Step(w, g, s)]
<1>6. ASSUME NEW s \in SUBSET S, Cardinality(s) <= k PROVE h[s] = Step(w, h, s)
  <2>1. h[s] = Step(w, g, s)
    BY <1>5
  <2>2. CASE s = {}
    BY <2>1, <2>2 DEF Step
  <2>3. CASE s # {}
    <3>1. s \ {Pick(s)} \in SUBSET S /\ Cardinality(s \ {Pick(s)}) <= k - 1
      BY <2>3, <1>6, PickRemoves
    <3>2. h[s \ {Pick(s)}] = g[s \ {Pick(s)}]
      BY <3>1
    <3> HIDE DEF h
    <3>. QED  BY <2>1, <2>3, <3>2 DEF Step
  <2>. QED  BY <2>2, <2>3
<1>7. Solves(h, k)
  <2> HIDE DEF h
  <2>. QED  BY <1>6
<1>. QED  BY <1>7

\* ... so it has one on all of them.
LEMMA SummingExists ==
  ASSUME NEW w, NEW S, IsFiniteSet(S)
  PROVE  \A s \in SUBSET S : Summing(w, S)[s] = Step(w, Summing(w, S), s)
<1>1. PICK g : \A s \in SUBSET S : Cardinality(s) <= Cardinality(S) => g[s] = Step(w, g, s)
  <2>1. Cardinality(S) \in Nat
    BY FS_CardinalityType
  <2>. QED  BY <2>1, SummingUpTo
<1>2. ASSUME NEW s \in SUBSET S PROVE Cardinality(s) <= Cardinality(S)
  BY FS_Subset
<1> DEFINE h == [s \in SUBSET S |-> g[s]]
<1>3. ASSUME NEW s \in SUBSET S PROVE Step(w, g, s) = Step(w, h, s)
  <2>1. s # {} => s \ {Pick(s)} \in SUBSET S
    OBVIOUS
  <2>2. s # {} => h[s \ {Pick(s)}] = g[s \ {Pick(s)}]
    BY <2>1
  <2> HIDE DEF h
  <2>. QED  BY <2>2 DEF Step
<1>4. h = [s \in SUBSET S |-> Step(w, h, s)]
  <2>1. \A s \in SUBSET S : g[s] = Step(w, h, s)
    BY <1>1, <1>2, <1>3
  <2>2. h = [s \in SUBSET S |-> g[s]]
    OBVIOUS
  <2> HIDE DEF h
  <2>. QED  BY <2>1, <2>2
<1>5. \E f : f = [s \in SUBSET S |-> Step(w, f, s)]
  <2> HIDE DEF h
  <2>. QED  BY <1>4
<1> DEFINE f == Summing(w, S)
<1>6. f = [s \in SUBSET S |-> Step(w, f, s)]
  BY <1>5 DEF Summing
<1>7. \A s \in SUBSET S : f[s] = Step(w, f, s)
  <2> HIDE DEF f
  <2>. QED  BY <1>6
<1>. QED  BY <1>7

LEMMA SummingStep ==
  ASSUME NEW w, NEW S, IsFiniteSet(S), NEW s \in SUBSET S
  PROVE  /\ s = {} => Summing(w, S)[s] = 0
         /\ s # {} => Summing(w, S)[s] = w[Pick(s)] + Summing(w, S)[s \ {Pick(s)}]
<1>1. Summing(w, S)[s] = Step(w, Summing(w, S), s)
  BY SummingExists
<1>. QED  BY <1>1 DEF Step

\* The set around the summed one, and the values elsewhere, do not matter.
LEMMA SummingCongruent ==
  ASSUME NEW S, IsFiniteSet(S), NEW T, IsFiniteSet(T), NEW v, NEW w,
         NEW U \in SUBSET S, U \in SUBSET T, \A x \in U : v[x] = w[x]
  PROVE  Summing(v, S)[U] = Summing(w, T)[U]
<1> DEFINE Bad == {s \in SUBSET U : Summing(v, S)[s] # Summing(w, T)[s]}
<1>1. SUFFICES ASSUME Bad # {} PROVE FALSE
  OBVIOUS
<1>2. IsFiniteSet(U) /\ Bad \in SUBSET SUBSET U
  BY FS_Subset
<1>3. PICK s \in Bad : \A t \in Bad : t \subseteq s => t = s
  <2> HIDE DEF Bad
  <2>. QED  BY <1>1, <1>2, SmallestSubset
<1>4. s \in SUBSET S /\ s \in SUBSET T
  OBVIOUS
<1>5. s # {}
  BY <1>4, SummingStep
<1>6. Pick(s) \in s /\ s \ {Pick(s)} \in SUBSET U /\ s \ {Pick(s)} # s
  BY <1>5 DEF Pick
<1>7. s \ {Pick(s)} \notin Bad
  <2> HIDE DEF Bad
  <2>. QED  BY <1>3, <1>6
<1>8. Summing(v, S)[s \ {Pick(s)}] = Summing(w, T)[s \ {Pick(s)}] /\ v[Pick(s)] = w[Pick(s)]
  BY <1>6, <1>7
<1>9. /\ Summing(v, S)[s] = v[Pick(s)] + Summing(v, S)[s \ {Pick(s)}]
      /\ Summing(w, T)[s] = w[Pick(s)] + Summing(w, T)[s \ {Pick(s)}]
  <2> HIDE DEF Bad
  <2>1. Summing(v, S)[s] = v[Pick(s)] + Summing(v, S)[s \ {Pick(s)}]
    BY <1>4, <1>5, SummingStep
  <2>2. Summing(w, T)[s] = w[Pick(s)] + Summing(w, T)[s \ {Pick(s)}]
    BY <1>4, <1>5, SummingStep
  <2>. QED  BY <2>1, <2>2
<1>. QED  BY <1>8, <1>9

\* The sum over nothing is 0; the sum over the rest is added to the value of a
\* picked element.
LEMMA SumOfNone ==
  ASSUME NEW w
  PROVE  SumFunctionOnSet(w, {}) = 0
  BY SumIsSumming, SummingStep, FS_EmptySet

LEMMA SumPicked ==
  ASSUME NEW w, NEW S, IsFiniteSet(S), S # {}
  PROVE  SumFunctionOnSet(w, S) = w[Pick(S)] + SumFunctionOnSet(w, S \ {Pick(S)})
<1>1. Pick(S) \in S /\ S \ {Pick(S)} \in SUBSET S /\ IsFiniteSet(S \ {Pick(S)})
  BY FS_RemoveElement DEF Pick
<1>2. Summing(w, S)[S] = w[Pick(S)] + Summing(w, S)[S \ {Pick(S)}]
  BY SummingStep
<1>3. Summing(w, S)[S \ {Pick(S)}] = Summing(w, S \ {Pick(S)})[S \ {Pick(S)}]
  BY <1>1, SummingCongruent
<1>. QED  BY <1>2, <1>3, SumIsSumming

\* The sum looks at no value outside its set.
LEMMA SumCongruent ==
  ASSUME NEW v, NEW w, NEW S, IsFiniteSet(S), \A x \in S : v[x] = w[x]
  PROVE  SumFunctionOnSet(v, S) = SumFunctionOnSet(w, S)
<1>1. Summing(v, S)[S] = Summing(w, S)[S]
  BY SummingCongruent
<1>. QED  BY <1>1, SumIsSumming

\* Sums of integers are integers.
LEMMA SumIsInt ==
  ASSUME NEW w, NEW S, IsFiniteSet(S), \A x \in S : w[x] \in Int
  PROVE  SumFunctionOnSet(w, S) \in Int
<1> DEFINE Bad == {s \in SUBSET S : SumFunctionOnSet(w, s) \notin Int}
<1>1. SUFFICES ASSUME Bad # {} PROVE FALSE
  OBVIOUS
<1>2. PICK s \in Bad : \A t \in Bad : t \subseteq s => t = s
  <2>1. Bad \in SUBSET SUBSET S
    OBVIOUS
  <2> HIDE DEF Bad
  <2>. QED  BY <1>1, <2>1, SmallestSubset
<1>3. IsFiniteSet(s) /\ s # {}
  <2>1. IsFiniteSet(s)
    BY FS_Subset
  <2>2. SumFunctionOnSet(w, {}) = 0
    BY SumOfNone
  <2>. QED  BY <2>1, <2>2
<1>4. Pick(s) \in s /\ s \ {Pick(s)} \in SUBSET S /\ s \ {Pick(s)} # s
  BY <1>3 DEF Pick
<1>5. s \ {Pick(s)} \notin Bad
  <2> HIDE DEF Bad
  <2>. QED  BY <1>2, <1>4
<1>. QED  BY <1>3, <1>4, <1>5, SumPicked

\* Any element of the set may be summed first.
LEMMA SumSplit ==
  ASSUME NEW w, NEW S, IsFiniteSet(S), \A x \in S : w[x] \in Int, NEW e \in S
  PROVE  SumFunctionOnSet(w, S) = w[e] + SumFunctionOnSet(w, S \ {e})
<1> DEFINE Sum(s) == SumFunctionOnSet(w, s)
           Bad == {s \in SUBSET S : \E x \in s : Sum(s) # w[x] + Sum(s \ {x})}
<1>1. SUFFICES ASSUME Bad # {} PROVE FALSE
  OBVIOUS
<1>2. PICK s \in Bad : \A t \in Bad : t \subseteq s => t = s
  <2>1. Bad \in SUBSET SUBSET S
    OBVIOUS
  <2> HIDE DEF Bad
  <2>. QED  BY <1>1, <2>1, SmallestSubset
<1>3. PICK x \in s : Sum(s) # w[x] + Sum(s \ {x})
  OBVIOUS
<1>4. \A t \in SUBSET S : IsFiniteSet(t) /\ Sum(t) \in Int
  <2>1. ASSUME NEW t \in SUBSET S PROVE IsFiniteSet(t)
    BY FS_Subset
  <2>2. ASSUME NEW t \in SUBSET S PROVE Sum(t) \in Int
    BY <2>1, SumIsInt
  <2>. QED  BY <2>1, <2>2
<1> DEFINE p == Pick(s)
<1>5. p \in s
  BY DEF Pick
<1>6. s \in SUBSET S
  OBVIOUS
<1>7. Sum(s) = w[p] + Sum(s \ {p})
  BY <1>4, <1>5, <1>6, SumPicked
<1>8. p # x
  BY <1>3, <1>7
<1>9. s \ {p} \notin Bad /\ s \ {x} \notin Bad
  <2>1. s \ {p} # s /\ s \ {x} # s
    BY <1>5
  <2> HIDE DEF Bad, p, Sum
  <2>. QED  BY <2>1, <1>2
<1> DEFINE r == (s \ {p}) \ {x}
<1>10. Sum(s \ {p}) = w[x] + Sum(r) /\ Sum(s \ {x}) = w[p] + Sum(r)
  <2>1. /\ s \ {p} \in SUBSET S /\ s \ {x} \in SUBSET S
        /\ x \in s \ {p} /\ p \in s \ {x}
        /\ (s \ {x}) \ {p} = r
    BY <1>5, <1>6, <1>8
  <2> HIDE DEF p, Sum
  <2>. QED  BY <2>1, <1>9
<1>11. w[p] \in Int /\ w[x] \in Int /\ Sum(r) \in Int
  BY <1>3, <1>4, <1>5, <1>6
<1> HIDE DEF Bad, p, r, Sum
<1>. QED  BY <1>3, <1>7, <1>10, <1>11

\* An element that joins the set adds its value.
LEMMA SumAdd ==
  ASSUME NEW w, NEW S, IsFiniteSet(S), NEW e, e \notin S, \A x \in S \cup {e} : w[x] \in Int
  PROVE  SumFunctionOnSet(w, S \cup {e}) = w[e] + SumFunctionOnSet(w, S)
<1>1. IsFiniteSet(S \cup {e}) /\ (S \cup {e}) \ {e} = S
  BY FS_AddElement
<1>2. SumFunctionOnSet(w, S \cup {e}) = w[e] + SumFunctionOnSet(w, (S \cup {e}) \ {e})
  BY <1>1, SumSplit
<1>. QED  BY <1>1, <1>2

\* A changed value changes the sum by the difference.
LEMMA SumChange ==
  ASSUME NEW v, NEW w, NEW S, IsFiniteSet(S), NEW e \in S,
         \A x \in S : v[x] \in Int /\ w[x] \in Int,
         \A x \in S \ {e} : v[x] = w[x]
  PROVE  SumFunctionOnSet(v, S) = SumFunctionOnSet(w, S) - w[e] + v[e]
<1>1. IsFiniteSet(S \ {e})
  BY FS_RemoveElement
<1>2. SumFunctionOnSet(v, S \ {e}) = SumFunctionOnSet(w, S \ {e})
  BY <1>1, SumCongruent
<1>3. SumFunctionOnSet(w, S \ {e}) \in Int
  BY <1>1, SumIsInt
<1>4. /\ SumFunctionOnSet(v, S) = v[e] + SumFunctionOnSet(v, S \ {e})
      /\ SumFunctionOnSet(w, S) = w[e] + SumFunctionOnSet(w, S \ {e})
  BY SumSplit
<1>. QED  BY <1>2, <1>3, <1>4

\* The values of a subset sum up to no more, where none is negative.
LEMMA SumMonotonic ==
  ASSUME NEW w, NEW S, IsFiniteSet(S), NEW T \in SUBSET S, \A x \in S : w[x] \in Nat
  PROVE  /\ SumFunctionOnSet(w, T) \in Nat
         /\ SumFunctionOnSet(w, T) <= SumFunctionOnSet(w, S)
<1> DEFINE Sum(s) == SumFunctionOnSet(w, s)
           Bad == {s \in SUBSET S : Sum(s) \notin Nat}
<1>1. \A t \in SUBSET S : IsFiniteSet(t)
  BY FS_Subset
<1>2. ASSUME NEW s \in SUBSET S, NEW e \in s
      PROVE  Sum(s) = w[e] + Sum(s \ {e}) /\ s \ {e} \in SUBSET S /\ w[e] \in Nat
  <2>1. IsFiniteSet(s) /\ \A x \in s : w[x] \in Int
    BY <1>1
  <2>. QED  BY <2>1, SumSplit
<1>3. \A s \in SUBSET S : Sum(s) \in Nat
  <2>1. SUFFICES ASSUME Bad # {} PROVE FALSE
    OBVIOUS
  <2>2. PICK s \in Bad : \A t \in Bad : t \subseteq s => t = s
    <3>1. Bad \in SUBSET SUBSET S
      OBVIOUS
    <3> HIDE DEF Bad
    <3>. QED  BY <2>1, <3>1, SmallestSubset
  <2>3. Sum({}) = 0 /\ s \in SUBSET S
    BY SumOfNone
  <2>4. PICK e \in s : TRUE
    BY <2>3
  <2>5. Sum(s) = w[e] + Sum(s \ {e}) /\ s \ {e} \in SUBSET S /\ w[e] \in Nat
    BY <2>3, <1>2
  <2>6. s \ {e} \notin Bad
    <3> HIDE DEF Bad
    <3>. QED  BY <2>2
  <2>. QED  BY <2>5, <2>6
<1> DEFINE Worse == {s \in SUBSET S : T \subseteq s /\ ~ (Sum(T) <= Sum(s))}
<1>4. Worse = {}
  <2>1. SUFFICES ASSUME Worse # {} PROVE FALSE
    OBVIOUS
  <2>2. PICK s \in Worse : \A t \in Worse : t \subseteq s => t = s
    <3>1. Worse \in SUBSET SUBSET S
      OBVIOUS
    <3> HIDE DEF Worse
    <3>. QED  BY <2>1, <3>1, SmallestSubset
  <2>3. s \in SUBSET S /\ T \subseteq s /\ ~ (Sum(T) <= Sum(s))
    OBVIOUS
  <2>4. PICK e \in s : e \notin T
    <3>1. T # s
      BY <1>3, <2>3
    <3>. QED  BY <3>1, <2>3
  <2>5. Sum(s) = w[e] + Sum(s \ {e}) /\ s \ {e} \in SUBSET S /\ w[e] \in Nat
    BY <2>3, <1>2
  <2>6. s \ {e} \notin Worse
    <3> HIDE DEF Worse
    <3>. QED  BY <2>2
  <2>7. Sum(T) <= Sum(s \ {e})
    BY <2>3, <2>4, <2>5, <2>6
  <2>8. Sum(T) \in Nat /\ Sum(s \ {e}) \in Nat
    BY <1>3, <2>5
  <2> HIDE DEF Sum, Worse
  <2>. QED  BY <2>3, <2>5, <2>7, <2>8
<1>. QED  BY <1>3, <1>4

\* The sum of the sums is the sum of the values.
LEMMA SumOfSums ==
  ASSUME NEW u, NEW v, NEW w, NEW S, IsFiniteSet(S),
         \A x \in S : v[x] \in Int /\ w[x] \in Int /\ u[x] = v[x] + w[x]
  PROVE  SumFunctionOnSet(u, S) = SumFunctionOnSet(v, S) + SumFunctionOnSet(w, S)
<1> DEFINE Sum(f, s) == SumFunctionOnSet(f, s)
           Bad == {s \in SUBSET S : Sum(u, s) # Sum(v, s) + Sum(w, s)}
<1>1. SUFFICES ASSUME Bad # {} PROVE FALSE
  OBVIOUS
<1>2. PICK s \in Bad : \A t \in Bad : t \subseteq s => t = s
  <2>1. Bad \in SUBSET SUBSET S
    OBVIOUS
  <2> HIDE DEF Bad
  <2>. QED  BY <1>1, <2>1, SmallestSubset
<1>3. s \in SUBSET S /\ Sum(u, s) # Sum(v, s) + Sum(w, s)
  OBVIOUS
<1>4. PICK e \in s : TRUE
  BY <1>3, SumOfNone
<1>5. /\ IsFiniteSet(s) /\ IsFiniteSet(s \ {e}) /\ s \ {e} \in SUBSET S /\ e \in S
      /\ \A x \in s : u[x] \in Int /\ v[x] \in Int /\ w[x] \in Int
  BY <1>3, FS_Subset
<1>6. Sum(u, s) = u[e] + Sum(u, s \ {e})
  BY <1>5, SumSplit
<1>7. Sum(v, s) = v[e] + Sum(v, s \ {e})
  BY <1>5, SumSplit
<1>8. Sum(w, s) = w[e] + Sum(w, s \ {e})
  BY <1>5, SumSplit
<1>9. Sum(v, s \ {e}) \in Int /\ Sum(w, s \ {e}) \in Int
  BY <1>5, SumIsInt
<1>10. s \ {e} \notin Bad
  <2> HIDE DEF Bad
  <2>. QED  BY <1>2
<1>11. Sum(u, s \ {e}) = Sum(v, s \ {e}) + Sum(w, s \ {e})
  BY <1>5, <1>10
<1>12. u[e] = v[e] + w[e] /\ v[e] \in Int /\ w[e] \in Int
  BY <1>5
<1> HIDE DEF Sum, Bad
<1>. QED  BY <1>3, <1>6, <1>7, <1>8, <1>9, <1>11, <1>12
=============================================================================
