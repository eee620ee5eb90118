---------------------------------- MODULE Sums ----------------------------------
(* Facts about the sum of a function over a finite set (SumFunctionOnSet of the community
   module Functions): it does not depend on the order in which elements are chosen.  The
   provers cannot instantiate an induction theorem that takes a predicate, so an induction is
   done on a set: the counterexamples, if any, have a minimal element. *)
EXTENDS Integers, FiniteSets, Functions, FiniteSetTheorems, TLAPS

Pick(s) == CHOOSE x \in s : TRUE

\* g follows the recursion by which the sum over S is defined.
Iterates(g, fun, S) ==
  g = [s \in SUBSET S |-> IF s = {} THEN 0 ELSE fun[Pick(s)] + g[s \ {Pick(s)}]]

LEMMA LeastNumber ==
  ASSUME NEW N \in SUBSET Nat, N # {}
  PROVE  \E n \in N : \A m \in N : n <= m
<1>1. PICK n \in N : \A m \in N : ~(<<m, n>> \in OpToRel(<, Nat))
  BY WFMin, NatLessThanWellFounded
<1>2. \A m \in N : ~(m < n)
  BY <1>1 DEF OpToRel
<1> QED  BY <1>2

LEMMA MinimalSet ==
  ASSUME NEW S, IsFiniteSet(S), NEW C \in SUBSET (SUBSET S), C # {}
  PROVE  \E T \in C : \A U \in C : U \subseteq T => U = T
<1>1. IsWellFoundedOn(StrictSubsetOrdering(S), SUBSET S)
  BY FS_StrictSubsetOrderingWellFounded, FS_FiniteSubsetsOfFinite
<1>2. PICK T \in C : \A U \in C : ~(<<U, T>> \in StrictSubsetOrdering(S))
  BY <1>1, WFMin
<1>3. ASSUME NEW U \in C, U \subseteq T PROVE U = T
  <2>1. U \in SUBSET S /\ T \in SUBSET S
    OBVIOUS
  <2> QED  BY <1>2, <1>3, <2>1 DEF StrictSubsetOrdering
<1> QED  BY <1>3

LEMMA Picked ==
  ASSUME NEW s, s # {}
  PROVE  Pick(s) \in s
  BY DEF Pick

LEMMA SumUnfolds ==
  ASSUME NEW fun, NEW S
  PROVE  SumFunctionOnSet(fun, S) = (CHOOSE g : Iterates(g, fun, S))[S]
  BY DEF SumFunctionOnSet, FoldFunctionOnSet, MapThenFoldSet, Iterates, Pick

\* The recursion has a solution: one that follows it up to every cardinality.
UpTo(n, g, fun, S) ==
  \A s \in SUBSET S : Cardinality(s) <= n =>
    g[s] = IF s = {} THEN 0 ELSE fun[Pick(s)] + g[s \ {Pick(s)}]

LEMMA IterationExists ==
  ASSUME NEW fun, NEW S, IsFiniteSet(S)
  PROVE  \E g : Iterates(g, fun, S)
<1>0. \A s \in SUBSET S : IsFiniteSet(s) /\ Cardinality(s) \in Nat /\ Cardinality(s) <= Cardinality(S)
  BY FS_Subset, FS_CardinalityType
<1>1. \A s \in SUBSET S : s # {} =>
        /\ s \ {Pick(s)} \in SUBSET S
        /\ Cardinality(s \ {Pick(s)}) = Cardinality(s) - 1
  BY <1>0, Picked, FS_RemoveElement
<1>2. \A s \in SUBSET S : Cardinality(s) = 0 <=> s = {}
  BY <1>0, FS_EmptySet
<1> DEFINE Missing == {n \in Nat : ~ \E g : UpTo(n, g, fun, S)}
<1>3. Missing = {}
  <2> SUFFICES ASSUME Missing # {} PROVE FALSE
    OBVIOUS
  <2>1. PICK n \in Missing : \A m \in Missing : n <= m
    BY LeastNumber
  <2>2. CASE n = 0
    <3>1. UpTo(0, [s \in SUBSET S |-> 0], fun, S)
      BY <1>0, <1>2 DEF UpTo
    <3> QED  BY <2>1, <2>2, <3>1
  <2>3. CASE n # 0
    <3>1. n - 1 \in Nat /\ n - 1 \notin Missing
      BY <2>1, <2>3
    <3>2. PICK g : UpTo(n - 1, g, fun, S)
      BY <3>1
    <3> DEFINE Next(s) == IF s = {} THEN 0 ELSE fun[Pick(s)] + g[s \ {Pick(s)}]
               h == [s \in SUBSET S |-> IF Cardinality(s) <= n - 1 THEN g[s] ELSE Next(s)]
    <3>3. \A s \in SUBSET S : Cardinality(s) <= n => h[s] = Next(s)
      BY <3>2, <1>0 DEF UpTo
    <3>4. \A s \in SUBSET S : Cardinality(s) <= n /\ s # {} => h[s \ {Pick(s)}] = g[s \ {Pick(s)}]
      BY <1>0, <1>1
    <3>5. UpTo(n, h, fun, S)
      <4> SUFFICES ASSUME NEW s \in SUBSET S, Cardinality(s) <= n
                   PROVE  h[s] = IF s = {} THEN 0 ELSE fun[Pick(s)] + h[s \ {Pick(s)}]
        BY DEF UpTo
      <4> HIDE DEF h
      <4> QED  BY <3>3, <3>4
    <3> QED  BY <2>1, <3>5
  <2> QED  BY <2>2, <2>3
<1>4. PICK g : UpTo(Cardinality(S), g, fun, S)
  BY <1>0, <1>3
<1> DEFINE h == [s \in SUBSET S |-> g[s]]
<1>5. \A s \in SUBSET S : h[s] = IF s = {} THEN 0 ELSE fun[Pick(s)] + h[s \ {Pick(s)}]
  BY <1>0, <1>1, <1>4 DEF UpTo
<1>6. Iterates(h, fun, S)
  <2>1. h = [s \in SUBSET S |-> h[s]]
    OBVIOUS
  <2> HIDE DEF h
  <2> QED  BY <1>5, <2>1 DEF Iterates
<1> QED  BY <1>6

\* Two solutions agree wherever both are defined.
LEMMA IterationUnique ==
  ASSUME NEW fun, NEW S, IsFiniteSet(S), NEW T \in SUBSET S, NEW g, NEW h,
         Iterates(g, fun, S), Iterates(h, fun, T)
  PROVE  \A s \in SUBSET T : g[s] = h[s]
<1> DEFINE C == {s \in SUBSET T : g[s] # h[s]}
<1> SUFFICES ASSUME C # {} PROVE FALSE
  OBVIOUS
<1>1. PICK s \in C : \A u \in C : u \subseteq s => u = s
  <2>1. C \in SUBSET (SUBSET T) /\ IsFiniteSet(T)
    BY FS_Subset
  <2> HIDE DEF C
  <2> QED  BY <2>1, MinimalSet
<1>2. g[s] = IF s = {} THEN 0 ELSE fun[Pick(s)] + g[s \ {Pick(s)}]
  BY DEF Iterates
<1>3. h[s] = IF s = {} THEN 0 ELSE fun[Pick(s)] + h[s \ {Pick(s)}]
  BY DEF Iterates
<1>4. s # {} => g[s \ {Pick(s)}] = h[s \ {Pick(s)}]
  BY <1>1, Picked
<1> QED  BY <1>1, <1>2, <1>3, <1>4

LEMMA SumIterates ==
  ASSUME NEW fun, NEW S, IsFiniteSet(S)
  PROVE  \E g : Iterates(g, fun, S) /\ \A T \in SUBSET S : SumFunctionOnSet(fun, T) = g[T]
<1>1. PICK g : Iterates(g, fun, S)
  BY IterationExists
<1>2. ASSUME NEW T \in SUBSET S PROVE SumFunctionOnSet(fun, T) = g[T]
  <2>1. IsFiniteSet(T)
    BY FS_Subset
  <2> DEFINE h == CHOOSE k : Iterates(k, fun, T)
  <2>2. Iterates(h, fun, T)
    BY <2>1, IterationExists
  <2>3. SumFunctionOnSet(fun, T) = h[T]
    BY SumUnfolds
  <2> HIDE DEF h
  <2>4. g[T] = h[T]
    BY <1>1, <2>2, IterationUnique
  <2> QED  BY <2>3, <2>4
<1> QED  BY <1>1, <1>2

LEMMA SumEmpty ==
  ASSUME NEW fun
  PROVE  SumFunctionOnSet(fun, {}) = 0
<1>1. PICK g : Iterates(g, fun, {}) /\ \A T \in SUBSET {} : SumFunctionOnSet(fun, T) = g[T]
  BY SumIterates, FS_EmptySet
<1> QED  BY <1>1 DEF Iterates

LEMMA SumPicks ==
  ASSUME NEW fun, NEW S, IsFiniteSet(S), S # {}
  PROVE  SumFunctionOnSet(fun, S) = fun[Pick(S)] + SumFunctionOnSet(fun, S \ {Pick(S)})
<1>1. PICK g : Iterates(g, fun, S) /\ \A T \in SUBSET S : SumFunctionOnSet(fun, T) = g[T]
  BY SumIterates
<1>2. g[S] = fun[Pick(S)] + g[S \ {Pick(S)}]
  BY <1>1 DEF Iterates
<1> QED  BY <1>1, <1>2

LEMMA SumInt ==
  ASSUME NEW fun, NEW S, IsFiniteSet(S), \A x \in S : fun[x] \in Int
  PROVE  SumFunctionOnSet(fun, S) \in Int
<1> DEFINE C == {s \in SUBSET S : SumFunctionOnSet(fun, s) \notin Int}
<1> SUFFICES ASSUME C # {} PROVE FALSE
  OBVIOUS
<1>1. PICK s \in C : \A u \in C : u \subseteq s => u = s
  <2>1. C \in SUBSET (SUBSET S)
    OBVIOUS
  <2> HIDE DEF C
  <2> QED  BY <2>1, MinimalSet
<1>2. s # {} /\ IsFiniteSet(s)
  <2>1. SumFunctionOnSet(fun, {}) \in Int
    BY SumEmpty
  <2> QED  BY <2>1, FS_Subset
<1>3. Pick(s) \in s /\ s \ {Pick(s)} \notin C /\ s \ {Pick(s)} \in SUBSET S
  BY <1>1, <1>2, Picked
<1>4. SumFunctionOnSet(fun, s \ {Pick(s)}) \in Int
  BY <1>3
<1>5. SumFunctionOnSet(fun, s) = fun[Pick(s)] + SumFunctionOnSet(fun, s \ {Pick(s)})
  BY <1>2, SumPicks
<1> QED  BY <1>1, <1>3, <1>4, <1>5

\* Any element may be taken out first.
LEMMA SumTakesOut ==
  ASSUME NEW fun, NEW S, IsFiniteSet(S), \A x \in S : fun[x] \in Int, NEW e \in S
  PROVE  SumFunctionOnSet(fun, S) = fun[e] + SumFunctionOnSet(fun, S \ {e})
<1> DEFINE Sum(s) == SumFunctionOnSet(fun, s)
           C == {s \in SUBSET S : \E x \in s : Sum(s) # fun[x] + Sum(s \ {x})}
<1> SUFFICES ASSUME C # {} PROVE FALSE
  OBVIOUS
<1>1. PICK s \in C : \A u \in C : u \subseteq s => u = s
  <2>1. C \in SUBSET (SUBSET S)
    OBVIOUS
  <2> HIDE DEF C
  <2> QED  BY <2>1, MinimalSet
<1>2. PICK x \in s : Sum(s) # fun[x] + Sum(s \ {x})
  OBVIOUS
<1>3. IsFiniteSet(s) /\ s # {}
  BY <1>2, FS_Subset
<1> DEFINE p == Pick(s)
<1>4. p \in s /\ Sum(s) = fun[p] + Sum(s \ {p})
  BY <1>3, Picked, SumPicks
<1> HIDE DEF p
<1>5. x # p
  BY <1>2, <1>4
<1>6. s \ {p} \notin C /\ s \ {x} \notin C /\ s \ {p} \in SUBSET S /\ s \ {x} \in SUBSET S
  BY <1>1, <1>4
<1>7. Sum(s \ {p}) = fun[x] + Sum((s \ {p}) \ {x})
  BY <1>5, <1>6
<1>8. Sum(s \ {x}) = fun[p] + Sum((s \ {x}) \ {p})
  BY <1>4, <1>5, <1>6
<1>9. (s \ {p}) \ {x} = (s \ {x}) \ {p}
  OBVIOUS
<1>10. Sum((s \ {x}) \ {p}) \in Int /\ fun[p] \in Int /\ fun[x] \in Int
  <2>1. IsFiniteSet((s \ {x}) \ {p}) /\ \A y \in (s \ {x}) \ {p} : fun[y] \in Int
    BY <1>3, FS_RemoveElement
  <2> QED  BY <2>1, SumInt, <1>4
<1>11. fun[p] + (fun[x] + Sum((s \ {x}) \ {p})) = fun[x] + (fun[p] + Sum((s \ {x}) \ {p}))
  BY <1>10
<1> QED  BY <1>2, <1>4, <1>7, <1>8, <1>9, <1>11

LEMMA SumSame ==
  ASSUME NEW f, NEW g, NEW S, IsFiniteSet(S), \A x \in S : f[x] = g[x]
  PROVE  SumFunctionOnSet(f, S) = SumFunctionOnSet(g, S)
<1> DEFINE C == {s \in SUBSET S : SumFunctionOnSet(f, s) # SumFunctionOnSet(g, s)}
<1> SUFFICES ASSUME C # {} PROVE FALSE
  OBVIOUS
<1>1. PICK s \in C : \A u \in C : u \subseteq s => u = s
  <2>1. C \in SUBSET (SUBSET S)
    OBVIOUS
  <2> HIDE DEF C
  <2> QED  BY <2>1, MinimalSet
<1>2. s # {} /\ IsFiniteSet(s)
  BY <1>1, SumEmpty, FS_Subset
<1>3. Pick(s) \in s /\ s \ {Pick(s)} \notin C /\ s \ {Pick(s)} \in SUBSET S
  BY <1>1, <1>2, Picked
<1>4. SumFunctionOnSet(f, s) = f[Pick(s)] + SumFunctionOnSet(f, s \ {Pick(s)})
  BY <1>2, SumPicks
<1>5. SumFunctionOnSet(g, s) = g[Pick(s)] + SumFunctionOnSet(g, s \ {Pick(s)})
  BY <1>2, SumPicks
<1> QED  BY <1>1, <1>3, <1>4, <1>5

\* A summand is added, or changes.
LEMMA SumAdds ==
  ASSUME NEW f, NEW S, IsFiniteSet(S), NEW e, e \notin S, \A x \in S \cup {e} : f[x] \in Int
  PROVE  SumFunctionOnSet(f, S \cup {e}) = f[e] + SumFunctionOnSet(f, S)
<1>1. IsFiniteSet(S \cup {e}) /\ (S \cup {e}) \ {e} = S
  BY FS_AddElement
<1> QED  BY <1>1, SumTakesOut

LEMMA SumChanges ==
  ASSUME NEW f, NEW g, NEW S, IsFiniteSet(S), NEW e \in S,
         \A x \in S : f[x] \in Int /\ g[x] \in Int,
         \A x \in S \ {e} : f[x] = g[x]
  PROVE  SumFunctionOnSet(g, S) = SumFunctionOnSet(f, S) + g[e] - f[e]
<1>1. IsFiniteSet(S \ {e})
  BY FS_RemoveElement
<1>2. SumFunctionOnSet(f, S \ {e}) = SumFunctionOnSet(g, S \ {e})
  BY <1>1, SumSame
<1>3. SumFunctionOnSet(f, S \ {e}) \in Int
  BY <1>1, SumInt
<1>4. SumFunctionOnSet(f, S) = f[e] + SumFunctionOnSet(f, S \ {e})
  BY SumTakesOut
<1>5. SumFunctionOnSet(g, S) = g[e] + SumFunctionOnSet(g, S \ {e})
  BY SumTakesOut
<1> QED  BY <1>2, <1>3, <1>4, <1>5

LEMMA SumNat ==
  ASSUME NEW f, NEW S, IsFiniteSet(S), \A x \in S : f[x] \in Nat
  PROVE  SumFunctionOnSet(f, S) \in Nat
<1> DEFINE C == {s \in SUBSET S : SumFunctionOnSet(f, s) \notin Nat}
<1> SUFFICES ASSUME C # {} PROVE FALSE
  OBVIOUS
<1>1. PICK s \in C : \A u \in C : u \subseteq s => u = s
  <2>1. C \in SUBSET (SUBSET S)
    OBVIOUS
  <2> HIDE DEF C
  <2> QED  BY <2>1, MinimalSet
<1>2. s \in SUBSET S /\ IsFiniteSet(s) /\ SumFunctionOnSet(f, s) \notin Nat
  BY <1>1, FS_Subset
<1>3. s # {}
  BY <1>2, SumEmpty
<1>4. PICK x \in s : TRUE
  BY <1>3
<1>5. SumFunctionOnSet(f, s) = f[x] + SumFunctionOnSet(f, s \ {x})
  BY <1>2, <1>4, SumTakesOut
<1>6. s \ {x} \notin C
  BY <1>1, <1>4
<1>7. SumFunctionOnSet(f, s \ {x}) \in Nat
  BY <1>2, <1>6
<1> QED  BY <1>2, <1>4, <1>5, <1>7

LEMMA SumBoundsEach ==
  ASSUME NEW f, NEW S, IsFiniteSet(S), \A x \in S : f[x] \in Nat, NEW e \in S
  PROVE  f[e] <= SumFunctionOnSet(f, S)
<1>1. IsFiniteSet(S \ {e})
  BY FS_RemoveElement
<1>2. SumFunctionOnSet(f, S \ {e}) \in Nat
  BY <1>1, SumNat
<1>3. SumFunctionOnSet(f, S) = f[e] + SumFunctionOnSet(f, S \ {e})
  BY SumTakesOut
<1> QED  BY <1>2, <1>3
================================================================================
