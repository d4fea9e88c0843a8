----------------------------- MODULE SumTheorems -----------------------------
(***************************************************************************)
(* What the proofs about balances, stakes and tallies need to know of sums. *)
(* SumFunctionOnSet of the community modules folds a recursive function of  *)
(* the subsets of a finite set, picking the elements in an arbitrary order; *)
(* the theorems here say that the function exists, that the order does not  *)
(* matter, and how a sum changes when the function or the set does.         *)
(*                                                                          *)
(* The induction theorems of the library take the predicate as an operator. *)
(* Here a predicate is the set of the values that satisfy it, and induction *)
(* is the fact that every other value would have a least one among them.    *)
(***************************************************************************)
EXTENDS Integers, FiniteSets, Functions, FiniteSetTheorems, TLAPS

(***************************************************************************)
(* Induction.                                                               *)
(***************************************************************************)

\* A non-empty set of naturals has a least element.
LEMMA LeastNatural ==
  ASSUME NEW T, T \subseteq Nat, T # {}
  PROVE  \E n \in T : \A m \in T : n <= m
<1> DEFINE R == {ss \in Nat \X Nat : ss[1] < ss[2]}
<1>1. IsWellFoundedOn(R, Nat)
  BY NatLessThanWellFounded DEF OpToRel
<1>2. PICK n \in T : \A m \in T : <<m, n>> \notin R
  <2>. HIDE DEF R
  <2>. QED  BY <1>1, WFMin
<1>3. \A m \in T : <<m, n>> \in Nat \X Nat
  OBVIOUS
<1>4. \A m \in T : ~(m < n)
  BY <1>2, <1>3
<1>. QED  BY <1>4

\* A non-empty set of subsets of a finite set has a minimal element.
LEMMA LeastSubset ==
  ASSUME NEW S, IsFiniteSet(S), NEW P, P \subseteq SUBSET S, P # {}
  PROVE  \E X \in P : \A Y \in P : ~(Y \subseteq X /\ Y # X)
<1>1. P \subseteq FiniteSubsetsOf(S)
  BY FS_Subset DEF FiniteSubsetsOf
<1>2. PICK X \in P : \A Y \in P : <<Y, X>> \notin StrictSubsetOrdering(S)
  BY <1>1, FS_StrictSubsetOrderingWellFounded, WFMin
<1>3. \A Y \in P : <<Y, X>> \in (SUBSET S) \X (SUBSET S)
  OBVIOUS
<1>. QED  BY <1>2, <1>3 DEF StrictSubsetOrdering

\* Induction over the naturals for the set of those that satisfy a predicate.
LEMMA NaturalInduction ==
  ASSUME NEW P, 0 \in P, \A n \in Nat : n \in P => n + 1 \in P
  PROVE  Nat \subseteq P
<1> SUFFICES ASSUME Nat \ P # {} PROVE FALSE
  OBVIOUS
<1>1. PICK n \in Nat \ P : \A m \in Nat \ P : n <= m
  BY LeastNatural
<1>2. n - 1 \in Nat /\ n - 1 \in P
  BY <1>1
<1>. QED  BY <1>1, <1>2

\* Induction over the subsets of a finite set.
LEMMA SubsetInduction ==
  ASSUME NEW S, IsFiniteSet(S), NEW P, {} \in P,
         \A T \in SUBSET S, x \in S : x \notin T /\ T \in P => T \cup {x} \in P
  PROVE  SUBSET S \subseteq P
<1> DEFINE Bad == (SUBSET S) \ P
<1> SUFFICES ASSUME Bad # {} PROVE FALSE
  OBVIOUS
<1>1. PICK X \in Bad : \A Y \in Bad : ~(Y \subseteq X /\ Y # X)
  <2>1. Bad \subseteq SUBSET S
    OBVIOUS
  <2>. HIDE DEF Bad
  <2>. QED  BY <2>1, LeastSubset
<1>2. PICK x \in X : TRUE
  OBVIOUS
<1>3. /\ X \ {x} \in SUBSET S /\ x \in S /\ x \notin X \ {x}
      /\ X \ {x} \subseteq X /\ X \ {x} # X /\ (X \ {x}) \cup {x} = X
  BY <1>2
<1>4. X \ {x} \in P
  BY <1>1, <1>3
<1>. QED  BY <1>3, <1>4

(***************************************************************************)
(* The recursive function behind a sum.                                     *)
(***************************************************************************)
First(s) == CHOOSE x \in s : TRUE

IsPartialSums(g, f, S) ==
  g = [s \in SUBSET S |-> IF s = {} THEN 0 ELSE f[First(s)] + g[s \ {First(s)}]]

LEMMA FirstIn == ASSUME NEW s, s # {} PROVE First(s) \in s
BY DEF First

LEMMA SumIsPartialSum ==
  ASSUME NEW f, NEW S
  PROVE  SumFunctionOnSet(f, S) = (CHOOSE g : IsPartialSums(g, f, S))[S]
BY DEF SumFunctionOnSet, FoldFunctionOnSet, MapThenFoldSet, First, IsPartialSums

\* There are partial sums of the subsets with at most n elements, for every n.
LEMMA PartialSumsExist ==
  ASSUME NEW f, NEW S, IsFiniteSet(S)
  PROVE  \E g : IsPartialSums(g, f, S)
<1> DEFINE Small(n) == {s \in SUBSET S : Cardinality(s) <= n}
           Step(g, s) == IF s = {} THEN 0 ELSE f[First(s)] + g[s \ {First(s)}]
           P == {n \in Nat : \E g : g = [s \in Small(n) |-> Step(g, s)]}
<1>0. \A s \in SUBSET S :
        /\ IsFiniteSet(s) /\ Cardinality(s) \in Nat
        /\ s # {} => /\ s \ {First(s)} \in SUBSET S
                     /\ Cardinality(s \ {First(s)}) = Cardinality(s) - 1
                     /\ Cardinality(s) > 0
  <2> TAKE s \in SUBSET S
  <2>1. IsFiniteSet(s) /\ Cardinality(s) \in Nat
    BY FS_Subset, FS_CardinalityType
  <2>2. ASSUME s # {} PROVE Cardinality(s \ {First(s)}) = Cardinality(s) - 1
    <3>1. PICK x \in s : x = First(s)
      BY <2>2, FirstIn
    <3>2. Cardinality(s \ {x}) = Cardinality(s) - 1
      BY <2>1, FS_RemoveElement
    <3>. QED  BY <3>1, <3>2
  <2>3. ASSUME s # {} PROVE Cardinality(s) > 0
    BY <2>1, <2>3, FS_EmptySet
  <2>. QED  BY <2>1, <2>2, <2>3
<1>1. 0 \in P
  <2>1. ASSUME NEW s \in Small(0) PROVE s = {}
    <3>1. s \in SUBSET S /\ Cardinality(s) <= 0
      OBVIOUS
    <3>2. s # {} => Cardinality(s) > 0 /\ Cardinality(s) \in Nat
      BY <1>0, <3>1
    <3>. QED  BY <3>1, <3>2
  <2> DEFINE g == [s \in Small(0) |-> 0]
  <2>2. g = [s \in Small(0) |-> Step(g, s)]
    BY <2>1
  <2>. QED  BY <2>2
<1>2. ASSUME NEW n \in Nat, n \in P PROVE n + 1 \in P
  <2>1. PICK g : g = [s \in Small(n) |-> Step(g, s)]
    BY <1>2
  <2> DEFINE h == [s \in Small(n + 1) |-> Step(g, s)]
  <2>2. \A s \in Small(n) : s \in Small(n + 1) /\ h[s] = g[s]
    <3>1. ASSUME NEW s \in Small(n) PROVE s \in Small(n + 1)
      <4>1. s \in SUBSET S /\ Cardinality(s) <= n
        OBVIOUS
      <4>2. Cardinality(s) \in Nat
        BY <1>0, <4>1
      <4>3. Cardinality(s) <= n + 1
        BY <4>1, <4>2
      <4>. QED  BY <4>1, <4>3
    <3>2. \A s \in Small(n) : g[s] = Step(g, s)
      <4>. HIDE DEF Step
      <4>. QED  BY <2>1
    <3>. QED  BY <3>1, <3>2
  <2>3. \A s \in Small(n + 1) : s # {} => s \ {First(s)} \in Small(n)
    BY <1>0
  <2>4. \A s \in Small(n + 1) : Step(g, s) = Step(h, s)
    BY <2>2, <2>3
  <2>5. h = [s \in Small(n + 1) |-> Step(h, s)]
    <3>1. h = [s \in Small(n + 1) |-> Step(g, s)]
      OBVIOUS
    <3>. HIDE DEF h, Step, Small
    <3>. QED  BY <2>4, <3>1
  <2>. HIDE DEF h, Step, Small
  <2>. QED  BY <2>5
<1>3. Cardinality(S) \in P
  <2>1. Nat \subseteq P
    <3>. HIDE DEF P
    <3>. QED  BY <1>1, <1>2, NaturalInduction
  <2>. QED  BY <2>1, FS_CardinalityType
<1>4. Small(Cardinality(S)) = SUBSET S
  BY FS_Subset
<1>5. PICK g : g = [s \in Small(Cardinality(S)) |-> Step(g, s)]
  BY <1>3
<1>. QED  BY <1>4, <1>5 DEF IsPartialSums

\* They are unique.
LEMMA PartialSumsUnique ==
  ASSUME NEW f, NEW S, IsFiniteSet(S), NEW T \in SUBSET S,
         NEW g, IsPartialSums(g, f, S), NEW h, IsPartialSums(h, f, T)
  PROVE  \A s \in SUBSET T : g[s] = h[s]
<1> DEFINE Bad == {s \in SUBSET T : g[s] # h[s]}
<1> SUFFICES ASSUME Bad # {} PROVE FALSE
  OBVIOUS
<1>1. PICK X \in Bad : \A Y \in Bad : ~(Y \subseteq X /\ Y # X)
  <2>1. Bad \subseteq SUBSET S
    OBVIOUS
  <2>. HIDE DEF Bad
  <2>. QED  BY <2>1, LeastSubset
<1>2. \A s \in SUBSET T :
        /\ g[s] = IF s = {} THEN 0 ELSE f[First(s)] + g[s \ {First(s)}]
        /\ h[s] = IF s = {} THEN 0 ELSE f[First(s)] + h[s \ {First(s)}]
  BY DEF IsPartialSums
<1>3. X # {}
  BY <1>2
<1>4. g[X \ {First(X)}] = h[X \ {First(X)}]
  BY <1>1, <1>3, FirstIn
<1>. QED  BY <1>1, <1>2, <1>3, <1>4

\* The two equations of a sum.
LEMMA SumEmpty == ASSUME NEW f PROVE SumFunctionOnSet(f, {}) = 0
<1>1. IsFiniteSet({})
  BY FS_EmptySet
<1>2. IsPartialSums(CHOOSE g : IsPartialSums(g, f, {}), f, {})
  BY <1>1, PartialSumsExist
<1>. QED  BY <1>2, SumIsPartialSum DEF IsPartialSums

LEMMA SumFirst ==
  ASSUME NEW f, NEW S, IsFiniteSet(S), S # {}
  PROVE  SumFunctionOnSet(f, S)
           = f[First(S)] + SumFunctionOnSet(f, S \ {First(S)})
<1> DEFINE T == S \ {First(S)}
           g == CHOOSE e : IsPartialSums(e, f, S)
           h == CHOOSE e : IsPartialSums(e, f, T)
<1>1. IsFiniteSet(T) /\ T \in SUBSET S
  BY FS_RemoveElement
<1>2. IsPartialSums(g, f, S)
  BY PartialSumsExist
<1>3. IsPartialSums(h, f, T)
  BY <1>1, PartialSumsExist
<1>4. SumFunctionOnSet(f, S) = g[S] /\ SumFunctionOnSet(f, T) = h[T]
  BY SumIsPartialSum
<1>5. g[S] = f[First(S)] + g[T]
  <2>. HIDE DEF g
  <2>. QED  BY <1>2 DEF IsPartialSums
<1>6. g[T] = h[T]
  <2>. HIDE DEF g, h, T
  <2>. QED  BY <1>1, <1>2, <1>3, PartialSumsUnique
<1>. QED  BY <1>4, <1>5, <1>6

(***************************************************************************)
(* Sums of integers: the order does not matter.                             *)
(***************************************************************************)
LEMMA SumInt ==
  ASSUME NEW f, NEW S, IsFiniteSet(S), \A x \in S : f[x] \in Int
  PROVE  SumFunctionOnSet(f, S) \in Int
<1> DEFINE Bad == {T \in SUBSET S : SumFunctionOnSet(f, T) \notin Int}
<1> SUFFICES ASSUME Bad # {} PROVE FALSE
  OBVIOUS
<1>1. PICK X \in Bad : \A Y \in Bad : ~(Y \subseteq X /\ Y # X)
  <2>1. Bad \subseteq SUBSET S
    OBVIOUS
  <2>. HIDE DEF Bad
  <2>. QED  BY <2>1, LeastSubset
<1>2. X # {} /\ IsFiniteSet(X)
  <2>1. X \in SUBSET S /\ SumFunctionOnSet(f, X) \notin Int
    OBVIOUS
  <2>2. X # {}
    BY <2>1, SumEmpty
  <2>3. IsFiniteSet(X)
    BY <2>1, FS_Subset
  <2>. QED  BY <2>2, <2>3
<1>3. First(X) \in X
  BY <1>2, FirstIn
<1>4. SumFunctionOnSet(f, X \ {First(X)}) \in Int
  BY <1>1, <1>3
<1>. QED  BY <1>2, <1>3, <1>4, SumFirst

\* Any element may be taken out first.
THEOREM SumElement ==
  ASSUME NEW f, NEW S, IsFiniteSet(S), \A x \in S : f[x] \in Int, NEW x \in S
  PROVE  SumFunctionOnSet(f, S) = f[x] + SumFunctionOnSet(f, S \ {x})
<1> DEFINE Good(T) == \A y \in T : SumFunctionOnSet(f, T) = f[y] + SumFunctionOnSet(f, T \ {y})
           Bad == {T \in SUBSET S : ~Good(T)}
<1> SUFFICES ASSUME Bad # {} PROVE FALSE
  OBVIOUS
<1>1. PICK X \in Bad : \A Y \in Bad : ~(Y \subseteq X /\ Y # X)
  <2>1. Bad \subseteq SUBSET S
    OBVIOUS
  <2>. HIDE DEF Bad
  <2>. QED  BY <2>1, LeastSubset
<1>2. PICK y \in X : SumFunctionOnSet(f, X) # f[y] + SumFunctionOnSet(f, X \ {y})
  OBVIOUS
<1> DEFINE c == First(X)
<1>3. IsFiniteSet(X) /\ X \in SUBSET S /\ c \in X /\ c \in S /\ y \in S
  BY FS_Subset, FirstIn
<1>4. SumFunctionOnSet(f, X) = f[c] + SumFunctionOnSet(f, X \ {c})
  BY <1>3, SumFirst
<1>5. c # y
  BY <1>2, <1>4
<1>6. Good(X \ {c}) /\ Good(X \ {y})
  BY <1>1, <1>3
<1>7. SumFunctionOnSet(f, X \ {c}) = f[y] + SumFunctionOnSet(f, (X \ {c}) \ {y})
  BY <1>3, <1>5, <1>6
<1>8. SumFunctionOnSet(f, X \ {y}) = f[c] + SumFunctionOnSet(f, (X \ {y}) \ {c})
  BY <1>3, <1>5, <1>6
<1>9. (X \ {c}) \ {y} = (X \ {y}) \ {c}
  OBVIOUS
<1>10. SumFunctionOnSet(f, (X \ {c}) \ {y}) \in Int
  BY <1>3, FS_Subset, SumInt
<1>11. f[c] \in Int /\ f[y] \in Int
  BY <1>3
<1>. QED
  <2> DEFINE rest == SumFunctionOnSet(f, (X \ {c}) \ {y})
  <2>1. SumFunctionOnSet(f, X) = f[c] + (f[y] + rest)
    BY <1>4, <1>7
  <2>2. SumFunctionOnSet(f, X \ {y}) = f[c] + rest
    BY <1>8, <1>9
  <2>3. rest \in Int
    BY <1>10
  <2>. HIDE DEF c, rest, Good, Bad
  <2>4. f[c] + (f[y] + rest) = f[y] + (f[c] + rest)
    BY <1>11, <2>3
  <2>. QED  BY <1>2, <2>1, <2>2, <2>4

\* Or put in last.
LEMMA SumAdd ==
  ASSUME NEW f, NEW T, IsFiniteSet(T), NEW x, x \notin T,
         \A y \in T \cup {x} : f[y] \in Int
  PROVE  SumFunctionOnSet(f, T \cup {x}) = f[x] + SumFunctionOnSet(f, T)
<1>1. IsFiniteSet(T \cup {x})
  BY FS_AddElement
<1>2. x \in T \cup {x} /\ (T \cup {x}) \ {x} = T
  OBVIOUS
<1>3. SumFunctionOnSet(f, T \cup {x}) = f[x] + SumFunctionOnSet(f, (T \cup {x}) \ {x})
  BY <1>1, <1>2, SumElement
<1>. QED  BY <1>2, <1>3

\* A sum depends on the values at the elements of the set only.
THEOREM SumSame ==
  ASSUME NEW S, IsFiniteSet(S), NEW f, NEW g,
         \A x \in S : f[x] \in Int /\ g[x] = f[x]
  PROVE  SumFunctionOnSet(g, S) = SumFunctionOnSet(f, S)
<1> DEFINE P == {T \in SUBSET S : SumFunctionOnSet(g, T) = SumFunctionOnSet(f, T)}
<1>1. {} \in P
  BY SumEmpty
<1>2. ASSUME NEW T \in SUBSET S, NEW x \in S, x \notin T, T \in P
      PROVE  T \cup {x} \in P
  <2>1. IsFiniteSet(T)
    BY FS_Subset
  <2>2. SumFunctionOnSet(f, T \cup {x}) = f[x] + SumFunctionOnSet(f, T)
    BY <1>2, <2>1, SumAdd
  <2>3. SumFunctionOnSet(g, T \cup {x}) = g[x] + SumFunctionOnSet(g, T)
    BY <1>2, <2>1, SumAdd
  <2>. QED  BY <1>2, <2>2, <2>3
<1>3. SUBSET S \subseteq P
  <2>. HIDE DEF P
  <2>. QED  BY <1>1, <1>2, SubsetInduction
<1>. QED  BY <1>3

\* When one value changes, the sum changes by the difference.
THEOREM SumChange ==
  ASSUME NEW S, IsFiniteSet(S), NEW f, NEW g, NEW x \in S,
         \A y \in S : f[y] \in Int /\ g[y] \in Int,
         \A y \in S : y # x => g[y] = f[y]
  PROVE  SumFunctionOnSet(g, S) = SumFunctionOnSet(f, S) - f[x] + g[x]
<1> DEFINE T == S \ {x}
<1>1. IsFiniteSet(T)
  BY FS_RemoveElement
<1>2. SumFunctionOnSet(g, T) = SumFunctionOnSet(f, T)
  BY <1>1, SumSame
<1>3. SumFunctionOnSet(f, T) \in Int
  BY <1>1, SumInt
<1>4. SumFunctionOnSet(f, S) = f[x] + SumFunctionOnSet(f, T)
  BY SumElement
<1>5. SumFunctionOnSet(g, S) = g[x] + SumFunctionOnSet(g, T)
  BY SumElement
<1>6. f[x] \in Int /\ g[x] \in Int
  OBVIOUS
<1>. QED
  <2>. HIDE DEF T
  <2>. QED  BY <1>2, <1>3, <1>4, <1>5, <1>6

\* The sum over one element is its value.
LEMMA SumOne ==
  ASSUME NEW f, NEW x, f[x] \in Int
  PROVE  SumFunctionOnSet(f, {x}) = f[x]
<1>1. SumFunctionOnSet(f, {} \cup {x}) = f[x] + SumFunctionOnSet(f, {})
  <2>1. \A y \in {} \cup {x} : f[y] \in Int
    OBVIOUS
  <2>. QED  BY <2>1, FS_EmptySet, SumAdd
<1>2. SumFunctionOnSet(f, {}) = 0 /\ {} \cup {x} = {x}
  BY SumEmpty
<1>. QED  BY <1>1, <1>2

\* A sum of zeros is zero.
LEMMA SumZero ==
  ASSUME NEW S, IsFiniteSet(S), NEW f, \A x \in S : f[x] = 0
  PROVE  SumFunctionOnSet(f, S) = 0
<1> DEFINE P == {T \in SUBSET S : SumFunctionOnSet(f, T) = 0}
<1>1. {} \in P
  BY SumEmpty
<1>2. ASSUME NEW T \in SUBSET S, NEW x \in S, x \notin T, T \in P
      PROVE  T \cup {x} \in P
  <2>1. IsFiniteSet(T)
    BY FS_Subset
  <2>2. SumFunctionOnSet(f, T \cup {x}) = f[x] + SumFunctionOnSet(f, T)
    BY <1>2, <2>1, SumAdd
  <2>. QED  BY <1>2, <2>2
<1>3. SUBSET S \subseteq P
  <2>. HIDE DEF P
  <2>. QED  BY <1>1, <1>2, SubsetInduction
<1>. QED  BY <1>3

\* Sums of naturals.
THEOREM SumNat ==
  ASSUME NEW S, IsFiniteSet(S), NEW f, \A x \in S : f[x] \in Nat
  PROVE  SumFunctionOnSet(f, S) \in Nat
<1> DEFINE P == {T \in SUBSET S : SumFunctionOnSet(f, T) \in Nat}
<1>1. {} \in P
  BY SumEmpty
<1>2. ASSUME NEW T \in SUBSET S, NEW x \in S, x \notin T, T \in P
      PROVE  T \cup {x} \in P
  <2>1. IsFiniteSet(T)
    BY FS_Subset
  <2>2. SumFunctionOnSet(f, T \cup {x}) = f[x] + SumFunctionOnSet(f, T)
    BY <1>2, <2>1, SumAdd
  <2>. QED  BY <1>2, <2>2
<1>3. SUBSET S \subseteq P
  <2>. HIDE DEF P
  <2>. QED  BY <1>1, <1>2, SubsetInduction
<1>. QED  BY <1>3

\* A larger function has the larger sum.
LEMMA SumLarger ==
  ASSUME NEW S, IsFiniteSet(S), NEW f, NEW g,
         \A x \in S : f[x] \in Nat /\ g[x] \in Nat /\ f[x] <= g[x]
  PROVE  SumFunctionOnSet(f, S) <= SumFunctionOnSet(g, S)
<1> DEFINE P == {T \in SUBSET S : SumFunctionOnSet(f, T) <= SumFunctionOnSet(g, T)}
<1>1. {} \in P
  BY SumEmpty
<1>2. ASSUME NEW T \in SUBSET S, NEW x \in S, x \notin T, T \in P
      PROVE  T \cup {x} \in P
  <2>1. IsFiniteSet(T) /\ \A y \in T \cup {x} : f[y] \in Int /\ g[y] \in Int
    BY FS_Subset
  <2>2. SumFunctionOnSet(f, T \cup {x}) = f[x] + SumFunctionOnSet(f, T)
    BY <1>2, <2>1, SumAdd
  <2>3. SumFunctionOnSet(g, T \cup {x}) = g[x] + SumFunctionOnSet(g, T)
    BY <1>2, <2>1, SumAdd
  <2>4. SumFunctionOnSet(f, T) \in Nat /\ SumFunctionOnSet(g, T) \in Nat
    BY <2>1, SumNat
  <2>. QED  BY <1>2, <2>2, <2>3, <2>4
<1>3. SUBSET S \subseteq P
  <2>. HIDE DEF P
  <2>. QED  BY <1>1, <1>2, SubsetInduction
<1>. QED  BY <1>3

\* Over two disjoint sets, the sums add up.
THEOREM SumUnion ==
  ASSUME NEW S, IsFiniteSet(S), NEW U, IsFiniteSet(U), S \cap U = {}, NEW f,
         \A x \in S \cup U : f[x] \in Int
  PROVE  SumFunctionOnSet(f, S \cup U) = SumFunctionOnSet(f, S) + SumFunctionOnSet(f, U)
<1> DEFINE P == {T \in SUBSET U : SumFunctionOnSet(f, S \cup T)
                                    = SumFunctionOnSet(f, S) + SumFunctionOnSet(f, T)}
<1>0. SumFunctionOnSet(f, S) \in Int
  BY SumInt
<1>1. {} \in P
  <2>1. S \cup {} = S
    OBVIOUS
  <2>. QED  BY <1>0, <2>1, SumEmpty
<1>2. ASSUME NEW T \in SUBSET U, NEW x \in U, x \notin T, T \in P
      PROVE  T \cup {x} \in P
  <2>1. IsFiniteSet(T)
    BY FS_Subset
  <2>2. IsFiniteSet(S \cup T)
    BY <2>1, FS_Union
  <2>3. SumFunctionOnSet(f, T \cup {x}) = f[x] + SumFunctionOnSet(f, T)
    BY <1>2, <2>1, SumAdd
  <2>4. (S \cup T) \cup {x} = S \cup (T \cup {x}) /\ x \notin S \cup T
    BY <1>2
  <2>5. SumFunctionOnSet(f, (S \cup T) \cup {x}) = f[x] + SumFunctionOnSet(f, S \cup T)
    BY <1>2, <2>2, <2>4, SumAdd
  <2>6. SumFunctionOnSet(f, T) \in Int /\ f[x] \in Int
    BY <2>1, SumInt
  <2>7. SumFunctionOnSet(f, S \cup T) = SumFunctionOnSet(f, S) + SumFunctionOnSet(f, T)
    BY <1>2
  <2>8. SumFunctionOnSet(f, S \cup (T \cup {x}))
          = SumFunctionOnSet(f, S) + SumFunctionOnSet(f, T \cup {x})
    <3>1. SumFunctionOnSet(f, S \cup (T \cup {x})) = f[x] + SumFunctionOnSet(f, S \cup T)
      BY <2>4, <2>5, Zenon
    <3>2. \A a, b, c \in Int : a + (b + c) = b + (a + c)
      OBVIOUS
    <3>3. f[x] + (SumFunctionOnSet(f, S) + SumFunctionOnSet(f, T))
            = SumFunctionOnSet(f, S) + (f[x] + SumFunctionOnSet(f, T))
      BY <1>0, <2>6, <3>2, Zenon
    <3>. QED  BY <2>3, <2>7, <3>1, <3>3, Zenon
  <2>. QED  BY <2>8
<1>3. SUBSET U \subseteq P
  <2>. HIDE DEF P
  <2>1. \A T \in SUBSET U, x \in U : x \notin T /\ T \in P => T \cup {x} \in P
    BY <1>2
  <2>2. IsFiniteSet(U)
    OBVIOUS
  <2>. QED  BY ONLY <1>1, <2>1, <2>2, SubsetInduction
<1>. QED  BY <1>3

\* Part of a sum of naturals is no larger than the whole.
THEOREM SumPart ==
  ASSUME NEW S, IsFiniteSet(S), NEW T \in SUBSET S, NEW f, \A x \in S : f[x] \in Nat
  PROVE  /\ SumFunctionOnSet(f, T) \in Nat
         /\ SumFunctionOnSet(f, T) <= SumFunctionOnSet(f, S)
<1> DEFINE U == S \ T
<1>1. IsFiniteSet(T) /\ IsFiniteSet(U) /\ T \cap U = {} /\ T \cup U = S
  <2>1. U \in SUBSET S
    OBVIOUS
  <2>2. IsFiniteSet(T) /\ IsFiniteSet(U)
    BY <2>1, FS_Subset
  <2>. QED  BY <2>2
<1>2. SumFunctionOnSet(f, S) = SumFunctionOnSet(f, T) + SumFunctionOnSet(f, U)
  <2>1. \A x \in T \cup U : f[x] \in Int
    OBVIOUS
  <2>. HIDE DEF U
  <2>2. SumFunctionOnSet(f, T \cup U) = SumFunctionOnSet(f, T) + SumFunctionOnSet(f, U)
    BY <1>1, <2>1, SumUnion
  <2>. QED  BY <1>1, <2>2
<1>3. SumFunctionOnSet(f, T) \in Nat /\ SumFunctionOnSet(f, U) \in Nat
  <2>1. \A x \in T : f[x] \in Nat
    OBVIOUS
  <2>2. \A x \in U : f[x] \in Nat
    OBVIOUS
  <2>. HIDE DEF U
  <2>. QED  BY <1>1, <2>1, <2>2, SumNat
<1>. QED
  <2>. HIDE DEF U
  <2>. QED  BY <1>2, <1>3

\* In particular, every summand is.
LEMMA SumBoundsElement ==
  ASSUME NEW S, IsFiniteSet(S), NEW f, \A x \in S : f[x] \in Nat, NEW x \in S
  PROVE  f[x] <= SumFunctionOnSet(f, S)
<1>1. SumFunctionOnSet(f, S) = f[x] + SumFunctionOnSet(f, S \ {x})
  BY SumElement
<1>2. SumFunctionOnSet(f, S \ {x}) \in Nat
  BY SumPart
<1>3. f[x] \in Nat
  OBVIOUS
<1>. QED  BY <1>1, <1>2, <1>3

\* The sum over a set of two.
LEMMA SumPair ==
  ASSUME NEW f, NEW x, NEW y, x # y, f[x] \in Int, f[y] \in Int
  PROVE  SumFunctionOnSet(f, {x, y}) = f[x] + f[y]
<1>1. IsFiniteSet({y}) /\ x \notin {y} /\ {y} \cup {x} = {x, y}
  BY FS_Singleton
<1>2. \A z \in {y} \cup {x} : f[z] \in Int
  OBVIOUS
<1>3. SumFunctionOnSet(f, {y} \cup {x}) = f[x] + SumFunctionOnSet(f, {y})
  BY <1>1, <1>2, SumAdd
<1>. QED  BY <1>1, <1>3, SumOne

\* The sum of sums.
LEMMA SumPlus ==
  ASSUME NEW S, IsFiniteSet(S), NEW f, NEW g, NEW h,
         \A x \in S : f[x] \in Int /\ g[x] \in Int /\ h[x] = f[x] + g[x]
  PROVE  SumFunctionOnSet(h, S) = SumFunctionOnSet(f, S) + SumFunctionOnSet(g, S)
<1> DEFINE P == {T \in SUBSET S :
                   SumFunctionOnSet(h, T) = SumFunctionOnSet(f, T) + SumFunctionOnSet(g, T)}
<1>1. {} \in P
  BY SumEmpty
<1>2. ASSUME NEW T \in SUBSET S, NEW x \in S, x \notin T, T \in P
      PROVE  T \cup {x} \in P
  <2>1. /\ IsFiniteSet(T)
        /\ \A y \in T \cup {x} : f[y] \in Int
        /\ \A y \in T \cup {x} : g[y] \in Int
        /\ \A y \in T \cup {x} : h[y] \in Int
    BY FS_Subset
  <2>2. /\ SumFunctionOnSet(f, T \cup {x}) = f[x] + SumFunctionOnSet(f, T)
        /\ SumFunctionOnSet(g, T \cup {x}) = g[x] + SumFunctionOnSet(g, T)
        /\ SumFunctionOnSet(h, T \cup {x}) = h[x] + SumFunctionOnSet(h, T)
    <3>1. SumFunctionOnSet(f, T \cup {x}) = f[x] + SumFunctionOnSet(f, T)
      BY <1>2, <2>1, SumAdd
    <3>2. SumFunctionOnSet(g, T \cup {x}) = g[x] + SumFunctionOnSet(g, T)
      BY <1>2, <2>1, SumAdd
    <3>3. SumFunctionOnSet(h, T \cup {x}) = h[x] + SumFunctionOnSet(h, T)
      BY <1>2, <2>1, SumAdd
    <3>. QED  BY <3>1, <3>2, <3>3
  <2>3. SumFunctionOnSet(f, T) \in Int /\ SumFunctionOnSet(g, T) \in Int
    BY <2>1, SumInt
  <2>4. f[x] \in Int /\ g[x] \in Int /\ h[x] = f[x] + g[x]
    OBVIOUS
  <2>5. SumFunctionOnSet(h, T) = SumFunctionOnSet(f, T) + SumFunctionOnSet(g, T)
    BY <1>2
  <2>6. SumFunctionOnSet(h, T \cup {x})
          = SumFunctionOnSet(f, T \cup {x}) + SumFunctionOnSet(g, T \cup {x})
    BY <2>2, <2>3, <2>4, <2>5
  <2>. QED  BY <2>6
<1>3. SUBSET S \subseteq P
  <2>. HIDE DEF P
  <2>. QED  BY <1>1, <1>2, SubsetInduction
<1>4. S \in P
  BY <1>3
<1>. QED  BY <1>4

\* Summing group by group gives the sum over the groups together.
THEOREM SumOfGroups ==
  ASSUME NEW A, IsFiniteSet(A), NEW f, \A a \in A : f[a] \in Int,
         NEW key, NEW D, IsFiniteSet(D),
         NEW g, \A d \in D : g[d] = SumFunctionOnSet(f, {a \in A : key[a] = d})
  PROVE  SumFunctionOnSet(g, D) = SumFunctionOnSet(f, {a \in A : key[a] \in D})
<1> DEFINE Group(d) == {a \in A : key[a] = d}
           Groups(T) == {a \in A : key[a] \in T}
           P == {T \in SUBSET D : SumFunctionOnSet(g, T) = SumFunctionOnSet(f, Groups(T))}
<1>0. \A d \in D : IsFiniteSet(Group(d)) /\ SumFunctionOnSet(f, Group(d)) \in Int
  <2> TAKE d \in D
  <2>1. Group(d) \in SUBSET A /\ \A a \in Group(d) : f[a] \in Int
    OBVIOUS
  <2>. HIDE DEF Group
  <2>2. IsFiniteSet(Group(d))
    BY <2>1, FS_Subset
  <2>. QED  BY <2>1, <2>2, SumInt
<1>1. {} \in P
  <2>1. Groups({}) = {}
    OBVIOUS
  <2>2. SumFunctionOnSet(g, {}) = SumFunctionOnSet(f, Groups({}))
    BY <2>1, SumEmpty
  <2>. QED  BY <2>2
<1>2. ASSUME NEW T \in SUBSET D, NEW d \in D, d \notin T, T \in P
      PROVE  T \cup {d} \in P
  <2>1. IsFiniteSet(T) /\ \A e \in T \cup {d} : g[e] \in Int
    BY <1>0, FS_Subset
  <2>2. SumFunctionOnSet(g, T \cup {d}) = g[d] + SumFunctionOnSet(g, T)
    BY <1>2, <2>1, SumAdd
  <2>3. Groups(T \cup {d}) = Groups(T) \cup Group(d) /\ Groups(T) \cap Group(d) = {}
    BY <1>2
  <2>4. Groups(T) \in SUBSET A /\ \A a \in Groups(T) \cup Group(d) : f[a] \in Int
    OBVIOUS
  <2>5. IsFiniteSet(Groups(T))
    <3>. HIDE DEF Groups
    <3>. QED  BY <2>4, FS_Subset
  <2>6. SumFunctionOnSet(f, Groups(T) \cup Group(d))
          = SumFunctionOnSet(f, Groups(T)) + SumFunctionOnSet(f, Group(d))
    <3>1. IsFiniteSet(Group(d))
      BY <1>0
    <3>. HIDE DEF Groups, Group
    <3>. QED  BY <2>3, <2>4, <2>5, <3>1, SumUnion
  <2>7. g[d] = SumFunctionOnSet(f, Group(d))
    OBVIOUS
  <2>8. SumFunctionOnSet(f, Groups(T)) \in Int /\ SumFunctionOnSet(f, Group(d)) \in Int
    <3>1. \A a \in Groups(T) : f[a] \in Int
      OBVIOUS
    <3>. HIDE DEF Groups
    <3>. QED  BY <1>0, <2>5, <3>1, SumInt
  <2>9. SumFunctionOnSet(g, T) = SumFunctionOnSet(f, Groups(T))
    BY <1>2
  <2>10. SumFunctionOnSet(g, T \cup {d}) = SumFunctionOnSet(f, Groups(T \cup {d}))
    <3>1. \A a, b \in Int : a + b = b + a
      OBVIOUS
    <3>2. SumFunctionOnSet(f, Group(d)) + SumFunctionOnSet(f, Groups(T))
            = SumFunctionOnSet(f, Groups(T)) + SumFunctionOnSet(f, Group(d))
      BY <2>8, <3>1, Zenon
    <3>3. SumFunctionOnSet(g, T \cup {d})
            = SumFunctionOnSet(f, Groups(T)) + SumFunctionOnSet(f, Group(d))
      BY <2>2, <2>7, <2>9, <3>2, Zenon
    <3>. HIDE DEF Groups, Group
    <3>. QED  BY <2>3, <2>6, <3>3, Zenon
  <2>. QED  BY <2>10
<1>3. SUBSET D \subseteq P
  <2>. HIDE DEF P
  <2>. QED  BY <1>1, <1>2, SubsetInduction
<1>4. D \in P
  BY <1>3
<1>. QED  BY <1>4

(***************************************************************************)
(* Tables, multiples, quotients and shares.                                 *)
(***************************************************************************)
\* A table, the other way round, and the sums of its rows.
IsTable(a, W, D) == \A q \in W, d \in D : a[q][d] \in Nat
Transposed(b, a, W, D) == \A q \in W, d \in D : b[d][q] = a[q][d]
AreRowSums(g, a, W, D) == \A q \in W : g[q] = SumFunctionOnSet(a[q], D)

\* A table may be summed row by row or column by column.
LEMMA SumSwap ==
  ASSUME NEW D, IsFiniteSet(D), NEW W, IsFiniteSet(W), NEW a, IsTable(a, W, D),
         NEW b, Transposed(b, a, W, D),
         NEW f, AreRowSums(f, b, D, W),
         NEW g, AreRowSums(g, a, W, D)
  PROVE  SumFunctionOnSet(f, D) = SumFunctionOnSet(g, W)
<1> DEFINE column(d) == b[d]
           upTo(T) == [d \in D |-> SumFunctionOnSet(column(d), T)]
           P == {T \in SUBSET W : SumFunctionOnSet(upTo(T), D) = SumFunctionOnSet(g, T)}
<1>0. /\ \A d \in D, q \in W : column(d)[q] \in Nat /\ column(d)[q] = a[q][d]
      /\ \A q \in W : g[q] \in Nat /\ g[q] = SumFunctionOnSet(a[q], D)
      /\ \A q \in W, d \in D : a[q][d] \in Nat
  BY SumNat DEF IsTable, Transposed, AreRowSums
<1>a. \A T \in SUBSET W : IsFiniteSet(T)
  BY FS_Subset
<1>b. \A T \in SUBSET W, d \in D : upTo(T)[d] = SumFunctionOnSet(column(d), T)
  OBVIOUS
<1> HIDE DEF column
<1>c. \A T \in SUBSET W, d \in D : upTo(T)[d] \in Nat
  <2> SUFFICES ASSUME NEW T \in SUBSET W, NEW d \in D PROVE upTo(T)[d] \in Nat
    OBVIOUS
  <2> QED BY <1>0, <1>a, <1>b, SumNat
<1>1. {} \in P
  <2>1. \A d \in D : upTo({})[d] = 0
    BY SumEmpty
  <2> HIDE DEF upTo
  <2> QED BY <2>1, SumZero, SumEmpty
<1>2. ASSUME NEW T \in SUBSET W, NEW x \in W, x \notin T, T \in P
      PROVE  T \cup {x} \in P
  <2>1. \A d \in D : upTo(T \cup {x})[d] = a[x][d] + upTo(T)[d]
    <3> SUFFICES ASSUME NEW d \in D PROVE upTo(T \cup {x})[d] = a[x][d] + upTo(T)[d]
      OBVIOUS
    <3>1. SumFunctionOnSet(column(d), T \cup {x}) = column(d)[x] + SumFunctionOnSet(column(d), T)
      <4>1. \A y \in T \cup {x} : column(d)[y] \in Int
        BY <1>0
      <4> QED BY <4>1, <1>2, <1>a, SumAdd
    <3>2. T \cup {x} \in SUBSET W
      BY <1>2
    <3> HIDE DEF upTo
    <3> QED BY <3>1, <3>2, <1>0, <1>b
  <2>2. T \cup {x} \in SUBSET W
    BY <1>2
  <2> HIDE DEF upTo
  <2>3. SumFunctionOnSet(upTo(T \cup {x}), D) = SumFunctionOnSet(a[x], D) + SumFunctionOnSet(upTo(T), D)
    <3> HIDE DEF P
    <3>1. \A d \in D : a[x][d] \in Nat /\ upTo(T)[d] \in Nat
      BY <1>0, <1>c
    <3>2. \A d \in D : a[x][d] \in Int /\ upTo(T)[d] \in Int
      BY <3>1
    <3> QED BY <2>1, <3>2, SumPlus
  <2>4. SumFunctionOnSet(g, T \cup {x}) = g[x] + SumFunctionOnSet(g, T)
    <3>1. \A y \in T \cup {x} : g[y] \in Int
      BY <1>0, <2>2
    <3> QED BY <3>1, <1>2, <1>a, SumAdd
  <2>5. SumFunctionOnSet(upTo(T), D) = SumFunctionOnSet(g, T)
    BY <1>2
  <2>6. g[x] = SumFunctionOnSet(a[x], D)
    BY <1>0
  <2>7. SumFunctionOnSet(upTo(T \cup {x}), D) = SumFunctionOnSet(g, T \cup {x})
    BY <2>3, <2>4, <2>5, <2>6, Zenon
  <2> QED BY <2>2, <2>7
<1>3. W \in P
  <2> HIDE DEF P
  <2> QED BY <1>1, <1>2, SubsetInduction
<1>4. SumFunctionOnSet(f, D) = SumFunctionOnSet(upTo(W), D)
  <2>1. \A d \in D : upTo(W)[d] = f[d]
    BY DEF column, AreRowSums
  <2> HIDE DEF upTo
  <2> QED BY <2>1, <1>c, SumSame
<1>5. SumFunctionOnSet(upTo(W), D) = SumFunctionOnSet(g, W)
  BY <1>3
<1> QED BY <1>4, <1>5

\* A common factor.
LEMMA SumScale ==
  ASSUME NEW S, IsFiniteSet(S), NEW f, NEW h, NEW r \in Nat,
         \A x \in S : f[x] \in Nat /\ h[x] = r * f[x]
  PROVE  SumFunctionOnSet(h, S) = r * SumFunctionOnSet(f, S)
<1> DEFINE P == {T \in SUBSET S : SumFunctionOnSet(h, T) = r * SumFunctionOnSet(f, T)}
<1>0. \A T \in SUBSET S : IsFiniteSet(T) /\ SumFunctionOnSet(f, T) \in Nat
  BY FS_Subset, SumPart
<1>1. {} \in P
  BY SumEmpty
<1>2. ASSUME NEW T \in SUBSET S, NEW x \in S, x \notin T, T \in P
      PROVE  T \cup {x} \in P
  <2>1. \A y \in T \cup {x} : f[y] \in Int /\ h[y] \in Int
    OBVIOUS
  <2>2. /\ SumFunctionOnSet(f, T \cup {x}) = f[x] + SumFunctionOnSet(f, T)
        /\ SumFunctionOnSet(h, T \cup {x}) = h[x] + SumFunctionOnSet(h, T)
    BY <1>0, <1>2, <2>1, SumAdd
  <2>3. PICK u \in Nat, v \in Nat : u = f[x] /\ v = SumFunctionOnSet(f, T)
    BY <1>0
  <2>4. r * (u + v) = r * u + r * v
    OBVIOUS
  <2> QED BY <1>2, <2>2, <2>3, <2>4
<1> HIDE DEF P
<1>3. S \in P
  BY <1>1, <1>2, SubsetInduction
<1> QED BY <1>3 DEF P

\* Quotients, rounded down, of the parts of a whole.
LEMMA SumQuotients ==
  ASSUME NEW S, IsFiniteSet(S), NEW f, NEW h, NEW m \in Nat \ {0},
         \A x \in S : f[x] \in Nat /\ h[x] \in Nat /\ h[x] * m <= f[x]
  PROVE  SumFunctionOnSet(h, S) * m <= SumFunctionOnSet(f, S)
<1> DEFINE g == [x \in S |-> m * h[x]]
<1>1. \A x \in S : h[x] \in Nat /\ g[x] = m * h[x] /\ g[x] \in Nat /\ f[x] \in Nat /\ g[x] <= f[x]
  <2> SUFFICES ASSUME NEW x \in S PROVE m * h[x] \in Nat /\ m * h[x] <= f[x]
    OBVIOUS
  <2>1. PICK u \in Nat : u = h[x]
    OBVIOUS
  <2>2. u * m = m * u /\ m * u \in Nat
    OBVIOUS
  <2> QED BY <2>1, <2>2
<1> HIDE DEF g
<1>2. SumFunctionOnSet(g, S) = m * SumFunctionOnSet(h, S)
  BY <1>1, SumScale
<1>3. SumFunctionOnSet(g, S) <= SumFunctionOnSet(f, S)
  BY <1>1, SumLarger
<1>4. PICK u \in Nat : u = SumFunctionOnSet(h, S)
  BY <1>1, SumNat
<1>5. u * m = m * u
  OBVIOUS
<1> QED BY <1>2, <1>3, <1>4, <1>5

LEMMA Products == \A x, y \in Nat : x * y \in Nat /\ x * y = y * x
OBVIOUS

\* x div m is a natural, and m times that is at most x.
LEMMA QuotientIs ==
  ASSUME NEW x \in Nat, NEW m \in Nat \ {0}
  PROVE  x \div m \in Nat /\ (x \div m) * m <= x
OBVIOUS

LEMMA CancelFactor == ASSUME NEW x \in Nat, NEW y \in Nat, NEW m \in Nat \ {0}, x * m <= y * m PROVE x <= y
<1> SUFFICES ASSUME x >= y + 1 PROVE FALSE
  OBVIOUS
<1>1. PICK k \in Nat : x = (y + 1) + k
  <2>1. x - (y + 1) \in Nat
    OBVIOUS
  <2> QED BY <2>1
<1>2. x * m = y * m + m + k * m
  BY <1>1
<1>3. k * m \in Nat /\ y * m \in Nat
  BY Products
<1> QED BY <1>2, <1>3

\* The rows of a table, weighted and with an addition for each.
IsWeighted(total, r, x, y) == total = r * x + y
AreWeighted(e, b, s, r, W, D) == \A d \in D : e[d] = r * SumFunctionOnSet(b[d], W) + s[d]
AreWeightedTotals(e, g, s, r, W, D) ==
  \E a, b : /\ IsTable(a, W, D) /\ Transposed(b, a, W, D)
            /\ AreRowSums(g, a, W, D) /\ AreWeighted(e, b, s, r, W, D)

LEMMA SumWeighted ==
  ASSUME NEW D, IsFiniteSet(D), NEW W, IsFiniteSet(W), NEW s, \A d \in D : s[d] \in Nat, NEW r \in Nat,
         NEW e, NEW g, AreWeightedTotals(e, g, s, r, W, D)
  PROVE  /\ SumFunctionOnSet(g, W) \in Nat
         /\ IsWeighted(SumFunctionOnSet(e, D), r, SumFunctionOnSet(g, W), SumFunctionOnSet(s, D))
<1>0. PICK a, b : /\ IsTable(a, W, D) /\ Transposed(b, a, W, D)
                  /\ AreRowSums(g, a, W, D) /\ AreWeighted(e, b, s, r, W, D)
  BY DEF AreWeightedTotals
<1> DEFINE f == [d \in D |-> SumFunctionOnSet(b[d], W)]
           h == [d \in D |-> r * f[d]]
<1>1. ASSUME NEW d \in D PROVE f[d] \in Nat /\ f[d] = SumFunctionOnSet(b[d], W)
  <2>1. \A q \in W : b[d][q] \in Nat
    BY <1>0 DEF IsTable, Transposed
  <2>2. f[d] = SumFunctionOnSet(b[d], W)
    OBVIOUS
  <2> HIDE DEF f
  <2>3. SumFunctionOnSet(b[d], W) \in Nat
    BY <2>1, SumNat
  <2> QED BY <2>2, <2>3
<1>2. SumFunctionOnSet(f, D) = SumFunctionOnSet(g, W)
  <2>1. AreRowSums(f, b, D, W)
    BY DEF AreRowSums
  <2> HIDE DEF f, h
  <2> QED BY <1>0, <2>1, SumSwap
<1>3. \A d \in D : h[d] = r * f[d]
  OBVIOUS
<1>4. \A d \in D : e[d] = r * f[d] + s[d]
  BY <1>0 DEF AreWeighted
<1> HIDE DEF f, h
<1>5. ASSUME NEW d \in D PROVE h[d] \in Nat /\ e[d] = h[d] + s[d]
  <2>1. PICK u \in Nat : u = f[d]
    BY <1>1
  <2>2. r * u \in Nat
    BY Products
  <2> QED BY <2>1, <2>2, <1>3, <1>4
<1>6. SumFunctionOnSet(h, D) = r * SumFunctionOnSet(f, D)
  BY <1>1, <1>3, SumScale
<1>7. SumFunctionOnSet(e, D) = SumFunctionOnSet(h, D) + SumFunctionOnSet(s, D)
  BY <1>5, SumPlus
<1>8. SumFunctionOnSet(f, D) \in Nat
  BY <1>1, SumNat
<1>9. SumFunctionOnSet(e, D) = r * SumFunctionOnSet(g, W) + SumFunctionOnSet(s, D)
  BY <1>2, <1>6, <1>7
<1> QED BY <1>2, <1>8, <1>9 DEF IsWeighted

\* An amount shared in proportion, rounded down: together not more than there is.
AreShares(h, R, e, m, D) == \A d \in D : h[d] = IF e[d] = 0 THEN 0 ELSE (R * e[d]) \div m

LEMMA SumOfShares ==
  ASSUME NEW D, IsFiniteSet(D), NEW R \in Nat, NEW e, \A d \in D : e[d] \in Nat,
         NEW m, m = SumFunctionOnSet(e, D),
         NEW h, AreShares(h, R, e, m, D)
  PROVE  /\ \A d \in D : h[d] \in Nat
         /\ SumFunctionOnSet(h, D) \in Nat
         /\ SumFunctionOnSet(h, D) <= R
         /\ m = 0 => SumFunctionOnSet(h, D) = 0
<1> DEFINE f == [d \in D |-> R * e[d]]
<1>1. m \in Nat /\ \A d \in D : e[d] <= m
  BY SumNat, SumBoundsElement
<1>2. \A d \in D : f[d] = R * e[d]
  OBVIOUS
<1> HIDE DEF f
<1>3. ASSUME m = 0 PROVE (\A d \in D : h[d] = 0) /\ SumFunctionOnSet(h, D) = 0
  <2>1. ASSUME NEW d \in D PROVE h[d] = 0
    <3>1. e[d] = 0
      BY <1>1, <1>3
    <3> QED BY <3>1 DEF AreShares
  <2> QED BY <2>1, SumZero
<1>4. ASSUME m # 0, NEW d \in D PROVE f[d] \in Nat /\ h[d] \in Nat /\ h[d] * m <= f[d]
  <2>0. m \in Nat \ {0}
    BY <1>1, <1>4
  <2>1. PICK x \in Nat : x = R * e[d]
    <3>1. PICK u \in Nat : u = e[d]
      OBVIOUS
    <3>2. R * u \in Nat
      BY Products
    <3> QED BY <3>1, <3>2
  <2>2. CASE e[d] = 0
    <3>1. h[d] = 0 /\ 0 * m = 0
      BY <2>0, <2>2 DEF AreShares
    <3> QED BY <3>1, <2>1, <1>2
  <2>3. CASE e[d] # 0
    <3>1. h[d] = x \div m
      BY <2>1, <2>3 DEF AreShares
    <3>2. x \div m \in Nat /\ (x \div m) * m <= x
      BY <2>0, QuotientIs
    <3> QED BY <3>1, <3>2, <2>1, <1>2
  <2> QED BY <2>2, <2>3
<1>5. ASSUME NEW d \in D PROVE h[d] \in Nat
  BY <1>3, <1>4
<1>6. SumFunctionOnSet(h, D) \in Nat
  BY <1>5, SumNat
<1>7. ASSUME m # 0 PROVE SumFunctionOnSet(h, D) <= R
  <2>0. m \in Nat \ {0}
    BY <1>1, <1>7
  <2>1. SumFunctionOnSet(h, D) * m <= SumFunctionOnSet(f, D)
    <3>1. \A d \in D : f[d] \in Nat /\ h[d] \in Nat /\ h[d] * m <= f[d]
      BY <1>4, <1>7
    <3> QED BY <3>1, <2>0, SumQuotients
  <2>2. SumFunctionOnSet(f, D) = R * m
    <3>1. \A d \in D : e[d] \in Nat /\ f[d] = R * e[d]
      BY <1>2
    <3>2. SumFunctionOnSet(f, D) = R * SumFunctionOnSet(e, D)
      BY <3>1, SumScale
    <3> QED BY <3>2
  <2> QED BY <2>0, <2>1, <2>2, <1>6, CancelFactor
<1> QED BY <1>3, <1>5, <1>6, <1>7
=============================================================================
