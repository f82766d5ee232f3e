-------------------------------- MODULE Sums --------------------------------
(***************************************************************************)
(* Induction over numbers without a predicate as a parameter, and from it  *)
(* what SumFunctionOnSet computes over a finite set.                       *)
(*                                                                         *)
(* The induction theorems of the library take the predicate as an operator *)
(* parameter, which the provers cannot instantiate; a SET of numbers that  *)
(* is closed under successor they can.                                     *)
(***************************************************************************)
EXTENDS Integers, FiniteSets, Functions, WellFoundedInduction, FiniteSetTheorems, TLAPS

\* A set that holds 0 and with every number the next one holds every number.
LEMMA Induction ==
    ASSUME NEW T \in SUBSET Nat, 0 \in T, \A n \in T : n + 1 \in T
    PROVE  T = Nat
<1> DEFINE R == {ss \in Nat \X Nat : ss[1] < ss[2]}
<1>1. IsWellFoundedOn(R, Nat)
  BY NatLessThanWellFounded DEF OpToRel
<1>2. SUFFICES ASSUME Nat \ T # {} PROVE FALSE
  OBVIOUS
<1>3. PICK x \in Nat \ T : \A y \in Nat \ T : <<y, x>> \notin R
  <2> HIDE DEF R
  <2> QED BY <1>1, <1>2, WFMin
<1>4. x # 0 /\ x - 1 \in Nat /\ x - 1 \notin T
  OBVIOUS
<1>5. <<x - 1, x>> \in R
  BY <1>4
<1> QED BY <1>3, <1>4, <1>5

\* A family that holds the empty set, and with a set the one with an element more,
\* holds every finite set.
LEMMA SetInduction ==
    ASSUME NEW S, IsFiniteSet(S), NEW F \in SUBSET SUBSET S, {} \in F,
           \A s \in F : \A x \in S \ s : s \cup {x} \in F
    PROVE  S \in F
<1> DEFINE N == {n \in Nat : \A s \in SUBSET S : Cardinality(s) = n => s \in F}
<1>0. \A s \in SUBSET S : \A x \in s : Cardinality(s \ {x}) = Cardinality(s) - 1
  BY FS_Subset, FS_RemoveElement
<1>1. 0 \in N
  BY FS_Subset, FS_EmptySet
<1>2. ASSUME NEW n \in N PROVE n + 1 \in N
  <2> SUFFICES ASSUME NEW s \in SUBSET S, Cardinality(s) = n + 1 PROVE s \in F
    OBVIOUS
  <2>1. IsFiniteSet(s) /\ n \in Nat
    BY FS_Subset
  <2>2. PICK x \in s : TRUE
    BY <2>1, FS_EmptySet
  <2>3. Cardinality(s \ {x}) = n
    BY <1>0, <2>1
  <2>4. s \ {x} \in F /\ x \in S \ (s \ {x}) /\ s = (s \ {x}) \cup {x}
    BY <2>2, <2>3
  <2> QED BY <2>4
<1>3. N = Nat
  <2> HIDE DEF N
  <2>1. N \in SUBSET Nat
    BY DEF N
  <2> QED BY <2>1, <1>1, <1>2, Induction
<1> QED BY <1>3, FS_CardinalityType

-----------------------------------------------------------------------------
Pick(s) == CHOOSE x \in s : TRUE
\* The equation of the recursive function in the definition of a sum over S.
Sums(f, S, g) ==
    g = [s \in SUBSET S |-> IF s = {} THEN 0 ELSE f[Pick(s)] + g[s \ {Pick(s)}]]

\* The sum is the value at S of the chosen function with that equation.
LEMMA SumIsChosen ==
    ASSUME NEW f, NEW S, NEW g, Sums(f, S, g)
    PROVE  \E h : Sums(f, S, h) /\ SumFunctionOnSet(f, S) = h[S]
<1> DEFINE h == CHOOSE h : h = [s \in SUBSET S |-> IF s = {} THEN 0 ELSE LET x == CHOOSE x \in s : TRUE IN f[x] + h[s \ {x}]]
<1>1. SumFunctionOnSet(f, S) = h[S]
  BY DEF SumFunctionOnSet, FoldFunctionOnSet, MapThenFoldSet
<1>2. g = [s \in SUBSET S |-> IF s = {} THEN 0 ELSE LET x == CHOOSE x \in s : TRUE IN f[x] + g[s \ {x}]]
  BY DEF Sums, Pick
<1>3. h = [s \in SUBSET S |-> IF s = {} THEN 0 ELSE LET x == CHOOSE x \in s : TRUE IN f[x] + h[s \ {x}]]
  BY <1>2
<1>4. Sums(f, S, h)
  BY <1>3 DEF Sums, Pick
<1> QED BY <1>1, <1>4

\* Taking the picked element out of a finite set makes it smaller by one.
LEMMA PickSmaller ==
    ASSUME NEW S, IsFiniteSet(S), NEW s \in SUBSET S, s # {}
    PROVE  /\ Pick(s) \in s /\ s \ {Pick(s)} \in SUBSET S
           /\ Cardinality(s) \in Nat \ {0} /\ Cardinality(s \ {Pick(s)}) = Cardinality(s) - 1
<1>1. Pick(s) \in s
  BY DEF Pick
<1>2. IsFiniteSet(s) /\ Cardinality(s) \in Nat
  BY FS_Subset, FS_CardinalityType
<1>3. Cardinality(s) # 0
  BY <1>2, FS_EmptySet
<1>4. Cardinality(s \ {Pick(s)}) = Cardinality(s) - 1
  BY <1>1, <1>2, FS_RemoveElement
<1> QED BY <1>1, <1>2, <1>3, <1>4

\* Over a finite set the recursive function exists.
LEMMA SumsExist ==
    ASSUME NEW f, NEW S, IsFiniteSet(S)
    PROVE  \E g : Sums(f, S, g)
<1> DEFINE D(n) == {s \in SUBSET S : Cardinality(s) <= n}
           Body(g, s) == IF s = {} THEN 0 ELSE f[Pick(s)] + g[s \ {Pick(s)}]
           Has(n) == \E g : g = [s \in D(n) |-> Body(g, s)]
           T == {n \in Nat : Has(n)}
<1>1. 0 \in T
  <2>1. \A s \in D(0) : s = {}
    BY FS_Subset, FS_EmptySet, FS_CardinalityType
  <2> DEFINE g == [s \in D(0) |-> 0]
  <2>2. g = [s \in D(0) |-> Body(g, s)]
    BY <2>1
  <2> QED BY <2>2
<1>2. ASSUME NEW n \in T PROVE n + 1 \in T
  <2>1. PICK g : g = [s \in D(n) |-> Body(g, s)]
    OBVIOUS
  <2> DEFINE h == [s \in D(n + 1) |-> Body(g, s)]
  <2>2. \A s \in D(n + 1) : s # {} => s \ {Pick(s)} \in D(n) /\ s \ {Pick(s)} \in D(n + 1)
    BY PickSmaller
  <2>3. \A s \in D(n) : s \in D(n + 1) /\ h[s] = g[s]
    <3>1. \A s \in D(n) : g[s] = Body(g, s)
      BY <2>1
    <3>2. \A s \in D(n) : s \in D(n + 1)
      BY FS_Subset, FS_CardinalityType
    <3> QED BY <3>1, <3>2
  <2>4. \A s \in D(n + 1) : Body(g, s) = Body(h, s)
    BY <2>2, <2>3
  <2>5. h = [s \in D(n + 1) |-> Body(h, s)]
    BY <2>4
  <2>6. Has(n + 1)
    <3> HIDE DEF h
    <3> QED BY <2>5
  <2> HIDE DEF Has
  <2> QED BY <2>6
<1>3. Cardinality(S) \in T
  <2>1. T = Nat
    <3> HIDE DEF T
    <3>1. T \in SUBSET Nat
      BY DEF T
    <3> QED BY <3>1, <1>1, <1>2, Induction
  <2> QED BY <2>1, FS_CardinalityType
<1>4. D(Cardinality(S)) = SUBSET S
  BY FS_Subset, FS_CardinalityType
<1>5. PICK g : g = [s \in SUBSET S |-> Body(g, s)]
  BY <1>3, <1>4
<1> QED BY <1>5 DEF Sums

\* It has one value at a set, whatever set it is defined over.
LEMMA SumsAgree ==
    ASSUME NEW f, NEW S, IsFiniteSet(S), NEW T \in SUBSET S,
           NEW g, Sums(f, S, g), NEW h, Sums(f, T, h)
    PROVE  g[T] = h[T]
<1> DEFINE N == {n \in Nat : \A s \in SUBSET T : Cardinality(s) = n => g[s] = h[s]}
<1>0. \A s \in SUBSET T : s \in SUBSET S
  OBVIOUS
<1>1. g[{}] = 0 /\ h[{}] = 0
  BY DEF Sums
<1>2. 0 \in N
  BY <1>0, <1>1, FS_Subset, FS_EmptySet
<1>3. ASSUME NEW n \in N PROVE n + 1 \in N
  <2> SUFFICES ASSUME NEW s \in SUBSET T, Cardinality(s) = n + 1 PROVE g[s] = h[s]
    OBVIOUS
  <2>1. CASE s = {}
    BY <2>1, <1>1
  <2>2. CASE s # {}
    <3>1. Pick(s) \in s /\ Cardinality(s \ {Pick(s)}) = n
      BY <2>2, <1>0, PickSmaller
    <3>2. g[s \ {Pick(s)}] = h[s \ {Pick(s)}]
      BY <3>1
    <3>3. g[s] = f[Pick(s)] + g[s \ {Pick(s)}]
      BY <2>2, <1>0 DEF Sums
    <3>4. h[s] = f[Pick(s)] + h[s \ {Pick(s)}]
      BY <2>2 DEF Sums
    <3> QED BY <3>2, <3>3, <3>4
  <2> QED BY <2>1, <2>2
<1>4. N = Nat
  <2> HIDE DEF N
  <2>1. N \in SUBSET Nat
    BY DEF N
  <2> QED BY <2>1, <1>2, <1>3, Induction
<1>5. IsFiniteSet(T) /\ Cardinality(T) \in Nat
  BY FS_Subset, FS_CardinalityType
<1> QED BY <1>4, <1>5

-----------------------------------------------------------------------------
\* The sum over no elements.
LEMMA SumOfNothing == ASSUME NEW f PROVE SumFunctionOnSet(f, {}) = 0
<1>1. IsFiniteSet({})
  BY FS_EmptySet
<1>2. PICK h : Sums(f, {}, h) /\ SumFunctionOnSet(f, {}) = h[{}]
  BY <1>1, SumsExist, SumIsChosen
<1> QED BY <1>2 DEF Sums

\* One element taken out, the one the definition picks.
LEMMA SumPicks ==
    ASSUME NEW f, NEW S, IsFiniteSet(S), S # {}
    PROVE  SumFunctionOnSet(f, S) = f[Pick(S)] + SumFunctionOnSet(f, S \ {Pick(S)})
<1> DEFINE T == S \ {Pick(S)}
<1>1. T \in SUBSET S /\ IsFiniteSet(T)
  BY FS_Subset
<1>2. PICK g : Sums(f, S, g) /\ SumFunctionOnSet(f, S) = g[S]
  BY SumsExist, SumIsChosen
<1>3. PICK h : Sums(f, T, h) /\ SumFunctionOnSet(f, T) = h[T]
  BY <1>1, SumsExist, SumIsChosen
<1>4. g[T] = h[T]
  BY <1>1, <1>2, <1>3, SumsAgree
<1>5. g[S] = f[Pick(S)] + g[T]
  BY <1>2 DEF Sums
<1> QED BY <1>2, <1>3, <1>4, <1>5

\* A sum of elements of a set that is closed under addition is in that set.
LEMMA SumType ==
    ASSUME NEW f, NEW S, IsFiniteSet(S), NEW V, 0 \in V, \A a, b \in V : a + b \in V,
           \A y \in S : f[y] \in V
    PROVE  SumFunctionOnSet(f, S) \in V
<1> DEFINE N == {n \in Nat : \A s \in SUBSET S : Cardinality(s) = n => SumFunctionOnSet(f, s) \in V}
<1>0. \A s \in SUBSET S : IsFiniteSet(s) /\ Cardinality(s) \in Nat
  BY FS_Subset, FS_CardinalityType
<1>1. 0 \in N
  BY <1>0, SumOfNothing, FS_EmptySet
<1>2. ASSUME NEW n \in N PROVE n + 1 \in N
  <2> SUFFICES ASSUME NEW s \in SUBSET S, Cardinality(s) = n + 1 PROVE SumFunctionOnSet(f, s) \in V
    OBVIOUS
  <2>1. s # {} /\ n \in Nat
    BY FS_EmptySet
  <2>2. Pick(s) \in s /\ s \ {Pick(s)} \in SUBSET S /\ Cardinality(s \ {Pick(s)}) = n
    BY <2>1, PickSmaller
  <2>3. SumFunctionOnSet(f, s) = f[Pick(s)] + SumFunctionOnSet(f, s \ {Pick(s)})
    BY <2>1, <1>0, SumPicks
  <2>4. SumFunctionOnSet(f, s \ {Pick(s)}) \in V /\ f[Pick(s)] \in V
    BY <2>2
  <2> QED BY <2>3, <2>4
<1>3. N = Nat
  <2> HIDE DEF N
  <2>1. N \in SUBSET Nat
    BY DEF N
  <2> QED BY <2>1, <1>1, <1>2, Induction
<1> QED BY <1>0, <1>3

\* Any element taken out.
LEMMA SumAdds ==
    ASSUME NEW f, NEW S, IsFiniteSet(S), NEW x, x \notin S, \A y \in S \cup {x} : f[y] \in Int
    PROVE  SumFunctionOnSet(f, S \cup {x}) = f[x] + SumFunctionOnSet(f, S)
<1> DEFINE U == S \cup {x}
           Sum(s) == SumFunctionOnSet(f, s)
           Adds(s) == \A y \in s : Sum(s) = f[y] + Sum(s \ {y})
           N == {n \in Nat : \A s \in SUBSET U : Cardinality(s) = n => Adds(s)}
<1>0. IsFiniteSet(U) /\ \A s \in SUBSET U : IsFiniteSet(s) /\ Cardinality(s) \in Nat
  BY FS_AddElement, FS_Subset, FS_CardinalityType
<1> HIDE DEF U
<1>1. \A y \in U : f[y] \in Int
  BY DEF U
<1>2. \A s \in SUBSET U : Sum(s) \in Int
  BY <1>0, <1>1, SumType
<1>3. \A s \in SUBSET U : s # {} => Pick(s) \in s /\ Sum(s) = f[Pick(s)] + Sum(s \ {Pick(s)})
  BY <1>0, SumPicks DEF Pick
<1>4. \A s \in SUBSET U : \A y \in s : Cardinality(s \ {y}) = Cardinality(s) - 1
  BY <1>0, FS_RemoveElement
<1> HIDE DEF Sum
<1>5. 0 \in N
  BY <1>0, FS_EmptySet
<1>6. ASSUME NEW n \in N PROVE n + 1 \in N
  <2> SUFFICES ASSUME NEW s \in SUBSET U, Cardinality(s) = n + 1, NEW y \in s
               PROVE  Sum(s) = f[y] + Sum(s \ {y})
    OBVIOUS
  <2> DEFINE c == Pick(s)
  <2>1. c \in s /\ Sum(s) = f[c] + Sum(s \ {c})
    BY <1>3
  <2> HIDE DEF c
  <2>2. Cardinality(s \ {c}) = n /\ Cardinality(s \ {y}) = n
    BY <2>1, <1>4
  <2>3. Adds(s \ {c}) /\ Adds(s \ {y})
    BY <2>2
  <2>4. CASE y # c
    <3>1. c \in s \ {y} /\ y \in s \ {c} /\ (s \ {y}) \ {c} = (s \ {c}) \ {y}
      BY <2>1, <2>4
    <3>2. /\ Sum(s \ {y}) = f[c] + Sum((s \ {c}) \ {y})
          /\ Sum(s \ {c}) = f[y] + Sum((s \ {c}) \ {y})
      BY <3>1, <2>3
    <3>3. f[c] \in Int /\ f[y] \in Int /\ Sum((s \ {c}) \ {y}) \in Int
      BY <1>1, <1>2, <2>1
    <3> QED BY <3>2, <3>3, <2>1
  <2> QED BY <2>1, <2>4
<1>7. N = Nat
  <2> HIDE DEF N
  <2>1. N \in SUBSET Nat
    BY DEF N
  <2> QED BY <2>1, <1>5, <1>6, Induction
<1>8. Adds(U)
  BY <1>0, <1>7
<1>9. x \in U /\ U \ {x} = S
  BY DEF U
<1> QED BY <1>8, <1>9 DEF Sum, U

-----------------------------------------------------------------------------
(***************************************************************************)
(* What the proofs of the modules need.                                    *)
(***************************************************************************)
\* Naturals and integers are closed under addition.
LEMMA NatSum ==
    ASSUME NEW f, NEW S, IsFiniteSet(S), \A y \in S : f[y] \in Nat
    PROVE  SumFunctionOnSet(f, S) \in Nat
<1>1. 0 \in Nat /\ \A a, b \in Nat : a + b \in Nat
  OBVIOUS
<1> QED BY <1>1, SumType
\* The same of integers.
LEMMA IntSum ==
    ASSUME NEW f, NEW S, IsFiniteSet(S), \A y \in S : f[y] \in Int
    PROVE  SumFunctionOnSet(f, S) \in Int
<1>1. 0 \in Int /\ \A a, b \in Int : a + b \in Int
  OBVIOUS
<1> QED BY <1>1, SumType

\* The sum over one element.
LEMMA SumOfOne ==
    ASSUME NEW f, NEW x, f[x] \in Int
    PROVE  SumFunctionOnSet(f, {x}) = f[x]
<1>1. IsFiniteSet({}) /\ {} \cup {x} = {x}
  BY FS_EmptySet
<1>2. SumFunctionOnSet(f, {} \cup {x}) = f[x] + SumFunctionOnSet(f, {})
  BY <1>1, SumAdds
<1> QED BY <1>1, <1>2, SumOfNothing

\* One element of the set taken out.
LEMMA SumRemoves ==
    ASSUME NEW f, NEW S, IsFiniteSet(S), NEW x \in S, \A y \in S : f[y] \in Int
    PROVE  /\ SumFunctionOnSet(f, S) = f[x] + SumFunctionOnSet(f, S \ {x})
           /\ SumFunctionOnSet(f, S \ {x}) \in Int
<1>1. IsFiniteSet(S \ {x}) /\ (S \ {x}) \cup {x} = S
  BY FS_Subset
<1>2. SumFunctionOnSet(f, (S \ {x}) \cup {x}) = f[x] + SumFunctionOnSet(f, S \ {x})
  BY <1>1, SumAdds
<1> QED BY <1>1, <1>2, IntSum

\* Only the values on the set count.
LEMMA SumSame ==
    ASSUME NEW f, NEW g, NEW S, IsFiniteSet(S), \A y \in S : f[y] \in Int /\ g[y] = f[y]
    PROVE  SumFunctionOnSet(g, S) = SumFunctionOnSet(f, S)
<1> DEFINE F == {s \in SUBSET S : SumFunctionOnSet(g, s) = SumFunctionOnSet(f, s)}
<1>1. {} \in F
  BY SumOfNothing
<1>2. ASSUME NEW s \in F, NEW x \in S \ s PROVE s \cup {x} \in F
  <2>1. IsFiniteSet(s)
    BY FS_Subset
  <2>2. SumFunctionOnSet(f, s \cup {x}) = f[x] + SumFunctionOnSet(f, s)
    BY <2>1, SumAdds
  <2>3. SumFunctionOnSet(g, s \cup {x}) = g[x] + SumFunctionOnSet(g, s)
    BY <2>1, SumAdds
  <2> QED BY <2>2, <2>3
<1>3. S \in F
  <2> HIDE DEF F
  <2>1. F \in SUBSET SUBSET S
    BY DEF F
  <2> QED BY <2>1, <1>1, <1>2, SetInduction
<1> QED BY <1>3

\* A value that changes changes the sum by as much.
LEMMA SumChanges ==
    ASSUME NEW f, NEW g, NEW S, IsFiniteSet(S), NEW x \in S,
           \A y \in S : f[y] \in Int /\ g[y] \in Int,
           \A y \in S \ {x} : g[y] = f[y]
    PROVE  SumFunctionOnSet(g, S) = SumFunctionOnSet(f, S) - f[x] + g[x]
<1>1. SumFunctionOnSet(g, S \ {x}) = SumFunctionOnSet(f, S \ {x})
  BY SumSame, FS_Subset
<1>2. /\ SumFunctionOnSet(f, S) = f[x] + SumFunctionOnSet(f, S \ {x})
      /\ SumFunctionOnSet(g, S) = g[x] + SumFunctionOnSet(g, S \ {x})
      /\ SumFunctionOnSet(f, S \ {x}) \in Int
  BY SumRemoves
<1> QED BY <1>1, <1>2

\* One element more, whatever the function was there.
LEMMA SumGains ==
    ASSUME NEW f, NEW g, NEW S, IsFiniteSet(S), NEW x, x \notin S,
           \A y \in S : f[y] \in Int /\ g[y] = f[y], g[x] \in Int
    PROVE  SumFunctionOnSet(g, S \cup {x}) = SumFunctionOnSet(f, S) + g[x]
<1>1. SumFunctionOnSet(g, S) = SumFunctionOnSet(f, S) /\ SumFunctionOnSet(f, S) \in Int
  BY SumSame, IntSum
<1>2. SumFunctionOnSet(g, S \cup {x}) = g[x] + SumFunctionOnSet(g, S)
  <2>1. \A y \in S \cup {x} : g[y] \in Int
    OBVIOUS
  <2> QED BY <2>1, SumAdds
<1> QED BY <1>1, <1>2

\* Two sets without a common element.
LEMMA SumOfTwo ==
    ASSUME NEW f, NEW S, IsFiniteSet(S), NEW T, IsFiniteSet(T), S \cap T = {},
           \A y \in S \cup T : f[y] \in Int
    PROVE  SumFunctionOnSet(f, S \cup T) = SumFunctionOnSet(f, S) + SumFunctionOnSet(f, T)
<1> DEFINE F == {t \in SUBSET T : SumFunctionOnSet(f, S \cup t)
                                     = SumFunctionOnSet(f, S) + SumFunctionOnSet(f, t)}
<1>1. {} \in F
  <2>1. S \cup {} = S /\ SumFunctionOnSet(f, S) \in Int
    BY IntSum
  <2> QED BY <2>1, SumOfNothing
<1>2. ASSUME NEW t \in F, NEW x \in T \ t PROVE t \cup {x} \in F
  <2>1. IsFiniteSet(t) /\ IsFiniteSet(S \cup t) /\ x \notin S \cup t /\ S \cup (t \cup {x}) = (S \cup t) \cup {x}
    BY FS_Subset, FS_Union
  <2>2. SumFunctionOnSet(f, t \cup {x}) = f[x] + SumFunctionOnSet(f, t)
    BY <2>1, SumAdds
  <2>3. SumFunctionOnSet(f, (S \cup t) \cup {x}) = f[x] + SumFunctionOnSet(f, S \cup t)
    BY <2>1, SumAdds
  <2>4. f[x] \in Int /\ SumFunctionOnSet(f, t) \in Int /\ SumFunctionOnSet(f, S) \in Int
    BY <2>1, IntSum
  <2>5. SumFunctionOnSet(f, S \cup (t \cup {x})) = f[x] + SumFunctionOnSet(f, S \cup t)
    BY <2>1, <2>3
  <2>6. SumFunctionOnSet(f, S \cup t) = SumFunctionOnSet(f, S) + SumFunctionOnSet(f, t)
    OBVIOUS
  <2>7. SumFunctionOnSet(f, S \cup (t \cup {x})) = SumFunctionOnSet(f, S) + SumFunctionOnSet(f, t \cup {x})
    BY <2>2, <2>4, <2>5, <2>6
  <2> QED BY <2>7
<1>3. T \in F
  <2> HIDE DEF F
  <2>1. F \in SUBSET SUBSET T
    BY DEF F
  <2> QED BY <2>1, <1>1, <1>2, SetInduction
<1> QED BY <1>3

\* Fewer elements or smaller values, all natural, make no more.
LEMMA SumOfFewer ==
    ASSUME NEW f, NEW S, IsFiniteSet(S), NEW T \in SUBSET S, \A y \in S : f[y] \in Nat
    PROVE  SumFunctionOnSet(f, T) <= SumFunctionOnSet(f, S)
<1>1. IsFiniteSet(T) /\ IsFiniteSet(S \ T) /\ T \cup (S \ T) = S /\ T \cap (S \ T) = {}
  BY FS_Subset
<1>2. SumFunctionOnSet(f, T \cup (S \ T)) = SumFunctionOnSet(f, T) + SumFunctionOnSet(f, S \ T)
  BY <1>1, SumOfTwo
<1>3. SumFunctionOnSet(f, S) = SumFunctionOnSet(f, T) + SumFunctionOnSet(f, S \ T)
  BY <1>1, <1>2
<1>4. SumFunctionOnSet(f, T) \in Nat /\ SumFunctionOnSet(f, S \ T) \in Nat
  BY <1>1, NatSum
<1> QED BY <1>3, <1>4

\* Smaller values make no more.
LEMMA SumOfSmaller ==
    ASSUME NEW f, NEW g, NEW S, IsFiniteSet(S),
           \A y \in S : f[y] \in Int /\ g[y] \in Int /\ f[y] <= g[y]
    PROVE  SumFunctionOnSet(f, S) <= SumFunctionOnSet(g, S)
<1> DEFINE F == {s \in SUBSET S : SumFunctionOnSet(f, s) <= SumFunctionOnSet(g, s)}
<1>1. {} \in F
  BY SumOfNothing
<1>2. ASSUME NEW s \in F, NEW x \in S \ s PROVE s \cup {x} \in F
  <2>1. IsFiniteSet(s)
    BY FS_Subset
  <2>2. SumFunctionOnSet(f, s \cup {x}) = f[x] + SumFunctionOnSet(f, s)
    BY <2>1, SumAdds
  <2>3. SumFunctionOnSet(g, s \cup {x}) = g[x] + SumFunctionOnSet(g, s)
    BY <2>1, SumAdds
  <2>4. SumFunctionOnSet(f, s) \in Int /\ SumFunctionOnSet(g, s) \in Int
    BY <2>1, IntSum
  <2>5. f[x] \in Int /\ g[x] \in Int /\ f[x] <= g[x]
    OBVIOUS
  <2> QED BY <2>2, <2>3, <2>4, <2>5
<1>3. S \in F
  <2> HIDE DEF F
  <2>1. F \in SUBSET SUBSET S
    BY DEF F
  <2> QED BY <2>1, <1>1, <1>2, SetInduction
<1> QED BY <1>3

\* What is bounded class by class, where h is the class of an element, is bounded
\* by the sum of the bounds.
LEMMA SumByClass ==
    ASSUME NEW f, NEW S, IsFiniteSet(S), \A y \in S : f[y] \in Int, NEW h,
           NEW g, NEW K, IsFiniteSet(K), \A k \in K : g[k] \in Int,
           \A k \in K : SumFunctionOnSet(f, {y \in S : h[y] = k}) <= g[k]
    PROVE  SumFunctionOnSet(f, {y \in S : h[y] \in K}) <= SumFunctionOnSet(g, K)
<1> DEFINE Of(C) == {y \in S : h[y] \in C}
           F == {C \in SUBSET K : SumFunctionOnSet(f, Of(C)) <= SumFunctionOnSet(g, C)}
<1>1. {} \in F
  <2>1. Of({}) = {}
    OBVIOUS
  <2> QED BY <2>1, SumOfNothing
<1>2. ASSUME NEW C \in F, NEW k \in K \ C PROVE C \cup {k} \in F
  <2> DEFINE D == {y \in S : h[y] = k}
  <2>1. /\ Of(C \cup {k}) = Of(C) \cup D /\ Of(C) \cap D = {}
        /\ IsFiniteSet(C) /\ IsFiniteSet(Of(C)) /\ IsFiniteSet(D)
    BY FS_Subset
  <2>2. SumFunctionOnSet(g, C \cup {k}) = g[k] + SumFunctionOnSet(g, C)
    BY <2>1, SumAdds
  <2>3. SumFunctionOnSet(f, Of(C) \cup D) = SumFunctionOnSet(f, Of(C)) + SumFunctionOnSet(f, D)
    <3>1. \A y \in Of(C) \cup D : f[y] \in Int
      OBVIOUS
    <3> HIDE DEF Of, D
    <3> QED BY <3>1, <2>1, SumOfTwo
  <2>4. /\ SumFunctionOnSet(f, Of(C)) \in Int /\ SumFunctionOnSet(f, D) \in Int
        /\ SumFunctionOnSet(g, C) \in Int /\ g[k] \in Int
    BY <2>1, IntSum
  <2>5. SumFunctionOnSet(f, Of(C)) <= SumFunctionOnSet(g, C) /\ SumFunctionOnSet(f, D) <= g[k]
    OBVIOUS
  <2>6. SumFunctionOnSet(f, Of(C \cup {k})) <= SumFunctionOnSet(g, C \cup {k})
    <3> HIDE DEF Of, D
    <3>1. SumFunctionOnSet(f, Of(C \cup {k})) = SumFunctionOnSet(f, Of(C)) + SumFunctionOnSet(f, D)
      BY <2>1, <2>3
    <3> QED BY <3>1, <2>2, <2>4, <2>5
  <2> QED BY <2>6
<1>3. K \in F
  <2> HIDE DEF F
  <2>1. F \in SUBSET SUBSET K
    BY DEF F
  <2> QED BY <2>1, <1>1, <1>2, SetInduction
<1> QED BY <1>3
=============================================================================
