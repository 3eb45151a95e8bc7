---------------------------- MODULE SumTheorems ----------------------------
(***************************************************************************)
(* Sums over finite sets, as SumFunctionOnSet computes them: its fold is a *)
(* CHOOSE of a recursive function, which is shown to exist and to be the   *)
(* only one.  Inductions are over sets, not predicates.                    *)
(***************************************************************************)
EXTENDS Integers, FiniteSets, FiniteSetsExt, FiniteSetTheorems, TLAPS

\* Induction over the naturals, for a set instead of a predicate.
LEMMA Induction ==
  ASSUME NEW P, 0 \in P, \A n \in Nat : n \in P => n + 1 \in P
  PROVE  Nat \subseteq P
<1> SUFFICES ASSUME Nat \ P # {} PROVE FALSE
  OBVIOUS
<1> DEFINE less == OpToRel(<, Nat)
<1>1. IsWellFoundedOn(less, Nat)
  BY NatLessThanWellFounded
<1>2. \A m, n \in Nat : m < n => <<m, n>> \in less
  BY DEF OpToRel
<1> HIDE DEF less
<1>3. PICK n \in Nat \ P : \A m \in Nat \ P : ~(<<m, n>> \in less)
  BY <1>1, WFMin
<1>4. PICK m \in Nat : n = m + 1
  BY <1>3
<1>5. <<m, n>> \in less
  BY <1>2, <1>4
<1>6. m \in P
  BY <1>3, <1>5
<1> QED
  BY <1>4, <1>6

\* A set of numbers has a least one.
LEMMA MinIsLeast ==
  ASSUME NEW S \in SUBSET Nat, S # {}
  PROVE  Min(S) \in S /\ \A n \in S : Min(S) <= n
<1> DEFINE less == OpToRel(<, Nat)
<1>1. IsWellFoundedOn(less, Nat)
  BY NatLessThanWellFounded
<1>2. \A m, n \in Nat : m < n => <<m, n>> \in less
  BY DEF OpToRel
<1> HIDE DEF less
<1>3. PICK n \in S : \A m \in S : ~(<<m, n>> \in less)
  BY <1>1, WFMin
<1>4. \A m \in S : n <= m
  <2>1. n \in Nat /\ \A m \in S : m \in Nat
    OBVIOUS
  <2>2. ASSUME NEW m \in S PROVE ~(m < n)
    BY <1>2, <1>3, <2>1
  <2> QED
    BY <2>1, <2>2
<1>5. Min(S) = CHOOSE x \in S : \A y \in S : x <= y
  BY DEF Min
<1> QED
  BY <1>4, <1>5

\* The recursion of the fold, up to sets of n elements.
Chosen(s) == CHOOSE x \in s : TRUE

\* The element a fold takes next.
LEMMA ChosenIn == \A s : s # {} => Chosen(s) \in s
  BY DEF Chosen

Recursion(g, f, U) ==
    g = [s \in U |-> IF s = {} THEN 0 ELSE f[Chosen(s)] + g[s \ {Chosen(s)}]]

Small(S, n) == {s \in SUBSET S : Cardinality(s) <= n}

\* The recursive function that a fold is chosen from exists.
LEMMA RecursionExists ==
  ASSUME NEW f, NEW S, IsFiniteSet(S)
  PROVE  \E g : Recursion(g, f, SUBSET S)
<1> DEFINE P == {n \in Nat : \E g : Recursion(g, f, Small(S, n))}
<1>0. \A s \in SUBSET S : IsFiniteSet(s) /\ Cardinality(s) \in Nat
  BY FS_Subset, FS_CardinalityType
<1>1. 0 \in P
  <2>1. Small(S, 0) = {{}}
    BY <1>0, FS_EmptySet DEF Small
  <2>2. Recursion([s \in {{}} |-> 0], f, {{}})
    BY DEF Recursion
  <2> QED
    BY <2>1, <2>2
<1>2. ASSUME NEW n \in Nat, n \in P
      PROVE  n + 1 \in P
  <2>1. PICK g : Recursion(g, f, Small(S, n))
    BY <1>2
  <2> DEFINE h == [s \in Small(S, n + 1) |->
                     IF s = {} THEN 0 ELSE f[Chosen(s)] + g[s \ {Chosen(s)}]]
  <2>2. \A s \in Small(S, n) : s \in Small(S, n + 1) /\ h[s] = g[s]
    <3>1. \A s \in Small(S, n) : s \in Small(S, n + 1)
      BY <1>0 DEF Small
    <3> QED  BY <2>1, <3>1 DEF Recursion
  <2>3. \A s \in Small(S, n + 1) : s # {} => s \ {Chosen(s)} \in Small(S, n)
    BY <1>0, ChosenIn, FS_RemoveElement DEF Small
  <2> HIDE DEF h
  <2>4. \A s \in Small(S, n + 1) : s # {} => g[s \ {Chosen(s)}] = h[s \ {Chosen(s)}]
    BY <2>2, <2>3
  <2>5. Recursion(h, f, Small(S, n + 1))
    BY <2>4 DEF h, Recursion
  <2>6. \E e : Recursion(e, f, Small(S, n + 1))
    BY <2>5
  <2> QED
    BY <2>6
<1>3. Cardinality(S) \in P
  <2> HIDE DEF P
  <2>1. Nat \subseteq P
    BY <1>1, <1>2, Induction
  <2> QED  BY <2>1, <1>0
<1>4. Small(S, Cardinality(S)) = SUBSET S
  BY <1>0, FS_Subset DEF Small
<1> QED
  BY <1>3, <1>4

\* A sum is a value of such a function.
LEMMA SumRecursion ==
  ASSUME NEW f, NEW S, IsFiniteSet(S)
  PROVE  \E g : Recursion(g, f, SUBSET S) /\ SumFunctionOnSet(f, S) = g[S]
<1> DEFINE g == CHOOSE g : Recursion(g, f, SUBSET S)
<1>1. Recursion(g, f, SUBSET S)
  BY RecursionExists
<1>2. SumFunctionOnSet(f, S) = g[S]
  BY DEF SumFunctionOnSet, FoldFunctionOnSet, MapThenFoldSet, Recursion, Chosen
<1> QED
  BY <1>1, <1>2

\* Induction over the subsets of a finite set.
LEMMA SubsetInduction ==
  ASSUME NEW S, IsFiniteSet(S), NEW P, {} \in P,
         \A T \in SUBSET S : T # {} /\ (\A U \in SUBSET T : U # T => U \in P) => T \in P
  PROVE  SUBSET S \subseteq P
<1> DEFINE Q == {n \in Nat : Small(S, n) \subseteq P}
<1>0. \A s \in SUBSET S : IsFiniteSet(s) /\ Cardinality(s) \in Nat
  BY FS_Subset, FS_CardinalityType
<1>1. 0 \in Q
  <2>1. Small(S, 0) = {{}}
    BY <1>0, FS_EmptySet DEF Small
  <2> QED
    BY <2>1
<1>2. ASSUME NEW n \in Nat, n \in Q
      PROVE  n + 1 \in Q
  <2>1. ASSUME NEW T \in Small(S, n + 1), T # {} PROVE T \in P
    <3>1. ASSUME NEW U \in SUBSET T, U # T PROVE U \in P
      <4>1. Cardinality(U) <= Cardinality(T) /\ Cardinality(U) # Cardinality(T)
        BY <1>0, <3>1, FS_Subset DEF Small
      <4>2. U \in Small(S, n)
        BY <1>0, <4>1 DEF Small
      <4> QED
        BY <1>2, <4>2
    <3> QED
      BY <2>1, <3>1 DEF Small
  <2> QED
    BY <2>1
<1>3. Cardinality(S) \in Q
  <2> HIDE DEF Q
  <2>1. Nat \subseteq Q
    BY <1>1, <1>2, Induction
  <2> QED  BY <2>1, <1>0
<1>4. Small(S, Cardinality(S)) = SUBSET S
  BY <1>0, FS_Subset DEF Small
<1> QED
  BY <1>3, <1>4

\* Two functions with the same values have the same fold.
LEMMA RecursionUnique ==
  ASSUME NEW S, IsFiniteSet(S), NEW f, NEW e, \A x \in S : f[x] = e[x],
         NEW g, NEW h, NEW T, S \subseteq T,
         Recursion(g, f, SUBSET T), Recursion(h, e, SUBSET S)
  PROVE  g[S] = h[S]
<1> DEFINE P == {U \in SUBSET S : g[U] = h[U]}
<1>1. {} \in P
  BY DEF Recursion
<1>2. ASSUME NEW U \in SUBSET S, U # {}, \A V \in SUBSET U : V # U => V \in P
      PROVE  U \in P
  <2>1. PICK x \in U : x = Chosen(U)
    BY <1>2, ChosenIn
  <2>2. g[U] = f[x] + g[U \ {x}] /\ h[U] = e[x] + h[U \ {x}]
    BY <1>2, <2>1 DEF Recursion
  <2>3. g[U \ {x}] = h[U \ {x}] /\ f[x] = e[x]
    BY <1>2, <2>1
  <2> QED
    BY <2>2, <2>3
<1> HIDE DEF P
<1>3. SUBSET S \subseteq P
  BY <1>1, <1>2, SubsetInduction
<1> QED
  BY <1>3 DEF P

\* A sum over a set does not depend on the values outside of it.
LEMMA SumCongruence ==
  ASSUME NEW S, IsFiniteSet(S), NEW f, NEW e, \A x \in S : f[x] = e[x]
  PROVE  SumFunctionOnSet(f, S) = SumFunctionOnSet(e, S)
<1>1. PICK g : Recursion(g, f, SUBSET S) /\ SumFunctionOnSet(f, S) = g[S]
  BY SumRecursion
<1>2. PICK h : Recursion(h, e, SUBSET S) /\ SumFunctionOnSet(e, S) = h[S]
  BY SumRecursion
<1>3. g[S] = h[S]
  BY <1>1, <1>2, RecursionUnique
<1> QED
  BY <1>1, <1>2, <1>3

IsSumOf(g, f, S) == \A T \in SUBSET S : SumFunctionOnSet(f, T) = g[T]

\* One function has the sums over all subsets.
LEMMA SumTable ==
  ASSUME NEW S, IsFiniteSet(S), NEW f
  PROVE  \E g : Recursion(g, f, SUBSET S) /\ IsSumOf(g, f, S)
<1>1. PICK g : Recursion(g, f, SUBSET S)
  BY RecursionExists
<1>2. ASSUME NEW T \in SUBSET S PROVE SumFunctionOnSet(f, T) = g[T]
  <2>0. IsFiniteSet(T)
    BY FS_Subset
  <2>1. PICK h : Recursion(h, f, SUBSET T) /\ SumFunctionOnSet(f, T) = h[T]
    BY <2>0, SumRecursion
  <2>2. g[T] = h[T]
    BY <1>1, <2>0, <2>1, RecursionUnique
  <2> QED
    BY <2>1, <2>2
<1> QED
  BY <1>1, <1>2 DEF IsSumOf

\* The sum over nothing.
LEMMA SumEmpty == \A f : SumFunctionOnSet(f, {}) = 0
<1> SUFFICES ASSUME NEW f PROVE SumFunctionOnSet(f, {}) = 0
  OBVIOUS
<1>1. PICK g : Recursion(g, f, SUBSET {}) /\ SumFunctionOnSet(f, {}) = g[{}]
  BY SumRecursion, FS_EmptySet
<1> QED
  BY <1>1 DEF Recursion

TakesAny(g, f, S) ==
    \A T \in SUBSET S : g[T] \in Int /\ \A x \in T : g[T] = f[x] + g[T \ {x}]

\* The order in which the fold takes the elements does not matter.
LEMMA RecursionTakesAny ==
  ASSUME NEW S, IsFiniteSet(S), NEW f, \A x \in S : f[x] \in Int,
         NEW g, Recursion(g, f, SUBSET S)
  PROVE  TakesAny(g, f, S)
<1> DEFINE P == {T \in SUBSET S : g[T] \in Int /\ \A x \in T : g[T] = f[x] + g[T \ {x}]}
<1>1. {} \in P
  BY DEF Recursion
<1>2. ASSUME NEW T \in SUBSET S, T # {}, \A U \in SUBSET T : U # T => U \in P
      PROVE  T \in P
  <2>1. PICK c \in T : c = Chosen(T)
    BY <1>2, ChosenIn
  <2>2. g[T] = f[c] + g[T \ {c}]
    BY <1>2, <2>1 DEF Recursion
  <2>3. \A U \in SUBSET T : U # T => g[U] \in Int /\ \A x \in U : g[U] = f[x] + g[U \ {x}]
    BY <1>2
  <2>4. \A x \in T : f[x] \in Int /\ g[T \ {x}] \in Int
    BY <2>3
  <2>5. ASSUME NEW x \in T, x # c PROVE g[T] = f[x] + g[T \ {x}]
    <3>1. PICK U \in SUBSET T : U = T \ {c, x} /\ U = (T \ {c}) \ {x} /\ U = (T \ {x}) \ {c}
      OBVIOUS
    <3>2. g[T \ {c}] = f[x] + g[U]
      BY <2>3, <2>5, <3>1
    <3>3. g[T \ {x}] = f[c] + g[U]
      BY <2>3, <2>5, <3>1
    <3>4. g[U] \in Int /\ f[x] \in Int /\ f[c] \in Int
      BY <2>3, <2>4, <3>1
    <3> QED
      BY <2>2, <3>2, <3>3, <3>4
  <2>6. g[T] \in Int
    <3>1. PICK a \in Int, b \in Int : a = f[c] /\ b = g[T \ {c}]
      BY <2>4
    <3> QED
      BY <2>2, <3>1
  <2>7. \A x \in T : g[T] = f[x] + g[T \ {x}]
    BY <2>2, <2>5
  <2> QED
    BY <2>6, <2>7
<1> HIDE DEF P
<1>3. SUBSET S \subseteq P
  BY <1>1, <1>2, SubsetInduction
<1> QED
  BY <1>3 DEF P, TakesAny

\* A sum is an integer, and any element can be taken out of it.
LEMMA SumTakesOut ==
  ASSUME NEW S, IsFiniteSet(S), NEW f, \A x \in S : f[x] \in Int
  PROVE  /\ SumFunctionOnSet(f, S) \in Int
         /\ \A x \in S : SumFunctionOnSet(f, S) = f[x] + SumFunctionOnSet(f, S \ {x})
<1>1. PICK g : Recursion(g, f, SUBSET S) /\ IsSumOf(g, f, S)
  BY SumTable
<1>2. TakesAny(g, f, S)
  BY <1>1, RecursionTakesAny
<1> QED
  BY <1>1, <1>2 DEF IsSumOf, TakesAny

\* A function that extends another by an element outside of its sum.
LEMMA SumAppend ==
  ASSUME NEW S, IsFiniteSet(S), NEW f, NEW e, NEW x, x \notin S,
         \A y \in S : f[y] = e[y] /\ f[y] \in Int, e[x] \in Int
  PROVE  /\ SumFunctionOnSet(e, S \cup {x}) = SumFunctionOnSet(f, S) + e[x]
         /\ SumFunctionOnSet(f, S) \in Int
<1>1. PICK T : T = S \cup {x}
  OBVIOUS
<1>2. IsFiniteSet(T) /\ T \ {x} = S /\ x \in T
  BY <1>1, FS_AddElement
<1>3. \A y \in T : e[y] \in Int
  BY <1>1
<1>4. SumFunctionOnSet(e, T) = e[x] + SumFunctionOnSet(e, S)
  BY <1>2, <1>3, SumTakesOut
<1>5. SumFunctionOnSet(f, S) = SumFunctionOnSet(e, S) /\ SumFunctionOnSet(f, S) \in Int
  BY SumCongruence, SumTakesOut
<1>6. PICK s \in Int, v \in Int : s = SumFunctionOnSet(f, S) /\ v = e[x]
  BY <1>5
<1> QED
  BY <1>1, <1>4, <1>5, <1>6

\* A sum of naturals is a natural, and of positive ones it is positive.
LEMMA SumNat ==
  ASSUME NEW S, IsFiniteSet(S), NEW f, \A x \in S : f[x] \in Nat
  PROVE  /\ SumFunctionOnSet(f, S) \in Nat
         /\ \A x \in S : SumFunctionOnSet(f, S) >= f[x]
<1>1. PICK g : Recursion(g, f, SUBSET S) /\ IsSumOf(g, f, S)
  BY SumTable
<1>2. TakesAny(g, f, S)
  BY <1>1, RecursionTakesAny
<1> DEFINE P == {T \in SUBSET S : g[T] \in Nat /\ \A x \in T : g[T] >= f[x]}
<1>3. {} \in P
  BY <1>1 DEF Recursion
<1>4. ASSUME NEW T \in SUBSET S, T # {}, \A U \in SUBSET T : U # T => U \in P
      PROVE  T \in P
  <2>1. \A x \in T : g[T] = f[x] + g[T \ {x}] /\ f[x] \in Nat
    BY <1>2 DEF TakesAny
  <2>2. \A x \in T : g[T \ {x}] \in Nat
    BY <1>4
  <2>3. ASSUME NEW x \in T PROVE g[T] \in Nat /\ g[T] >= f[x]
    <3>1. PICK a \in Nat, b \in Nat : a = f[x] /\ b = g[T \ {x}]
      BY <2>1, <2>2
    <3>2. g[T] = a + b
      BY <2>1, <3>1
    <3>3. a + b \in Nat /\ a + b >= a
      BY <3>1
    <3> QED
      BY <3>1, <3>2, <3>3
  <2> QED
    BY <1>4, <2>3
<1> HIDE DEF P
<1>5. SUBSET S \subseteq P
  BY <1>3, <1>4, SubsetInduction
<1> QED
  BY <1>1, <1>5 DEF P, IsSumOf

IntegersOn(f, S) == \A x \in S : f[x] \in Int

\* One element more, within a set of integer values.
LEMMA SumInsert ==
  ASSUME NEW S, IsFiniteSet(S), NEW f, IntegersOn(f, S),
         NEW T \in SUBSET S, NEW x \in S \ T
  PROVE  /\ SumFunctionOnSet(f, T) \in Int
         /\ SumFunctionOnSet(f, T \cup {x}) \in Int
         /\ SumFunctionOnSet(f, T \cup {x}) = SumFunctionOnSet(f, T) + f[x]
<1>1. IsFiniteSet(T)
  BY FS_Subset
<1>2. /\ SumFunctionOnSet(f, T \cup {x}) = SumFunctionOnSet(f, T) + f[x]
      /\ SumFunctionOnSet(f, T) \in Int
  BY <1>1, SumAppend DEF IntegersOn
<1>3. PICK a \in Int, b \in Int : a = SumFunctionOnSet(f, T) /\ b = f[x]
  BY <1>2 DEF IntegersOn
<1> QED
  BY <1>2, <1>3

\* Induction on a finite set, one element at a time.
LEMMA InsertInduction ==
  ASSUME NEW S, IsFiniteSet(S), NEW P, {} \in P,
         \A T \in SUBSET S : \A x \in S \ T : T \in P => T \cup {x} \in P
  PROVE  SUBSET S \subseteq P
<1>1. ASSUME NEW T \in SUBSET S, T # {}, \A U \in SUBSET T : U # T => U \in P
      PROVE  T \in P
  <2>1. PICK x \in T : TRUE
    BY <1>1
  <2>2. PICK U \in SUBSET S : U = T \ {x}
    OBVIOUS
  <2>3. U \in P
    BY <1>1, <2>1, <2>2
  <2>4. U \cup {x} \in P
    BY <2>1, <2>2, <2>3
  <2>5. U \cup {x} = T
    BY <2>1, <2>2
  <2> QED
    BY <2>4, <2>5
<1> QED
  BY <1>1, SubsetInduction

\* A sum of zeros.
LEMMA SumZero ==
  ASSUME NEW S, IsFiniteSet(S), NEW f, \A x \in S : f[x] = 0
  PROVE  SumFunctionOnSet(f, S) = 0
<1> DEFINE P == {T \in SUBSET S : SumFunctionOnSet(f, T) = 0}
<1>1. {} \in P
  BY SumEmpty
<1>2. ASSUME NEW T \in SUBSET S, NEW x \in S \ T, T \in P
      PROVE  T \cup {x} \in P
  <2>1. SumFunctionOnSet(f, T \cup {x}) = SumFunctionOnSet(f, T) + f[x]
    BY SumInsert DEF IntegersOn
  <2>2. SumFunctionOnSet(f, T) = 0 /\ f[x] = 0
    BY <1>2
  <2> QED
    BY <2>1, <2>2
<1> HIDE DEF P
<1>3. SUBSET S \subseteq P
  BY <1>1, <1>2, InsertInduction
<1> QED
  BY <1>3 DEF P

\* Sums are additive in the function.
LEMMA SumAdd ==
  ASSUME NEW S, IsFiniteSet(S), NEW f, NEW e, NEW h,
         IntegersOn(f, S), IntegersOn(e, S), \A x \in S : h[x] = f[x] + e[x]
  PROVE  SumFunctionOnSet(h, S) = SumFunctionOnSet(f, S) + SumFunctionOnSet(e, S)
<1> DEFINE P == {T \in SUBSET S :
                    SumFunctionOnSet(h, T) = SumFunctionOnSet(f, T) + SumFunctionOnSet(e, T)}
<1>0. IntegersOn(h, S)
  <2>1. ASSUME NEW x \in S PROVE h[x] \in Int
    <3>1. PICK a \in Int, b \in Int : a = f[x] /\ b = e[x]
      BY DEF IntegersOn
    <3>2. h[x] = a + b
      BY <3>1
    <3> QED  BY <3>1, <3>2
  <2> QED  BY <2>1 DEF IntegersOn
<1>1. {} \in P
  BY SumEmpty
<1>2. ASSUME NEW T \in SUBSET S, NEW x \in S \ T, T \in P
      PROVE  T \cup {x} \in P
  <2>1. /\ SumFunctionOnSet(f, T) \in Int
        /\ SumFunctionOnSet(f, T \cup {x}) = SumFunctionOnSet(f, T) + f[x]
    BY SumInsert
  <2>2. /\ SumFunctionOnSet(e, T) \in Int
        /\ SumFunctionOnSet(e, T \cup {x}) = SumFunctionOnSet(e, T) + e[x]
    BY SumInsert
  <2>3. SumFunctionOnSet(h, T \cup {x}) = SumFunctionOnSet(h, T) + h[x]
    BY <1>0, SumInsert
  <2>4. PICK a \in Int, b \in Int, c \in Int, d \in Int :
            /\ a = SumFunctionOnSet(f, T) /\ b = SumFunctionOnSet(e, T)
            /\ c = f[x] /\ d = e[x]
    BY <2>1, <2>2 DEF IntegersOn
  <2>5. SumFunctionOnSet(h, T) = a + b /\ h[x] = c + d
    BY <1>2, <2>4
  <2>6. SumFunctionOnSet(h, T \cup {x}) = (a + b) + (c + d)
    BY <2>3, <2>5
  <2>7. SumFunctionOnSet(f, T \cup {x}) = a + c /\ SumFunctionOnSet(e, T \cup {x}) = b + d
    BY <2>1, <2>2, <2>4
  <2>8. (a + b) + (c + d) = (a + c) + (b + d)
    OBVIOUS
  <2> QED
    BY <2>6, <2>7, <2>8
<1> HIDE DEF P
<1>3. SUBSET S \subseteq P
  BY <1>1, <1>2, InsertInduction
<1> QED
  BY <1>3 DEF P

\* A sum of opposites.
LEMMA SumNegate ==
  ASSUME NEW S, IsFiniteSet(S), NEW f, NEW h,
         IntegersOn(f, S), \A x \in S : h[x] = -f[x]
  PROVE  SumFunctionOnSet(h, S) = -SumFunctionOnSet(f, S)
<1>1. PICK z : z = [x \in S |-> 0]
  OBVIOUS
<1>2. ASSUME NEW x \in S PROVE h[x] \in Int /\ z[x] = f[x] + h[x]
  <2>1. PICK a \in Int : a = f[x]
    BY DEF IntegersOn
  <2>2. h[x] = -a /\ z[x] = 0
    BY <1>1, <2>1
  <2> QED  BY <2>1, <2>2
<1>3. SumFunctionOnSet(z, S) = SumFunctionOnSet(f, S) + SumFunctionOnSet(h, S)
  <2>1. IntegersOn(h, S)
    BY <1>2 DEF IntegersOn
  <2>2. \A x \in S : z[x] = f[x] + h[x]
    BY <1>2
  <2> QED  BY <2>1, <2>2, SumAdd
<1>4. SumFunctionOnSet(z, S) = 0
  BY <1>1, SumZero
<1>5. PICK a \in Int, b \in Int : a = SumFunctionOnSet(f, S) /\ b = SumFunctionOnSet(h, S)
  BY <1>2, SumTakesOut DEF IntegersOn
<1> QED
  BY <1>3, <1>4, <1>5

\* Two disjoint sets.
LEMMA SumUnion ==
  ASSUME NEW S, IsFiniteSet(S), NEW f, IntegersOn(f, S),
         NEW A \in SUBSET S, NEW B \in SUBSET S, A \cap B = {}
  PROVE  SumFunctionOnSet(f, A \cup B) = SumFunctionOnSet(f, A) + SumFunctionOnSet(f, B)
<1> DEFINE P == {T \in SUBSET B :
                    SumFunctionOnSet(f, A \cup T) = SumFunctionOnSet(f, A) + SumFunctionOnSet(f, T)}
<1>0. IsFiniteSet(B) /\ IsFiniteSet(A)
  BY FS_Subset
<1>1. {} \in P
  <2>1. A \cup {} = A /\ SumFunctionOnSet(f, {}) = 0
    BY SumEmpty
  <2>2. PICK a \in Int : a = SumFunctionOnSet(f, A)
    BY <1>0, SumTakesOut DEF IntegersOn
  <2> QED
    BY <2>1, <2>2
<1>2. ASSUME NEW T \in SUBSET B, NEW x \in B \ T, T \in P
      PROVE  T \cup {x} \in P
  <2>1. PICK V \in SUBSET S : V = A \cup T
    OBVIOUS
  <2>2. x \in S \ V /\ V \cup {x} = A \cup (T \cup {x})
    BY <2>1
  <2>3. SumFunctionOnSet(f, V \cup {x}) = SumFunctionOnSet(f, V) + f[x]
    BY <2>2, SumInsert
  <2>4. /\ SumFunctionOnSet(f, T) \in Int
        /\ SumFunctionOnSet(f, T \cup {x}) = SumFunctionOnSet(f, T) + f[x]
    <3>1. PICK U \in SUBSET S : U = T /\ x \in S \ U
      OBVIOUS
    <3> HIDE DEF P
    <3>2. /\ SumFunctionOnSet(f, U) \in Int
          /\ SumFunctionOnSet(f, U \cup {x}) = SumFunctionOnSet(f, U) + f[x]
      <4>1. x \in S \ U
        BY <3>1
      <4> HIDE <3>1
      <4> QED  BY <4>1, SumInsert, SMTT(30)
    <3> QED  BY <3>1, <3>2
  <2>5. PICK a \in Int, b \in Int, c \in Int :
            a = SumFunctionOnSet(f, A) /\ b = SumFunctionOnSet(f, T) /\ c = f[x]
    BY <1>0, <2>4, SumTakesOut DEF IntegersOn
  <2>6. SumFunctionOnSet(f, V) = a + b
    BY <1>2, <2>1, <2>5
  <2>7. SumFunctionOnSet(f, V \cup {x}) = (a + b) + c /\ (a + b) + c = a + (b + c)
    BY <2>3, <2>5, <2>6
  <2>8. SumFunctionOnSet(f, T \cup {x}) = b + c
    BY <2>4, <2>5
  <2> QED
    BY <2>2, <2>5, <2>7, <2>8
<1> HIDE DEF P
<1>3. SUBSET B \subseteq P
  <2>1. PICK C : C = B /\ IsFiniteSet(C)
    BY <1>0
  <2>2. \A T \in SUBSET C : \A x \in C \ T : T \in P => T \cup {x} \in P
    BY <1>2, <2>1
  <2>3. SUBSET C \subseteq P
    BY <1>1, <2>1, <2>2, InsertInduction
  <2> QED  BY <2>1, <2>3
<1>4. B \in P
  BY <1>3
<1> QED
  BY <1>4 DEF P

\* At most one value is not 0.
LEMMA SumSingle ==
  ASSUME NEW S, IsFiniteSet(S), NEW f, NEW y \in S, f[y] \in Int,
         \A x \in S \ {y} : f[x] = 0
  PROVE  SumFunctionOnSet(f, S) = f[y]
<1>1. SumFunctionOnSet(f, S) = f[y] + SumFunctionOnSet(f, S \ {y})
  <2>1. \A x \in S : f[x] \in Int
    OBVIOUS
  <2> QED  BY <2>1, SumTakesOut
<1>2. SumFunctionOnSet(f, S \ {y}) = 0
  <2>1. IsFiniteSet(S \ {y})
    BY FS_Subset
  <2> QED  BY <2>1, SumZero
<1>3. PICK a \in Int : a = f[y]
  OBVIOUS
<1> QED
  BY <1>1, <1>2, <1>3

\* The sums of the rows and of the columns of a table.
ColumnOf(m, y, S) == [x \in S |-> m[x][y]]
RowSums(m, S, T) == [x \in S |-> SumFunctionOnSet(m[x], T)]
ColumnSums(m, S, T) == [y \in T |-> SumFunctionOnSet(ColumnOf(m, y, S), S)]
IntegerTable(m, S, T) == \A x \in S : IntegersOn(m[x], T)

\* The rows and columns of a table of integers add up to integers.
LEMMA TableTypes ==
  ASSUME NEW S, IsFiniteSet(S), NEW T, IsFiniteSet(T), NEW m, IntegerTable(m, S, T)
  PROVE  IntegersOn(RowSums(m, S, T), S) /\ IntegersOn(ColumnSums(m, S, T), T)
<1>1. ASSUME NEW x \in S PROVE RowSums(m, S, T)[x] \in Int
  <2>1. PICK f : f = m[x] /\ \A y \in T : f[y] \in Int
    BY DEF IntegerTable, IntegersOn
  <2>2. SumFunctionOnSet(f, T) \in Int
    BY <2>1, SumTakesOut
  <2> QED  BY <2>1, <2>2 DEF RowSums
<1>2. ASSUME NEW y \in T PROVE ColumnSums(m, S, T)[y] \in Int
  <2>1. PICK f : f = ColumnOf(m, y, S)
    OBVIOUS
  <2>2. \A x \in S : f[x] \in Int
    BY <2>1 DEF ColumnOf, IntegerTable, IntegersOn
  <2>3. SumFunctionOnSet(f, S) \in Int
    BY <2>2, SumTakesOut
  <2> QED  BY <2>1, <2>3 DEF ColumnSums
<1> QED
  BY <1>1, <1>2 DEF IntegersOn

\* A new row adds its cell to a column.
LEMMA ColumnGrows ==
  ASSUME NEW S, IsFiniteSet(S), NEW T, IsFiniteSet(T), NEW x, x \notin S, NEW m,
         IntegerTable(m, S \cup {x}, T), NEW y \in T
  PROVE  ColumnSums(m, S \cup {x}, T)[y] = ColumnSums(m, S, T)[y] + m[x][y]
<1>1. PICK f, e : f = ColumnOf(m, y, S) /\ e = ColumnOf(m, y, S \cup {x})
  OBVIOUS
<1>2. e[x] = m[x][y] /\ e[x] \in Int
  BY <1>1 DEF ColumnOf, IntegerTable, IntegersOn
<1>3. \A z \in S : f[z] = e[z] /\ f[z] \in Int
  BY <1>1 DEF ColumnOf, IntegerTable, IntegersOn
<1>4. SumFunctionOnSet(e, S \cup {x}) = SumFunctionOnSet(f, S) + e[x]
  <2>1. e[x] \in Int
    BY <1>2
  <2> HIDE <1>1
  <2> QED  BY <1>3, <2>1, SumAppend
<1> QED
  BY <1>1, <1>2, <1>4 DEF ColumnSums

\* A table adds up to the same by rows and by columns.
LEMMA SumExchange ==
  ASSUME NEW S, IsFiniteSet(S), NEW T, IsFiniteSet(T), NEW m, IntegerTable(m, S, T)
  PROVE  SumFunctionOnSet(RowSums(m, S, T), S) = SumFunctionOnSet(ColumnSums(m, S, T), T)
<1> DEFINE P == {U \in SUBSET S : SumFunctionOnSet(RowSums(m, S, T), U)
                                    = SumFunctionOnSet(ColumnSums(m, U, T), T)}
<1>0. \A U \in SUBSET S : IsFiniteSet(U) /\ IntegerTable(m, U, T)
  BY FS_Subset DEF IntegerTable
<1>1. {} \in P
  <2>1. \A y \in T : ColumnSums(m, {}, T)[y] = 0
    BY SumEmpty DEF ColumnSums
  <2>2. SumFunctionOnSet(ColumnSums(m, {}, T), T) = 0
    BY <2>1, SumZero
  <2> QED
    BY <2>2, SumEmpty
<1>2. ASSUME NEW U \in SUBSET S, NEW x \in S \ U, U \in P
      PROVE  U \cup {x} \in P
  <2>1. PICK V \in SUBSET S : V = U \cup {x}
    OBVIOUS
  <2>2. PICK f, g, h, r : /\ f = ColumnSums(m, U, T) /\ g = ColumnSums(m, V, T) /\ h = m[x]
                          /\ r = RowSums(m, S, T)
    OBVIOUS
  <2>3. IntegersOn(f, T) /\ IntegersOn(r, S)
    BY <1>0, <2>2, TableTypes
  <2>4. IntegersOn(h, T)
    BY <2>2 DEF IntegerTable
  <2>5. \A y \in T : g[y] = f[y] + h[y]
    <3>1. ASSUME NEW y \in T
          PROVE  ColumnSums(m, U \cup {x}, T)[y] = ColumnSums(m, U, T)[y] + m[x][y]
      <4>1. IsFiniteSet(U) /\ x \notin U
        BY <1>0
      <4>2. IntegerTable(m, U \cup {x}, T)
        BY <1>0, <2>1
      <4> HIDE DEF P
      <4> QED  BY <4>1, <4>2, ColumnGrows
    <3> QED  BY <2>1, <2>2, <3>1
  <2>6. SumFunctionOnSet(g, T) = SumFunctionOnSet(f, T) + SumFunctionOnSet(h, T)
    BY <2>3, <2>4, <2>5, SumAdd
  <2>7. SumFunctionOnSet(r, U \cup {x}) = SumFunctionOnSet(r, U) + r[x]
    BY <2>3, SumInsert
  <2>8. r[x] = SumFunctionOnSet(h, T)
    BY <2>2 DEF RowSums
  <2>9. SumFunctionOnSet(r, U) = SumFunctionOnSet(f, T)
    BY <1>2, <2>2
  <2>10. SumFunctionOnSet(r, V) = SumFunctionOnSet(g, T)
    BY <2>1, <2>6, <2>7, <2>8, <2>9
  <2> QED
    BY <2>1, <2>2, <2>10
<1> HIDE DEF P
<1>3. SUBSET S \subseteq P
  BY <1>1, <1>2, InsertInduction
<1> QED
  BY <1>3 DEF P

\* Values of at most k, which are 0 outside of C, have a sum of at most
\* Cardinality(C) * k.
LEMMA SumBounded ==
  ASSUME NEW S, IsFiniteSet(S), NEW f, NEW k \in Nat, NEW C \in SUBSET S,
         \A x \in S : f[x] \in Nat, \A x \in C : f[x] <= k, \A x \in S \ C : f[x] = 0
  PROVE  SumFunctionOnSet(f, S) <= Cardinality(C) * k
<1> DEFINE P == {T \in SUBSET C : SumFunctionOnSet(f, T) <= Cardinality(T) * k}
<1>1. IntegersOn(f, S) /\ IsFiniteSet(C) /\ IntegersOn(f, C)
  <2>1. \A x \in S : f[x] \in Int
    OBVIOUS
  <2>2. IsFiniteSet(C)
    BY FS_Subset
  <2> QED
    BY <2>1, <2>2 DEF IntegersOn
<1>2. {} \in P
  <2>1. SumFunctionOnSet(f, {}) = 0 /\ Cardinality({}) = 0
    BY SumEmpty, FS_EmptySet
  <2> QED
    BY <2>1
<1>3. ASSUME NEW T \in SUBSET C, NEW x \in C \ T, T \in P
      PROVE  T \cup {x} \in P
  <2>1. /\ SumFunctionOnSet(f, T) \in Int
        /\ SumFunctionOnSet(f, T \cup {x}) = SumFunctionOnSet(f, T) + f[x]
    BY <1>1, SumInsert
  <2>2. IsFiniteSet(T) /\ Cardinality(T) \in Nat
    BY <1>1, FS_Subset, FS_CardinalityType
  <2>3. Cardinality(T \cup {x}) = Cardinality(T) + 1
    BY <2>2, FS_AddElement
  <2>4. PICK s \in Int, n \in Nat, v \in Nat :
          s = SumFunctionOnSet(f, T) /\ n = Cardinality(T) /\ v = f[x]
    BY <2>1, <2>2
  <2>5. s <= n * k /\ v <= k
    BY <1>3, <2>4
  <2>6. s + v <= (n + 1) * k
    BY <2>5
  <2> QED
    BY <2>1, <2>3, <2>4, <2>6
<1> HIDE DEF P
<1>4. C \in P
  <2>1. SUBSET C \subseteq P
    BY <1>1, <1>2, <1>3, InsertInduction
  <2> QED
    BY <2>1
<1>5. SumFunctionOnSet(f, S) = SumFunctionOnSet(f, C) + SumFunctionOnSet(f, S \ C)
  <2>1. PICK D : D = S \ C
    OBVIOUS
  <2>2. D \in SUBSET S /\ C \cap D = {} /\ C \cup D = S
    BY <2>1
  <2>3. SumFunctionOnSet(f, C \cup D) = SumFunctionOnSet(f, C) + SumFunctionOnSet(f, D)
    BY <1>1, <2>2, SumUnion
  <2> QED
    BY <2>1, <2>2, <2>3
<1>6. SumFunctionOnSet(f, S \ C) = 0
  <2>1. IsFiniteSet(S \ C)
    BY FS_Subset
  <2> QED
    BY <2>1, SumZero
<1>7. SumFunctionOnSet(f, C) \in Int
  <2>1. \A x \in C : f[x] \in Int
    OBVIOUS
  <2> QED
    BY <1>1, <2>1, SumTakesOut
<1>8. PICK s \in Int : s = SumFunctionOnSet(f, C)
  BY <1>7
<1>9. SumFunctionOnSet(f, S) = s
  BY <1>5, <1>6, <1>8
<1> QED
  BY <1>4, <1>8, <1>9 DEF P
=============================================================================
