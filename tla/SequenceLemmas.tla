-------------------------- MODULE SequenceLemmas --------------------------
(***************************************************************************)
(* Lemmas about sequences, for proofs about pipelines of them: what        *)
(* FoldLeft and FlattenSeq compute, element by element, and what           *)
(* concatenation, maps and filters do to it.  Induction is over the        *)
(* length, in the form of a set of sequences that Append does not leave.   *)
(***************************************************************************)
EXTENDS SumTheorems, SequencesExt

-----------------------------------------------------------------------------
(* Folds over an interval *)

\* A set of numbers up to n has a greatest one.
LEMMA MaxIsMost ==
  ASSUME NEW n \in Nat, NEW S \in SUBSET (1 .. n), S # {}
  PROVE  Max(S) \in S /\ \A m \in S : m <= Max(S)
<1>1. PICK T : T = {d \in Nat : n - d \in S}
  OBVIOUS
<1>2. T \in SUBSET Nat /\ T # {}
  <2>1. PICK m \in S : m \in 1 .. n
    OBVIOUS
  <2>2. n - m \in Nat /\ n - (n - m) = m
    BY <2>1
  <2> QED
    BY <1>1, <2>1, <2>2
<1>3. PICK d \in T : \A e \in T : d <= e
  BY <1>2, MinIsLeast
<1>4. n - d \in S /\ \A m \in S : m <= n - d
  <2>1. n - d \in S /\ d \in Nat
    BY <1>1
  <2>2. ASSUME NEW m \in S PROVE m <= n - d
    <3>1. m \in 1 .. n /\ n - m \in Nat /\ n - (n - m) = m
      OBVIOUS
    <3>2. n - m \in T
      BY <1>1, <3>1
    <3>3. d <= n - m
      BY <1>3, <3>2
    <3> QED
      BY <2>1, <3>1, <3>3
  <2> QED
    BY <2>1, <2>2
<1>5. Max(S) = CHOOSE x \in S : \A y \in S : x >= y
  BY DEF Max
<1>6. \E x \in S : \A y \in S : x >= y
  BY <1>4
<1> QED
  BY <1>5, <1>6

\* The recursion of a fold over 1 .. n: step[<<a, k>>] is what element k makes of
\* the result a so far.
IsFold(g, base, step, U) ==
    g = [s \in U |-> IF s = {} THEN base ELSE step[<<g[s \ {Max(s)}], Max(s)>>]]

\* It exists.
LEMMA FoldExists ==
  ASSUME NEW n \in Nat, NEW A, NEW base \in A, NEW step \in [A \X (1 .. n) -> A]
  PROVE  \E g \in [SUBSET (1 .. n) -> A] : IsFold(g, base, step, SUBSET (1 .. n))
<1> DEFINE S == 1 .. n
           P == {k \in Nat : \E g \in [Small(S, k) -> A] : IsFold(g, base, step, Small(S, k))}
<1>0. IsFiniteSet(S) /\ Cardinality(S) = n /\ \A s \in SUBSET S : IsFiniteSet(s) /\ Cardinality(s) \in Nat
  <2>1. IsFiniteSet(1 .. n) /\ Cardinality(1 .. n) = n
    BY FS_Interval
  <2> QED
    BY <2>1, FS_Subset, FS_CardinalityType
<1>1. 0 \in P
  <2>1. Small(S, 0) = {{}}
    BY <1>0, FS_EmptySet DEF Small
  <2>2. IsFold([s \in {{}} |-> base], base, step, {{}})
    BY DEF IsFold
  <2> QED
    BY <2>1, <2>2
<1>2. ASSUME NEW k \in Nat, k \in P
      PROVE  k + 1 \in P
  <2>1. PICK g \in [Small(S, k) -> A] : IsFold(g, base, step, Small(S, k))
    BY <1>2
  <2> DEFINE h == [s \in Small(S, k + 1) |->
                     IF s = {} THEN base ELSE step[<<g[s \ {Max(s)}], Max(s)>>]]
  <2>2. \A s \in Small(S, k) : s \in Small(S, k + 1) /\ h[s] = g[s]
    <3>1. \A s \in Small(S, k) : s \in Small(S, k + 1)
      BY <1>0 DEF Small
    <3> QED  BY <2>1, <3>1 DEF IsFold
  <2>3. \A s \in Small(S, k + 1) : s # {} => s \ {Max(s)} \in Small(S, k) /\ Max(s) \in S
    <3> SUFFICES ASSUME NEW s \in Small(S, k + 1), s # {}
                 PROVE  s \ {Max(s)} \in Small(S, k) /\ Max(s) \in S
      OBVIOUS
    <3>1. s \in SUBSET S /\ Max(s) \in s
      BY MaxIsMost DEF Small
    <3>2. Cardinality(s) \in Nat /\ Cardinality(s) <= k + 1 /\ IsFiniteSet(s)
      BY <1>0, <3>1 DEF Small
    <3>3. Cardinality(s \ {Max(s)}) = Cardinality(s) - 1 /\ s \ {Max(s)} \in SUBSET S
      BY <3>1, <3>2, FS_RemoveElement
    <3>4. PICK c \in Nat : c = Cardinality(s) /\ c <= k + 1
      BY <3>2
    <3>5. Cardinality(s \ {Max(s)}) <= k
      BY <3>3, <3>4
    <3> QED
      BY <3>1, <3>3, <3>5 DEF Small
  <2>4. h \in [Small(S, k + 1) -> A]
    <3> SUFFICES ASSUME NEW s \in Small(S, k + 1), s # {}
                 PROVE  step[<<g[s \ {Max(s)}], Max(s)>>] \in A
      OBVIOUS
    <3>1. g[s \ {Max(s)}] \in A /\ Max(s) \in 1 .. n
      BY <2>1, <2>3
    <3> QED
      BY <3>1
  <2> HIDE DEF h
  <2>5. \A s \in Small(S, k + 1) : s # {} => g[s \ {Max(s)}] = h[s \ {Max(s)}]
    BY <2>2, <2>3
  <2>6. IsFold(h, base, step, Small(S, k + 1))
    BY <2>5 DEF h, IsFold
  <2> QED
    BY <2>4, <2>6
<1>3. n \in P
  <2> HIDE DEF P
  <2>1. Nat \subseteq P
    BY <1>1, <1>2, Induction
  <2> QED  BY <2>1
<1>4. Small(S, n) = SUBSET S
  BY <1>0, FS_Subset DEF Small
<1> QED
  BY <1>3, <1>4

\* What g does as long as its values are in A.
FoldsWithin(g, base, step, n, A) ==
    /\ g[{}] = base
    /\ \A s \in SUBSET (1 .. n) : s # {} /\ g[s \ {Max(s)}] \in A =>
           g[s] = step[<<g[s \ {Max(s)}], Max(s)>>]

\* A fold stays in a set that its step does not leave.
LEMMA FoldKeeps ==
  ASSUME NEW n \in Nat, NEW A, NEW base \in A, NEW step \in [A \X (1 .. n) -> A],
         NEW g, FoldsWithin(g, base, step, n, A)
  PROVE  g[1 .. n] \in A
<1> DEFINE P == {k \in Nat : k <= n => g[1 .. k] \in A}
<1>1. 0 \in P
  <2>1. 1 .. 0 = {}
    OBVIOUS
  <2> QED
    BY <2>1 DEF FoldsWithin
<1>2. ASSUME NEW k \in Nat, k \in P PROVE k + 1 \in P
  <2> SUFFICES ASSUME k + 1 <= n PROVE g[1 .. k + 1] \in A
    OBVIOUS
  <2>1. PICK s : s = 1 .. k + 1
    OBVIOUS
  <2>2. s \in SUBSET (1 .. n) /\ s # {} /\ k + 1 \in s
    <3>1. k + 1 \in 1 .. k + 1 /\ \A m \in 1 .. k + 1 : m \in 1 .. n
      OBVIOUS
    <3> QED
      BY <2>1, <3>1
  <2>3. Max(s) = k + 1
    <3>1. Max(s) \in s /\ k + 1 <= Max(s)
      BY <2>2, MaxIsMost
    <3> QED
      BY <2>1, <3>1
  <2>4. s \ {k + 1} = 1 .. k
    BY <2>1
  <2>5. g[1 .. k] \in A /\ k + 1 \in 1 .. n
    BY <1>2
  <2>6. g[s] = step[<<g[1 .. k], k + 1>>]
    BY <2>2, <2>3, <2>4, <2>5 DEF FoldsWithin
  <2> QED
    BY <2>1, <2>5, <2>6
<1> HIDE DEF P
<1>3. Nat \subseteq P
  BY <1>1, <1>2, Induction
<1> QED
  BY <1>3 DEF P

-----------------------------------------------------------------------------
(* Flattening *)

\* The recursion of FlattenSeq over the first n sequences.
IsFlattening(f, seqs, n) ==
    f = [i \in 1 .. n |-> IF i = 1 THEN seqs[i] ELSE f[i - 1] \o seqs[i]]

\* It exists.
LEMMA FlatteningExists ==
  ASSUME NEW X, NEW seqs \in Seq(Seq(X)), NEW n \in Nat, n <= Len(seqs)
  PROVE  \E f \in [1 .. n -> Seq(X)] : IsFlattening(f, seqs, n)
<1> DEFINE P == {k \in Nat : k <= n => \E f \in [1 .. k -> Seq(X)] : IsFlattening(f, seqs, k)}
<1>1. 0 \in P
  <2>1. 1 .. 0 = {}
    OBVIOUS
  <2>2. PICK f : f = [i \in 1 .. 0 |-> <<>>]
    OBVIOUS
  <2>3. f \in [1 .. 0 -> Seq(X)] /\ IsFlattening(f, seqs, 0)
    BY <2>1, <2>2 DEF IsFlattening
  <2> QED
    BY <2>3
<1>2. ASSUME NEW k \in Nat, k \in P PROVE k + 1 \in P
  <2> SUFFICES ASSUME k + 1 <= n
               PROVE  \E f \in [1 .. k + 1 -> Seq(X)] : IsFlattening(f, seqs, k + 1)
    OBVIOUS
  <2>1. PICK f \in [1 .. k -> Seq(X)] : IsFlattening(f, seqs, k)
    BY <1>2
  <2>2. \A i \in 1 .. k + 1 : seqs[i] \in Seq(X)
    OBVIOUS
  <2>3. PICK h : h = [i \in 1 .. k + 1 |-> IF i = 1 THEN seqs[i] ELSE f[i - 1] \o seqs[i]]
    OBVIOUS
  <2>4. \A i \in 1 .. k + 1 : i # 1 => i - 1 \in 1 .. k
    OBVIOUS
  <2>5. h \in [1 .. k + 1 -> Seq(X)]
    <3> SUFFICES ASSUME NEW i \in 1 .. k + 1, i # 1 PROVE f[i - 1] \o seqs[i] \in Seq(X)
      BY <2>2, <2>3
    <3>1. f[i - 1] \in Seq(X) /\ seqs[i] \in Seq(X)
      BY <2>1, <2>2, <2>4
    <3> QED
      BY <3>1
  <2>6. \A i \in 1 .. k : h[i] = f[i]
    <3>1. \A i \in 1 .. k : i \in 1 .. k + 1
      OBVIOUS
    <3>2. \A i \in 1 .. k : f[i] = IF i = 1 THEN seqs[i] ELSE f[i - 1] \o seqs[i]
      BY <2>1, Zenon DEF IsFlattening
    <3>3. \A i \in 1 .. k + 1 : h[i] = IF i = 1 THEN seqs[i] ELSE f[i - 1] \o seqs[i]
      BY <2>3, Zenon
    <3> QED
      BY <3>1, <3>2, <3>3, Zenon
  <2>7. IsFlattening(h, seqs, k + 1)
    <3>1. \A i \in 1 .. k + 1 : i # 1 => f[i - 1] = h[i - 1]
      BY <2>4, <2>6
    <3> QED
      BY <2>3, <3>1 DEF IsFlattening
  <2> QED
    BY <2>5, <2>7
<1> HIDE DEF P
<1>3. Nat \subseteq P
  BY <1>1, <1>2, Induction
<1> QED
  BY <1>3 DEF P

\* What a flattened sequence has in it.
LEMMA FlattenTypes ==
  ASSUME NEW X, NEW seqs \in Seq(Seq(X))
  PROVE  FlattenSeq(seqs) \in Seq(X)
<1>1. CASE Len(seqs) = 0
  <2>1. seqs = <<>>
    BY <1>1
  <2> QED
    BY <2>1 DEF FlattenSeq
<1>2. CASE Len(seqs) # 0
  <2>1. PICK n \in Nat : n = Len(seqs)
    OBVIOUS
  <2>2. PICK f : f = CHOOSE h : IsFlattening(h, seqs, n)
    OBVIOUS
  <2>3. IsFlattening(f, seqs, n)
    BY <2>1, <2>2, FlatteningExists
  <2>4. FlattenSeq(seqs) = f[n]
    BY <1>2, <2>1, <2>2 DEF FlattenSeq, IsFlattening
  <2> DEFINE P == {k \in Nat : k + 1 <= n => f[k + 1] \in Seq(X)}
  <2>5. \A i \in 1 .. n : seqs[i] \in Seq(X) /\ f[i] = IF i = 1 THEN seqs[i] ELSE f[i - 1] \o seqs[i]
    <3>1. \A i \in 1 .. n : f[i] = IF i = 1 THEN seqs[i] ELSE f[i - 1] \o seqs[i]
      BY <2>3, Zenon DEF IsFlattening
    <3>2. \A i \in 1 .. n : seqs[i] \in Seq(X)
      BY <2>1
    <3> QED
      BY <3>1, <3>2, Zenon
  <2>6. 0 \in P
    BY <1>2, <2>1, <2>5
  <2>7. ASSUME NEW k \in Nat, k \in P PROVE k + 1 \in P
    <3> SUFFICES ASSUME k + 1 + 1 <= n PROVE f[k + 1 + 1] \in Seq(X)
      OBVIOUS
    <3>1. PICK i : i = k + 1 + 1
      OBVIOUS
    <3>2. i \in 1 .. n /\ i # 1 /\ i - 1 = k + 1
      BY <3>1
    <3>3. f[i - 1] \in Seq(X) /\ seqs[i] \in Seq(X)
      BY <2>5, <2>7, <3>1, <3>2
    <3>4. f[i - 1] \o seqs[i] \in Seq(X)
      BY <3>3
    <3> QED
      BY <2>5, <3>1, <3>2, <3>4
  <2> HIDE DEF P
  <2>8. Nat \subseteq P
    BY <2>6, <2>7, Induction
  <2>9. PICK m \in Nat : n = m + 1
    <3>1. n - 1 \in Nat /\ n = n - 1 + 1
      BY <1>2, <2>1
    <3> QED
      BY <3>1
  <2>10. f[m + 1] \in Seq(X)
    BY <2>8, <2>9 DEF P
  <2> QED
    BY <2>4, <2>9, <2>10
<1> QED
  BY <1>1, <1>2

\* One sequence is not changed.
LEMMA FlattenOne ==
  ASSUME NEW X, NEW s \in Seq(X)
  PROVE  FlattenSeq(<<s>>) = s
  BY DEF FlattenSeq

-----------------------------------------------------------------------------
(* Concatenation *)

\* Induction over sequences, for a set.
LEMMA SeqInduction ==
  ASSUME NEW X, NEW P, <<>> \in P, \A s \in Seq(X), x \in X : s \in P => Append(s, x) \in P
  PROVE  Seq(X) \subseteq P
<1> DEFINE K == {n \in Nat : \A s \in Seq(X) : Len(s) = n => s \in P}
<1>1. 0 \in K
  OBVIOUS
<1>2. ASSUME NEW n \in Nat, n \in K PROVE n + 1 \in K
  <2> SUFFICES ASSUME NEW s \in Seq(X), Len(s) = n + 1 PROVE s \in P
    OBVIOUS
  <2>1. PICK f : f = [i \in 1 .. n |-> s[i]]
    OBVIOUS
  <2>2. f \in Seq(X) /\ Len(f) = n
    BY <2>1
  <2>3. s[n + 1] \in X
    OBVIOUS
  <2>4. s = Append(f, s[n + 1])
    BY <2>1, <2>2
  <2>5. f \in P
    BY <1>2, <2>2
  <2> QED
    BY <2>2, <2>3, <2>4, <2>5
<1> HIDE DEF K
<1>3. Nat \subseteq K
  BY <1>1, <1>2, Induction
<1>4. ASSUME NEW s \in Seq(X) PROVE s \in P
  <2>1. Len(s) \in K
    BY <1>3
  <2> QED
    BY <2>1 DEF K
<1> QED
  BY <1>4

\* Concatenation.
LEMMA ConcatRules ==
  ASSUME NEW X, NEW a \in Seq(X), NEW b \in Seq(X), NEW c \in Seq(X), NEW x \in X
  PROVE  /\ a \o b \in Seq(X)
         /\ (a \o b) \o c = a \o (b \o c)
         /\ a \o <<>> = a /\ <<>> \o a = a
         /\ a \o Append(b, x) = Append(a \o b, x)
         /\ a \o <<x>> = Append(a, x)
<1>1. (a \o b) \o c = a \o (b \o c)
  OBVIOUS
<1>2. a \o Append(b, x) = Append(a \o b, x)
  OBVIOUS
<1>3. a \o <<x>> = Append(a, x)
  OBVIOUS
<1>4. a \o b \in Seq(X) /\ a \o <<>> = a /\ <<>> \o a = a
  OBVIOUS
<1> QED
  BY <1>1, <1>2, <1>3, <1>4

\* Two of its rules.
LEMMA ConcatAppend ==
  ASSUME NEW X, NEW a \in Seq(X), NEW b \in Seq(X), NEW x \in X
  PROVE  a \o Append(b, x) = Append(a \o b, x)
OBVIOUS

\* With nothing.
LEMMA ConcatNone == ASSUME NEW X, NEW a \in Seq(X) PROVE a \o <<>> = a
OBVIOUS

\* A sequence by its elements.
LEMMA ElementsType ==
  ASSUME NEW T, NEW m \in Nat, NEW f, \A n \in 1 .. m : f[n] \in T
  PROVE  [n \in 1 .. m |-> f[n]] \in Seq(T)
OBVIOUS

\* What has been appended to is not empty.
LEMMA AppendedIsNotEmpty == ASSUME NEW X, NEW s \in Seq(X), NEW x \in X PROVE Append(s, x) # <<>>
<1>1. PICK t \in Seq(X) : t = Append(s, x)
  <2>1. Append(s, x) \in Seq(X)
    OBVIOUS
  <2> QED
    BY <2>1
<1>2. Len(t) = Len(s) + 1 /\ Len(s) \in Nat
  BY <1>1
<1>3. Len(t) # 0
  BY <1>2
<1> QED
  BY <1>1, <1>3

\* The last element of what has been appended to.
LEMMA LastAppended == ASSUME NEW X, NEW s \in Seq(X), NEW x \in X PROVE Last(Append(s, x)) = x
<1>1. PICK t \in Seq(X) : t = Append(s, x)
  <2>1. Append(s, x) \in Seq(X)
    OBVIOUS
  <2> QED
    BY <2>1
<1>2. Len(t) = Len(s) + 1 /\ t[Len(s) + 1] = x
  BY <1>1
<1> QED
  BY <1>1, <1>2 DEF Last

\* A sequence by its last element, and what replaces that one.
EndsIn(s, X, front, last) ==
    /\ s = Append(front, last) /\ last = Last(s)
    /\ \A y \in X : [s EXCEPT ![Len(s)] = y] = Append(front, y)

\* Every sequence has one that is not empty.
LEMMA LastReplaced ==
  ASSUME NEW X, NEW s \in Seq(X), s # <<>>
  PROVE  \E front \in Seq(X), last \in X : EndsIn(s, X, front, last)
<1>1. PICK n \in Nat : Len(s) = n + 1 /\ DOMAIN s = 1 .. n + 1
  <2>1. Len(s) \in Nat /\ Len(s) # 0 /\ DOMAIN s = 1 .. Len(s)
    OBVIOUS
  <2>2. Len(s) - 1 \in Nat /\ Len(s) = (Len(s) - 1) + 1
    BY <2>1
  <2> QED
    BY <2>1, <2>2
<1>2. PICK last \in X : last = s[n + 1]
  <2>1. s[n + 1] \in X
    BY <1>1
  <2> QED
    BY <2>1
<1>3. PICK front \in Seq(X) : front = [i \in 1 .. n |-> s[i]]
  <2>1. \A i \in 1 .. n : s[i] \in X
    BY <1>1
  <2>2. [i \in 1 .. n |-> s[i]] \in Seq(X)
    BY <2>1
  <2> QED
    BY <2>2
<1>4. Len(front) = n /\ \A i \in 1 .. n : front[i] = s[i]
  BY <1>3
<1>5. ASSUME NEW y \in X PROVE [s EXCEPT ![Len(s)] = y] = Append(front, y)
  <2>1. PICK more \in Seq(X) : more = Append(front, y)
    <3>1. Append(front, y) \in Seq(X)
      OBVIOUS
    <3> QED
      BY <3>1
  <2>2. DOMAIN more = 1 .. n + 1 /\ (\A i \in 1 .. n : more[i] = s[i]) /\ more[n + 1] = y
    BY <1>4, <2>1
  <2>3. PICK other : other = [s EXCEPT ![n + 1] = y]
    OBVIOUS
  <2>4. other = [i \in 1 .. n + 1 |-> IF i = n + 1 THEN y ELSE s[i]]
    BY <1>1, <2>3
  <2>5. \A i \in 1 .. n + 1 : more[i] = IF i = n + 1 THEN y ELSE s[i]
    BY <2>2
  <2>6. more = [i \in 1 .. n + 1 |-> more[i]]
    <3>1. more = [i \in DOMAIN more |-> more[i]]
      OBVIOUS
    <3> QED
      BY <2>2, <3>1
  <2>7. more = [i \in 1 .. n + 1 |-> IF i = n + 1 THEN y ELSE s[i]]
    BY <2>5, <2>6
  <2> QED
    BY <1>1, <2>1, <2>3, <2>4, <2>7
<1>6. s = Append(front, last)
  <2>1. [s EXCEPT ![Len(s)] = last] = Append(front, last)
    BY <1>5
  <2>2. [s EXCEPT ![n + 1] = s[n + 1]] = s
    OBVIOUS
  <2> QED
    BY <1>1, <1>2, <2>1, <2>2
<1>7. last = Last(s)
  BY <1>1, <1>2 DEF Last
<1> QED
  BY <1>5, <1>6, <1>7 DEF EndsIn

\* Nothing.
LEMMA FlattenEmpty == FlattenSeq(<<>>) = <<>>
  BY DEF FlattenSeq

\* One more sequence.
LEMMA FlattenAppend ==
  ASSUME NEW X, NEW seqs \in Seq(Seq(X)), NEW t \in Seq(X)
  PROVE  FlattenSeq(Append(seqs, t)) = FlattenSeq(seqs) \o t
<1>1. PICK n \in Nat : n = Len(seqs)
  OBVIOUS
<1>2. PICK more : more = Append(seqs, t)
  OBVIOUS
<1>3. more \in Seq(Seq(X)) /\ Len(more) = n + 1 /\ more[n + 1] = t
      /\ \A i \in 1 .. n : more[i] = seqs[i]
  BY <1>1, <1>2
<1>4. PICK h : h = CHOOSE f : IsFlattening(f, more, n + 1)
  OBVIOUS
<1>5. IsFlattening(h, more, n + 1)
  BY <1>3, <1>4, FlatteningExists
<1>6. FlattenSeq(more) = h[n + 1]
  BY <1>1, <1>3, <1>4 DEF FlattenSeq, IsFlattening
<1>7. CASE n = 0
  <2>1. h[1] = t
    <3>1. 1 \in 1 .. n + 1
      BY <1>7
    <3>2. h[1] = more[1]
      BY <1>5, <3>1, Zenon DEF IsFlattening
    <3> QED
      BY <1>3, <1>7, <3>2
  <2>2. seqs = <<>>
    <3>1. Len(seqs) = 0
      BY <1>1, <1>7
    <3> QED
      BY <3>1
  <2> QED
    BY <1>2, <1>6, <1>7, <2>1, <2>2, FlattenEmpty
<1>8. CASE n # 0
  <2>1. PICK g : g = CHOOSE f : IsFlattening(f, seqs, n)
    OBVIOUS
  <2>2. IsFlattening(g, seqs, n)
    BY <1>1, <2>1, FlatteningExists
  <2>3. FlattenSeq(seqs) = g[n]
    BY <1>1, <1>8, <2>1 DEF FlattenSeq, IsFlattening
  <2> DEFINE P == {k \in Nat : k + 1 <= n => g[k + 1] = h[k + 1]}
  <2>4. \A i \in 1 .. n : g[i] = IF i = 1 THEN seqs[i] ELSE g[i - 1] \o seqs[i]
    BY <2>2, Zenon DEF IsFlattening
  <2>5. \A i \in 1 .. n + 1 : h[i] = IF i = 1 THEN more[i] ELSE h[i - 1] \o more[i]
    BY <1>5, Zenon DEF IsFlattening
  <2>6. 0 \in P
    <3>1. 1 \in 1 .. n /\ 1 \in 1 .. n + 1
      BY <1>8
    <3>2. g[1] = h[1]
      BY <1>3, <2>4, <2>5, <3>1, Zenon
    <3> QED
      BY <3>2
  <2>7. ASSUME NEW k \in Nat, k \in P PROVE k + 1 \in P
    <3> SUFFICES ASSUME k + 1 + 1 <= n PROVE g[k + 1 + 1] = h[k + 1 + 1]
      OBVIOUS
    <3>1. PICK i : i = k + 1 + 1
      OBVIOUS
    <3>2. i \in 1 .. n /\ i \in 1 .. n + 1 /\ i # 1 /\ i - 1 = k + 1
      BY <3>1
    <3>3. g[i - 1] = h[i - 1]
      BY <2>7, <3>1, <3>2
    <3>4. g[i] = g[i - 1] \o seqs[i] /\ h[i] = h[i - 1] \o more[i]
      BY <2>4, <2>5, <3>2, Zenon
    <3> QED
      BY <1>3, <3>1, <3>2, <3>3, <3>4, Zenon
  <2> HIDE DEF P
  <2>8. Nat \subseteq P
    BY <2>6, <2>7, Induction
  <2>9. n - 1 \in Nat /\ n - 1 + 1 = n
    BY <1>8
  <2>10. g[n] = h[n]
    <3>1. n - 1 \in P
      BY <2>8, <2>9
    <3> QED
      BY <2>9, <3>1 DEF P
  <2>11. h[n + 1] = h[n] \o more[n + 1]
    <3>1. PICK i \in 1 .. n + 1 : i = n + 1 /\ i # 1 /\ i - 1 = n
      BY <1>8
    <3>2. h[i] = h[i - 1] \o more[i]
      BY <2>5, <3>1, Zenon
    <3> QED
      BY <3>1, <3>2
  <2> QED
    BY <1>2, <1>3, <1>6, <2>3, <2>10, <2>11, Zenon
<1> QED
  BY <1>7, <1>8

\* Flattening goes through concatenation.
LEMMA FlattenConcat ==
  ASSUME NEW X, NEW a \in Seq(Seq(X)), NEW b \in Seq(Seq(X))
  PROVE  FlattenSeq(a \o b) = FlattenSeq(a) \o FlattenSeq(b)
<1> DEFINE P == {s \in Seq(Seq(X)) : FlattenSeq(a \o s) = FlattenSeq(a) \o FlattenSeq(s)}
<1>1. <<>> \in P
  <2>1. a \o <<>> = a
    OBVIOUS
  <2>2. FlattenSeq(a) \o <<>> = FlattenSeq(a)
    <3>1. FlattenSeq(a) \in Seq(X)
      BY FlattenTypes
    <3> QED
      BY <3>1
  <2>3. <<>> \in Seq(Seq(X))
    OBVIOUS
  <2> QED
    BY <2>1, <2>2, <2>3, FlattenEmpty
<1>2. ASSUME NEW s \in Seq(Seq(X)), NEW x \in Seq(X), s \in P PROVE Append(s, x) \in P
  <2>1. a \o Append(s, x) = Append(a \o s, x) /\ a \o s \in Seq(Seq(X))
    BY ConcatRules
  <2>2. FlattenSeq(Append(a \o s, x)) = FlattenSeq(a \o s) \o x
    BY <2>1, FlattenAppend
  <2>3. FlattenSeq(Append(s, x)) = FlattenSeq(s) \o x
    BY FlattenAppend
  <2>4. FlattenSeq(a) \in Seq(X) /\ FlattenSeq(s) \in Seq(X)
    BY FlattenTypes
  <2>5. (FlattenSeq(a) \o FlattenSeq(s)) \o x = FlattenSeq(a) \o (FlattenSeq(s) \o x)
    BY <2>4
  <2>6. FlattenSeq(a \o s) = FlattenSeq(a) \o FlattenSeq(s)
    BY <1>2
  <2>7. Append(s, x) \in Seq(Seq(X))
    OBVIOUS
  <2> QED
    BY <2>1, <2>2, <2>3, <2>5, <2>6, <2>7
<1> HIDE DEF P
<1>3. Seq(Seq(X)) \subseteq P
  BY <1>1, <1>2, SeqInduction
<1> QED
  BY <1>3 DEF P

-----------------------------------------------------------------------------
(* Maps *)

\* Every element of s through the function f, and what comes of it joined.
Mapped(f, s) == [n \in DOMAIN s |-> f[s[n]]]

FlatMap(f, s) == FlattenSeq(Mapped(f, s))

\* What the lemmas below ask of f.
IsMap(f, X, Y) == f \in [X -> Y]

\* One element after the other.
LEMMA MappedRules ==
  ASSUME NEW X, NEW Y, NEW f, IsMap(f, X, Y), NEW s \in Seq(X), NEW x \in X
  PROVE  /\ Mapped(f, s) \in Seq(Y)
         /\ Mapped(f, Append(s, x)) = Append(Mapped(f, s), f[x])
<1>1. PICK n \in Nat : n = Len(s) /\ DOMAIN s = 1 .. n
  OBVIOUS
<1>2. \A i \in 1 .. n : f[s[i]] \in Y
  BY <1>1 DEF IsMap
<1>3. [i \in 1 .. n |-> f[s[i]]] \in Seq(Y)
  BY <1>2
<1>4. PICK t \in Seq(Y) : t = Mapped(f, s)
  BY <1>1, <1>3 DEF Mapped
<1>5. Mapped(f, Append(s, x)) = Append(Mapped(f, s), f[x])
  <2>1. PICK more \in Seq(X) : more = Append(s, x)
    <3>1. Append(s, x) \in Seq(X)
      OBVIOUS
    <3> QED
      BY <3>1
  <2>2. Len(more) = n + 1 /\ DOMAIN more = 1 .. n + 1 /\ more[n + 1] = x
        /\ \A i \in 1 .. n : more[i] = s[i]
    BY <1>1, <2>1
  <2>3. PICK long \in Seq(Y) : long = Append(t, f[x])
    <3>1. f[x] \in Y
      BY DEF IsMap
    <3>2. Append(t, f[x]) \in Seq(Y)
      BY <3>1
    <3> QED
      BY <3>2
  <2>4. Len(t) = n /\ \A i \in 1 .. n : t[i] = f[s[i]]
    BY <1>1, <1>4 DEF Mapped
  <2>5. DOMAIN long = 1 .. n + 1 /\ long[n + 1] = f[x] /\ \A i \in 1 .. n : long[i] = f[s[i]]
    BY <2>3, <2>4
  <2>6. \A i \in 1 .. n + 1 : long[i] = f[more[i]]
    BY <2>2, <2>5
  <2>7. long = [i \in 1 .. n + 1 |-> long[i]]
    BY <2>3, <2>5
  <2>8. long = [i \in 1 .. n + 1 |-> f[more[i]]]
    BY <2>6, <2>7
  <2> QED
    BY <1>4, <2>1, <2>2, <2>3, <2>8 DEF Mapped
<1> QED
  BY <1>4, <1>5

\* Nothing makes nothing.
LEMMA FlatMapEmpty == \A f : FlatMap(f, <<>>) = <<>> /\ Mapped(f, <<>>) = <<>>
  BY FlattenEmpty DEF FlatMap, Mapped

\* One element after the other.
LEMMA FlatMapRules ==
  ASSUME NEW X, NEW Y, NEW f, IsMap(f, X, Seq(Y)), NEW s \in Seq(X), NEW x \in X
  PROVE  /\ FlatMap(f, s) \in Seq(Y)
         /\ f[x] \in Seq(Y)
         /\ FlatMap(f, Append(s, x)) = FlatMap(f, s) \o f[x]
<1>1. Mapped(f, s) \in Seq(Seq(Y)) /\ Mapped(f, Append(s, x)) = Append(Mapped(f, s), f[x])
  BY MappedRules
<1>2. f[x] \in Seq(Y)
  BY DEF IsMap
<1>3. FlatMap(f, Append(s, x)) = FlatMap(f, s) \o f[x]
  BY <1>1, <1>2, FlattenAppend DEF FlatMap
<1>4. FlatMap(f, s) \in Seq(Y)
  BY <1>1, FlattenTypes DEF FlatMap
<1> QED
  BY <1>2, <1>3, <1>4

\* What it is made of.
LEMMA FlatMapTypes ==
  ASSUME NEW X, NEW Y, NEW f, IsMap(f, X, Seq(Y)), NEW s \in Seq(X)
  PROVE  FlatMap(f, s) \in Seq(Y)
<1>1. CASE s = <<>>
  <2>1. <<>> \in Seq(Y)
    OBVIOUS
  <2> QED
    BY <1>1, <2>1, FlatMapEmpty
<1>2. CASE s # <<>>
  <2>1. PICK x \in X : x = s[1]
    BY <1>2
  <2> QED
    BY <2>1, FlatMapRules
<1> QED
  BY <1>1, <1>2

\* What comes of two parts.
LEMMA FlatMapConcat ==
  ASSUME NEW X, NEW Y, NEW f, IsMap(f, X, Seq(Y)), NEW a \in Seq(X), NEW b \in Seq(X)
  PROVE  FlatMap(f, a \o b) = FlatMap(f, a) \o FlatMap(f, b)
<1> DEFINE P == {s \in Seq(X) : FlatMap(f, a \o s) = FlatMap(f, a) \o FlatMap(f, s)}
<1>1. <<>> \in P
  <2>1. a \o <<>> = a /\ <<>> \in Seq(X)
    OBVIOUS
  <2>2. FlatMap(f, <<>>) = <<>> /\ FlatMap(f, a) \in Seq(Y)
    BY FlatMapEmpty, FlatMapTypes
  <2>3. FlatMap(f, a) \o <<>> = FlatMap(f, a)
    BY <2>2
  <2> QED
    BY <2>1, <2>2, <2>3
<1>2. ASSUME NEW s \in Seq(X), NEW x \in X, s \in P PROVE Append(s, x) \in P
  <2>1. a \o Append(s, x) = Append(a \o s, x) /\ a \o s \in Seq(X)
    BY ConcatRules
  <2>2. FlatMap(f, Append(a \o s, x)) = FlatMap(f, a \o s) \o f[x]
    <3>1. PICK u \in Seq(X) : u = a \o s
      BY <2>1
    <3>2. FlatMap(f, Append(u, x)) = FlatMap(f, u) \o f[x]
      BY FlatMapRules
    <3> QED
      BY <3>1, <3>2
  <2>3. FlatMap(f, Append(s, x)) = FlatMap(f, s) \o f[x]
        /\ FlatMap(f, a) \in Seq(Y) /\ FlatMap(f, s) \in Seq(Y) /\ f[x] \in Seq(Y)
    BY FlatMapRules
  <2>4. (FlatMap(f, a) \o FlatMap(f, s)) \o f[x] = FlatMap(f, a) \o (FlatMap(f, s) \o f[x])
    <3>1. FlatMap(f, a) \in Seq(Y)
      BY FlatMapTypes
    <3>2. PICK p \in Seq(Y), q \in Seq(Y), r \in Seq(Y) :
              p = FlatMap(f, a) /\ q = FlatMap(f, s) /\ r = f[x]
      BY <2>3, <3>1
    <3>3. (p \o q) \o r = p \o (q \o r)
      OBVIOUS
    <3> QED
      BY <3>2, <3>3
  <2>5. FlatMap(f, a \o s) = FlatMap(f, a) \o FlatMap(f, s)
    BY <1>2
  <2>6. Append(s, x) \in Seq(X)
    OBVIOUS
  <2> QED
    BY <2>1, <2>2, <2>3, <2>4, <2>5, <2>6
<1> HIDE DEF P
<1>3. Seq(X) \subseteq P
  BY <1>1, <1>2, SeqInduction
<1> QED
  BY <1>3 DEF P

\* One FlatMap after another is one.
LEMMA FlatMapTwice ==
  ASSUME NEW X, NEW Y, NEW Z, NEW f, IsMap(f, Y, Seq(Z)), NEW g, IsMap(g, X, Seq(Y)),
         NEW h, IsMap(h, X, Seq(Z)), \A x \in X : h[x] = FlatMap(f, g[x]),
         NEW s \in Seq(X)
  PROVE  FlatMap(f, FlatMap(g, s)) = FlatMap(h, s)
<1> DEFINE P == {t \in Seq(X) : FlatMap(f, FlatMap(g, t)) = FlatMap(h, t)}
<1>1. <<>> \in P
  <2>1. FlatMap(f, <<>>) = <<>> /\ FlatMap(g, <<>>) = <<>> /\ FlatMap(h, <<>>) = <<>>
    BY FlatMapEmpty
  <2>2. <<>> \in Seq(X)
    OBVIOUS
  <2> QED
    BY <2>1, <2>2
<1>2. ASSUME NEW t \in Seq(X), NEW x \in X, t \in P PROVE Append(t, x) \in P
  <2>1. FlatMap(g, Append(t, x)) = FlatMap(g, t) \o g[x]
        /\ FlatMap(g, t) \in Seq(Y) /\ g[x] \in Seq(Y)
    BY FlatMapRules
  <2>2. FlatMap(f, FlatMap(g, t) \o g[x]) = FlatMap(f, FlatMap(g, t)) \o FlatMap(f, g[x])
    BY <2>1, FlatMapConcat
  <2>3. FlatMap(h, Append(t, x)) = FlatMap(h, t) \o h[x]
    BY FlatMapRules
  <2>4. Append(t, x) \in Seq(X)
    OBVIOUS
  <2> QED
    BY <1>2, <2>1, <2>2, <2>3, <2>4
<1> HIDE DEF P
<1>3. Seq(X) \subseteq P
  BY <1>1, <1>2, SeqInduction
<1> QED
  BY <1>3 DEF P

\* Two functions that agree on the elements of a sequence.
LEMMA FlatMapSame ==
  ASSUME NEW s, NEW f, NEW g, \A n \in DOMAIN s : f[s[n]] = g[s[n]]
  PROVE  FlatMap(f, s) = FlatMap(g, s)
<1>1. Mapped(f, s) = Mapped(g, s)
  BY DEF Mapped
<1> QED
  BY <1>1 DEF FlatMap

\* The elements as they are.
LEMMA FlatMapSingle ==
  ASSUME NEW X, NEW f, IsMap(f, X, Seq(X)), \A x \in X : f[x] = <<x>>, NEW s \in Seq(X)
  PROVE  FlatMap(f, s) = s
<1> DEFINE P == {t \in Seq(X) : FlatMap(f, t) = t}
<1>1. <<>> \in P
  <2>1. FlatMap(f, <<>>) = <<>> /\ <<>> \in Seq(X)
    BY FlatMapEmpty
  <2> QED
    BY <2>1
<1>2. ASSUME NEW t \in Seq(X), NEW x \in X, t \in P PROVE Append(t, x) \in P
  <2>1. FlatMap(f, Append(t, x)) = FlatMap(f, t) \o f[x]
    BY FlatMapRules
  <2>2. t \o <<x>> = Append(t, x) /\ Append(t, x) \in Seq(X)
    OBVIOUS
  <2>3. f[x] = <<x>>
    OBVIOUS
  <2> QED
    BY <1>2, <2>1, <2>2, <2>3
<1> HIDE DEF P
<1>3. Seq(X) \subseteq P
  BY <1>1, <1>2, SeqInduction
<1> QED
  BY <1>3 DEF P

\* Mapping is the case of one for one.
LEMMA FlatMapMapped ==
  ASSUME NEW X, NEW Y, NEW f, IsMap(f, X, Y), NEW g, IsMap(g, X, Seq(Y)), \A x \in X : g[x] = <<f[x]>>,
         NEW s \in Seq(X)
  PROVE  FlatMap(g, s) = Mapped(f, s)
<1> DEFINE P == {t \in Seq(X) : FlatMap(g, t) = Mapped(f, t)}
<1>1. <<>> \in P
  <2>1. FlatMap(g, <<>>) = <<>> /\ <<>> \in Seq(X) /\ Mapped(f, <<>>) = <<>>
    BY FlatMapEmpty
  <2> QED
    BY <2>1
<1>2. ASSUME NEW t \in Seq(X), NEW x \in X, t \in P PROVE Append(t, x) \in P
  <2>1. FlatMap(g, Append(t, x)) = FlatMap(g, t) \o g[x]
    BY FlatMapRules
  <2>2. Mapped(f, Append(t, x)) = Append(Mapped(f, t), f[x]) /\ Mapped(f, t) \in Seq(Y)
    BY MappedRules
  <2>3. f[x] \in Y /\ g[x] = <<f[x]>> /\ Append(t, x) \in Seq(X)
    BY DEF IsMap
  <2>4. Mapped(f, t) \o <<f[x]>> = Append(Mapped(f, t), f[x])
    BY <2>2, <2>3, ConcatRules
  <2> QED
    BY <1>2, <2>1, <2>2, <2>3, <2>4
<1> HIDE DEF P
<1>3. Seq(X) \subseteq P
  BY <1>1, <1>2, SeqInduction
<1> QED
  BY <1>3 DEF P

\* Mapping goes through concatenation.
LEMMA MappedConcat ==
  ASSUME NEW X, NEW Y, NEW f, IsMap(f, X, Y), NEW a \in Seq(X), NEW b \in Seq(X)
  PROVE  Mapped(f, a \o b) = Mapped(f, a) \o Mapped(f, b)
<1>1. PICK g : g = [x \in X |-> <<f[x]>>]
  OBVIOUS
<1>2. \A x \in X : g[x] = <<f[x]>> /\ f[x] \in Y
  BY <1>1 DEF IsMap
<1>3. IsMap(g, X, Seq(Y))
  BY <1>1, <1>2 DEF IsMap
<1>4. ASSUME NEW s \in Seq(X) PROVE FlatMap(g, s) = Mapped(f, s)
  BY <1>2, <1>3, FlatMapMapped
<1>5. PICK c \in Seq(X) : c = a \o b
  <2>1. a \o b \in Seq(X)
    OBVIOUS
  <2> QED
    BY <2>1
<1>6. FlatMap(g, a \o b) = FlatMap(g, a) \o FlatMap(g, b)
  BY <1>3, FlatMapConcat
<1> QED
  BY <1>4, <1>5, <1>6

\* What comes of one element.
LEMMA FlatMapOne ==
  ASSUME NEW X, NEW Y, NEW f, IsMap(f, X, Seq(Y)), NEW x \in X
  PROVE  FlatMap(f, <<x>>) = f[x]
<1>1. Mapped(f, <<x>>) = <<f[x]>>
  BY DEF Mapped
<1>2. f[x] \in Seq(Y)
  BY DEF IsMap
<1> QED
  BY <1>1, <1>2, FlattenOne DEF FlatMap

\* What f makes nothing of, and a sequence with only the elements of K left.
MakesNothing(f, S) == \A x \in S : f[x] = <<>>

LeavesOnly(parts, s, K) == parts = [n \in DOMAIN s |-> IF s[n] \in K THEN <<s[n]>> ELSE <<>>]

\* Elements of which nothing comes may be left out.
LEMMA FlatMapFiltered ==
  ASSUME NEW X, NEW Y, NEW f, IsMap(f, X, Seq(Y)), NEW K, MakesNothing(f, X \ K),
         NEW s \in Seq(X), NEW parts, LeavesOnly(parts, s, K)
  PROVE  FlatMap(f, FlattenSeq(parts)) = FlatMap(f, s)
<1>1. PICK g : g = [x \in X |-> IF x \in K THEN <<x>> ELSE <<>>]
  OBVIOUS
<1>2. IsMap(g, X, Seq(X))
  BY <1>1 DEF IsMap
<1>3. parts = Mapped(g, s)
  <2>1. \A n \in DOMAIN s : s[n] \in X
    OBVIOUS
  <2>2. \A n \in DOMAIN s : g[s[n]] = IF s[n] \in K THEN <<s[n]>> ELSE <<>>
    BY <1>1, <2>1
  <2> QED
    BY <2>2 DEF Mapped, LeavesOnly
<1>4. ASSUME NEW x \in X PROVE f[x] = FlatMap(f, g[x])
  <2>1. CASE x \in K
    BY <1>1, <2>1, FlatMapOne
  <2>2. CASE x \notin K
    BY <1>1, <2>2, FlatMapEmpty DEF MakesNothing
  <2> QED
    BY <2>1, <2>2
<1>5. FlatMap(f, FlatMap(g, s)) = FlatMap(f, s)
  BY <1>2, <1>4, FlatMapTwice
<1> QED
  BY <1>3, <1>5 DEF FlatMap

\* Flattening twice is flattening what every element flattens to.
LEMMA FlattenTwice ==
  ASSUME NEW X, NEW parts \in Seq(Seq(Seq(X))), NEW flat \in Seq(Seq(X)),
         DOMAIN flat = DOMAIN parts, \A n \in DOMAIN parts : FlattenSeq(parts[n]) = flat[n]
  PROVE  FlattenSeq(FlattenSeq(parts)) = FlattenSeq(flat)
<1> DEFINE f == [t \in Seq(Seq(X)) |-> t]
           g == [t \in Seq(X) |-> t]
           h == [t \in Seq(Seq(X)) |-> FlattenSeq(t)]
<1>1. PICK id : id = f
  OBVIOUS
<1>2. PICK one : one = g
  OBVIOUS
<1>3. PICK fl : fl = h
  OBVIOUS
<1>4. IsMap(id, Seq(Seq(X)), Seq(Seq(X))) /\ IsMap(one, Seq(X), Seq(X))
  BY <1>1, <1>2 DEF IsMap
<1>5. \A t \in Seq(Seq(X)) : FlattenSeq(t) \in Seq(X)
  BY FlattenTypes
<1>6. IsMap(fl, Seq(Seq(X)), Seq(X))
  BY <1>3, <1>5 DEF IsMap
<1>7. \A t \in Seq(Seq(X)) : id[t] = t /\ fl[t] = FlattenSeq(t)
  BY <1>1, <1>3
<1>8. \A t \in Seq(X) : one[t] = t
  BY <1>2
<1> HIDE DEF f, g, h
<1>9. ASSUME NEW t \in Seq(Seq(X)) PROVE FlatMap(one, t) = FlattenSeq(t)
  <2>1. \A n \in DOMAIN t : one[t[n]] = t[n]
    BY <1>8
  <2>2. Mapped(one, t) = [n \in DOMAIN t |-> t[n]]
    BY <2>1 DEF Mapped
  <2>3. t = [n \in DOMAIN t |-> t[n]]
    OBVIOUS
  <2> QED
    BY <2>2, <2>3 DEF FlatMap
<1>10. FlatMap(id, parts) = FlattenSeq(parts)
  <2>1. \A n \in DOMAIN parts : id[parts[n]] = parts[n]
    BY <1>7
  <2>2. Mapped(id, parts) = [n \in DOMAIN parts |-> parts[n]]
    BY <2>1 DEF Mapped
  <2>3. parts = [n \in DOMAIN parts |-> parts[n]]
    OBVIOUS
  <2> QED
    BY <2>2, <2>3 DEF FlatMap
<1>11. FlatMap(fl, parts) = FlattenSeq(flat)
  <2>1. \A n \in DOMAIN parts : fl[parts[n]] = flat[n]
    BY <1>7
  <2>2. Mapped(fl, parts) = [n \in DOMAIN parts |-> flat[n]]
    BY <2>1 DEF Mapped
  <2>3. flat = [n \in DOMAIN flat |-> flat[n]]
    OBVIOUS
  <2> QED
    BY <2>2, <2>3 DEF FlatMap
<1>12. \A t \in Seq(Seq(X)) : fl[t] = FlatMap(one, id[t])
  BY <1>7, <1>9
<1>13. FlatMap(one, FlatMap(id, parts)) = FlatMap(fl, parts)
  BY <1>4, <1>6, <1>12, FlatMapTwice
<1>14. FlattenSeq(parts) \in Seq(Seq(X))
  BY FlattenTypes
<1> QED
  BY <1>9, <1>10, <1>11, <1>13, <1>14

-----------------------------------------------------------------------------
(* Elements *)

\* What is in a sequence.
LEMMA InConcat ==
  ASSUME NEW X, NEW a \in Seq(X), NEW b \in Seq(X)
  PROVE  ToSet(a \o b) = ToSet(a) \cup ToSet(b)
<1>1. PICK m \in Nat, n \in Nat : m = Len(a) /\ n = Len(b)
  OBVIOUS
<1>2. PICK c \in Seq(X) : c = a \o b
  <2>1. a \o b \in Seq(X)
    OBVIOUS
  <2> QED
    BY <2>1
<1>3. Len(c) = m + n /\ (\A i \in 1 .. m : c[i] = a[i]) /\ \A i \in 1 .. n : c[m + i] = b[i]
  BY <1>1, <1>2
<1>4. ASSUME NEW y PROVE y \in ToSet(c) <=> y \in ToSet(a) \/ y \in ToSet(b)
  <2>1. ASSUME NEW i \in 1 .. m + n, y = c[i] PROVE y \in ToSet(a) \/ y \in ToSet(b)
    <3>1. CASE i <= m
      <4>1. i \in 1 .. m /\ y = a[i]
        BY <1>3, <2>1, <3>1
      <4> QED
        BY <1>1, <4>1 DEF ToSet
    <3>2. CASE i > m
      <4>1. PICK j \in 1 .. n : i = m + j
        <5>1. i - m \in 1 .. n /\ i = m + (i - m)
          BY <3>2
        <5> QED
          BY <5>1
      <4>2. y = b[j]
        BY <1>3, <2>1, <4>1
      <4> QED
        BY <1>1, <4>2 DEF ToSet
    <3> QED
      BY <3>1, <3>2
  <2>2. ASSUME NEW i \in 1 .. m, y = a[i] PROVE y \in ToSet(c)
    <3>1. i \in 1 .. m + n /\ y = c[i]
      BY <1>3, <2>2
    <3> QED
      BY <1>3, <3>1 DEF ToSet
  <2>3. ASSUME NEW i \in 1 .. n, y = b[i] PROVE y \in ToSet(c)
    <3>1. m + i \in 1 .. m + n /\ y = c[m + i]
      BY <1>3, <2>3
    <3> QED
      BY <1>3, <3>1 DEF ToSet
  <2>4. DOMAIN c = 1 .. m + n /\ DOMAIN a = 1 .. m /\ DOMAIN b = 1 .. n
    BY <1>1, <1>3
  <2> QED
    BY <2>1, <2>2, <2>3, <2>4 DEF ToSet
<1> QED
  BY <1>2, <1>4

\* What an appended sequence contains.
LEMMA InAppend ==
  ASSUME NEW X, NEW a \in Seq(X), NEW x \in X
  PROVE  ToSet(Append(a, x)) = ToSet(a) \cup {x}
<1>1. PICK n \in Nat : n = Len(a)
  OBVIOUS
<1>2. PICK c \in Seq(X) : c = Append(a, x)
  <2>1. Append(a, x) \in Seq(X)
    OBVIOUS
  <2> QED
    BY <2>1
<1>3. Len(c) = n + 1 /\ (\A i \in 1 .. n : c[i] = a[i]) /\ c[n + 1] = x
  BY <1>1, <1>2
<1>4. ASSUME NEW y PROVE y \in ToSet(c) <=> y \in ToSet(a) \/ y = x
  <2>1. ASSUME NEW i \in 1 .. n + 1, y = c[i] PROVE y \in ToSet(a) \/ y = x
    <3>1. i \in 1 .. n \/ i = n + 1
      OBVIOUS
    <3> QED
      BY <1>1, <1>3, <2>1, <3>1 DEF ToSet
  <2>2. \A i \in 1 .. n : i \in 1 .. n + 1
    OBVIOUS
  <2>3. ASSUME NEW i \in 1 .. n, y = a[i] PROVE y \in ToSet(c)
    BY <1>3, <2>2, <2>3 DEF ToSet
  <2>4. n + 1 \in 1 .. n + 1
    OBVIOUS
  <2>5. ASSUME y = x PROVE y \in ToSet(c)
    BY <1>3, <2>4, <2>5 DEF ToSet
  <2> QED
    BY <1>1, <1>3, <2>1, <2>3, <2>5 DEF ToSet
<1> QED
  BY <1>2, <1>4

\* What is in a sequence is at some place.
LEMMA InElement ==
  ASSUME NEW X, NEW s \in Seq(X)
  PROVE  /\ ToSet(s) \subseteq X
         /\ \A i \in DOMAIN s : s[i] \in ToSet(s)
         /\ \A y \in ToSet(s) : \E i \in DOMAIN s : y = s[i]
BY DEF ToSet

\* Nothing is in the empty sequence.
LEMMA NothingIn == ToSet(<<>>) = {}
BY DEF ToSet

\* What is in a flattened sequence is in one of its parts.
LEMMA InFlatten ==
  ASSUME NEW X, NEW seqs \in Seq(Seq(X))
  PROVE  \A y : y \in ToSet(FlattenSeq(seqs)) <=> \E t \in ToSet(seqs) : y \in ToSet(t)
<1> DEFINE P == {s \in Seq(Seq(X)) :
                   \A y : y \in ToSet(FlattenSeq(s)) <=> \E t \in ToSet(s) : y \in ToSet(t)}
<1>1. <<>> \in P
  <2>1. <<>> \in Seq(Seq(X))
    OBVIOUS
  <2> QED
    BY <2>1, NothingIn, FlattenEmpty
<1>2. ASSUME NEW s \in Seq(Seq(X)), NEW x \in Seq(X), s \in P PROVE Append(s, x) \in P
  <2>1. FlattenSeq(Append(s, x)) = FlattenSeq(s) \o x
    BY FlattenAppend
  <2>2. PICK f \in Seq(X) : f = FlattenSeq(s)
    BY FlattenTypes
  <2>3. ToSet(f \o x) = ToSet(f) \cup ToSet(x)
    BY InConcat
  <2>4. ToSet(Append(s, x)) = ToSet(s) \cup {x}
    BY InAppend
  <2>5. Append(s, x) \in Seq(Seq(X))
    OBVIOUS
  <2>6. \A y : y \in ToSet(f) <=> \E t \in ToSet(s) : y \in ToSet(t)
    BY <1>2, <2>2
  <2>7. \A y : y \in ToSet(FlattenSeq(Append(s, x))) <=> \E t \in ToSet(Append(s, x)) : y \in ToSet(t)
    BY <2>1, <2>2, <2>3, <2>4, <2>6
  <2> QED
    BY <2>5, <2>7
<1> HIDE DEF P
<1>3. Seq(Seq(X)) \subseteq P
  BY <1>1, <1>2, SeqInduction
<1> QED
  BY <1>3 DEF P

\* No element twice.
Distinct(s) == \A i, j \in DOMAIN s : s[i] = s[j] => i = j

\* Distinct parts without a common element make a distinct whole.
LEMMA DistinctConcat ==
  ASSUME NEW X, NEW a \in Seq(X), NEW b \in Seq(X)
  PROVE  Distinct(a \o b) <=> Distinct(a) /\ Distinct(b) /\ ToSet(a) \cap ToSet(b) = {}
<1>1. PICK m \in Nat, n \in Nat : m = Len(a) /\ n = Len(b)
  OBVIOUS
<1>2. PICK c \in Seq(X) : c = a \o b
  <2>1. a \o b \in Seq(X)
    OBVIOUS
  <2> QED
    BY <2>1
<1>3. Len(c) = m + n /\ (\A i \in 1 .. m : c[i] = a[i]) /\ \A i \in 1 .. n : c[m + i] = b[i]
  BY <1>1, <1>2
<1>4. DOMAIN c = 1 .. m + n /\ DOMAIN a = 1 .. m /\ DOMAIN b = 1 .. n
  BY <1>1, <1>3
<1>5. ASSUME Distinct(c) PROVE Distinct(a) /\ Distinct(b) /\ ToSet(a) \cap ToSet(b) = {}
  <2>1. \A i, j \in 1 .. m + n : c[i] = c[j] => i = j
    BY <1>4, <1>5 DEF Distinct
  <2>2. ASSUME NEW i \in 1 .. m, NEW j \in 1 .. m, a[i] = a[j] PROVE i = j
    <3>1. i \in 1 .. m + n /\ j \in 1 .. m + n
      OBVIOUS
    <3> QED
      BY <1>3, <2>1, <2>2, <3>1
  <2>3. ASSUME NEW i \in 1 .. n, NEW j \in 1 .. n, b[i] = b[j] PROVE i = j
    <3>1. m + i \in 1 .. m + n /\ m + j \in 1 .. m + n
      OBVIOUS
    <3>2. m + i = m + j
      BY <1>3, <2>1, <2>3, <3>1
    <3> QED
      BY <3>2
  <2>4. ASSUME NEW i \in 1 .. m, NEW j \in 1 .. n, a[i] = b[j] PROVE FALSE
    <3>1. i \in 1 .. m + n /\ m + j \in 1 .. m + n /\ i # m + j
      OBVIOUS
    <3> QED
      BY <1>3, <2>1, <2>4, <3>1
  <2>5. Distinct(a) /\ Distinct(b)
    BY <1>4, <2>2, <2>3 DEF Distinct
  <2>6. ToSet(a) \cap ToSet(b) = {}
    BY <1>4, <2>4 DEF ToSet
  <2> QED
    BY <2>5, <2>6
<1>6. ASSUME Distinct(a), Distinct(b), ToSet(a) \cap ToSet(b) = {} PROVE Distinct(c)
  <2> SUFFICES ASSUME NEW i \in 1 .. m + n, NEW j \in 1 .. m + n, c[i] = c[j] PROVE i = j
    BY <1>4 DEF Distinct
  <2>1. ASSUME NEW k \in 1 .. m + n
        PROVE  (k \in 1 .. m /\ c[k] = a[k]) \/ \E l \in 1 .. n : k = m + l /\ c[k] = b[l]
    <3>1. CASE k <= m
      BY <1>3, <3>1
    <3>2. CASE k > m
      <4>1. PICK l \in 1 .. n : k = m + l
        <5>1. k - m \in 1 .. n /\ k = m + (k - m)
          BY <3>2
        <5> QED
          BY <5>1
      <4> QED
        BY <1>3, <4>1
    <3> QED
      BY <3>1, <3>2
  <2>2. \A k \in 1 .. m, l \in 1 .. n : a[k] # b[l]
    BY <1>4, <1>6 DEF ToSet
  <2>3. CASE i \in 1 .. m /\ c[i] = a[i]
    <3>1. CASE j \in 1 .. m /\ c[j] = a[j]
      BY <1>4, <1>6, <2>3, <3>1 DEF Distinct
    <3>2. CASE \E l \in 1 .. n : j = m + l /\ c[j] = b[l]
      BY <2>2, <2>3, <3>2
    <3> QED
      BY <2>1, <3>1, <3>2
  <2>4. CASE \E l \in 1 .. n : i = m + l /\ c[i] = b[l]
    <3>1. PICK l \in 1 .. n : i = m + l /\ c[i] = b[l]
      BY <2>4
    <3>2. CASE j \in 1 .. m /\ c[j] = a[j]
      BY <2>2, <3>1, <3>2
    <3>3. CASE \E k \in 1 .. n : j = m + k /\ c[j] = b[k]
      <4>1. PICK k \in 1 .. n : j = m + k /\ c[j] = b[k]
        BY <3>3
      <4>2. l = k
        BY <1>4, <1>6, <3>1, <4>1 DEF Distinct
      <4> QED
        BY <3>1, <4>1, <4>2
    <3> QED
      BY <2>1, <3>2, <3>3
  <2> QED
    BY <2>1, <2>3, <2>4
<1> QED
  BY <1>2, <1>5, <1>6

\* Sequences of distinct elements that have none in common.
Apart(seqs) ==
    /\ \A i \in DOMAIN seqs : Distinct(seqs[i])
    /\ \A i, j \in DOMAIN seqs : i # j => ToSet(seqs[i]) \cap ToSet(seqs[j]) = {}

\* Of any number of parts.
LEMMA DistinctFlatten ==
  ASSUME NEW X, NEW seqs \in Seq(Seq(X)), Apart(seqs)
  PROVE  Distinct(FlattenSeq(seqs))
<1> DEFINE P == {s \in Seq(Seq(X)) : Apart(s) => Distinct(FlattenSeq(s))}
<1>1. <<>> \in P
  <2>1. <<>> \in Seq(Seq(X)) /\ Distinct(<<>>)
    BY DEF Distinct
  <2> QED
    BY <2>1, FlattenEmpty
<1>2. ASSUME NEW s \in Seq(Seq(X)), NEW x \in Seq(X), s \in P PROVE Append(s, x) \in P
  <2>0. PICK more \in Seq(Seq(X)) : more = Append(s, x)
    <3>1. Append(s, x) \in Seq(Seq(X))
      OBVIOUS
    <3> QED
      BY <3>1
  <2>1. PICK n \in Nat : n = Len(s) /\ more = Append(s, x)
    BY <2>0
  <2>2. /\ DOMAIN s = 1 .. n /\ DOMAIN more = 1 .. n + 1 /\ more[n + 1] = x
        /\ \A i \in 1 .. n : more[i] = s[i]
    BY <2>1
  <2> SUFFICES ASSUME Apart(more) PROVE Distinct(FlattenSeq(more))
    BY <2>1
  <2>3. \A i \in 1 .. n : i \in 1 .. n + 1 /\ i # n + 1
    OBVIOUS
  <2>4. n + 1 \in 1 .. n + 1
    OBVIOUS
  <2>5. Apart(s) /\ Distinct(x) /\ \A i \in 1 .. n : ToSet(s[i]) \cap ToSet(x) = {}
    <3>1. \A i \in 1 .. n + 1 : Distinct(more[i])
      BY <2>2 DEF Apart
    <3>2. \A i, j \in 1 .. n + 1 : i # j => ToSet(more[i]) \cap ToSet(more[j]) = {}
      BY <2>2 DEF Apart
    <3>3. Distinct(x) /\ \A i \in 1 .. n : ToSet(s[i]) \cap ToSet(x) = {}
      BY <2>2, <2>3, <2>4, <3>1, <3>2
    <3>4. Apart(s)
      BY <2>2, <2>3, <3>1, <3>2 DEF Apart
    <3> QED
      BY <3>3, <3>4
  <2>6. PICK f \in Seq(X) : f = FlattenSeq(s)
    BY FlattenTypes
  <2>7. ToSet(f) \cap ToSet(x) = {}
    <3>1. ASSUME NEW y \in ToSet(f) PROVE y \notin ToSet(x)
      <4>1. PICK t \in ToSet(s) : y \in ToSet(t)
        BY <2>6, InFlatten
      <4>2. PICK i \in 1 .. n : t = s[i]
        BY <2>2, InElement
      <4> QED
        BY <2>5, <4>1, <4>2
    <3> QED
      BY <3>1
  <2>8. Distinct(f \o x)
    BY <1>2, <2>5, <2>6, <2>7, DistinctConcat
  <2> QED
    BY <2>1, <2>6, <2>8, FlattenAppend
<1> HIDE DEF P
<1>3. Seq(Seq(X)) \subseteq P
  BY <1>1, <1>2, SeqInduction
<1> QED
  BY <1>3 DEF P

\* What is left of distinct elements is distinct.
LEMMA DistinctLeft ==
  ASSUME NEW X, NEW s \in Seq(X), Distinct(s), NEW K, NEW parts, LeavesOnly(parts, s, K)
  PROVE  FlattenSeq(parts) \in Seq(X) /\ Distinct(FlattenSeq(parts))
<1>1. PICK m \in Nat : DOMAIN s = 1 .. m
  OBVIOUS
<1>2. \A n \in 1 .. m : s[n] \in X
  BY <1>1
<1>3. DOMAIN parts = 1 .. m /\ \A n \in 1 .. m : parts[n] = IF s[n] \in K THEN <<s[n]>> ELSE <<>>
  BY <1>1 DEF LeavesOnly
<1>4. ASSUME NEW n \in 1 .. m
      PROVE  parts[n] \in Seq(X) /\ Distinct(parts[n]) /\ ToSet(parts[n]) \subseteq {s[n]}
  <2>1. CASE s[n] \in K
    <3>1. parts[n] = <<s[n]>>
      BY <1>3, <2>1
    <3>2. <<s[n]>> \in Seq(X)
      BY <1>2
    <3>3. Distinct(<<s[n]>>) /\ ToSet(<<s[n]>>) = {s[n]}
      BY DEF Distinct, ToSet
    <3> QED
      BY <3>1, <3>2, <3>3
  <2>2. CASE s[n] \notin K
    <3>1. parts[n] = <<>>
      BY <1>3, <2>2
    <3>2. <<>> \in Seq(X)
      OBVIOUS
    <3>3. Distinct(<<>>) /\ ToSet(<<>>) = {}
      BY DEF Distinct, ToSet
    <3> QED
      BY <3>1, <3>2, <3>3
  <2> QED
    BY <2>1, <2>2
<1>5. parts \in Seq(Seq(X))
  <2>1. [n \in 1 .. m |-> parts[n]] \in Seq(Seq(X))
    BY <1>4
  <2>2. parts = [n \in 1 .. m |-> parts[n]]
    BY <1>1 DEF LeavesOnly
  <2> QED
    BY <2>1, <2>2
<1>6. \A i, j \in 1 .. m : i # j => s[i] # s[j]
  BY <1>1 DEF Distinct
<1>7. Apart(parts)
  BY <1>3, <1>4, <1>6 DEF Apart
<1> QED
  BY <1>5, <1>7, FlattenTypes, DistinctFlatten

\* Nor is the rest of a sequence less so.
LEMMA DistinctTail ==
  ASSUME NEW X, NEW s \in Seq(X), s # <<>>, Distinct(s)
  PROVE  Tail(s) \in Seq(X) /\ Distinct(Tail(s))
<1>1. PICK n \in Nat : Len(s) = n + 1 /\ DOMAIN s = 1 .. n + 1
  <2>1. Len(s) \in Nat /\ Len(s) # 0 /\ DOMAIN s = 1 .. Len(s)
    OBVIOUS
  <2>2. Len(s) - 1 \in Nat /\ Len(s) = (Len(s) - 1) + 1
    BY <2>1
  <2> QED
    BY <2>1, <2>2
<1>2. PICK t \in Seq(X) : t = Tail(s)
  <2>1. Tail(s) \in Seq(X)
    OBVIOUS
  <2> QED
    BY <2>1
<1>3. DOMAIN t = 1 .. n /\ \A i \in 1 .. n : t[i] = s[i + 1]
  BY <1>1, <1>2
<1>4. ASSUME NEW i \in 1 .. n, NEW j \in 1 .. n, t[i] = t[j] PROVE i = j
  <2>1. i + 1 \in DOMAIN s /\ j + 1 \in DOMAIN s /\ s[i + 1] = s[j + 1]
    BY <1>1, <1>3, <1>4
  <2>2. i + 1 = j + 1
    BY <2>1 DEF Distinct
  <2> QED
    BY <2>2
<1> QED
  BY <1>2, <1>3, <1>4 DEF Distinct

\* The elements of a concatenation.
LEMMA ConcatElements ==
  ASSUME NEW X, NEW a \in Seq(X), NEW b \in Seq(X), NEW c, c = a \o b
  PROVE  /\ DOMAIN c = 1 .. Len(a) + Len(b)
         /\ \A i \in 1 .. Len(a) : c[i] = a[i]
         /\ \A i \in 1 .. Len(b) : c[Len(a) + i] = b[i]
<1>1. PICK m \in Nat, k \in Nat : m = Len(a) /\ k = Len(b)
  OBVIOUS
<1>2. \A i \in 1 .. m : c[i] = a[i]
  BY <1>1
<1>3. \A i \in 1 .. k : c[m + i] = b[i]
  BY <1>1
<1>4. DOMAIN c = 1 .. m + k
  BY <1>1
<1> QED
  BY <1>1, <1>2, <1>3, <1>4

-----------------------------------------------------------------------------
(* Parts that cover a sequence: each may repeat elements of the one before it *)

\* c without the elements of T.
Without(c, T) == FlattenSeq([n \in DOMAIN c |-> IF c[n] \notin T THEN <<c[n]>> ELSE <<>>])

\* Leaving out T, as a function on elements.
IsWithout(f, X, T) ==
    /\ IsMap(f, X, Seq(X))
    /\ \A x \in X : f[x] = IF x \notin T THEN <<x>> ELSE <<>>
    /\ \A s \in Seq(X) : Without(s, T) = FlatMap(f, s)

\* There is one.
LEMMA WithoutMap ==
  ASSUME NEW X, NEW T
  PROVE  \E f : IsWithout(f, X, T)
<1>1. PICK f : f = [x \in X |-> IF x \notin T THEN <<x>> ELSE <<>>]
  OBVIOUS
<1>2. IsMap(f, X, Seq(X))
  BY <1>1 DEF IsMap
<1>3. ASSUME NEW s \in Seq(X) PROVE Without(s, T) = FlatMap(f, s)
  <2>1. \A n \in DOMAIN s : s[n] \in X
    OBVIOUS
  <2>2. [n \in DOMAIN s |-> IF s[n] \notin T THEN <<s[n]>> ELSE <<>>] = Mapped(f, s)
    BY <1>1, <2>1 DEF Mapped
  <2> QED
    BY <2>2 DEF Without, FlatMap
<1>4. IsWithout(f, X, T)
  BY <1>1, <1>2, <1>3 DEF IsWithout
<1> QED
  BY <1>4

\* What it is made of.
LEMMA WithoutTypes ==
  ASSUME NEW X, NEW a \in Seq(X), NEW T
  PROVE  Without(a, T) \in Seq(X)
<1>0. PICK f : IsWithout(f, X, T)
  BY WithoutMap
<1>1. IsMap(f, X, Seq(X)) /\ \A s \in Seq(X) : Without(s, T) = FlatMap(f, s)
  BY <1>0 DEF IsWithout
<1> QED
  BY <1>1, FlatMapTypes

\* What is left of two parts.
LEMMA WithoutConcat ==
  ASSUME NEW X, NEW a \in Seq(X), NEW b \in Seq(X), NEW T
  PROVE  Without(a \o b, T) = Without(a, T) \o Without(b, T)
<1>0. PICK f : IsWithout(f, X, T)
  BY WithoutMap
<1>1. IsMap(f, X, Seq(X)) /\ \A s \in Seq(X) : Without(s, T) = FlatMap(f, s)
  BY <1>0 DEF IsWithout
<1>2. PICK c \in Seq(X) : c = a \o b
  <2>1. a \o b \in Seq(X)
    OBVIOUS
  <2> QED
    BY <2>1
<1>3. FlatMap(f, a \o b) = FlatMap(f, a) \o FlatMap(f, b)
  BY <1>1, FlatMapConcat
<1> QED
  BY <1>1, <1>2, <1>3

\* Nothing is left out of what T does not meet.
LEMMA WithoutNone ==
  ASSUME NEW X, NEW a \in Seq(X), NEW T, ToSet(a) \cap T = {}
  PROVE  Without(a, T) = a
<1>0. PICK f : IsWithout(f, X, T)
  BY WithoutMap
<1>1. IsMap(f, X, Seq(X)) /\ (\A x \in X : f[x] = IF x \notin T THEN <<x>> ELSE <<>>)
      /\ \A s \in Seq(X) : Without(s, T) = FlatMap(f, s)
  BY <1>0 DEF IsWithout
<1>2. PICK g : g = [x \in X |-> <<x>>]
  OBVIOUS
<1>3. IsMap(g, X, Seq(X)) /\ \A x \in X : g[x] = <<x>>
  BY <1>2 DEF IsMap
<1>4. \A n \in DOMAIN a : a[n] \in X /\ a[n] \notin T
  BY InElement
<1>5. FlatMap(f, a) = FlatMap(g, a)
  <2>1. \A n \in DOMAIN a : f[a[n]] = g[a[n]]
    BY <1>1, <1>3, <1>4
  <2> QED
    BY <2>1, FlatMapSame
<1>6. FlatMap(g, a) = a
  BY <1>3, FlatMapSingle
<1> QED
  BY <1>1, <1>5, <1>6

\* And everything of what is in T.
LEMMA WithoutAll ==
  ASSUME NEW X, NEW a \in Seq(X), NEW T, ToSet(a) \subseteq T
  PROVE  Without(a, T) = <<>>
<1>1. \A y \in ToSet(Without(a, T)) : FALSE
  <2>1. PICK seqs \in Seq(Seq(X)) : seqs = [n \in DOMAIN a |-> IF a[n] \notin T THEN <<a[n]>> ELSE <<>>]
    <3>1. \A n \in DOMAIN a : a[n] \in X
      OBVIOUS
    <3>2. PICK m \in Nat : DOMAIN a = 1 .. m
      OBVIOUS
    <3>3. [n \in 1 .. m |-> IF a[n] \notin T THEN <<a[n]>> ELSE <<>>] \in Seq(Seq(X))
      BY <3>1, <3>2
    <3> QED
      BY <3>2, <3>3
  <2>2. \A n \in DOMAIN a : a[n] \in T
    BY InElement
  <2>3. DOMAIN seqs = DOMAIN a /\ \A n \in DOMAIN seqs : seqs[n] = <<>>
    BY <2>1, <2>2
  <2>4. \A t \in ToSet(seqs) : t = <<>>
    BY <2>3, InElement
  <2> QED
    BY <2>1, <2>4, InFlatten, NothingIn DEF Without
<1>2. PICK w \in Seq(X) : w = Without(a, T)
  BY WithoutTypes
<1>3. DOMAIN w = {}
  BY <1>1, <1>2, InElement
<1>4. w = <<>>
  BY <1>3
<1> QED
  BY <1>2, <1>4

\* What chunk n has that the one before it has not.
New(cs, n) == IF n = 1 THEN cs[n] ELSE Without(cs[n], ToSet(cs[n - 1]))

News(cs) == FlattenSeq([n \in DOMAIN cs |-> New(cs, n)])

\* What is new in a part is made of its elements.
LEMMA NewTypes ==
  ASSUME NEW X, NEW cs \in Seq(Seq(X))
  PROVE  [n \in DOMAIN cs |-> New(cs, n)] \in Seq(Seq(X)) /\ News(cs) \in Seq(X)
<1>1. PICK m \in Nat : DOMAIN cs = 1 .. m
  OBVIOUS
<1>2. ASSUME NEW n \in 1 .. m PROVE New(cs, n) \in Seq(X)
  <2>1. cs[n] \in Seq(X)
    BY <1>1
  <2>2. Without(cs[n], ToSet(cs[n - 1])) \in Seq(X)
    BY <2>1, WithoutTypes
  <2> QED
    BY <2>1, <2>2 DEF New
<1>3. [n \in 1 .. m |-> New(cs, n)] \in Seq(Seq(X))
  BY <1>2
<1> QED
  BY <1>1, <1>3, FlattenTypes DEF News

\* Parts that share nothing at their joint are new on their own.
LEMMA NewsConcat ==
  ASSUME NEW X, NEW cs \in Seq(Seq(X)), NEW ds \in Seq(Seq(X)),
         cs # <<>> /\ ds # <<>> => ToSet(ds[1]) \cap ToSet(cs[Len(cs)]) = {}
  PROVE  News(cs \o ds) = News(cs) \o News(ds)
<1>1. PICK m \in Nat, k \in Nat : m = Len(cs) /\ k = Len(ds)
  OBVIOUS
<1>2. PICK both \in Seq(Seq(X)) : both = cs \o ds
  <2>1. cs \o ds \in Seq(Seq(X))
    OBVIOUS
  <2> QED
    BY <2>1
<1>3. /\ DOMAIN both = 1 .. m + k /\ DOMAIN cs = 1 .. m /\ DOMAIN ds = 1 .. k
      /\ \A i \in 1 .. m : both[i] = cs[i]
      /\ \A i \in 1 .. k : both[m + i] = ds[i]
  BY <1>1, <1>2
<1>4. PICK f \in Seq(Seq(X)), g \in Seq(Seq(X)) :
         f = [n \in DOMAIN cs |-> New(cs, n)] /\ g = [n \in DOMAIN ds |-> New(ds, n)]
  BY NewTypes
<1>5. PICK h \in Seq(Seq(X)) : h = f \o g
  <2>1. f \o g \in Seq(Seq(X))
    OBVIOUS
  <2> QED
    BY <2>1
<1>6. /\ DOMAIN h = 1 .. m + k
      /\ \A i \in 1 .. m : h[i] = New(cs, i)
      /\ \A i \in 1 .. k : h[m + i] = New(ds, i)
  <2>1. DOMAIN f = 1 .. m /\ DOMAIN g = 1 .. k
    BY <1>3, <1>4
  <2>2. Len(f) = m /\ Len(g) = k
    BY <2>1
  <2>3. \A i \in 1 .. m : f[i] = New(cs, i)
    BY <1>3, <1>4
  <2>4. \A i \in 1 .. k : g[i] = New(ds, i)
    BY <1>3, <1>4
  <2>5. DOMAIN h = 1 .. m + k /\ (\A i \in 1 .. m : h[i] = f[i]) /\ \A i \in 1 .. k : h[m + i] = g[i]
    <3>1. DOMAIN h = 1 .. Len(f) + Len(g) /\ (\A i \in 1 .. Len(f) : h[i] = f[i])
          /\ \A i \in 1 .. Len(g) : h[Len(f) + i] = g[i]
      BY <1>5, ConcatElements
    <3> QED
      BY <2>2, <3>1, Zenon
  <2> QED
    BY <2>3, <2>4, <2>5
<1>7. ASSUME NEW n \in 1 .. m + k PROVE h[n] = New(both, n)
  <2>1. CASE n <= m
    <3>1. n \in 1 .. m /\ (n # 1 => n - 1 \in 1 .. m)
      BY <2>1
    <3>2. both[n] = cs[n] /\ (n # 1 => both[n - 1] = cs[n - 1])
      BY <1>3, <3>1
    <3>3. New(both, n) = New(cs, n)
      BY <3>2 DEF New
    <3> QED
      BY <1>6, <3>1, <3>3
  <2>2. CASE n > m
    <3>1. PICK i \in 1 .. k : n = m + i
      <4>1. n - m \in 1 .. k /\ n = m + (n - m)
        BY <2>2
      <4> QED
        BY <4>1
    <3>2. both[n] = ds[i] /\ h[n] = New(ds, i) /\ ds[i] \in Seq(X)
      <4>1. ds[i] \in Seq(X)
        BY <1>3
      <4> QED
        BY <1>3, <1>6, <3>1, <4>1, Zenon
    <3>3. CASE i # 1
      <4>1. i - 1 \in 1 .. k /\ n - 1 = m + (i - 1) /\ n # 1
        BY <3>1, <3>3
      <4>2. both[n - 1] = ds[i - 1]
        BY <1>3, <4>1
      <4> QED
        BY <3>2, <3>3, <4>1, <4>2 DEF New
    <3>4. CASE i = 1
      <4>1. h[n] = ds[1] /\ both[n] = ds[1]
        BY <3>2, <3>4 DEF New
      <4>2. CASE m = 0
        <5>1. n = 1
          BY <3>1, <3>4, <4>2
        <5> QED
          BY <4>1, <5>1 DEF New
      <4>3. CASE m # 0
        <5>1. n # 1 /\ n - 1 = m /\ m \in 1 .. m
          BY <3>1, <3>4, <4>3
        <5>2. both[n - 1] = cs[m]
          BY <1>3, <5>1
        <5>3. cs # <<>> /\ ds # <<>>
          BY <1>1, <3>1, <4>3
        <5>4. ToSet(ds[1]) \cap ToSet(cs[m]) = {}
          BY <1>1, <5>3
        <5>5. Without(ds[1], ToSet(cs[m])) = ds[1]
          BY <3>2, <3>4, <5>4, WithoutNone
        <5> QED
          BY <4>1, <5>1, <5>2, <5>5 DEF New
      <4> QED
        BY <4>2, <4>3
    <3> QED
      BY <3>3, <3>4
  <2> QED
    BY <2>1, <2>2
<1>8. h = [n \in DOMAIN both |-> New(both, n)]
  <2>1. h = [n \in 1 .. m + k |-> h[n]]
    BY <1>6
  <2> QED
    BY <1>3, <1>7, <2>1
<1>9. FlattenSeq(f \o g) = FlattenSeq(f) \o FlattenSeq(g)
  BY FlattenConcat
<1> QED
  BY <1>2, <1>4, <1>5, <1>8, <1>9 DEF News

Covers(cs, ws) == News(cs) = ws /\ \A n \in DOMAIN cs : ToSet(cs[n]) \subseteq ToSet(ws)

\* Two covers of words without a common one.
LEMMA CoverConcat ==
  ASSUME NEW X, NEW cs \in Seq(Seq(X)), NEW ds \in Seq(Seq(X)), NEW ws \in Seq(X), NEW vs \in Seq(X),
         Covers(cs, ws), Covers(ds, vs), ToSet(ws) \cap ToSet(vs) = {}
  PROVE  Covers(cs \o ds, ws \o vs)
<1>1. PICK m \in Nat, k \in Nat : m = Len(cs) /\ k = Len(ds)
  OBVIOUS
<1>2. PICK both \in Seq(Seq(X)) : both = cs \o ds
  <2>1. cs \o ds \in Seq(Seq(X))
    OBVIOUS
  <2> QED
    BY <2>1
<1>3. /\ DOMAIN both = 1 .. m + k /\ DOMAIN cs = 1 .. m /\ DOMAIN ds = 1 .. k
      /\ \A i \in 1 .. m : both[i] = cs[i]
      /\ \A i \in 1 .. k : both[m + i] = ds[i]
  BY <1>1, <1>2
<1>4. /\ \A i \in 1 .. m : ToSet(cs[i]) \subseteq ToSet(ws)
      /\ \A i \in 1 .. k : ToSet(ds[i]) \subseteq ToSet(vs)
  BY <1>3 DEF Covers
<1>5. News(both) = ws \o vs
  <2>1. ASSUME cs # <<>>, ds # <<>> PROVE ToSet(ds[1]) \cap ToSet(cs[Len(cs)]) = {}
    <3>1. 1 \in 1 .. k /\ m \in 1 .. m
      BY <1>1, <2>1
    <3> QED
      BY <1>1, <1>4, <3>1
  <2>2. News(cs \o ds) = News(cs) \o News(ds)
    BY <2>1, NewsConcat
  <2> QED
    BY <1>2, <2>2 DEF Covers
<1>6. ToSet(ws \o vs) = ToSet(ws) \cup ToSet(vs)
  BY InConcat
<1>7. ASSUME NEW n \in 1 .. m + k PROVE ToSet(both[n]) \subseteq ToSet(ws \o vs)
  <2>1. CASE n \in 1 .. m
    BY <1>3, <1>4, <1>6, <2>1
  <2>2. CASE n \notin 1 .. m
    <3>1. PICK i \in 1 .. k : n = m + i
      <4>1. n - m \in 1 .. k /\ n = m + (n - m)
        BY <2>2
      <4> QED
        BY <4>1
    <3> QED
      BY <1>3, <1>4, <1>6, <3>1
  <2> QED
    BY <2>1, <2>2
<1> QED
  BY <1>2, <1>3, <1>5, <1>7 DEF Covers

\* Nothing covers nothing.
LEMMA CoverNone == Covers(<<>>, <<>>)
<1>1. [n \in DOMAIN <<>> |-> New(<<>>, n)] = <<>>
  OBVIOUS
<1> QED
  BY <1>1, FlattenEmpty DEF Covers, News

\* Concatenation, as a fact about three sequences.
Joins(d, a, b) == d = a \o b

\* Three sequences in a row.
LEMMA JoinsTwice ==
  ASSUME NEW X, NEW a \in Seq(X), NEW b \in Seq(X), NEW c \in Seq(X),
         NEW d, Joins(d, a, b), NEW e, Joins(e, b, c), NEW f, Joins(f, d, c)
  PROVE  Joins(f, a, e)
BY DEF Joins

\* A beginning and an end, each without T.
LEMMA WithoutJoins ==
  ASSUME NEW X, NEW a \in Seq(X), NEW b \in Seq(X), NEW T, NEW d, Joins(d, a, b)
  PROVE  Joins(Without(d, T), Without(a, T), Without(b, T))
BY WithoutConcat DEF Joins

\* Of a beginning and an end that are apart in what they share with T.
LEMMA WithoutGrow ==
  ASSUME NEW X, NEW c \in Seq(X), NEW u \in Seq(X), NEW d, Joins(d, c, u),
         NEW T, ToSet(u) \cap T = {}
  PROVE  Joins(Without(d, T), Without(c, T), u)
<1>1. Without(c \o u, T) = Without(c, T) \o Without(u, T)
  BY WithoutConcat
<1>2. Without(u, T) = u
  BY WithoutNone
<1> QED
  BY <1>1, <1>2 DEF Joins

\* What c has that the last of cs has not.
After(cs, c) == IF cs = <<>> THEN c ELSE Without(c, ToSet(cs[Len(cs)]))

\* The elements of an appended sequence.
LEMMA AppendElements ==
  ASSUME NEW X, NEW cs \in Seq(X), NEW c \in X, NEW more, more = Append(cs, c)
  PROVE  /\ more \in Seq(X)
         /\ Len(more) = Len(cs) + 1
         /\ DOMAIN more = 1 .. Len(cs) + 1
         /\ \A i \in 1 .. Len(cs) : more[i] = cs[i]
         /\ more[Len(cs) + 1] = c
<1>1. PICK m \in Nat : m = Len(cs)
  OBVIOUS
<1>2. more \in Seq(X) /\ Len(more) = m + 1 /\ DOMAIN more = 1 .. m + 1
  BY <1>1
<1>3. \A i \in 1 .. m : more[i] = cs[i]
  BY <1>1
<1>4. more[m + 1] = c
  BY <1>1
<1> QED
  BY <1>1, <1>2, <1>3, <1>4

\* What one more part has new.
LEMMA NewsAppend ==
  ASSUME NEW X, NEW cs \in Seq(Seq(X)), NEW c \in Seq(X)
  PROVE  /\ News(Append(cs, c)) = News(cs) \o After(cs, c)
         /\ After(cs, c) \in Seq(X)
<1>1. PICK m \in Nat : m = Len(cs) /\ DOMAIN cs = 1 .. m
  OBVIOUS
<1>2. PICK more \in Seq(Seq(X)) : more = Append(cs, c)
  BY AppendElements
<1>3. /\ DOMAIN more = 1 .. m + 1 /\ more[m + 1] = c
      /\ \A i \in 1 .. m : more[i] = cs[i]
  BY <1>1, <1>2, AppendElements
<1>4. PICK a \in Seq(X) : a = After(cs, c)
  <2>1. Without(c, ToSet(cs[Len(cs)])) \in Seq(X)
    BY WithoutTypes
  <2> QED
    BY <2>1 DEF After
<1>5. New(more, m + 1) = a
  <2>1. CASE m = 0
    <3>1. cs = <<>>
      <4>1. Len(cs) = 0
        BY <1>1, <2>1
      <4> QED
        BY <4>1
    <3>2. m + 1 = 1
      BY <2>1
    <3> QED
      BY <1>3, <1>4, <3>1, <3>2 DEF New, After
  <2>2. CASE m # 0
    <3>1. cs # <<>> /\ m + 1 # 1 /\ m + 1 - 1 = m /\ m \in 1 .. m
      BY <1>1, <2>2
    <3>2. PICK k : k = m + 1
      OBVIOUS
    <3>3. k # 1 /\ k - 1 = m
      BY <3>1, <3>2
    <3>4. New(more, k) = Without(c, ToSet(cs[m]))
      BY <1>3, <3>1, <3>2, <3>3 DEF New
    <3> QED
      BY <1>1, <1>4, <3>1, <3>2, <3>4 DEF After
  <2> QED
    BY <2>1, <2>2
<1>6. \A i \in 1 .. m : New(more, i) = New(cs, i)
  <2>1. ASSUME NEW i \in 1 .. m PROVE New(more, i) = New(cs, i)
    <3>1. i # 1 => i - 1 \in 1 .. m
      OBVIOUS
    <3> QED
      BY <1>3, <3>1 DEF New
  <2> QED
    BY <2>1
<1>7. PICK f \in Seq(Seq(X)) : f = [n \in DOMAIN cs |-> New(cs, n)]
  BY NewTypes
<1>8. PICK h \in Seq(Seq(X)) : h = Append(f, a)
  BY AppendElements
<1>9. h = [n \in DOMAIN more |-> New(more, n)]
  <2>1. Len(f) = m
    BY <1>1, <1>7
  <2>2. DOMAIN h = 1 .. m + 1 /\ h[m + 1] = a /\ \A i \in 1 .. m : h[i] = f[i]
    BY <1>8, <2>1, AppendElements
  <2>3. \A i \in 1 .. m : f[i] = New(cs, i)
    BY <1>1, <1>7
  <2>4. \A i \in 1 .. m + 1 : h[i] = New(more, i)
    <3>1. \A i \in 1 .. m + 1 : i \in 1 .. m \/ i = m + 1
      OBVIOUS
    <3> QED
      BY <1>5, <1>6, <2>2, <2>3, <3>1
  <2>5. h = [i \in 1 .. m + 1 |-> h[i]]
    BY <2>2
  <2> QED
    BY <1>3, <2>4, <2>5
<1>10. FlattenSeq(h) = FlattenSeq(f) \o a
  BY <1>8, FlattenAppend
<1> QED
  BY <1>2, <1>4, <1>7, <1>9, <1>10 DEF News

CoversLast(cs, c, ws) ==
    /\ ws = News(cs) \o After(cs, c)
    /\ \A n \in DOMAIN cs : ToSet(cs[n]) \subseteq ToSet(ws)
    /\ ToSet(c) \subseteq ToSet(ws)

\* The last chunk is within what is covered, and so is every other.
LEMMA CoverAppend ==
  ASSUME NEW X, NEW cs \in Seq(Seq(X)), NEW c \in Seq(X), NEW ws \in Seq(X)
  PROVE  Covers(Append(cs, c), ws) <=> CoversLast(cs, c, ws)
<1>1. PICK m \in Nat : m = Len(cs) /\ DOMAIN cs = 1 .. m
  OBVIOUS
<1>2. PICK more \in Seq(Seq(X)) : more = Append(cs, c)
  BY AppendElements
<1>3. /\ DOMAIN more = 1 .. m + 1 /\ more[m + 1] = c
      /\ \A i \in 1 .. m : more[i] = cs[i]
  BY <1>1, <1>2, AppendElements
<1>4. \A i : i \in 1 .. m + 1 <=> i \in 1 .. m \/ i = m + 1
  OBVIOUS
<1>5. News(more) = News(cs) \o After(cs, c)
  BY <1>2, NewsAppend
<1>6. (\A n \in DOMAIN more : ToSet(more[n]) \subseteq ToSet(ws)) <=>
         (\A n \in DOMAIN cs : ToSet(cs[n]) \subseteq ToSet(ws)) /\ ToSet(c) \subseteq ToSet(ws)
  BY <1>1, <1>3, <1>4
<1> QED
  BY <1>2, <1>5, <1>6 DEF Covers, CoversLast

\* A part covers itself.
LEMMA CoverOne ==
  ASSUME NEW X, NEW c \in Seq(X)
  PROVE  Covers(<<c>>, c)
<1>1. PICK none \in Seq(Seq(X)) : none = <<>>
  <2>1. <<>> \in Seq(Seq(X))
    OBVIOUS
  <2> QED
    BY <2>1
<1>2. Append(none, c) = <<c>>
  BY <1>1
<1>3. News(none) = <<>>
  BY <1>1, CoverNone DEF Covers
<1>4. News(none) \o After(none, c) = c
  <2>1. <<>> \o c = c
    OBVIOUS
  <2> QED
    BY <1>1, <1>3, <2>1 DEF After
<1>5. DOMAIN none = {}
  BY <1>1
<1>6. CoversLast(none, c, c)
  BY <1>4, <1>5 DEF CoversLast
<1>7. Covers(Append(none, c), c)
  BY <1>6, CoverAppend
<1> QED
  BY <1>2, <1>7

\* The last chunk grows by words that have not been covered.
LEMMA CoverGrow ==
  ASSUME NEW X, NEW cs \in Seq(Seq(X)), NEW c \in Seq(X), NEW u \in Seq(X), NEW ws \in Seq(X),
         Covers(Append(cs, c), ws), ToSet(u) \cap ToSet(ws) = {}
  PROVE  Covers(Append(cs, c \o u), ws \o u)
<1>1. /\ ws = News(cs) \o After(cs, c)
      /\ \A n \in DOMAIN cs : ToSet(cs[n]) \subseteq ToSet(ws)
      /\ ToSet(c) \subseteq ToSet(ws)
  <2>1. CoversLast(cs, c, ws)
    BY CoverAppend
  <2> QED
    BY <2>1 DEF CoversLast
<1>2. PICK more \in Seq(X), all \in Seq(X) : more = c \o u /\ all = ws \o u
  <2>1. c \o u \in Seq(X) /\ ws \o u \in Seq(X)
    OBVIOUS
  <2> QED
    BY <2>1
<1>3. ToSet(more) = ToSet(c) \cup ToSet(u) /\ ToSet(all) = ToSet(ws) \cup ToSet(u)
  BY <1>2, InConcat
<1>4. After(cs, more) = After(cs, c) \o u
  <2>1. CASE cs = <<>>
    BY <1>2, <2>1 DEF After
  <2>2. CASE cs # <<>>
    <3>1. PICK T : T = ToSet(cs[Len(cs)])
      OBVIOUS
    <3>2. Len(cs) \in DOMAIN cs
      BY <2>2
    <3>3. ToSet(u) \cap T = {}
      BY <1>1, <3>1, <3>2
    <3>4. Joins(more, c, u)
      BY <1>2 DEF Joins
    <3>5. Joins(Without(more, T), Without(c, T), u)
      BY <3>3, <3>4, WithoutGrow
    <3> QED
      BY <2>2, <3>1, <3>5 DEF After, Joins
  <2> QED
    BY <2>1, <2>2
<1>5. PICK p \in Seq(X), q \in Seq(X) : p = News(cs) /\ q = After(cs, c)
  BY NewTypes, NewsAppend
<1>6. (p \o q) \o u = p \o (q \o u)
  OBVIOUS
<1>7. all = News(cs) \o After(cs, more)
  BY <1>1, <1>2, <1>4, <1>5, <1>6
<1>8. CoversLast(cs, more, all)
  BY <1>1, <1>2, <1>3, <1>7 DEF CoversLast
<1> QED
  BY <1>2, <1>8, CoverAppend

\* A chunk that starts with words of the last one and goes on with new ones.
LEMMA CoverNext ==
  ASSUME NEW X, NEW cs \in Seq(Seq(X)), NEW c \in Seq(X), NEW t \in Seq(X), NEW u \in Seq(X),
         NEW ws \in Seq(X), Covers(Append(cs, c), ws),
         ToSet(t) \subseteq ToSet(c), ToSet(u) \cap ToSet(ws) = {}
  PROVE  Covers(Append(Append(cs, c), t \o u), ws \o u)
<1>1. /\ ws = News(cs) \o After(cs, c)
      /\ \A n \in DOMAIN cs : ToSet(cs[n]) \subseteq ToSet(ws)
      /\ ToSet(c) \subseteq ToSet(ws)
  <2>1. CoversLast(cs, c, ws)
    BY CoverAppend
  <2> QED
    BY <2>1 DEF CoversLast
<1>2. PICK next \in Seq(X), all \in Seq(X) : next = t \o u /\ all = ws \o u
  <2>1. t \o u \in Seq(X) /\ ws \o u \in Seq(X)
    OBVIOUS
  <2> QED
    BY <2>1
<1>3. ToSet(next) = ToSet(t) \cup ToSet(u) /\ ToSet(all) = ToSet(ws) \cup ToSet(u)
  BY <1>2, InConcat
<1>4. PICK ds \in Seq(Seq(X)) : ds = Append(cs, c)
  BY AppendElements
<1>5. ds # <<>> /\ Len(ds) \in DOMAIN ds /\ ds[Len(ds)] = c
  <2>1. PICK m \in Nat : m = Len(cs)
    OBVIOUS
  <2>2. Len(ds) = m + 1 /\ DOMAIN ds = 1 .. m + 1 /\ ds[m + 1] = c
    BY <1>4, <2>1, AppendElements
  <2> QED
    BY <2>2
<1>6. After(ds, next) = u
  <2>1. PICK T : T = ToSet(c)
    OBVIOUS
  <2>2. ToSet(u) \cap T = {} /\ ToSet(t) \subseteq T
    BY <1>1, <2>1
  <2>3. Joins(next, t, u)
    BY <1>2 DEF Joins
  <2>4. Joins(Without(next, T), Without(t, T), u)
    BY <2>2, <2>3, WithoutGrow
  <2>5. Without(t, T) = <<>> /\ <<>> \o u = u
    BY <2>2, WithoutAll
  <2>6. Without(next, T) = u
    BY <2>4, <2>5 DEF Joins
  <2> QED
    BY <1>5, <2>1, <2>6 DEF After
<1>7. News(ds) = ws /\ \A n \in DOMAIN ds : ToSet(ds[n]) \subseteq ToSet(ws)
  BY <1>4 DEF Covers
<1>8. all = News(ds) \o After(ds, next)
  BY <1>2, <1>6, <1>7
<1>9. /\ \A n \in DOMAIN ds : ToSet(ds[n]) \subseteq ToSet(all)
      /\ ToSet(next) \subseteq ToSet(all)
  BY <1>1, <1>3, <1>7
<1>10. Covers(Append(ds, next), all)
  <2>1. CoversLast(ds, next, all)
    BY <1>8, <1>9 DEF CoversLast
  <2> QED
    BY <2>1, CoverAppend
<1> QED
  BY <1>2, <1>4, <1>10

-----------------------------------------------------------------------------
(* FoldLeft *)

\* A step of a fold over 1 .. m.
IsStep(step, A, m) == step \in [A \X (1 .. m) -> A]

\* A fold over one more element is one more step.
LEMMA FoldsAppend ==
  ASSUME NEW n \in Nat, NEW m, m = n + 1, NEW A, NEW base \in A, NEW step, IsStep(step, A, m),
         NEW g, FoldsWithin(g, base, step, n, A),
         NEW h, FoldsWithin(h, base, step, m, A)
  PROVE  g[1 .. n] \in A /\ h[1 .. m] = step[<<g[1 .. n], m>>]
<1>a. step \in [A \X (1 .. n + 1) -> A]
  BY DEF IsStep
<1> DEFINE P == {k \in Nat : k <= n => g[1 .. k] \in A /\ h[1 .. k] = g[1 .. k]}
<1>0. ASSUME NEW k \in Nat, k + 1 <= n + 1
      PROVE  /\ 1 .. k + 1 # {} /\ Max(1 .. k + 1) = k + 1
             /\ (1 .. k + 1) \ {k + 1} = 1 .. k /\ 1 .. k + 1 \in SUBSET (1 .. n + 1)
  <2>1. PICK s : s = 1 .. k + 1
    OBVIOUS
  <2>2. s \in SUBSET (1 .. k + 1) /\ s # {} /\ k + 1 \in s /\ k + 1 \in Nat
    <3>1. k + 1 \in 1 .. k + 1 /\ k + 1 \in Nat
      OBVIOUS
    <3>2. s \in SUBSET (1 .. k + 1)
      BY <2>1
    <3> QED
      BY <2>1, <3>1, <3>2
  <2>3. Max(s) \in s /\ k + 1 <= Max(s)
    BY <2>2, MaxIsMost
  <2>4. Max(s) = k + 1
    BY <2>1, <2>3
  <2>5. (1 .. k + 1) \ {k + 1} = 1 .. k
    OBVIOUS
  <2>6. \A i \in 1 .. k + 1 : i \in 1 .. n + 1
    BY <1>0
  <2> QED
    BY <2>1, <2>2, <2>4, <2>5, <2>6
<1>1. 0 \in P
  <2>1. 1 .. 0 = {}
    OBVIOUS
  <2> QED
    BY <2>1 DEF FoldsWithin
<1>2. ASSUME NEW k \in Nat, k \in P PROVE k + 1 \in P
  <2> SUFFICES ASSUME k + 1 <= n PROVE g[1 .. k + 1] \in A /\ h[1 .. k + 1] = g[1 .. k + 1]
    OBVIOUS
  <2>1. PICK s : s = 1 .. k + 1
    OBVIOUS
  <2>2. s # {} /\ Max(s) = k + 1 /\ s \ {k + 1} = 1 .. k /\ s \in SUBSET (1 .. n + 1)
    <3>1. k + 1 <= n + 1
      OBVIOUS
    <3> QED
      BY <1>0, <2>1, <3>1
  <2>3. s \in SUBSET (1 .. n)
    <3>1. \A i \in 1 .. k + 1 : i \in 1 .. n
      OBVIOUS
    <3> QED
      BY <2>1, <3>1
  <2>4. PICK a \in A : a = g[1 .. k] /\ a = h[1 .. k]
    BY <1>2
  <2>4a. PICK j : j = k + 1
    OBVIOUS
  <2>4b. PICK rest : rest = s \ {Max(s)}
    OBVIOUS
  <2>4c. g[rest] = a /\ h[rest] = a /\ Max(s) = j
    BY <2>2, <2>4, <2>4a, <2>4b
  <2>5. g[s] = step[<<a, j>>]
    BY <2>2, <2>3, <2>4b, <2>4c DEF FoldsWithin
  <2>6. h[s] = step[<<a, j>>]
    BY <2>2, <2>4b, <2>4c DEF FoldsWithin
  <2>7. k + 1 \in 1 .. n + 1
    OBVIOUS
  <2>8. step[<<a, k + 1>>] \in A
    BY <1>a, <2>7
  <2> QED
    BY <2>1, <2>4a, <2>5, <2>6, <2>8
<1> HIDE DEF P
<1>3. Nat \subseteq P
  BY <1>1, <1>2, Induction
<1>4. PICK a \in A : a = g[1 .. n] /\ a = h[1 .. n]
  <2>1. n \in P
    BY <1>3
  <2> QED
    BY <2>1 DEF P
<1>5. PICK s : s = 1 .. n + 1
  OBVIOUS
<1>6. s # {} /\ Max(s) = n + 1 /\ s \ {n + 1} = 1 .. n /\ s \in SUBSET (1 .. n + 1)
  BY <1>0, <1>5
<1>7. h[s] = step[<<a, m>>]
  <2>1. PICK rest : rest = s \ {Max(s)}
    OBVIOUS
  <2>2. h[rest] = a /\ Max(s) = m
    BY <1>4, <1>6, <2>1
  <2> QED
    BY <1>6, <2>1, <2>2 DEF FoldsWithin
<1> QED
  BY <1>4, <1>5, <1>7

\* g folds s from base: the result for a set of places comes from the result
\* without the last of them, by step.
FoldsOver(g, base, step, s, A) ==
    /\ g[{}] = base
    /\ \A t \in SUBSET (1 .. Len(s)) : t # {} /\ g[t \ {Max(t)}] \in A =>
           g[t] = step[<<g[t \ {Max(t)}], s[Max(t)]>>]

\* r is what s folds to.
Folded(r, base, step, s, A) == \E g : r = g[1 .. Len(s)] /\ FoldsOver(g, base, step, s, A)

\* A step by elements of X.
ElementStep(step, A, X) == step \in [A \X X -> A]

\* The places of a sequence instead of its elements.
PlaceStep(step, s, A) == [p \in A \X (1 .. Len(s)) |-> step[<<p[1], s[p[2]]>>]]

\* by makes the steps that step makes of the elements of s.
MakesSteps(by, step, s, A) ==
    /\ IsStep(by, A, Len(s))
    /\ \A a \in A, k \in 1 .. Len(s) : by[<<a, k>>] = step[<<a, s[k]>>]

\* So does the step by places.
LEMMA PlaceSteps ==
  ASSUME NEW X, NEW A, NEW step, ElementStep(step, A, X), NEW s \in Seq(X),
         NEW by, by = PlaceStep(step, s, A)
  PROVE  MakesSteps(by, step, s, A)
<1>0. PICK n \in Nat : n = Len(s)
  OBVIOUS
<1>1. \A k \in 1 .. n : s[k] \in X
  BY <1>0
<1>2. \A a \in A, k \in 1 .. n : step[<<a, s[k]>>] \in A
  BY <1>1 DEF ElementStep
<1>3. by = [p \in A \X (1 .. n) |-> step[<<p[1], s[p[2]]>>]]
  BY <1>0 DEF PlaceStep
<1>4. IsStep(by, A, n)
  BY <1>2, <1>3 DEF IsStep
<1>5. \A a \in A, k \in 1 .. n : by[<<a, k>>] = step[<<a, s[k]>>]
  BY <1>3
<1> QED
  BY <1>0, <1>4, <1>5 DEF MakesSteps

\* A fold over a sequence is one over its places, and over those of a longer one.
LEMMA FoldsOverPlaces ==
  ASSUME NEW X, NEW A, NEW base, NEW step, ElementStep(step, A, X),
         NEW long \in Seq(X), NEW s \in Seq(X), Len(s) <= Len(long),
         \A k \in 1 .. Len(s) : long[k] = s[k],
         NEW g, FoldsOver(g, base, step, s, A), NEW n, n = Len(s)
  PROVE  FoldsWithin(g, base, PlaceStep(step, long, A), n, A)
<1>1. PICK by : by = PlaceStep(step, long, A)
  OBVIOUS
<1>2. PICK m \in Nat : m = Len(long)
  OBVIOUS
<1>3. n \in Nat /\ \A k \in 1 .. n : k \in 1 .. m /\ long[k] = s[k]
  BY <1>2
<1>4. \A a \in A, k \in 1 .. m : by[<<a, k>>] = step[<<a, long[k]>>]
  <2>1. MakesSteps(by, step, long, A)
    BY <1>1, PlaceSteps
  <2> QED
    BY <1>2, <2>1 DEF MakesSteps
<1>5. g[{}] = base
  BY DEF FoldsOver
<1>6. ASSUME NEW t \in SUBSET (1 .. n), t # {}, g[t \ {Max(t)}] \in A
      PROVE  g[t] = by[<<g[t \ {Max(t)}], Max(t)>>]
  <2>1. Max(t) \in 1 .. n
    BY <1>3, <1>6, MaxIsMost
  <2>2. g[t] = step[<<g[t \ {Max(t)}], s[Max(t)]>>]
    BY <1>6 DEF FoldsOver
  <2> QED
    BY <1>3, <1>4, <1>6, <2>1, <2>2
<1> QED
  BY <1>1, <1>5, <1>6 DEF FoldsWithin

\* The recursion of FoldLeft.
IsFoldOver(g, base, step, s, A) ==
    /\ g \in [SUBSET (1 .. Len(s)) -> A]
    /\ g = [t \in SUBSET (1 .. Len(s)) |->
              IF t = {} THEN base ELSE step[<<g[t \ {Max(t)}], s[Max(t)]>>]]

\* It exists.
LEMMA FoldOverExists ==
  ASSUME NEW X, NEW A, NEW base \in A, NEW step, ElementStep(step, A, X), NEW s \in Seq(X)
  PROVE  \E g : IsFoldOver(g, base, step, s, A)
<1>1. PICK n \in Nat : n = Len(s)
  OBVIOUS
<1>2. PICK by : by = PlaceStep(step, s, A)
  OBVIOUS
<1>3. /\ IsStep(by, A, n)
      /\ \A a \in A, k \in 1 .. n : by[<<a, k>>] = step[<<a, s[k]>>]
  BY <1>1, <1>2, PlaceSteps DEF MakesSteps
<1>4. by \in [A \X (1 .. n) -> A]
  BY <1>3 DEF IsStep
<1>5. PICK g \in [SUBSET (1 .. n) -> A] : IsFold(g, base, by, SUBSET (1 .. n))
  BY <1>4, FoldExists
<1>6. ASSUME NEW t \in SUBSET (1 .. n), t # {}
      PROVE  by[<<g[t \ {Max(t)}], Max(t)>>] = step[<<g[t \ {Max(t)}], s[Max(t)]>>]
  <2>1. Max(t) \in 1 .. n /\ t \ {Max(t)} \in SUBSET (1 .. n)
    BY <1>6, MaxIsMost
  <2>2. g[t \ {Max(t)}] \in A
    BY <2>1
  <2> QED
    BY <1>3, <2>1, <2>2
<1>7. g = [t \in SUBSET (1 .. n) |->
             IF t = {} THEN base ELSE step[<<g[t \ {Max(t)}], s[Max(t)]>>]]
  BY <1>5, <1>6 DEF IsFold
<1> QED
  BY <1>1, <1>5, <1>7 DEF IsFoldOver

\* The empty sequence folds to the base.
LEMMA FoldedNone ==
  ASSUME NEW base, NEW step, NEW A, NEW r, Folded(r, base, step, <<>>, A)
  PROVE  r = base
<1>1. 1 .. Len(<<>>) = {}
  OBVIOUS
<1> QED
  BY <1>1 DEF Folded, FoldsOver

\* A fold stays in a set that its step does not leave.
LEMMA FoldedStays ==
  ASSUME NEW X, NEW A, NEW base \in A, NEW step, ElementStep(step, A, X),
         NEW s \in Seq(X), NEW r, Folded(r, base, step, s, A)
  PROVE  r \in A
<1>1. PICK n \in Nat : n = Len(s)
  OBVIOUS
<1>2. PICK g : r = g[1 .. n] /\ FoldsOver(g, base, step, s, A)
  BY <1>1 DEF Folded
<1>3. PICK by : by = PlaceStep(step, s, A)
  OBVIOUS
<1>4. FoldsWithin(g, base, by, n, A)
  <2>1. Len(s) <= Len(s) /\ \A k \in 1 .. Len(s) : s[k] = s[k]
    BY <1>1
  <2> QED
    BY <1>1, <1>2, <1>3, <2>1, FoldsOverPlaces
<1>5. by \in [A \X (1 .. n) -> A]
  BY <1>1, <1>3, PlaceSteps DEF MakesSteps, IsStep
<1> QED
  BY <1>2, <1>4, <1>5, FoldKeeps

\* One more element is one more step.
LEMMA FoldedAppend ==
  ASSUME NEW X, NEW A, NEW base \in A, NEW step, ElementStep(step, A, X),
         NEW s \in Seq(X), NEW x \in X,
         NEW r, Folded(r, base, step, s, A),
         NEW q, Folded(q, base, step, Append(s, x), A)
  PROVE  q = step[<<r, x>>]
<1>1. PICK n \in Nat : n = Len(s)
  OBVIOUS
<1>2. PICK long \in Seq(X) : long = Append(s, x)
  BY AppendElements
<1>3. Len(long) = n + 1 /\ (\A k \in 1 .. n : long[k] = s[k]) /\ long[n + 1] = x
  BY <1>1, <1>2, AppendElements
<1>4. PICK m \in Nat : m = n + 1
  OBVIOUS
<1>5. PICK by : by = PlaceStep(step, long, A)
  OBVIOUS
<1>6. IsStep(by, A, m) /\ \A a \in A, k \in 1 .. m : by[<<a, k>>] = step[<<a, long[k]>>]
  BY <1>3, <1>4, <1>5, PlaceSteps DEF MakesSteps
<1>7. PICK g : r = g[1 .. n] /\ FoldsOver(g, base, step, s, A)
  BY <1>1 DEF Folded
<1>8. PICK h : q = h[1 .. m] /\ FoldsOver(h, base, step, long, A)
  BY <1>2, <1>3, <1>4 DEF Folded
<1>9. FoldsWithin(g, base, by, n, A)
  <2>1. Len(s) <= Len(long) /\ \A k \in 1 .. Len(s) : long[k] = s[k]
    BY <1>1, <1>3
  <2> QED
    BY <1>1, <1>5, <1>7, <2>1, FoldsOverPlaces
<1>10. FoldsWithin(h, base, by, m, A)
  <2>1. Len(long) <= Len(long) /\ \A k \in 1 .. Len(long) : long[k] = long[k]
    BY <1>3
  <2> QED
    BY <1>3, <1>4, <1>5, <1>8, <2>1, FoldsOverPlaces
<1>11. g[1 .. n] \in A /\ h[1 .. m] = by[<<g[1 .. n], m>>]
  BY <1>4, <1>6, <1>9, <1>10, FoldsAppend
<1>12. m \in 1 .. m
  BY <1>4
<1> QED
  BY <1>3, <1>4, <1>6, <1>7, <1>8, <1>11, <1>12

=============================================================================
