----------------------------- MODULE Sums_proofs -----------------------------
(***************************************************************************)
(* What a sum over a finite set of naturals is, whatever order its terms   *)
(* are taken in, and what division leaves.  An induction over a set is     *)
(* stated as: a set with the fewest elements for which the claim fails     *)
(* cannot be.                                                              *)
(***************************************************************************)
EXTENDS Sums, FiniteSetTheorems, WellFoundedInduction, TLAPS

\* Division with remainder, and that nothing remains of a multiple.
LEMMA Division ==
  ASSUME NEW n \in Nat, NEW s \in Nat \ {0}
  PROVE  n \div s \in Nat /\ n % s \in 0..(s - 1) /\ n = s * (n \div s) + (n % s)
OBVIOUS

LEMMA Multiple ==
  ASSUME NEW s \in Nat \ {0}, NEW k \in Nat
  PROVE  (s * k) % s = 0
<1>1. PICK d \in Nat, m \in 0..(s - 1) : s * k = s * d + m /\ m = (s * k) % s
  BY Division
<1>2. s * (k - d) = m
  BY <1>1
<1>3. k - d >= 1 => s * (k - d) >= s
  OBVIOUS
<1>4. k - d <= -1 => s * (k - d) <= -s
  OBVIOUS
<1>5. k = d
  BY <1>1, <1>2, <1>3, <1>4
<1> QED
  BY <1>1, <1>5

\* The quotient is the only one.
LEMMA Quotient ==
  ASSUME NEW n \in Nat, NEW s \in Nat \ {0}, NEW q \in Nat, s * q <= n, n < s * q + s
  PROVE  n \div s = q /\ n % s = n - s * q
<1>1. PICK d \in Nat, m \in 0..(s - 1) : n = s * d + m /\ m = n % s /\ d = n \div s
  BY Division
<1>2. s * (q - d) <= m /\ s * (d - q) < s - m
  BY <1>1
<1>3. q - d >= 1 => s * (q - d) >= s
  OBVIOUS
<1>4. d - q >= 1 => s * (d - q) >= s
  OBVIOUS
<1>5. q = d
  BY <1>1, <1>2, <1>3, <1>4
<1> QED
  BY <1>1, <1>5

LEMMA Smallest ==
  ASSUME NEW T \in SUBSET Nat, T # {}
  PROVE  \E i \in T : \A j \in T : i <= j
<1> DEFINE Less == OpToRel(<, Nat)
<1>1. IsWellFoundedOn(Less, Nat)
  BY NatLessThanWellFounded
<1>2. \A i, j \in Nat : ~(<<j, i>> \in Less) => i <= j
  <2> SUFFICES ASSUME NEW i \in Nat, NEW j \in Nat, ~(i <= j) PROVE <<j, i>> \in Less
    OBVIOUS
  <2>1. j < i
    OBVIOUS
  <2> QED
    BY <2>1 DEF OpToRel
<1> HIDE DEF Less
<1>3. \E i \in T : \A j \in T : ~(<<j, i>> \in Less)
  BY <1>1, WFMin
<1> QED
  BY <1>2, <1>3

\* Of finite sets, one with the fewest elements.
LEMMA SmallestSet ==
  ASSUME NEW F, F # {}, \A T \in F : IsFiniteSet(T)
  PROVE  \E T \in F : \A x \in T : \A U \in F : U # T \ {x}
<1> DEFINE sizes == {Cardinality(T) : T \in F}
<1>1. sizes \in SUBSET Nat /\ sizes # {}
  BY FS_CardinalityType
<1>2. PICK n \in sizes : \A m \in sizes : n <= m
  <2> HIDE DEF sizes
  <2> QED
    BY <1>1, Smallest
<1>3. PICK T \in F : Cardinality(T) = n
  BY <1>2
<1>4. ASSUME NEW x \in T, NEW U \in F, U = T \ {x} PROVE FALSE
  <2>1. Cardinality(U) = Cardinality(T) - 1 /\ Cardinality(T) \in Nat
    BY <1>4, <1>3, FS_RemoveElement, FS_CardinalityType
  <2>2. n <= Cardinality(U)
    BY <1>2, <1>4
  <2> QED
    BY <1>3, <2>1, <2>2
<1> QED
  BY <1>3, <1>4

(***************************************************************************)
(* The fold is defined, and takes away an element at a time.               *)
(***************************************************************************)
Nats(f, S) == IsFiniteSet(S) /\ \A x \in S : f[x] \in Nat

Term(s) == CHOOSE x \in s : TRUE
Folds(g, f, S) == g = [s \in SUBSET S |-> IF s = {} THEN 0 ELSE f[Term(s)] + g[s \ {Term(s)}]]

LEMMA SumIsFold ==
  ASSUME NEW f, NEW S
  PROVE  SumOf(f, S) = (CHOOSE g : Folds(g, f, S))[S]
BY DEF SumOf, MapThenSumSet, MapThenFoldSet, Folds, Term

LEMMA FoldExists ==
  ASSUME NEW f, NEW S, IsFiniteSet(S)
  PROVE  \E g : Folds(g, f, S)
<1> DEFINE P(n) == \E g : g = [s \in {t \in SUBSET S : Cardinality(t) <= n} |->
                                 IF s = {} THEN 0 ELSE f[Term(s)] + g[s \ {Term(s)}]]
<1>1. \A s \in SUBSET S : /\ Cardinality(s) \in Nat /\ (s = {} <=> Cardinality(s) = 0)
                          /\ Cardinality(s) <= Cardinality(S) /\ IsFiniteSet(s)
  BY FS_Subset, FS_EmptySet, FS_CardinalityType
<1>2. \A s \in SUBSET S : s # {} => Term(s) \in s /\ s \ {Term(s)} \in SUBSET S
                                    /\ Cardinality(s \ {Term(s)}) = Cardinality(s) - 1
  BY <1>1, FS_RemoveElement DEF Term
<1>3. P(0)
  <2> DEFINE D == {t \in SUBSET S : Cardinality(t) <= 0}
             g == [s \in D |-> 0]
  <2>1. \A s \in D : s = {}
    BY <1>1
  <2>2. g = [s \in D |-> IF s = {} THEN 0 ELSE f[Term(s)] + g[s \ {Term(s)}]]
    BY <2>1
  <2> QED
    BY <2>2
<1>4. ASSUME NEW n \in Nat, P(n) PROVE P(n + 1)
  <2> DEFINE D(m) == {t \in SUBSET S : Cardinality(t) <= m}
  <2>1. PICK g : g = [s \in D(n) |-> IF s = {} THEN 0 ELSE f[Term(s)] + g[s \ {Term(s)}]]
    BY <1>4
  <2> DEFINE h == [s \in D(n + 1) |-> IF s = {} THEN 0 ELSE f[Term(s)] + g[s \ {Term(s)}]]
  <2>2. \A s \in D(n) : s \in D(n + 1) /\ h[s] = g[s]
    <3>1. \A s \in D(n) : s \in D(n + 1)
      BY <1>1
    <3>2. \A s \in D(n) : g[s] = IF s = {} THEN 0 ELSE f[Term(s)] + g[s \ {Term(s)}]
      BY <2>1
    <3> QED
      BY <3>1, <3>2
  <2>3. \A s \in D(n + 1) : s # {} => s \ {Term(s)} \in D(n)
    BY <1>1, <1>2
  <2>4. \A s \in D(n + 1) : h[s] = IF s = {} THEN 0 ELSE f[Term(s)] + h[s \ {Term(s)}]
    BY <2>2, <2>3
  <2>5. h = [s \in D(n + 1) |-> IF s = {} THEN 0 ELSE f[Term(s)] + h[s \ {Term(s)}]]
    BY <2>4
  <2> QED
    BY <2>5
<1>5. P(Cardinality(S))
  <2> DEFINE bad == {n \in Nat : ~P(n)}
  <2>1. SUFFICES ASSUME bad # {} PROVE FALSE
    BY FS_CardinalityType
  <2>2. PICK n \in bad : \A m \in bad : n <= m
    <3> HIDE DEF P
    <3>1. bad \in SUBSET Nat
      OBVIOUS
    <3> HIDE DEF bad
    <3> QED
      BY <2>1, <3>1, Smallest
  <2> HIDE DEF P
  <2>3. n # 0
    BY <1>3
  <2>4. n - 1 \in Nat /\ n - 1 \notin bad
    BY <2>2, <2>3
  <2> QED
    BY <1>4, <2>4
<1>6. {t \in SUBSET S : Cardinality(t) <= Cardinality(S)} = SUBSET S
  BY <1>1
<1> QED
  BY <1>5, <1>6 DEF Folds

\* One fold serves all subsets.
LEMMA OneFold ==
  ASSUME NEW f, NEW S, Nats(f, S)
  PROVE  \E g \in [SUBSET S -> Nat] : Folds(g, f, S) /\ \A T \in SUBSET S : SumOf(f, T) = g[T]
<1>1. PICK g : Folds(g, f, S)
  BY FoldExists DEF Nats
<1>2. \A T \in SUBSET S : IsFiniteSet(T)
  BY FS_Subset DEF Nats
<1>3. \A T \in SUBSET S : T # {} => Term(T) \in T
  BY DEF Term
<1>4. \A T \in SUBSET S : g[T] \in Nat
  <2> DEFINE bad == {T \in SUBSET S : g[T] \notin Nat}
  <2> SUFFICES ASSUME bad # {} PROVE FALSE
    OBVIOUS
  <2>1. PICK T \in bad : \A x \in T : \A U \in bad : U # T \ {x}
    BY <1>2, SmallestSet
  <2>2. T # {} /\ T \in SUBSET S
    BY <1>1, <2>1 DEF Folds
  <2>3. Term(T) \in T /\ g[T \ {Term(T)}] \in Nat /\ f[Term(T)] \in Nat
    BY <1>3, <2>1, <2>2 DEF Nats
  <2>4. g[T] = f[Term(T)] + g[T \ {Term(T)}]
    BY <1>1, <2>2 DEF Folds
  <2> QED
    BY <2>1, <2>3, <2>4
<1>5. ASSUME NEW T \in SUBSET S PROVE SumOf(f, T) = g[T]
  <2> DEFINE h == CHOOSE k : Folds(k, f, T)
  <2>1. Folds(h, f, T)
    BY <1>2, FoldExists
  <2>2. SumOf(f, T) = h[T]
    BY SumIsFold
  <2> HIDE DEF h
  <2> DEFINE bad == {U \in SUBSET T : h[U] # g[U]}
  <2>3. bad = {}
    <3> SUFFICES ASSUME bad # {} PROVE FALSE
      OBVIOUS
    <3>1. PICK U \in bad : \A x \in U : \A V \in bad : V # U \ {x}
      BY <1>2, SmallestSet
    <3>2. U # {} /\ U \in SUBSET T /\ U \in SUBSET S
      BY <1>1, <2>1, <3>1 DEF Folds
    <3>3. Term(U) \in U /\ U \ {Term(U)} \in SUBSET T /\ h[U \ {Term(U)}] = g[U \ {Term(U)}]
      BY <1>3, <3>1, <3>2
    <3>4. h[U] = f[Term(U)] + h[U \ {Term(U)}]
      BY <2>1, <3>2 DEF Folds
    <3>5. g[U] = f[Term(U)] + g[U \ {Term(U)}]
      BY <1>1, <3>2 DEF Folds
    <3> QED
      BY <3>1, <3>3, <3>4, <3>5
  <2> QED
    BY <2>2, <2>3
<1>6. g \in [SUBSET S -> Nat]
  BY <1>1, <1>4 DEF Folds
<1> QED
  BY <1>1, <1>5, <1>6

LEMMA SumEmpty ==
  ASSUME NEW f
  PROVE  SumOf(f, {}) = 0
<1>1. Nats(f, {})
  BY FS_EmptySet DEF Nats
<1>2. PICK g \in [SUBSET {} -> Nat] : Folds(g, f, {}) /\ \A T \in SUBSET {} : SumOf(f, T) = g[T]
  BY <1>1, OneFold
<1>3. g[{}] = 0
  BY <1>2 DEF Folds
<1> QED
  BY <1>2, <1>3

\* Any element may be taken away.
LEMMA SumRemove ==
  ASSUME NEW f, NEW S, Nats(f, S), NEW x \in S
  PROVE  SumOf(f, S) \in Nat /\ SumOf(f, S \ {x}) \in Nat /\ SumOf(f, S) = f[x] + SumOf(f, S \ {x})
<1>1. PICK g \in [SUBSET S -> Nat] : Folds(g, f, S) /\ \A T \in SUBSET S : SumOf(f, T) = g[T]
  BY OneFold
<1> DEFINE bad == {T \in SUBSET S : \E y \in T : g[T] # f[y] + g[T \ {y}]}
<1>2. bad = {}
  <2> SUFFICES ASSUME bad # {} PROVE FALSE
    OBVIOUS
  <2>1. \A T \in bad : IsFiniteSet(T)
    BY FS_Subset DEF Nats
  <2>2. PICK T \in bad : \A y \in T : \A U \in bad : U # T \ {y}
    BY <2>1, SmallestSet
  <2>3. PICK y \in T : g[T] # f[y] + g[T \ {y}]
    BY <2>2
  <2> DEFINE c == Term(T)
             rest == (T \ {c}) \ {y}
  <2>4. c \in T /\ g[T] = f[c] + g[T \ {c}] /\ c # y
    BY <1>1, <2>2, <2>3 DEF Folds, Term
  <2> HIDE DEF c
  <2>5. g[T \ {c}] = f[y] + g[rest]
    BY <2>2, <2>3, <2>4
  <2>6. (T \ {y}) \ {c} = rest /\ c \in T \ {y}
    BY <2>4
  <2>7. g[T \ {y}] = f[c] + g[rest]
    BY <2>2, <2>3, <2>4, <2>6
  <2>8. f[c] \in Nat /\ f[y] \in Nat /\ g[rest] \in Nat
    BY <1>1, <2>2, <2>3, <2>4 DEF Nats
  <2> QED
    BY <2>3, <2>4, <2>5, <2>7, <2>8
<1>3. g[S] = f[x] + g[S \ {x}]
  BY <1>2
<1> QED
  BY <1>1, <1>3

(***************************************************************************)
(* Sums of functions that agree, and of sets that are put together.        *)
(***************************************************************************)
LEMMA NatsSubset ==
  ASSUME NEW f, NEW S, Nats(f, S), NEW T \in SUBSET S
  PROVE  Nats(f, T)
BY FS_Subset DEF Nats

LEMMA SumNat ==
  ASSUME NEW f, NEW S, Nats(f, S)
  PROVE  SumOf(f, S) \in Nat
<1>1. PICK g \in [SUBSET S -> Nat] : Folds(g, f, S) /\ \A T \in SUBSET S : SumOf(f, T) = g[T]
  BY OneFold
<1> QED
  BY <1>1

\* The sum depends on the terms alone.
LEMMA SumSame ==
  ASSUME NEW f, NEW g, NEW S, Nats(f, S), \A x \in S : f[x] = g[x]
  PROVE  SumOf(f, S) = SumOf(g, S)
<1> DEFINE bad == {T \in SUBSET S : SumOf(f, T) # SumOf(g, T)}
<1>1. Nats(g, S)
  BY DEF Nats
<1> SUFFICES ASSUME bad # {} PROVE FALSE
  OBVIOUS
<1>2. \A T \in bad : IsFiniteSet(T)
  BY FS_Subset DEF Nats
<1>3. PICK T \in bad : \A x \in T : \A U \in bad : U # T \ {x}
  BY <1>2, SmallestSet
<1>4. Nats(f, T) /\ Nats(g, T) /\ T # {}
  BY <1>1, <1>3, NatsSubset, SumEmpty
<1>5. PICK x \in T : TRUE
  BY <1>4
<1>6. SumOf(f, T) = f[x] + SumOf(f, T \ {x}) /\ SumOf(g, T) = g[x] + SumOf(g, T \ {x})
  BY <1>4, <1>5, SumRemove
<1>7. SumOf(f, T \ {x}) = SumOf(g, T \ {x})
  BY <1>3, <1>5
<1>8. f[x] = g[x]
  BY <1>3, <1>5
<1> QED
  BY <1>3, <1>6, <1>7, <1>8

LEMMA SumAdd ==
  ASSUME NEW f, NEW S, NEW x, x \notin S, Nats(f, S \cup {x})
  PROVE  SumOf(f, S \cup {x}) = f[x] + SumOf(f, S)
<1>1. (S \cup {x}) \ {x} = S
  OBVIOUS
<1> DEFINE U == S \cup {x}
<1>2. x \in U /\ U \ {x} = S /\ Nats(f, U)
  BY <1>1
<1> HIDE DEF U
<1>3. SumOf(f, U) = f[x] + SumOf(f, U \ {x})
  BY <1>2, SumRemove
<1> QED
  BY <1>2, <1>3 DEF U

\* Two disjoint sets.
LEMMA SumSplit ==
  ASSUME NEW f, NEW A, NEW B, Nats(f, A \cup B), A \cap B = {}
  PROVE  SumOf(f, A \cup B) = SumOf(f, A) + SumOf(f, B)
<1> DEFINE bad == {T \in SUBSET B : SumOf(f, A \cup T) # SumOf(f, A) + SumOf(f, T)}
<1> SUFFICES ASSUME bad # {} PROVE FALSE
  OBVIOUS
<1>1. \A T \in SUBSET B : IsFiniteSet(T) /\ Nats(f, T) /\ Nats(f, A \cup T)
  <2>1. \A T \in SUBSET B : T \in SUBSET (A \cup B) /\ A \cup T \in SUBSET (A \cup B)
    OBVIOUS
  <2> QED
    BY <2>1, NatsSubset DEF Nats
<1>2. Nats(f, A) /\ SumOf(f, A) \in Nat
  <2>1. A \in SUBSET (A \cup B)
    OBVIOUS
  <2> QED
    BY <2>1, NatsSubset, SumNat
<1>3. PICK T \in bad : \A x \in T : \A U \in bad : U # T \ {x}
  <2>1. bad # {} /\ \A T \in bad : IsFiniteSet(T)
    BY <1>1
  <2> HIDE DEF bad
  <2> QED
    BY <2>1, SmallestSet
<1>4. T # {}
  <2>1. A \cup {} = A /\ SumOf(f, {}) = 0
    BY SumEmpty
  <2>2. SumOf(f, A) = SumOf(f, A) + 0
    BY <1>2
  <2>3. {} \notin bad
    BY <2>1, <2>2
  <2> QED
    BY <1>3, <2>3
<1>5. PICK x \in T : TRUE
  BY <1>4
<1> DEFINE U == T \ {x}
<1>6. /\ U \in SUBSET B /\ x \notin U /\ x \notin A \cup U /\ T = U \cup {x} /\ A \cup T = (A \cup U) \cup {x}
      /\ U \notin bad
  BY <1>3, <1>5
<1> HIDE DEF U
<1>7. SumOf(f, T) = f[x] + SumOf(f, U) /\ SumOf(f, A \cup T) = f[x] + SumOf(f, A \cup U)
  <2>1. T \in SUBSET B
    BY <1>3
  <2>2. Nats(f, U \cup {x}) /\ Nats(f, (A \cup U) \cup {x})
    BY <1>1, <1>6, <2>1
  <2> QED
    BY <1>6, <2>2, SumAdd
<1>8. SumOf(f, A \cup U) = SumOf(f, A) + SumOf(f, U)
  BY <1>6
<1>9. SumOf(f, U) \in Nat /\ f[x] \in Nat
  BY <1>1, <1>3, <1>5, <1>6, SumNat DEF Nats
<1> QED
  BY <1>2, <1>3, <1>7, <1>8, <1>9

LEMMA SumZero ==
  ASSUME NEW f, NEW S, IsFiniteSet(S), \A x \in S : f[x] = 0
  PROVE  SumOf(f, S) = 0
<1> DEFINE bad == {T \in SUBSET S : SumOf(f, T) # 0}
<1> SUFFICES ASSUME bad # {} PROVE FALSE
  OBVIOUS
<1>1. Nats(f, S)
  BY DEF Nats
<1>2. \A T \in bad : IsFiniteSet(T)
  BY FS_Subset
<1>3. PICK T \in bad : \A x \in T : \A U \in bad : U # T \ {x}
  BY <1>2, SmallestSet
<1>4. T # {} /\ Nats(f, T)
  BY <1>1, <1>3, NatsSubset, SumEmpty
<1>5. PICK x \in T : TRUE
  BY <1>4
<1>6. SumOf(f, T) = f[x] + SumOf(f, T \ {x})
  BY <1>4, <1>5, SumRemove
<1> QED
  BY <1>3, <1>5, <1>6

\* Sums of sums, term by term.
LEMMA SumPlus ==
  ASSUME NEW f, NEW g, NEW h, NEW S, Nats(f, S), Nats(g, S), \A x \in S : h[x] = f[x] + g[x]
  PROVE  SumOf(h, S) = SumOf(f, S) + SumOf(g, S)
<1> DEFINE bad == {T \in SUBSET S : SumOf(h, T) # SumOf(f, T) + SumOf(g, T)}
<1> SUFFICES ASSUME bad # {} PROVE FALSE
  OBVIOUS
<1>1. Nats(h, S)
  BY DEF Nats
<1>2. \A T \in SUBSET S : IsFiniteSet(T) /\ Nats(f, T) /\ Nats(g, T) /\ Nats(h, T)
  BY <1>1, NatsSubset DEF Nats
<1>3. PICK T \in bad : \A x \in T : \A U \in bad : U # T \ {x}
  BY <1>2, SmallestSet
<1>4. T # {} /\ T \in SUBSET S
  BY <1>3, SumEmpty
<1>5. PICK x \in T : TRUE
  BY <1>4
<1>6. /\ SumOf(f, T) = f[x] + SumOf(f, T \ {x}) /\ SumOf(g, T) = g[x] + SumOf(g, T \ {x})
      /\ SumOf(h, T) = h[x] + SumOf(h, T \ {x})
  BY <1>2, <1>4, <1>5, SumRemove
<1>7. SumOf(h, T \ {x}) = SumOf(f, T \ {x}) + SumOf(g, T \ {x}) /\ h[x] = f[x] + g[x]
  BY <1>3, <1>4, <1>5
<1>8. f[x] \in Nat /\ g[x] \in Nat /\ SumOf(f, T \ {x}) \in Nat /\ SumOf(g, T \ {x}) \in Nat
  BY <1>2, <1>4, <1>5, SumRemove DEF Nats
<1> QED
  BY <1>3, <1>6, <1>7, <1>8

LEMMA SumAtMost ==
  ASSUME NEW f, NEW g, NEW S, Nats(f, S), Nats(g, S), \A x \in S : f[x] <= g[x]
  PROVE  SumOf(f, S) <= SumOf(g, S)
<1> DEFINE rest == [x \in S |-> g[x] - f[x]]
<1>1. Nats(rest, S) /\ \A x \in S : g[x] = f[x] + rest[x]
  BY DEF Nats
<1> HIDE DEF rest
<1>2. SumOf(g, S) = SumOf(f, S) + SumOf(rest, S)
  BY <1>1, SumPlus
<1>3. SumOf(f, S) \in Nat /\ SumOf(rest, S) \in Nat
  BY <1>1, SumNat
<1> QED
  BY <1>2, <1>3

\* One term that is not zero.
LEMMA SumOne ==
  ASSUME NEW f, NEW S, IsFiniteSet(S), NEW a \in S, f[a] \in Nat, \A x \in S \ {a} : f[x] = 0
  PROVE  SumOf(f, S) = f[a]
<1>1. Nats(f, S) /\ IsFiniteSet(S \ {a})
  BY FS_RemoveElement DEF Nats
<1>2. SumOf(f, S) = f[a] + SumOf(f, S \ {a})
  BY <1>1, SumRemove
<1>3. SumOf(f, S \ {a}) = 0
  BY <1>1, SumZero
<1> QED
  BY <1>2, <1>3

\* Only the terms that are not zero count.
LEMMA SumSupport ==
  ASSUME NEW f, NEW S, Nats(f, S), NEW T \in SUBSET S, \A x \in S \ T : f[x] = 0
  PROVE  SumOf(f, S) = SumOf(f, T)
<1>1. S = T \cup (S \ T) /\ T \cap (S \ T) = {} /\ IsFiniteSet(S \ T)
  BY FS_Difference DEF Nats
<1>2. SumOf(f, S) = SumOf(f, T) + SumOf(f, S \ T)
  BY <1>1, SumSplit
<1>3. SumOf(f, S \ T) = 0
  BY <1>1, SumZero
<1>4. SumOf(f, T) \in Nat
  BY NatsSubset, SumNat
<1> QED
  BY <1>2, <1>3, <1>4

\* The terms of R, each put into the element of B that it goes to.
LEMMA SumOfGroups ==
  ASSUME NEW f, NEW R, Nats(f, R), NEW to, NEW B, IsFiniteSet(B)
  PROVE  SumOf([b \in B |-> SumOf(f, {x \in R : to[x] = b})], B) = SumOf(f, {x \in R : to[x] \in B})
<1> DEFINE Group(b) == {x \in R : to[x] = b}
           groups == [b \in B |-> SumOf(f, Group(b))]
           Of(T) == {x \in R : to[x] \in T}
           bad == {T \in SUBSET B : SumOf(groups, T) # SumOf(f, Of(T))}
<1> SUFFICES ASSUME bad # {} PROVE FALSE
  OBVIOUS
<1>1. \A T : Nats(f, Of(T)) /\ SumOf(f, Of(T)) \in Nat
  BY NatsSubset, SumNat
<1>2. \A b : Nats(f, Group(b)) /\ SumOf(f, Group(b)) \in Nat
  BY NatsSubset, SumNat
<1>3. Nats(groups, B)
  BY <1>2 DEF Nats
<1>4. \A T \in SUBSET B : Nats(groups, T) /\ IsFiniteSet(T)
  <2> HIDE DEF groups
  <2> QED
    BY <1>3, NatsSubset DEF Nats
<1>5. PICK T \in bad : \A x \in T : \A U \in bad : U # T \ {x}
  BY <1>4, SmallestSet
<1>6. T # {} /\ T \in SUBSET B
  <2>1. Of({}) = {}
    OBVIOUS
  <2> QED
    BY <1>5, <2>1, SumEmpty
<1>7. PICK b \in T : TRUE
  BY <1>6
<1>8. SumOf(groups, T) = groups[b] + SumOf(groups, T \ {b})
  <2> HIDE DEF groups
  <2> QED
    BY <1>4, <1>6, <1>7, SumRemove
<1>9. SumOf(groups, T \ {b}) = SumOf(f, Of(T \ {b})) /\ groups[b] = SumOf(f, Group(b))
  BY <1>5, <1>6, <1>7
<1>10. Of(T) = Group(b) \cup Of(T \ {b}) /\ Group(b) \cap Of(T \ {b}) = {}
  BY <1>7
<1>11. SumOf(f, Of(T)) = SumOf(f, Group(b)) + SumOf(f, Of(T \ {b}))
  <2> DEFINE one == Group(b)
             others == Of(T \ {b})
             all == Of(T)
  <2>1. Nats(f, all) /\ all = one \cup others /\ one \cap others = {}
    BY <1>1, <1>10
  <2> HIDE DEF one, others, all
  <2>2. SumOf(f, one \cup others) = SumOf(f, one) + SumOf(f, others)
    BY <2>1, SumSplit
  <2>3. SumOf(f, all) = SumOf(f, one) + SumOf(f, others)
    BY <2>1, <2>2
  <2> QED
    BY <2>3 DEF one, others, all
<1> QED
  BY <1>5, <1>8, <1>9, <1>11

(***************************************************************************)
(* The largest of some naturals.                                           *)
(***************************************************************************)
LEMMA LargestOf ==
  ASSUME NEW S \in SUBSET Nat, IsFiniteSet(S), S # {}
  PROVE  Max(S) \in S /\ \A x \in S : x <= Max(S)
<1> DEFINE id == [x \in S |-> x]
           bounds == {n \in Nat : \A x \in S : x <= n}
<1>1. Nats(id, S) /\ \A x \in S : id[x] = x
  BY DEF Nats
<1>2. SumOf(id, S) \in bounds
  <2> HIDE DEF id
  <2>1. SumOf(id, S) \in Nat
    BY <1>1, SumNat
  <2>2. ASSUME NEW x \in S PROVE x <= SumOf(id, S)
    <3>1. SumOf(id, S) = x + SumOf(id, S \ {x}) /\ SumOf(id, S \ {x}) \in Nat
      BY <1>1, SumRemove
    <3> QED
      BY <3>1
  <2> QED
    BY <2>1, <2>2
<1>3. PICK n \in bounds : \A m \in bounds : n <= m
  <2>1. bounds \in SUBSET Nat /\ bounds # {}
    BY <1>2
  <2> HIDE DEF bounds
  <2> QED
    BY <2>1, Smallest
<1>4. n \in S
  <2> SUFFICES ASSUME n \notin S PROVE FALSE
    OBVIOUS
  <2>1. n \in Nat /\ \A x \in S : x < n
    BY <1>3
  <2>2. n - 1 \in Nat
    <3>1. PICK x \in S : x \in Nat /\ x < n
      BY <2>1
    <3> QED
      BY <2>1, <3>1
  <2>3. n - 1 \in bounds
    BY <2>1, <2>2
  <2> QED
    BY <1>3, <2>3
<1>5. \E m \in S : \A x \in S : m >= x
  BY <1>3, <1>4
<1>6. Max(S) \in S /\ \A x \in S : Max(S) >= x
  BY <1>5 DEF Max
<1> QED
  BY <1>6

=============================================================================
