-------------------------- MODULE Assignment_proofs --------------------------
(***************************************************************************)
(* Proofs about what is worked out from detections by weighing them up:    *)
(* that the Hungarian algorithm resolves a batch as well as it can be, and *)
(* that the vote over a track's history is fair, whatever the detections.  *)
(***************************************************************************)
EXTENDS Assignment, Fusion, WellFoundedInduction, FiniteSetTheorems, SequenceTheorems, TLAPS

-----------------------------------------------------------------------------
(* Induction, over sets of numbers and sets of sets. *)

LEMMA NatSets ==
  ASSUME NEW G, 0 \in G, \A n \in Nat : n \in G => n + 1 \in G
  PROVE  \A n \in Nat : n \in G
<1> DEFINE T == Nat \ G
           R == OpToRel(<, Nat)
<1>1. SUFFICES ASSUME T # {} PROVE FALSE
  OBVIOUS
<1>2. IsWellFoundedOn(R, Nat) /\ T \subseteq Nat
  BY NatLessThanWellFounded
<1>3. PICK x \in T : \A y \in T : ~ (<<y, x>> \in R)
  <2> HIDE DEF R, T
  <2>. QED
    BY <1>1, <1>2, WFMin
<1>4. x # 0 /\ x \in Nat /\ x \notin G
  OBVIOUS
<1>5. x - 1 \in Nat /\ <<x - 1, x>> \in R
  BY <1>4 DEF OpToRel
<1>6. x - 1 \in G
  BY <1>3, <1>5
<1>7. x - 1 + 1 \in G
  BY <1>5, <1>6
<1>. QED
  BY <1>4, <1>7

LEMMA FinSets ==
  ASSUME NEW U, NEW G, {} \in G,
         \A S \in SUBSET U : \A x \in U \ S : IsFiniteSet(S) /\ S \in G => S \cup {x} \in G
  PROVE  \A S \in SUBSET U : IsFiniteSet(S) => S \in G
<1> DEFINE H == {n \in Nat : \A S \in SUBSET U : IsFiniteSet(S) /\ Cardinality(S) = n => S \in G}
<1>1. 0 \in H
  BY FS_EmptySet
<1>2. ASSUME NEW n \in Nat, n \in H
      PROVE  n + 1 \in H
  <2>1. ASSUME NEW S \in SUBSET U, IsFiniteSet(S), Cardinality(S) = n + 1
        PROVE  S \in G
    <3>1. PICK x \in S : TRUE
      BY <2>1, FS_EmptySet
    <3>2. IsFiniteSet(S \ {x}) /\ Cardinality(S \ {x}) = Cardinality(S) - 1
      BY <2>1, FS_RemoveElement, Zenon
    <3>3. S \ {x} \in G
      BY <3>2, <1>2, <2>1
    <3>4. (S \ {x}) \cup {x} = S
      OBVIOUS
    <3>. QED
      BY <3>2, <3>3, <3>4
  <2>. QED
    BY <2>1
<1>3. \A n \in Nat : n \in H
  <2> HIDE DEF H
  <2>. QED
    BY <1>1, <1>2, NatSets
<1>. QED
  BY <1>3, FS_CardinalityType

LEMMA HasMin ==
  ASSUME NEW S \in SUBSET Int, IsFiniteSet(S), S # {}
  PROVE  Min(S) \in S /\ \A y \in S : Min(S) <= y
<1> DEFINE G == {T \in SUBSET Int : T # {} => \E x \in T : \A y \in T : x <= y}
<1>1. \A T \in SUBSET Int : \A z \in Int \ T : IsFiniteSet(T) /\ T \in G => T \cup {z} \in G
  <2> SUFFICES ASSUME NEW T \in SUBSET Int, NEW z \in Int, T \in G
               PROVE  \E x \in T \cup {z} : \A y \in T \cup {z} : x <= y
    OBVIOUS
  <2>1. CASE T = {}
    BY <2>1
  <2>2. CASE T # {}
    <3>1. PICK x \in T : \A y \in T : x <= y
      BY <2>2
    <3>. QED
      BY <3>1
  <2>. QED
    BY <2>1, <2>2
<1>2. S \in G
  <2>1. {} \in G
    OBVIOUS
  <2> HIDE DEF G
  <2>. QED
    BY <1>1, <2>1, FinSets
<1>. QED
  BY <1>2 DEF Min

-----------------------------------------------------------------------------
(* Sums. *)

OneOf(T) == CHOOSE x \in T : TRUE

Step(h, S, F) == [T \in SUBSET S |-> IF T = {} THEN 0 ELSE h[OneOf(T)] + F[T \ {OneOf(T)}]]

LEMMA FoldExists ==
  ASSUME NEW S, IsFiniteSet(S), NEW h
  PROVE  \E F : F = Step(h, S, F)
<1> DEFINE Small(n) == {T \in SUBSET S : Cardinality(T) <= n}
           Folds(F, n) == F = [T \in Small(n) |-> IF T = {} THEN 0 ELSE h[OneOf(T)] + F[T \ {OneOf(T)}]]
           H == {n \in Nat : \E F : Folds(F, n)}
<1>1. \A T \in SUBSET S : IsFiniteSet(T) /\ Cardinality(T) \in Nat /\ (Cardinality(T) = 0 <=> T = {})
  BY FS_Subset, FS_CardinalityType, FS_EmptySet
<1>2. \A T \in SUBSET S : T # {} => OneOf(T) \in T /\ Cardinality(T \ {OneOf(T)}) = Cardinality(T) - 1
  BY <1>1, FS_RemoveElement DEF OneOf
<1>3. 0 \in H
  <2>1. Folds([T \in Small(0) |-> 0], 0)
    BY <1>1
  <2>. QED
    BY <2>1
<1>4. ASSUME NEW n \in Nat, n \in H
      PROVE  n + 1 \in H
  <2>1. PICK F : Folds(F, n)
    BY <1>4
  <2> DEFINE E == [T \in Small(n + 1) |-> IF T = {} THEN 0 ELSE h[OneOf(T)] + F[T \ {OneOf(T)}]]
  <2>2. ASSUME NEW T \in Small(n)
        PROVE  E[T] = F[T]
    <3>1. T \in Small(n + 1)
      BY <1>1
    <3>2. F[T] = IF T = {} THEN 0 ELSE h[OneOf(T)] + F[T \ {OneOf(T)}]
      BY <2>1, Zenon
    <3> HIDE DEF Small
    <3>. QED
      BY <3>1, <3>2
  <2>3. ASSUME NEW T \in Small(n + 1), T # {}
        PROVE  T \ {OneOf(T)} \in Small(n)
    BY <1>1, <1>2, <2>3
  <2>4. Folds(E, n + 1)
    BY <2>2, <2>3
  <2> HIDE DEF E, Folds
  <2>5. \E e : Folds(e, n + 1)
    BY <2>4
  <2>. QED
    BY <2>5
<1>5. Cardinality(S) \in H
  <2>1. Cardinality(S) \in Nat
    BY <1>1
  <2> HIDE DEF H
  <2>. QED
    BY <1>3, <1>4, <2>1, NatSets
<1>6. Small(Cardinality(S)) = SUBSET S
  BY FS_Subset
<1>7. PICK F : Folds(F, Cardinality(S))
  BY <1>5
<1>8. F = Step(h, S, F)
  BY <1>6, <1>7 DEF Step
<1>. QED
  BY <1>8

Sum(h, S) == SumFunctionOnSet(h, S)

Summable(h, S) == IsFiniteSet(S) /\ \A x \in S : h[x] \in Int

Partial(F, h, S) ==
  /\ F \in [SUBSET S -> Int]
  /\ F[{}] = 0
  /\ \A T \in SUBSET S : \A x \in T : F[T] = h[x] + F[T \ {x}]

\* A sum is that of any element and of the rest.
LEMMA SumByParts ==
  ASSUME NEW S, NEW h, Summable(h, S)
  PROVE  \E F : Partial(F, h, S) /\ F[S] = Sum(h, S)
<1>. USE DEF Summable
<1> DEFINE F == CHOOSE E : E = Step(h, S, E)
<1>1. Sum(h, S) = F[S]
  BY DEF Sum, SumFunctionOnSet, FoldFunctionOnSet, MapThenFoldSet, OneOf, Step
<1>2. F = [T \in SUBSET S |-> IF T = {} THEN 0 ELSE h[OneOf(T)] + F[T \ {OneOf(T)}]]
  <2>1. F = Step(h, S, F)
    BY FoldExists, Zenon
  <2>. QED
    BY <2>1 DEF Step
<1> HIDE DEF F
<1>3. \A T \in SUBSET S : IsFiniteSet(T)
  BY FS_Subset
<1> DEFINE G == {T \in SUBSET S : F[T] \in Int /\ \A x \in T : F[T] = h[x] + F[T \ {x}] /\ F[T \ {x}] \in Int}
<1> DEFINE H == {n \in Nat : \A T \in SUBSET S : Cardinality(T) = n => T \in G}
<1>4. 0 \in H
  BY <1>2, <1>3, FS_EmptySet
<1>5. ASSUME NEW n \in Nat, n \in H
      PROVE  n + 1 \in H
  <2>1. SUFFICES ASSUME NEW T \in SUBSET S, Cardinality(T) = n + 1
                 PROVE  T \in G
    OBVIOUS
  <2>2. ASSUME NEW x \in T
        PROVE  T \ {x} \in G
    <3>1. IsFiniteSet(T \ {x}) /\ Cardinality(T \ {x}) = Cardinality(T) - 1
      BY <1>3, FS_RemoveElement, Zenon
    <3>2. Cardinality(T \ {x}) = n
      BY <2>1, <3>1
    <3> HIDE DEF G
    <3>. QED
      BY <1>5, <3>2
  <2>3. T # {}
    BY <2>1, FS_EmptySet
  <2> DEFINE y == OneOf(T)
  <2>4. y \in T
    BY <2>3 DEF OneOf
  <2>5. F[T] = h[y] + F[T \ {y}]
    BY <1>2, <2>3
  <2>6. F[T] \in Int
    <3>1. h[y] \in Int /\ F[T \ {y}] \in Int
      BY <2>2, <2>4
    <3>. QED
      BY <2>5, <3>1
  <2> HIDE DEF y
  <2>7. ASSUME NEW x \in T, x # y
        PROVE  F[T] = h[x] + F[T \ {x}]
    <3>1. x \in T \ {y} /\ y \in T \ {x} /\ (T \ {x}) \ {y} = (T \ {y}) \ {x}
      BY <2>4, <2>7
    <3>2. F[T \ {y}] = h[x] + F[(T \ {y}) \ {x}] /\ F[(T \ {y}) \ {x}] \in Int
      BY <2>2, <2>4, <3>1
    <3>3. F[T \ {x}] = h[y] + F[(T \ {y}) \ {x}]
      BY <2>2, <3>1
    <3>4. h[x] \in Int /\ h[y] \in Int
      BY <2>4
    <3>. QED
      BY <2>5, <3>2, <3>3, <3>4
  <2>. QED
    BY <2>2, <2>5, <2>6, <2>7
<1>6. \A n \in Nat : n \in H
  <2> HIDE DEF H
  <2>. QED
    BY <1>4, <1>5, NatSets
<1>7. \A T \in SUBSET S : T \in G
  BY <1>3, <1>6, FS_CardinalityType
<1>8. F \in [SUBSET S -> Int]
  BY <1>2, <1>7
<1>9. F[{}] = 0
  BY <1>2
<1>10. Partial(F, h, S)
  BY <1>7, <1>8, <1>9 DEF Partial
<1>. QED
  BY <1>1, <1>10

LEMMA SumStep ==
  ASSUME NEW S, NEW h, Summable(h, S)
  PROVE  Sum(h, S) \in Int /\ \A x \in S : Sum(h, S) = h[x] + Sum(h, S \ {x})
<1>1. PICK F : Partial(F, h, S) /\ F[S] = Sum(h, S)
  BY SumByParts
<1>2. ASSUME NEW x \in S
      PROVE  Sum(h, S) = h[x] + Sum(h, S \ {x})
  <2> DEFINE R == S \ {x}
  <2>1. Summable(h, R)
    BY FS_RemoveElement DEF Summable
  <2> HIDE DEF R
  <2>2. PICK E : Partial(E, h, R) /\ E[R] = Sum(h, R)
    BY <2>1, SumByParts
  <2> DEFINE G == {T \in SUBSET R : E[T] = F[T]}
  <2>3. {} \in G
    BY <1>1, <2>2 DEF Partial
  <2>4. ASSUME NEW T \in SUBSET R, NEW y \in R \ T, T \in G
        PROVE  T \cup {y} \in G
    <3>1. (T \cup {y}) \ {y} = T /\ T \cup {y} \in SUBSET R /\ T \cup {y} \in SUBSET S /\ y \in T \cup {y}
      BY DEF R
    <3>2. E[T \cup {y}] = h[y] + E[(T \cup {y}) \ {y}]
      BY <2>2, <3>1, Zenon DEF Partial
    <3>3. F[T \cup {y}] = h[y] + F[(T \cup {y}) \ {y}]
      BY <1>1, <3>1, Zenon DEF Partial
    <3>. QED
      BY <2>4, <3>1, <3>2, <3>3
  <2>5. R \in G
    <3>1. IsFiniteSet(R)
      BY <2>1 DEF Summable
    <3> HIDE DEF G
    <3>. QED
      BY <2>3, <2>4, <3>1, FinSets
  <2>6. F[S] = h[x] + F[R]
    BY <1>1 DEF Partial, R
  <2>. QED
    BY <1>1, <2>2, <2>5, <2>6 DEF R
<1>. QED
  BY <1>1, <1>2 DEF Partial

LEMMA SumOfNone ==
  ASSUME NEW h PROVE Sum(h, {}) = 0
<1>1. Summable(h, {})
  BY FS_EmptySet DEF Summable
<1>2. PICK F : Partial(F, h, {}) /\ F[{}] = Sum(h, {})
  BY <1>1, SumByParts
<1>. QED
  BY <1>2 DEF Partial

LEMMA SumAdds ==
  ASSUME NEW S, NEW h, Summable(h, S), NEW x, x \notin S, h[x] \in Int
  PROVE  /\ Sum(h, S) \in Int /\ Summable(h, S \cup {x})
         /\ Sum(h, S \cup {x}) = h[x] + Sum(h, S)
<1> DEFINE T == S \cup {x}
<1>1. Summable(h, T) /\ T \ {x} = S /\ x \in T
  BY FS_AddElement DEF Summable
<1> HIDE DEF T
<1>2. Sum(h, T) = h[x] + Sum(h, T \ {x})
  BY <1>1, SumStep
<1>. QED
  BY <1>1, <1>2, SumStep DEF T

\* Of what a sum is made of, every part has one.
LEMMA SummableParts ==
  ASSUME NEW S, NEW h, Summable(h, S), NEW T \in SUBSET S
  PROVE  Summable(h, T)
BY FS_Subset DEF Summable

\* Nowhere more, not more in all.
LEMMA SumMonotone ==
  ASSUME NEW S, NEW a, NEW b, Summable(a, S), Summable(b, S), \A x \in S : a[x] <= b[x]
  PROVE  Sum(a, S) <= Sum(b, S)
<1> DEFINE G == {T \in SUBSET S : Sum(a, T) <= Sum(b, T)}
<1>1. {} \in G
  BY SumOfNone
<1>2. ASSUME NEW T \in SUBSET S, NEW x \in S \ T, T \in G
      PROVE  T \cup {x} \in G
  <2>1. Summable(a, T) /\ Summable(b, T) /\ a[x] \in Int /\ b[x] \in Int /\ a[x] <= b[x]
    BY SummableParts DEF Summable
  <2>2. Sum(a, T \cup {x}) = a[x] + Sum(a, T) /\ Sum(a, T) \in Int
    BY <2>1, SumAdds
  <2>3. Sum(b, T \cup {x}) = b[x] + Sum(b, T) /\ Sum(b, T) \in Int
    BY <2>1, SumAdds
  <2>. QED
    BY <1>2, <2>1, <2>2, <2>3
<1>3. S \in G
  <2>1. IsFiniteSet(S)
    BY DEF Summable
  <2> HIDE DEF G
  <2>. QED
    BY <1>1, <1>2, <2>1, FinSets
<1>. QED
  BY <1>3

LEMMA SumPlus ==
  ASSUME NEW S, NEW a, NEW b, NEW c, Summable(a, S), Summable(b, S), \A x \in S : c[x] = a[x] + b[x]
  PROVE  Sum(c, S) = Sum(a, S) + Sum(b, S)
<1> DEFINE G == {T \in SUBSET S : Sum(c, T) = Sum(a, T) + Sum(b, T)}
<1>1. {} \in G
  BY SumOfNone
<1>2. ASSUME NEW T \in SUBSET S, NEW x \in S \ T, T \in G
      PROVE  T \cup {x} \in G
  <2>1. Summable(a, T) /\ Summable(b, T) /\ a[x] \in Int /\ b[x] \in Int /\ c[x] = a[x] + b[x]
    BY SummableParts DEF Summable
  <2>2. Sum(a, T \cup {x}) = a[x] + Sum(a, T) /\ Sum(a, T) \in Int
    BY <2>1, SumAdds
  <2>3. Sum(b, T \cup {x}) = b[x] + Sum(b, T) /\ Sum(b, T) \in Int
    BY <2>1, SumAdds
  <2>4. Summable(c, T) /\ c[x] \in Int
    BY <2>1 DEF Summable
  <2>5. Sum(c, T \cup {x}) = c[x] + Sum(c, T) /\ Sum(c, T) \in Int
    BY <2>4, SumAdds
  <2>. QED
    BY <1>2, <2>1, <2>2, <2>3, <2>5
<1>3. S \in G
  <2>1. IsFiniteSet(S)
    BY DEF Summable
  <2> HIDE DEF G
  <2>. QED
    BY <1>1, <1>2, <2>1, FinSets
<1>. QED
  BY <1>3

\* What is added where nothing is positive, or negative, takes no more, or no
\* less.
LEMMA SumExtends ==
  ASSUME NEW B, NEW v, Summable(v, B), NEW A \in SUBSET B
  PROVE  /\ (\A x \in B \ A : v[x] <= 0) => Sum(v, B) <= Sum(v, A)
         /\ (\A x \in B \ A : v[x] >= 0) => Sum(v, B) >= Sum(v, A)
<1> DEFINE D == B \ A
           G == {T \in SUBSET D :
                   /\ (\A x \in B \ A : v[x] <= 0) => Sum(v, A \cup T) <= Sum(v, A)
                   /\ (\A x \in B \ A : v[x] >= 0) => Sum(v, A \cup T) >= Sum(v, A)}
<1>1. Sum(v, A) \in Int
  BY SummableParts, SumStep
<1>2. {} \in G
  <2>1. A \cup {} = A
    OBVIOUS
  <2>. QED
    BY <1>1, <2>1
<1>3. ASSUME NEW T \in SUBSET D, NEW x \in D \ T, T \in G
      PROVE  T \cup {x} \in G
  <2>1. Summable(v, A \cup T) /\ x \notin A \cup T /\ v[x] \in Int /\ x \in B \ A
    <3>1. A \cup T \in SUBSET B
      OBVIOUS
    <3>. QED
      BY <3>1, SummableParts DEF Summable
  <2>2. Sum(v, (A \cup T) \cup {x}) = v[x] + Sum(v, A \cup T) /\ Sum(v, A \cup T) \in Int
    BY <2>1, SumAdds
  <2>3. A \cup (T \cup {x}) = (A \cup T) \cup {x}
    OBVIOUS
  <2>4. Sum(v, A \cup (T \cup {x})) = v[x] + Sum(v, A \cup T)
    BY <2>2, <2>3
  <2>5. /\ (\A y \in B \ A : v[y] <= 0) => Sum(v, A \cup (T \cup {x})) <= Sum(v, A)
        /\ (\A y \in B \ A : v[y] >= 0) => Sum(v, A \cup (T \cup {x})) >= Sum(v, A)
    BY <1>1, <1>3, <2>1, <2>2, <2>4
  <2>. QED
    BY <1>3, <2>5
<1>4. D \in G
  <2>1. IsFiniteSet(D)
    BY FS_Subset DEF Summable
  <2> HIDE DEF G, D
  <2>. QED
    BY <1>2, <1>3, <2>1, FinSets
<1>5. A \cup D = B
  OBVIOUS
<1>. QED
  BY <1>4, <1>5

\* Each element in a place of its own.
Moves(g, S, B, R) ==
  /\ g \in [S -> B] /\ \A x, y \in S : g[x] = g[y] => x = y
  /\ R = {g[x] : x \in S}

LEMMA SumMoves ==
  ASSUME NEW S, IsFiniteSet(S), NEW B, NEW v, \A y \in B : v[y] \in Int,
         NEW g, NEW R, Moves(g, S, B, R), NEW w, \A x \in S : w[x] = v[g[x]]
  PROVE  Sum(w, S) = Sum(v, R)
<1>. USE DEF Moves
<1> DEFINE Image(T) == {g[x] : x \in T}
           G == {T \in SUBSET S : Summable(v, Image(T)) /\ Summable(w, T) /\ Sum(w, T) = Sum(v, Image(T))}
<1>1. {} \in G
  <2>1. Image({}) = {}
    OBVIOUS
  <2>. QED
    BY <2>1, SumOfNone, FS_EmptySet DEF Summable
<1>2. ASSUME NEW T \in SUBSET S, NEW x \in S \ T, T \in G
      PROVE  T \cup {x} \in G
  <2>1. Image(T \cup {x}) = Image(T) \cup {g[x]} /\ g[x] \notin Image(T) /\ v[g[x]] \in Int
    OBVIOUS
  <2>2. w[x] = v[g[x]]
    OBVIOUS
  <2>3. Summable(v, Image(T)) /\ Summable(w, T) /\ Sum(w, T) = Sum(v, Image(T))
    BY <1>2
  <2> HIDE DEF Image
  <2>4. /\ Sum(v, Image(T) \cup {g[x]}) = v[g[x]] + Sum(v, Image(T))
        /\ Summable(v, Image(T) \cup {g[x]})
    BY <2>1, <2>3, SumAdds
  <2>5. /\ Sum(w, T \cup {x}) = w[x] + Sum(w, T)
        /\ Summable(w, T \cup {x})
    BY <2>1, <2>2, <2>3, SumAdds
  <2>. QED
    BY <1>2, <2>1, <2>2, <2>3, <2>4, <2>5
<1>3. S \in G
  <2> HIDE DEF G
  <2>. QED
    BY <1>1, <1>2, FinSets
<1>4. Image(S) = R
  OBVIOUS
<1>. QED
  BY <1>3, <1>4

-----------------------------------------------------------------------------
(* The inductive invariant. *)

Columns == Column \cup {0}

\* What it costs to give the row the column, over what both have been charged.
Slack(i, j) == Cost(i, j) - potential[i] - price[j]

\* The rows before the one being assigned have a column each, of their own.
PartlyAssigned ==
  /\ row[0] = IF solving <= Plots THEN solving ELSE 0
  /\ \A j \in Column : row[j] < solving
  /\ \A j, k \in Columns : row[j] = row[k] /\ row[j] # 0 => j = k
  /\ \A i \in 1 .. solving - 1 : \E j \in Column : row[j] = i

\* No row is charged more than its column costs, none less than the one it has;
\* a column costs nothing until it is given.
Charged ==
  /\ \A i \in Plot, j \in Column : Slack(i, j) >= 0
  /\ \A j \in Column : /\ price[j] <= 0
                       /\ row[j] = 0 => price[j] = 0
                       /\ row[j] # 0 => Slack(row[j], j) = 0
  /\ \A i \in Plot : i > solving \/ (i = solving /\ used = {}) => potential[i] = 0

\* The columns that are marked form a tree: along way, over edges without
\* slack, each leads to one marked before it, and so to the sentinel.
Ranked ==
  \E rank \in [Columns -> Nat] :
    \A k \in used : /\ rank[k] < Cardinality(used)
                    /\ k # 0 => rank[way[k]] < rank[k]

Searched ==
  /\ column \notin used
  /\ used = {} => column = 0 /\ minv = All(INF)
  /\ \A k \in used : row[k] # 0
  /\ \A j \in used \ {0} : way[j] \in used /\ Slack(row[way[j]], j) = 0
  /\ Ranked

\* A column that is not marked knows the marked one it is nearest to.
Reached ==
  used # {} =>
    /\ 0 \in used /\ minv[column] = 0
    /\ \A j \in Column \ used :
         /\ way[j] \in used /\ minv[j] = Slack(row[way[j]], j)
         /\ \A k \in used : minv[j] <= Slack(row[k], j)

AssignmentInv == AssignmentTypeOK /\ PartlyAssigned /\ Charged /\ Searched /\ Reached

-----------------------------------------------------------------------------
(* Bounds. *)

LEMMA CostsBounded ==
  /\ Gate <= Far /\ 3 * Far <= INF /\ Far > 0
  /\ AssignmentTypeOK => \A i \in Plot, j \in Column : Cost(i, j) \in 0..Far
<1>1. Gate <= Far /\ Far > 0
  <2>1. (Plots + 1) * Gate = Plots * Gate + Gate /\ Plots * Gate >= 0
    BY AssignmentAssumption
  <2>. QED
    BY <2>1, AssignmentAssumption
<1>2. 3 * Far <= INF
  <2>1. (Plots + 2) * Far = 3 * Far + (Plots - 1) * Far /\ (Plots - 1) * Far >= 0
    BY AssignmentAssumption
  <2>. QED
    BY <2>1, AssignmentAssumption DEF INF
<1>3. ASSUME AssignmentTypeOK, NEW i \in Plot, NEW j \in Column
      PROVE  Cost(i, j) \in 0..Far
  BY <1>1, <1>3, AssignmentAssumption DEF Cost, AssignmentTypeOK, Column
<1>. QED
  BY <1>1, <1>2, <1>3

LEMMA ColumnsFinite ==
  /\ IsFiniteSet(Column) /\ IsFiniteSet(Columns) /\ IsFiniteSet(Plot)
  /\ Cardinality(Column) = Tracks + Plots /\ Column \subseteq Nat \ {0}
  /\ Columns = 0 .. Tracks + Plots
<1>1. Tracks + Plots \in Nat /\ 1 \in Int /\ Plots \in Nat
  BY AssignmentAssumption
<1>2. IsFiniteSet(Column) /\ Cardinality(Column) = Tracks + Plots
  BY <1>1, FS_Interval, AssignmentAssumption DEF Column
<1>3. IsFiniteSet(Plot)
  BY <1>1, FS_Interval DEF Plot
<1>4. IsFiniteSet(Columns)
  BY <1>2, FS_AddElement DEF Columns
<1>. QED
  BY <1>1, <1>2, <1>3, <1>4 DEF Column, Columns

\* While a row is being assigned, some column is free: there are more columns
\* than rows before it.
LEMMA FreeColumn ==
  ASSUME AssignmentInv, solving <= Plots
  PROVE  \E j \in Column : row[j] = 0
<1> SUFFICES ASSUME \A j \in Column : row[j] # 0 PROVE FALSE
  OBVIOUS
<1> DEFINE f == [j \in Column |-> row[j]]
           T == 1 .. solving - 1
<1>1. f \in [Column -> T]
  BY DEF AssignmentInv, AssignmentTypeOK, PartlyAssigned
<1>2. IsFiniteSet(T) /\ Cardinality(T) < Cardinality(Column)
  <2>1. solving \in Int /\ solving >= 1
    BY DEF AssignmentInv, AssignmentTypeOK
  <2>2. IsFiniteSet(T) /\ Cardinality(T) = IF 1 > solving - 1 THEN 0 ELSE solving - 1 - 1 + 1
    BY <2>1, FS_Interval
  <2>. QED
    BY <2>1, <2>2, ColumnsFinite, AssignmentAssumption
<1>3. \E x, y \in Column : x # y /\ f[x] = f[y]
  <2>1. IsFiniteSet(Column)
    BY ColumnsFinite
  <2> HIDE DEF f, T
  <2>. QED
    BY <1>1, <1>2, <2>1, FS_PigeonHole, Zenon
<1>. QED
  BY <1>3 DEF AssignmentInv, PartlyAssigned, Columns

\* So no row is charged more than the highest cost, nor less is any column.
LEMMA ChargesBounded ==
  ASSUME AssignmentInv, solving <= Plots
  PROVE  /\ \A i \in Plot : potential[i] <= Far
         /\ \A j \in Column : price[j] >= -Far
<1> USE DEF AssignmentInv, AssignmentTypeOK, Charged, Slack
<1>1. PICK free \in Column : row[free] = 0
  BY FreeColumn
<1>2. ASSUME NEW i \in Plot PROVE potential[i] <= Far
  <2>1. Cost(i, free) \in 0..Far /\ Slack(i, free) >= 0 /\ price[free] = 0
    BY <1>1, CostsBounded
  <2>2. potential[i] \in Int
    BY AssignmentAssumption DEF Plot
  <2>. QED
    BY <2>1, <2>2, AssignmentAssumption
<1>3. ASSUME NEW j \in Column PROVE price[j] >= -Far
  <2>1. CASE row[j] = 0
    BY <2>1, CostsBounded, AssignmentAssumption
  <2>2. CASE row[j] # 0
    <3>1. row[j] \in Plot /\ price[j] \in Int
      BY <2>2 DEF Plot
    <3>2. Cost(row[j], j) \in 0..Far /\ potential[row[j]] <= Far /\ Slack(row[j], j) = 0
      BY <1>2, <2>2, <3>1, CostsBounded
    <3>. QED
      BY <3>1, <3>2, AssignmentAssumption DEF Plot
  <2>. QED
    BY <2>1, <2>2
<1>. QED
  BY <1>2, <1>3

-----------------------------------------------------------------------------
(* A turn of the search. *)

Seen == used \cup {column}

SeenRows == {row[j] : j \in Seen}

LEMMA SeenFacts ==
  ASSUME AssignmentInv, solving <= Plots, row[column] # 0
  PROVE  /\ Seen \subseteq Columns /\ 0 \in Seen /\ IsFiniteSet(Seen)
         /\ \A k \in Seen : row[k] # 0 /\ row[k] \in Plot
         /\ Cardinality(Seen) = Cardinality(used) + 1 /\ Cardinality(used) \in Nat
         /\ \E j \in Column : j \notin Seen
         /\ \A i \in 0..Plots : Raised(i, Seen) = IF i \in SeenRows THEN 1 ELSE 0
<1> USE DEF AssignmentInv, AssignmentTypeOK, Searched, Reached, Seen
<1>1. Seen \subseteq Columns /\ 0 \in Seen
  BY DEF Columns
<1>2. IsFiniteSet(used) /\ IsFiniteSet(Seen)
  BY <1>1, ColumnsFinite, FS_Subset DEF Columns
<1>3. Cardinality(Seen) = Cardinality(used) + 1 /\ Cardinality(used) \in Nat
  BY <1>2, FS_AddElement, FS_CardinalityType
<1>4. \A k \in Seen : row[k] # 0 /\ row[k] \in Plot
  BY <1>1, AssignmentAssumption DEF Plot, Columns
<1>5. \E j \in Column : j \notin Seen
  BY <1>4, FreeColumn
<1>6. ASSUME NEW i \in 0..Plots
      PROVE  Raised(i, Seen) = IF i \in SeenRows THEN 1 ELSE 0
  <2> DEFINE R == {j \in Seen : row[j] = i}
  <2>1. CASE i \in SeenRows
    <3>1. PICK j \in Seen : row[j] = i
      BY <2>1 DEF SeenRows
    <3>2. R = {j}
      BY <1>1, <1>4, <3>1 DEF PartlyAssigned, Columns
    <3>. QED
      BY <2>1, <3>2, FS_Singleton DEF Raised
  <2>2. CASE i \notin SeenRows
    <3>1. R = {}
      BY <2>2 DEF SeenRows
    <3>. QED
      BY <2>2, <3>1, FS_EmptySet DEF Raised
  <2>. QED
    BY <2>1, <2>2
<1>. QED
  BY <1>1, <1>2, <1>3, <1>4, <1>5, <1>6

\* The column reached is the nearest to what is seen, at a distance of delta,
\* and all that is seen is shifted by it.
Nearest(near, delta) ==
  /\ near \in [Columns -> Int] /\ delta \in Nat
  /\ \A j \in Column \ Seen :
       /\ way'[j] \in Seen /\ near[j] = Slack(row[way'[j]], j)
       /\ \A k \in Seen : near[j] <= Slack(row[k], j)
       /\ delta <= near[j]
  /\ column' \in Column \ Seen /\ near[column'] = delta

Shifted(near, delta) ==
  /\ used' = Seen
  /\ way' \in [Columns -> Columns] /\ \A j \in Seen : way'[j] = way[j]
  /\ potential' = [i \in 0..Plots |-> IF i \in SeenRows THEN potential[i] + delta ELSE potential[i]]
  /\ price' = [j \in Columns |-> IF j \in Seen THEN price[j] - delta ELSE price[j]]
  /\ minv' = [j \in Columns |-> IF j \in Seen THEN minv[j] ELSE near[j] - delta]
  /\ UNCHANGED <<distance, row, solving>>

LEMMA ReachShifts ==
  ASSUME AssignmentInv, Reach
  PROVE  \E near, delta : Nearest(near, delta) /\ Shifted(near, delta)
<1> DEFINE cur(j) == Cost(row[column], j) - potential[row[column]] - price[j]
           closer == {j \in Column \ Seen : cur(j) < minv[j]}
           near == [j \in Columns |-> IF j \in closer THEN cur(j) ELSE minv[j]]
           Dists == {near[j] : j \in Column \ Seen}
           delta == Min(Dists)
           Ties == {j \in Column \ Seen : near[j] = delta}
<1>1. solving <= Plots /\ row[column] # 0
  BY DEF Reach
<1>2. /\ used' = Seen
      /\ way' = [j \in Columns |-> IF j \in closer THEN column ELSE way[j]]
      /\ potential' = [i \in 0..Plots |-> potential[i] + delta * Raised(i, Seen)]
      /\ price' = [j \in Columns |-> IF j \in Seen THEN price[j] - delta ELSE price[j]]
      /\ minv' = [j \in Columns |-> IF j \in Seen THEN minv[j] ELSE near[j] - delta]
      /\ column' = Min(Ties)
      /\ UNCHANGED <<distance, row, solving>>
  BY DEF Reach, Seen, Columns
<1> USE DEF AssignmentInv, AssignmentTypeOK
<1>3. \A k \in Seen : row[k] \in Plot /\ row[k] \in 0..Plots
  BY <1>1, SeenFacts DEF Plot
<1>4. \A j \in Column : \A k \in Seen : Slack(row[k], j) \in Nat
  <2> SUFFICES ASSUME NEW j \in Column, NEW k \in Seen PROVE Slack(row[k], j) \in Nat
    OBVIOUS
  <2>1. Slack(row[k], j) >= 0
    BY <1>3 DEF Charged
  <2>2. Cost(row[k], j) \in Int /\ potential[row[k]] \in Int /\ price[j] \in Int
    BY <1>3, CostsBounded
  <2>. QED
    BY <2>1, <2>2 DEF Slack
<1>5. \A j \in Column : cur(j) = Slack(row[column], j)
  BY DEF Slack
<1>6. column \in Seen
  BY DEF Seen
<1>7. ASSUME NEW j \in Column \ Seen
      PROVE  /\ way'[j] \in Seen /\ near[j] = Slack(row[way'[j]], j)
             /\ \A k \in Seen : near[j] <= Slack(row[k], j)
  <2>1. j \in Columns /\ minv[j] \in Int
    BY DEF Columns
  <2>2. CASE used = {}
    <3>1. Seen = {column} /\ column = 0 /\ minv[j] = INF
      BY <2>1, <2>2 DEF Searched, Seen, All, Columns
    <3>2. cur(j) < minv[j]
      <4>1. row[column] = solving /\ potential[solving] = 0 /\ solving \in Plot
        BY <1>1, <2>2, <3>1 DEF PartlyAssigned, Charged, Plot
      <4>2. price[j] >= -Far /\ Cost(row[column], j) \in 0..Far /\ price[j] \in Int
        BY <1>1, <4>1, ChargesBounded, CostsBounded
      <4>3. INF \in Int /\ Far \in Nat
        BY AssignmentAssumption DEF INF
      <4>. QED
        BY <3>1, <4>1, <4>2, <4>3, CostsBounded
    <3>3. near[j] = cur(j) /\ way'[j] = column
      BY <1>2, <2>1, <3>2
    <3>. QED
      BY <1>4, <1>5, <1>6, <3>1, <3>3
  <2>3. CASE used # {}
    <3>1. /\ way[j] \in used /\ minv[j] = Slack(row[way[j]], j)
          /\ \A k \in used : minv[j] <= Slack(row[k], j)
      BY <2>3 DEF Reached, Seen
    <3>2. CASE cur(j) < minv[j]
      <4>1. near[j] = cur(j) /\ way'[j] = column
        BY <1>2, <2>1, <3>2
      <4>2. way'[j] \in Seen /\ near[j] = Slack(row[way'[j]], j)
        BY <1>5, <1>6, <4>1
      <4>3. \A k \in Seen : Slack(row[k], j) \in Int
        BY <1>4
      <4>4. ASSUME NEW k \in Seen PROVE near[j] <= Slack(row[k], j)
        <5>1. CASE k = column
          BY <1>5, <4>1, <4>3, <5>1
        <5>2. CASE k \in used
          <6>1. minv[j] <= Slack(row[k], j) /\ Slack(row[k], j) \in Int /\ cur(j) \in Int
            BY <1>5, <1>6, <3>1, <4>3, <5>2
          <6> HIDE DEF cur, near, closer
          <6>. QED
            BY <2>1, <3>2, <4>1, <6>1
        <5>. QED
          BY <5>1, <5>2 DEF Seen
      <4> HIDE DEF cur, near, closer
      <4>. QED
        BY <4>2, <4>4
    <3>3. CASE ~(cur(j) < minv[j])
      <4>1. near[j] = minv[j] /\ way'[j] = way[j] /\ way[j] \in Seen
        BY <1>2, <2>1, <3>1, <3>3 DEF Seen
      <4>2. \A k \in Seen : k = column \/ k \in used
        BY DEF Seen
      <4>. QED
        BY <1>4, <1>5, <1>6, <2>1, <3>1, <3>3, <4>1, <4>2
    <3>. QED
      BY <3>2, <3>3
  <2>. QED
    BY <2>2, <2>3
<1>8. near \in [Columns -> Int]
  <2>1. \A j \in Columns : minv[j] \in Int
    BY DEF Columns
  <2>2. \A j \in closer : cur(j) \in Int
    BY <1>4, <1>5, <1>6
  <2>. QED
    BY <2>1, <2>2
<1> HIDE DEF near, closer, cur
<1>9. Dists \in SUBSET Int /\ IsFiniteSet(Dists) /\ Dists # {}
  <2> DEFINE S == Column \ Seen
             f == [j \in S |-> near[j]]
  <2>1. IsFiniteSet(S)
    BY ColumnsFinite, FS_Difference
  <2>2. f \in Surjection(S, Dists)
    BY DEF Surjection
  <2>3. IsFiniteSet(Dists)
    <3> HIDE DEF f, S, Dists
    <3>. QED
      BY <2>1, <2>2, FS_Surjection
  <2>4. Dists # {}
    <3>1. PICK j \in Column : j \notin Seen
      BY <1>1, SeenFacts
    <3>2. near[j] \in Dists
      BY <3>1
    <3>. QED
      BY <3>2
  <2>. QED
    BY <1>8, <2>3, <2>4 DEF Columns
<1>10. delta \in Dists /\ \A d \in Dists : delta <= d
  <2> HIDE DEF Dists
  <2>. QED
    BY <1>9, HasMin
<1>11. delta \in Nat /\ \A j \in Column \ Seen : delta <= near[j]
  <2>1. PICK j \in Column \ Seen : delta = near[j]
    BY <1>10
  <2>2. near[j] \in Nat
    <3>1. way'[j] \in Seen /\ near[j] = Slack(row[way'[j]], j)
      BY <1>7
    <3>2. Slack(row[way'[j]], j) \in Nat
      BY <1>4, <3>1
    <3>. QED
      BY <3>1, <3>2
  <2>3. ASSUME NEW k \in Column \ Seen PROVE delta <= near[k]
    <3>1. near[k] \in Dists
      OBVIOUS
    <3> HIDE DEF Dists, delta
    <3>. QED
      BY <1>10, <3>1
  <2> HIDE DEF Dists, delta
  <2>. QED
    BY <2>1, <2>2, <2>3
<1>12. column' \in Column \ Seen /\ near[column'] = delta
  <2>1. Ties # {} /\ Ties \in SUBSET Int /\ IsFiniteSet(Ties)
    <3>1. Ties # {}
      BY <1>10
    <3>2. Ties \in SUBSET Column
      OBVIOUS
    <3>3. IsFiniteSet(Ties)
      <4> HIDE DEF Ties
      <4>. QED
        BY <3>2, ColumnsFinite, FS_Subset
    <3>4. Column \subseteq Int
      BY ColumnsFinite
    <3> HIDE DEF Ties
    <3>. QED
      BY <3>1, <3>2, <3>3, <3>4
  <2>2. column' \in Ties
    <3> HIDE DEF Ties
    <3>. QED
      BY <1>2, <2>1, HasMin
  <2>. QED
    BY <2>2
<1> HIDE DEF delta
<1>13. Nearest(near, delta)
  BY <1>7, <1>8, <1>11, <1>12 DEF Nearest
<1>14. Shifted(near, delta)
  <2>1. way' \in [Columns -> Columns] /\ \A j \in Seen : way'[j] = way[j]
    <3>1. Seen \subseteq Columns /\ \A j \in closer : j \notin Seen
      BY <1>1, SeenFacts DEF closer
    <3>. QED
      BY <1>2, <3>1 DEF Columns
  <2>2. potential' = [i \in 0..Plots |-> IF i \in SeenRows THEN potential[i] + delta ELSE potential[i]]
    <3>1. \A i \in 0..Plots : potential[i] \in Int /\ Raised(i, Seen) = IF i \in SeenRows THEN 1 ELSE 0
      BY <1>1, SeenFacts
    <3>2. \A i \in 0..Plots : potential[i] + delta * Raised(i, Seen) =
                              IF i \in SeenRows THEN potential[i] + delta ELSE potential[i]
      BY <1>11, <3>1
    <3>. QED
      BY <1>2, <3>2
  <2>. QED
    BY <1>2, <2>1, <2>2 DEF Shifted
<1>. QED
  BY <1>13, <1>14

LEMMA SlackShifts ==
  ASSUME AssignmentInv, solving <= Plots, row[column] # 0, NEW near, NEW delta,
         Nearest(near, delta), Shifted(near, delta), NEW i \in Plot, NEW j \in Column
  PROVE  /\ Slack(i, j) \in Nat
         /\ i \in SeenRows /\ j \in Seen => Slack(i, j)' = Slack(i, j)
         /\ i \in SeenRows /\ j \notin Seen => Slack(i, j)' = Slack(i, j) - delta
         /\ i \notin SeenRows /\ j \in Seen => Slack(i, j)' = Slack(i, j) + delta
         /\ i \notin SeenRows /\ j \notin Seen => Slack(i, j)' = Slack(i, j)
<1> USE DEF AssignmentInv, AssignmentTypeOK
<1>1. Cost(i, j) \in Int /\ potential[i] \in Int /\ price[j] \in Int /\ Slack(i, j) >= 0
  <2>1. Cost(i, j) \in Int
    BY CostsBounded
  <2>2. i \in 0..Plots /\ j \in Columns
    BY AssignmentAssumption DEF Plot, Columns
  <2>3. potential[i] \in Int /\ price[j] \in Int
    BY <2>2 DEF Columns
  <2>. QED
    BY <2>1, <2>3 DEF Charged
<1>2. Cost(i, j)' = Cost(i, j)
  BY DEF Shifted, Cost
<1>3. /\ potential'[i] = IF i \in SeenRows THEN potential[i] + delta ELSE potential[i]
      /\ price'[j] = IF j \in Seen THEN price[j] - delta ELSE price[j]
  BY DEF Shifted, Plot, Columns
<1>4. delta \in Int
  BY DEF Nearest
<1>5. Slack(i, j)' = Cost(i, j) - potential'[i] - price'[j]
  BY <1>2 DEF Slack
<1> HIDE DEF AssignmentInv, AssignmentTypeOK
<1>. QED
  BY <1>1, <1>3, <1>4, <1>5 DEF Slack

LEMMA ReachCharges ==
  ASSUME AssignmentInv, solving <= Plots, row[column] # 0, NEW near, NEW delta,
         Nearest(near, delta), Shifted(near, delta)
  PROVE  Charged'
<1> USE DEF AssignmentInv, AssignmentTypeOK
<1>1. row' = row /\ solving' = solving /\ used' = Seen /\ delta \in Nat
  BY DEF Shifted, Nearest
<1>2. ASSUME NEW i \in Plot, NEW j \in Column
      PROVE  Slack(i, j)' >= 0
  <2>1. CASE i \in SeenRows /\ j \notin Seen
    <3>1. PICK k \in Seen : i = row[k]
      BY <2>1 DEF SeenRows
    <3>2. near[j] <= Slack(i, j) /\ delta <= near[j] /\ near[j] \in Int
      BY <2>1, <3>1 DEF Nearest, Columns
    <3>3. Slack(i, j) \in Nat /\ Slack(i, j)' = Slack(i, j) - delta
      BY <2>1, SlackShifts, Zenon
    <3>. QED
      BY <1>1, <3>2, <3>3
  <2>2. CASE ~(i \in SeenRows /\ j \notin Seen)
    <3>1. Slack(i, j) \in Nat /\ (Slack(i, j)' = Slack(i, j) \/ Slack(i, j)' = Slack(i, j) + delta)
      BY <2>2, SlackShifts, Zenon
    <3>. QED
      BY <1>1, <3>1
  <2>. QED
    BY <2>1, <2>2
<1>3. ASSUME NEW j \in Column
      PROVE  /\ price'[j] <= 0
             /\ row[j] = 0 => price'[j] = 0
             /\ row[j] # 0 => Slack(row[j], j)' = 0
  <2>1. price[j] <= 0 /\ price[j] \in Int /\ price'[j] = IF j \in Seen THEN price[j] - delta ELSE price[j]
    BY DEF Charged, Shifted, Columns
  <2>2. row[j] = 0 => price[j] = 0 /\ j \notin Seen
    BY SeenFacts DEF Charged
  <2>3. ASSUME row[j] # 0
        PROVE  Slack(row[j], j)' = 0
    <3>1. row[j] \in Plot /\ Slack(row[j], j) = 0
      BY <2>3 DEF Charged, Plot
    <3>2. row[j] \in SeenRows <=> j \in Seen
      BY <2>3, SeenFacts DEF SeenRows, PartlyAssigned, Columns
    <3>3. \A i \in Plot : i = row[j] => Slack(i, j)' = Slack(i, j)
      BY <3>2, SlackShifts, Zenon
    <3>4. PICK i \in Plot : i = row[j]
      BY <3>1
    <3>5. row'[j] = i
      BY <1>1, <3>4
    <3>6. Slack(i, j)' = 0
      BY <3>1, <3>3, <3>4
    <3>7. Slack(row[j], j)' = Slack(i, j)'
      BY <3>5 DEF Slack, Cost
    <3>. QED
      BY <3>6, <3>7
  <2>. QED
    BY <1>1, <2>1, <2>2, <2>3
<1>4. ASSUME NEW i \in Plot, i > solving
      PROVE  potential'[i] = 0
  <2>1. i \notin SeenRows
    <3>1. \A j \in Columns : row[j] <= solving /\ row[j] \in Int
      BY DEF PartlyAssigned, Columns
    <3>2. Seen \subseteq Columns /\ solving \in Int /\ i \in Int
      BY SeenFacts DEF Plot
    <3>. QED
      BY <1>4, <3>1, <3>2 DEF SeenRows
  <2>2. potential'[i] = potential[i] /\ potential[i] = 0
    BY <1>4, <2>1 DEF Shifted, Plot, Charged
  <2>. QED
    BY <2>2
<1>5. Seen # {}
  BY SeenFacts
<1>. QED
  BY <1>1, <1>2, <1>3, <1>4, <1>5 DEF Charged

LEMMA ReachSearches ==
  ASSUME AssignmentInv, solving <= Plots, row[column] # 0, NEW near, NEW delta,
         Nearest(near, delta), Shifted(near, delta)
  PROVE  Searched'
<1> USE DEF AssignmentInv, AssignmentTypeOK
<1>1. row' = row /\ used' = Seen /\ used' # {} /\ column' \notin used'
  BY SeenFacts DEF Shifted, Nearest
<1>2. \A k \in used' : row'[k] # 0
  BY <1>1, SeenFacts
<1>3. ASSUME NEW j \in Seen \ {0}
      PROVE  way[j] \in used /\ way'[j] = way[j] /\ Slack(row[way[j]], j) = 0
  <2>1. CASE j \in used
    BY <2>1 DEF Searched, Shifted
  <2>2. CASE j = column
    <3>1. used # {} /\ column \in Column \ used
      BY <1>3, <2>2 DEF Searched
    <3>. QED
      BY <2>2, <3>1 DEF Reached, Shifted
  <2>. QED
    BY <2>1, <2>2 DEF Seen
<1>4. ASSUME NEW j \in Seen \ {0}
      PROVE  way'[j] \in Seen /\ Slack(row[way[j]], j)' = 0
  <2>1. way'[j] \in Seen /\ way'[j] = way[j] /\ j \in Column
    BY <1>3, SeenFacts DEF Seen, Columns
  <2>2. PICK i \in Plot : i = row[way[j]] /\ i \in SeenRows
    <3>1. way[j] \in Seen
      BY <1>3 DEF Seen
    <3>2. row[way[j]] \in Plot /\ row[way[j]] \in SeenRows
      BY <3>1, SeenFacts DEF SeenRows
    <3>. QED
      BY <3>2
  <2>3. Slack(i, j)' = Slack(i, j)
    BY <2>1, <2>2, SlackShifts, Zenon
  <2>4. row'[way'[j]] = i
    BY <1>1, <2>1, <2>2
  <2>5. Slack(row[way[j]], j)' = Slack(i, j)'
    BY <2>4 DEF Slack, Cost
  <2>. QED
    BY <1>3, <2>1, <2>2, <2>3, <2>5
<1>5. Ranked'
  <2>1. PICK rank \in [Columns -> Nat] :
          \A k \in used : /\ rank[k] < Cardinality(used)
                          /\ k # 0 => rank[way[k]] < rank[k]
    BY DEF Searched, Ranked
  <2> DEFINE next == [rank EXCEPT ![column] = Cardinality(used)]
  <2>2. Cardinality(used) \in Nat /\ Cardinality(Seen) = Cardinality(used) + 1
    BY SeenFacts
  <2>3. next \in [Columns -> Nat]
    BY <2>1, <2>2
  <2>4. ASSUME NEW k \in Seen
        PROVE  next[k] < Cardinality(Seen) /\ (k # 0 => next[way'[k]] < next[k])
    <3>1. \A j \in used : next[j] = rank[j] /\ rank[j] \in Nat /\ rank[j] < Cardinality(used)
      BY <2>1 DEF Searched, Columns
    <3>2. k # 0 => way[k] \in used /\ way'[k] = way[k] /\ next[way'[k]] = rank[way[k]]
      BY <1>3, <3>1
    <3>3. CASE k = column
      <4>1. next[k] = Cardinality(used)
        BY <2>1, <3>3 DEF Columns
      <4> HIDE DEF next
      <4>2. k # 0 => rank[way[k]] \in Nat /\ rank[way[k]] < Cardinality(used)
        BY <3>1, <3>2
      <4>. QED
        BY <2>2, <3>2, <4>1, <4>2
    <3>4. CASE k \in used
      <4>1. next[k] = rank[k] /\ rank[k] \in Nat /\ rank[k] < Cardinality(used)
        BY <3>1, <3>4
      <4>2. k # 0 => rank[way[k]] < rank[k]
        BY <2>1, <3>4
      <4> HIDE DEF next
      <4>. QED
        BY <2>2, <3>2, <4>1, <4>2
    <3>. QED
      BY <3>3, <3>4 DEF Seen
  <2> HIDE DEF next
  <2>. QED
    BY <1>1, <2>3, <2>4 DEF Ranked
<1>. QED
  BY <1>1, <1>2, <1>4, <1>5 DEF Searched

LEMMA ReachReaches ==
  ASSUME AssignmentInv, solving <= Plots, row[column] # 0, NEW near, NEW delta,
         Nearest(near, delta), Shifted(near, delta)
  PROVE  Reached'
<1>1. row' = row /\ used' = Seen /\ 0 \in used' /\ delta \in Nat
  BY SeenFacts DEF Shifted, Nearest
<1>2. \A j \in Column \ Seen : minv'[j] = near[j] - delta /\ near[j] \in Int
  BY DEF Shifted, Nearest, Columns
<1>3. minv'[column'] = 0
  BY <1>1, <1>2 DEF Nearest
<1>4. ASSUME NEW j \in Column \ Seen, NEW k \in Seen
      PROVE  /\ Slack(row[k], j) \in Nat
             /\ Slack(row[k], j)' = Slack(row[k], j) - delta
  <2>1. PICK i \in Plot : i = row[k] /\ i \in SeenRows
    BY SeenFacts DEF SeenRows
  <2>2. Slack(i, j) \in Nat /\ Slack(i, j)' = Slack(i, j) - delta
    BY <2>1, SlackShifts, Zenon
  <2>3. row'[k] = i
    BY <1>1, <2>1
  <2>4. Slack(row[k], j)' = Slack(i, j)'
    BY <2>3 DEF Slack, Cost
  <2>. QED
    BY <2>1, <2>2, <2>3, <2>4
<1>5. ASSUME NEW j \in Column \ Seen
      PROVE  /\ way'[j] \in Seen /\ minv'[j] = Slack(row[way[j]], j)'
             /\ \A k \in Seen : minv'[j] <= Slack(row[k], j)'
  <2>1. way'[j] \in Seen /\ near[j] = Slack(row[way'[j]], j)
    BY DEF Nearest
  <2>2. ASSUME NEW k \in Seen PROVE minv'[j] <= Slack(row[k], j)'
    <3>1. near[j] <= Slack(row[k], j)
      BY DEF Nearest
    <3>2. Slack(row[k], j) \in Nat /\ Slack(row[k], j)' = Slack(row[k], j) - delta
      BY <1>4
    <3>. QED
      BY <1>1, <1>2, <3>1, <3>2
  <2>3. Slack(row[way[j]], j)' = Slack(row[way'[j]], j) - delta
    <3>1. PICK k \in Seen : k = way'[j]
      BY <2>1
    <3>2. Slack(row[k], j)' = Slack(row[k], j) - delta
      BY <1>4
    <3>3. Slack(row[way[j]], j)' = Slack(row[k], j)'
      BY <3>1 DEF Slack, Cost
    <3>. QED
      BY <3>1, <3>2, <3>3
  <2>. QED
    BY <1>2, <2>1, <2>2, <2>3
<1>. QED
  BY <1>1, <1>3, <1>5 DEF Reached

LEMMA ReachKeeps ==
  ASSUME AssignmentInv, Reach
  PROVE  AssignmentInv'
<1>1. PICK near, delta : Nearest(near, delta) /\ Shifted(near, delta)
  BY ReachShifts
<1>2. solving <= Plots /\ row[column] # 0
  BY DEF Reach
<1>3. AssignmentTypeOK'
  <2> USE DEF AssignmentInv, AssignmentTypeOK, Shifted, Nearest, Columns
  <2>1. distance' = distance /\ row' = row /\ solving' = solving /\ way' \in [Columns -> Columns]
    BY <1>1
  <2>2. potential' \in [0..Plots -> Int]
    BY <1>1
  <2>3. price' \in [Columns -> Int]
    BY <1>1
  <2>4. minv' \in [Columns -> Int]
    BY <1>1
  <2>5. used' \subseteq Columns /\ column' \in Columns
    BY <1>1, <1>2, SeenFacts
  <2>. QED
    BY <2>1, <2>2, <2>3, <2>4, <2>5
<1>4. PartlyAssigned'
  BY <1>1 DEF AssignmentInv, PartlyAssigned, Shifted
<1>5. Charged' /\ Searched' /\ Reached'
  BY <1>1, <1>2, ReachCharges, ReachSearches, ReachReaches
<1>. QED
  BY <1>3, <1>4, <1>5 DEF AssignmentInv

-----------------------------------------------------------------------------
(* The rows move back along the path. *)

BackOf(f, n) == f = [k \in 0..n |-> IF k = 0 THEN column ELSE way[f[k - 1]]]

LEMMA BackUnfolds ==
  Back = [n \in 0 .. Tracks + Plots |-> IF n = 0 THEN column ELSE way[Back[n - 1]]]
<1> DEFINE H == {n \in Nat : \E f : BackOf(f, n)}
<1>1. 0 \in H
  <2>1. BackOf([k \in 0..0 |-> column], 0)
    BY DEF BackOf
  <2>. QED
    BY <2>1
<1>2. ASSUME NEW n \in Nat, n \in H
      PROVE  n + 1 \in H
  <2>1. PICK f : BackOf(f, n)
    BY <1>2
  <2> DEFINE e == [k \in 0 .. n + 1 |-> IF k = 0 THEN column ELSE way[f[k - 1]]]
  <2>2. ASSUME NEW k \in 0..n PROVE e[k] = f[k]
    <3>1. f[k] = IF k = 0 THEN column ELSE way[f[k - 1]]
      BY <2>1, Zenon DEF BackOf
    <3>2. k \in 0 .. n + 1
      OBVIOUS
    <3>. QED
      BY <3>1, <3>2
  <2>3. ASSUME NEW k \in 0 .. n + 1
        PROVE  e[k] = IF k = 0 THEN column ELSE way[e[k - 1]]
    <3>1. k # 0 => k - 1 \in 0..n
      OBVIOUS
    <3>2. k # 0 => e[k - 1] = f[k - 1]
      BY <2>2, <3>1
    <3>. QED
      BY <3>2
  <2>4. BackOf(e, n + 1)
    <3>1. e = [k \in 0 .. n + 1 |-> e[k]]
      OBVIOUS
    <3> HIDE DEF e
    <3>. QED
      BY <2>3, <3>1 DEF BackOf
  <2>5. \E g : BackOf(g, n + 1)
    BY <2>4
  <2>. QED
    BY <2>5
<1>3. Tracks + Plots \in H
  <2>1. Tracks + Plots \in Nat
    BY AssignmentAssumption
  <2> HIDE DEF H
  <2>. QED
    BY <1>1, <1>2, <2>1, NatSets
<1>4. PICK f : BackOf(f, Tracks + Plots)
  BY <1>3
<1>5. Back = CHOOSE g : g = [n \in 0 .. Tracks + Plots |-> IF n = 0 THEN column ELSE way[g[n - 1]]]
  BY DEF Back
<1>. QED
  BY <1>4, <1>5 DEF BackOf

\* The path leads along way from the free column to the sentinel, over marked
\* columns and edges without slack, and meets no column twice.
PathFound ==
  /\ column \in Path /\ column \in Column /\ Path \subseteq Column
  /\ \A j \in Path : /\ j = column \/ j \in used
                     /\ way[j] \in used /\ (way[j] = 0 \/ way[j] \in Path \ {column})
                     /\ row[way[j]] # 0 /\ Slack(row[way[j]], j) = 0
  /\ \A k \in (Path \ {column}) \cup {0} : \E j \in Path : way[j] = k
  /\ \A j, k \in Path : way[j] = way[k] => j = k

LEMMA PathIsFound ==
  ASSUME AssignmentInv, Augment
  PROVE  PathFound
<1> DEFINE N == Tracks + Plots
           Z == {n \in 0..N : Back[n] = 0}
           m == Min(Z)
<1> USE DEF AssignmentInv, AssignmentTypeOK
<1>1. /\ column \in Column /\ column \notin used /\ used # {} /\ used \subseteq Columns /\ 0 \in used
      /\ solving <= Plots /\ row[column] = 0
  <2>1. solving <= Plots /\ row[column] = 0
    BY DEF Augment
  <2>2. column # 0
    BY <2>1 DEF PartlyAssigned
  <2>. QED
    BY <2>1, <2>2 DEF Searched, Reached, Columns
<1>2. ASSUME NEW j \in used \cup {column}, j # 0
      PROVE  way[j] \in used /\ Slack(row[way[j]], j) = 0 /\ row[way[j]] # 0
  BY <1>1, <1>2 DEF Searched, Reached
<1>3. N \in Nat /\ N >= 1
  BY AssignmentAssumption
<1>4. /\ Back[0] = column
      /\ \A n \in 0 .. N - 1 : Back[n + 1] = way[Back[n]]
  <2>1. 0 \in 0..N /\ \A n \in 0 .. N - 1 : n + 1 \in 0..N /\ n + 1 # 0 /\ n + 1 - 1 = n
    BY <1>3
  <2> HIDE DEF N
  <2>2. Back = [n \in 0..N |-> IF n = 0 THEN column ELSE way[Back[n - 1]]]
    BY BackUnfolds DEF N
  <2>3. \A n \in 0..N : Back[n] = IF n = 0 THEN column ELSE way[Back[n - 1]]
    BY <2>2, Zenon
  <2>. QED
    BY <2>1, <2>3
<1>5. PICK rank \in [Columns -> Nat] :
        \A k \in used : /\ rank[k] < Cardinality(used)
                        /\ k # 0 => rank[way[k]] < rank[k]
  BY DEF Searched, Ranked
<1>6. Cardinality(used) \in Nat /\ Cardinality(used) <= N
  <2>1. IsFiniteSet(used)
    BY <1>1, ColumnsFinite, FS_Subset
  <2>2. Cardinality(used \cup {column}) = Cardinality(used) + 1 /\ Cardinality(used) \in Nat
    BY <1>1, <2>1, FS_AddElement, FS_CardinalityType
  <2>3. used \cup {column} \in SUBSET Columns
    BY <1>1 DEF Columns
  <2>4. Cardinality(Columns) = N + 1
    BY ColumnsFinite, <1>3, FS_Interval
  <2>5. Cardinality(used \cup {column}) <= Cardinality(Columns)
    BY <2>3, ColumnsFinite, FS_Subset
  <2>. QED
    BY <1>3, <2>2, <2>4, <2>5
<1> HIDE DEF N, AssignmentInv, AssignmentTypeOK
\* As long as the sentinel is not met, every step leads to a lower rank.
<1> DEFINE Onward(n) == n \in 1..N /\ (\A k \in 0 .. n - 1 : Back[k] # 0) =>
                          Back[n] \in used /\ rank[Back[n]] + n <= Cardinality(used)
           H == {n \in Nat : Onward(n)}
<1>7. \A n \in 1..N : Onward(n)
  <2>1. 0 \in H
    OBVIOUS
  <2>2. ASSUME NEW n \in Nat, n \in H
        PROVE  n + 1 \in H
    <3>1. SUFFICES ASSUME n + 1 \in 1..N, \A k \in 0 .. n : Back[k] # 0
                   PROVE  Back[n + 1] \in used /\ rank[Back[n + 1]] + (n + 1) <= Cardinality(used)
      <4>1. n + 1 - 1 = n
        OBVIOUS
      <4>. QED
        BY <4>1
    <3>2. Back[n + 1] = way[Back[n]] /\ Back[n] # 0
      BY <1>3, <1>4, <3>1
    <3>3. CASE n = 0
      <4>1. Back[n + 1] \in used
        BY <1>1, <1>2, <1>4, <3>2, <3>3
      <4>2. rank[Back[n + 1]] < Cardinality(used) /\ rank[Back[n + 1]] \in Nat
        BY <1>1, <1>5, <4>1
      <4>. QED
        BY <1>6, <3>3, <4>1, <4>2
    <3>4. CASE n # 0
      <4>1. Back[n] \in used /\ rank[Back[n]] + n <= Cardinality(used)
        BY <1>3, <2>2, <3>1, <3>4
      <4>2. Back[n + 1] \in used
        BY <1>2, <3>2, <4>1
      <4>3. rank[Back[n + 1]] < rank[Back[n]] /\ rank[Back[n]] \in Nat /\ rank[Back[n + 1]] \in Nat
        BY <1>1, <1>5, <3>2, <4>1, <4>2
      <4>. QED
        BY <1>6, <4>1, <4>2, <4>3
    <3>. QED
      BY <3>3, <3>4
  <2>3. \A n \in Nat : n \in H
    <3> HIDE DEF H
    <3>. QED
      BY <2>1, <2>2, NatSets
  <2>. QED
    BY <1>3, <2>3
<1>8. Z # {}
  <2>1. SUFFICES ASSUME \A n \in 0..N : Back[n] # 0 PROVE FALSE
    OBVIOUS
  <2>2. Back[N] \in used /\ rank[Back[N]] + N <= Cardinality(used)
    BY <1>3, <1>7, <2>1
  <2>3. rank[Back[N]] \in Nat /\ Back[N] # 0
    BY <1>1, <1>3, <1>5, <2>1, <2>2
  <2>4. way[Back[N]] \in used
    BY <1>2, <2>2, <2>3
  <2>5. rank[way[Back[N]]] \in Nat /\ rank[way[Back[N]]] < rank[Back[N]]
    BY <1>1, <1>5, <2>2, <2>3, <2>4
  <2>. QED
    BY <1>3, <1>6, <2>2, <2>3, <2>5
<1>9. m \in 0..N /\ Back[m] = 0 /\ \A n \in 0 .. m - 1 : Back[n] # 0
  <2>1. IsFiniteSet(0..N)
    BY <1>3, FS_Interval
  <2>2. IsFiniteSet(Z) /\ Z \in SUBSET Int
    <3>1. Z \in SUBSET (0..N)
      OBVIOUS
    <3>2. 0..N \subseteq Int
      BY <1>3
    <3> HIDE DEF Z
    <3>. QED
      BY <2>1, <3>1, <3>2, FS_Subset
  <2>3. m \in Z /\ \A y \in Z : m <= y
    <3> HIDE DEF Z
    <3>. QED
      BY <1>8, <2>2, HasMin
  <2>. QED
    BY <1>3, <2>3
<1>10. Path = {Back[n] : n \in 0..m} \ {0}
  BY DEF Path, N
<1> HIDE DEF m, Z
<1>11. m >= 1 /\ m \in Nat /\ m <= N
  BY <1>1, <1>4, <1>9, ColumnsFinite
<1>12. \A n \in 0 .. m - 1 : /\ Back[n] # 0 /\ Back[n] \in Path
                             /\ Back[n + 1] = way[Back[n]]
                             /\ Back[n + 1] \in used
  <2> SUFFICES ASSUME NEW n \in 0 .. m - 1
               PROVE  /\ Back[n] # 0 /\ Back[n] \in Path
                      /\ Back[n + 1] = way[Back[n]]
                      /\ Back[n + 1] \in used
    OBVIOUS
  <2>1. Back[n] # 0 /\ Back[n] \in Path /\ Back[n + 1] = way[Back[n]]
    BY <1>3, <1>4, <1>9, <1>10, <1>11
  <2>2. n + 1 \in 1..N /\ \A k \in 0 .. n + 1 - 1 : Back[k] # 0
    BY <1>3, <1>9, <1>11
  <2>3. Back[n + 1] \in used
    BY <1>7, <2>2
  <2>. QED
    BY <2>1, <2>3
<1>13. \A j \in Path : \E n \in 0 .. m - 1 : j = Back[n]
  BY <1>9, <1>10, <1>11
<1>14. \A j \in Path : j # column => \E n \in 0 .. m - 1 : j = Back[n + 1]
  <2> SUFFICES ASSUME NEW j \in Path, j # column PROVE \E n \in 0 .. m - 1 : j = Back[n + 1]
    OBVIOUS
  <2>1. PICK n \in 0 .. m - 1 : j = Back[n]
    BY <1>13
  <2>2. n # 0
    BY <1>4, <2>1
  <2>3. n - 1 \in 0 .. m - 1 /\ n - 1 + 1 = n
    BY <1>11, <2>2
  <2>. QED
    BY <2>1, <2>3
<1>15. column \in Path
  BY <1>4, <1>11, <1>12
<1>16. \A j \in Path : j # 0 /\ (j = column \/ j \in used)
  BY <1>10, <1>12, <1>14
<1>17. Path \subseteq Column
  BY <1>1, <1>16 DEF Columns
<1>18. ASSUME NEW j \in Path
       PROVE  /\ way[j] \in used /\ (way[j] = 0 \/ way[j] \in Path \ {column})
              /\ row[way[j]] # 0 /\ Slack(row[way[j]], j) = 0
  <2>1. PICK n \in 0 .. m - 1 : j = Back[n]
    BY <1>13
  <2>2. way[j] = Back[n + 1] /\ n + 1 \in 0..m
    BY <1>11, <1>12, <2>1
  <2>3. way[j] \in used /\ (way[j] = 0 \/ way[j] \in Path)
    BY <1>10, <1>12, <2>1, <2>2
  <2>. QED
    BY <1>1, <1>2, <1>16, <2>3
<1>19. ASSUME NEW k \in (Path \ {column}) \cup {0}
       PROVE  \E j \in Path : way[j] = k
  <2>1. PICK n \in 0 .. m - 1 : k = Back[n + 1]
    <3>1. CASE k = 0
      <4>1. m - 1 \in 0 .. m - 1 /\ m - 1 + 1 = m
        BY <1>11
      <4>. QED
        BY <1>9, <3>1, <4>1
    <3>. QED
      BY <1>14, <3>1
  <2>. QED
    BY <1>12, <2>1
<1>20. ASSUME NEW j \in Path, NEW k \in Path, way[j] = way[k]
       PROVE  j = k
  <2> DEFINE T == (Path \ {column}) \cup {0}
             f == [i \in Path |-> way[i]]
  <2>1. f \in Surjection(Path, T)
    BY <1>18, <1>19 DEF Surjection
  <2>2. IsFiniteSet(Path)
    BY <1>17, ColumnsFinite, FS_Subset
  <2>3. Cardinality(T) = Cardinality(Path)
    <3> DEFINE R == Path \ {column}
    <3>1. IsFiniteSet(R) /\ Cardinality(R) = Cardinality(Path) - 1 /\ Cardinality(Path) \in Nat
      BY <1>15, <2>2, FS_RemoveElement, FS_CardinalityType
    <3>2. 0 \notin R
      BY <1>16
    <3> HIDE DEF R
    <3>3. Cardinality(R \cup {0}) = Cardinality(R) + 1
      BY <3>1, <3>2, FS_AddElement
    <3>. QED
      BY <3>1, <3>3 DEF R
  <2>4. f \in Injection(Path, T)
    <3> HIDE DEF f, T
    <3>. QED
      BY <2>1, <2>2, <2>3, FS_SurjSameCardinalityImpliesInj
  <2>. QED
    BY <1>20, <2>4 DEF Injection, IsInjective
<1>. QED
  BY <1>1, <1>15, <1>16, <1>17, <1>18, <1>19, <1>20 DEF PathFound

\* A row moves to the column the path reached from its own; the free column
\* gets one, and the row being assigned gives up the sentinel.
LEMMA AugmentMoves ==
  ASSUME AssignmentInv, Augment
  PROVE  /\ row' \in [Columns -> 0..Plots]
         /\ row'[0] = IF solving < Plots THEN solving + 1 ELSE 0
         /\ \A j \in Column : row'[j] = IF j \in Path THEN row[way[j]] ELSE row[j]
<1> USE DEF AssignmentInv, AssignmentTypeOK
<1>1. /\ row' = [Flipped(Path) EXCEPT ![0] = IF solving < Plots THEN solving + 1 ELSE 0]
      /\ solving \in Int /\ solving >= 1
  BY DEF Augment
<1>2. Flipped(Path) = [j \in Columns |-> IF j \in Path THEN row[way[j]] ELSE row[j]]
  BY DEF Flipped, Columns
<1>3. \A j \in Columns : way[j] \in Columns /\ row[j] \in 0..Plots /\ row[way[j]] \in 0..Plots
  BY DEF Columns
<1>4. (IF solving < Plots THEN solving + 1 ELSE 0) \in 0..Plots
  BY <1>1, AssignmentAssumption
<1>5. \A j \in Column : j \in Columns /\ j # 0
  BY ColumnsFinite DEF Columns
<1> HIDE DEF AssignmentInv, AssignmentTypeOK
<1>6. 0 \in Columns
  BY DEF Columns
<1>. QED
  BY <1>1, <1>2, <1>3, <1>4, <1>5, <1>6

LEMMA AugmentAssigns ==
  ASSUME AssignmentInv, Augment
  PROVE  PartlyAssigned'
<1> USE DEF AssignmentInv, AssignmentTypeOK
<1>1. /\ solving <= Plots /\ row[column] = 0 /\ solving' = solving + 1
      /\ solving \in Int /\ solving >= 1 /\ Plots \in Nat
  BY AssignmentAssumption DEF Augment
<1>2. PathFound
  BY PathIsFound
<1>3. \A j \in Column : /\ row'[j] = IF j \in Path THEN row[way[j]] ELSE row[j]
                        /\ j # 0 /\ row'[j] \in 0..Plots /\ j \in Columns
  BY AugmentMoves, ColumnsFinite DEF Columns
<1>4. row'[0] = IF solving < Plots THEN solving + 1 ELSE 0
  BY AugmentMoves
<1>5. row[0] = solving /\ \A k \in Columns : row[k] <= solving /\ row[k] \in Int
  BY <1>1 DEF PartlyAssigned, Columns
<1>6. ASSUME NEW j \in Column
      PROVE  row'[j] < solving + 1
  <2>1. j \in Path => way[j] \in Columns
    BY <1>2 DEF PathFound, Columns
  <2>2. \E k \in Columns : row'[j] = row[k]
    BY <1>3, <2>1
  <2> HIDE DEF AssignmentInv, AssignmentTypeOK
  <2>. QED
    BY <1>1, <1>5, <2>2
<1>7. ASSUME NEW j \in Columns, NEW k \in Columns, row'[j] = row'[k], row'[j] # 0
      PROVE  j = k
  <2>1. CASE j = 0 \/ k = 0
    <3>1. \A i \in Column : row'[i] # solving + 1
      BY <1>1, <1>3, <1>6
    <3>. QED
      BY <1>4, <1>7, <2>1, <3>1 DEF Columns
  <2>2. CASE j # 0 /\ k # 0
    <3>1. j \in Column /\ k \in Column
      BY <2>2 DEF Columns
    <3>2. \A x, y \in Columns : row[x] = row[y] /\ row[x] # 0 => x = y
      BY DEF PartlyAssigned
    <3>3. \A x \in Column, y \in Path : x \notin Path /\ way[y] \in Columns => way[y] # x
      BY <1>2, <1>3 DEF PathFound
    <3>4. \A y \in Path : way[y] \in Columns
      BY <1>2 DEF PathFound, Columns
    <3>5. CASE j \in Path /\ k \in Path
      <4>1. way[j] = way[k]
        BY <1>3, <1>7, <3>1, <3>2, <3>4, <3>5
      <4>. QED
        BY <1>2, <3>5, <4>1 DEF PathFound
    <3>6. CASE ~(j \in Path /\ k \in Path)
      BY <1>3, <1>7, <3>1, <3>2, <3>3, <3>4, <3>6
    <3>. QED
      BY <3>5, <3>6
  <2>. QED
    BY <2>1, <2>2
<1>8. ASSUME NEW i \in 1..solving
      PROVE  \E j \in Column : row'[j] = i
  <2>1. CASE i = solving
    <3>1. PICK j \in Path : way[j] = 0
      BY <1>2 DEF PathFound
    <3>2. j \in Column
      BY <1>2 DEF PathFound
    <3>. QED
      BY <1>3, <1>5, <2>1, <3>1, <3>2
  <2>2. CASE i # solving
    <3>1. PICK k \in Column : row[k] = i
      BY <1>1, <2>2 DEF PartlyAssigned
    <3>2. CASE k \notin Path
      BY <1>3, <3>1, <3>2
    <3>3. CASE k \in Path
      <4>1. k # column
        BY <1>1, <3>1
      <4>2. PICK j \in Path : way[j] = k
        BY <1>2, <3>3, <4>1 DEF PathFound
      <4>3. j \in Column
        BY <1>2 DEF PathFound
      <4>. QED
        BY <1>3, <3>1, <4>2, <4>3
    <3>. QED
      BY <3>2, <3>3
  <2>. QED
    BY <2>1, <2>2
<1>9. row'[0] = IF solving' <= Plots THEN solving' ELSE 0
  BY <1>1, <1>4
<1> HIDE DEF AssignmentInv, AssignmentTypeOK
<1>10. solving' - 1 = solving
  BY <1>1
<1>. QED
  BY <1>1, <1>6, <1>7, <1>8, <1>9, <1>10 DEF PartlyAssigned

LEMMA AugmentCharges ==
  ASSUME AssignmentInv, Augment
  PROVE  Charged'
<1> USE DEF AssignmentInv, AssignmentTypeOK
<1>1. /\ solving' = solving + 1 /\ solving \in Int
      /\ potential' = potential /\ price' = price /\ distance' = distance
  BY DEF Augment
<1>2. PathFound
  BY PathIsFound
<1>3. \A j \in Column : row'[j] = IF j \in Path THEN row[way[j]] ELSE row[j]
  BY AugmentMoves
<1>4. ASSUME NEW i, NEW j
      PROVE  Slack(i, j)' = Slack(i, j)
  BY <1>1 DEF Slack, Cost
<1>5. \A i \in Plot, j \in Column : Slack(i, j)' >= 0
  BY <1>4 DEF Charged
<1>6. ASSUME NEW j \in Column
      PROVE  /\ price'[j] <= 0
             /\ row'[j] = 0 => price'[j] = 0
             /\ row'[j] # 0 => Slack(row[j], j)' = 0
  <2>1. price[j] <= 0 /\ (row[j] = 0 => price[j] = 0) /\ (row[j] # 0 => Slack(row[j], j) = 0)
    BY DEF Charged
  <2>2. j \in Path => row[way[j]] # 0 /\ Slack(row[way[j]], j) = 0
    BY <1>2 DEF PathFound
  <2>3. Slack(row[j], j)' = Cost(row'[j], j) - potential[row'[j]] - price[j]
    BY <1>1 DEF Slack, Cost
  <2>4. Slack(row[j], j)' = IF j \in Path THEN Slack(row[way[j]], j) ELSE Slack(row[j], j)
    BY <1>3, <2>3 DEF Slack
  <2>. QED
    BY <1>1, <1>3, <2>1, <2>2, <2>4
<1>7. ASSUME NEW i \in Plot, i > solving' \/ (i = solving' /\ used' = {})
      PROVE  potential'[i] = 0
  <2>1. i > solving
    BY <1>1, <1>7 DEF Plot
  <2>. QED
    BY <1>1, <2>1 DEF Charged
<1>. QED
  BY <1>5, <1>6, <1>7 DEF Charged

LEMMA AugmentKeeps ==
  ASSUME AssignmentInv, Augment
  PROVE  AssignmentInv'
<1>1. AssignmentTypeOK'
  <2> USE DEF AssignmentInv, AssignmentTypeOK, Augment
  <2>1. row' \in [Columns -> 0..Plots]
    BY AugmentMoves
  <2>2. minv' \in [Columns -> Int]
    BY AssignmentAssumption DEF All, INF, Columns
  <2>3. solving' \in 1 .. Plots + 1
    BY AssignmentAssumption
  <2>. QED
    BY <2>1, <2>2, <2>3 DEF Columns
<1>2. PartlyAssigned' /\ Charged'
  BY AugmentAssigns, AugmentCharges
<1>3. Searched'
  <2>1. used' = {} /\ column' = 0 /\ minv' = All(INF)
    BY DEF Augment
  <2>2. Ranked'
    <3>1. [j \in Columns |-> 0] \in [Columns -> Nat]
      OBVIOUS
    <3>. QED
      BY <2>1, <3>1 DEF Ranked
  <2>. QED
    BY <2>1, <2>2 DEF Searched
<1>4. Reached'
  BY DEF Augment, Reached
<1>. QED
  BY <1>1, <1>2, <1>3, <1>4 DEF AssignmentInv

LEMMA StartsAssigning ==
  AssignmentInit => AssignmentInv
<1> SUFFICES ASSUME AssignmentInit PROVE AssignmentInv
  OBVIOUS
<1>1. Gate \in Nat /\ Far \in Nat /\ Plots \in Nat /\ Plots >= 1 /\ Gate <= Far /\ INF \in Int
  BY AssignmentAssumption, CostsBounded DEF INF
<1>2. /\ row \in [Columns -> 0..Plots] /\ row[0] = 1
      /\ \A j \in Column : row[j] = 0 /\ price[j] = 0 /\ j # 0
      /\ \A i \in 0..Plots : potential[i] = 0
      /\ used = {} /\ column = 0 /\ solving = 1
  BY <1>1, ColumnsFinite DEF AssignmentInit, All, Columns
<1>3. AssignmentTypeOK
  <2>1. distance \in [Plot -> [1..Tracks -> 0..Far]]
    BY <1>1 DEF AssignmentInit
  <2>2. potential \in [0..Plots -> Int] /\ price \in [Columns -> Int] /\ way \in [Columns -> Columns]
    BY DEF AssignmentInit, All, Columns
  <2>3. minv \in [Columns -> Int]
    BY <1>1 DEF AssignmentInit, All, Columns
  <2>4. column \in Columns /\ solving \in 1 .. Plots + 1 /\ used \subseteq Columns
    BY <1>1, <1>2 DEF Columns
  <2>. QED
    BY <1>2, <2>1, <2>2, <2>3, <2>4 DEF AssignmentTypeOK, Columns
<1>4. PartlyAssigned
  BY <1>1, <1>2 DEF PartlyAssigned, Columns
<1>5. Charged
  <2>1. \A i \in Plot : i \in 0..Plots
    BY <1>1 DEF Plot
  <2>2. ASSUME NEW i \in Plot, NEW j \in Column
        PROVE  Slack(i, j) >= 0
    <3>1. Cost(i, j) \in 0..Far /\ potential[i] = 0 /\ price[j] = 0
      BY <1>2, <1>3, <2>1, CostsBounded
    <3>. QED
      BY <1>1, <3>1 DEF Slack
  <2>. QED
    BY <1>2, <2>1, <2>2 DEF Charged
<1>6. Searched /\ Reached
  <2>1. Ranked
    <3>1. [j \in Columns |-> 0] \in [Columns -> Nat]
      OBVIOUS
    <3>. QED
      BY <1>2, <3>1 DEF Ranked
  <2>2. minv = All(INF)
    BY DEF AssignmentInit
  <2>. QED
    BY <1>2, <2>1, <2>2 DEF Searched, Reached
<1>. QED
  BY <1>3, <1>4, <1>5, <1>6 DEF AssignmentInv

-----------------------------------------------------------------------------
(* The answer. *)

LEMMA InvIsFeasible ==
  AssignmentInv => Feasible
<1> SUFFICES ASSUME AssignmentInv PROVE Feasible
  OBVIOUS
<1> USE DEF AssignmentInv, AssignmentTypeOK
<1>1. ASSUME NEW i \in Plot, NEW j \in Column
      PROVE  /\ Cost(i, j) \in Int /\ potential[i] \in Int /\ price[j] \in Int
             /\ Slack(i, j) >= 0
  <2>1. Cost(i, j) \in Int
    BY CostsBounded
  <2>2. i \in 0..Plots /\ j \in Columns
    BY AssignmentAssumption DEF Plot, Columns
  <2>3. potential[i] \in Int /\ price[j] \in Int
    BY <2>2 DEF Columns
  <2>. QED
    BY <2>1, <2>3 DEF Charged
<1>2. ASSUME NEW j \in Column, NEW i \in 1 .. solving - 1
      PROVE  Cost(i, j) >= potential[i] + price[j]
  <2>1. i \in Plot
    BY AssignmentAssumption DEF Plot
  <2> HIDE DEF AssignmentInv, AssignmentTypeOK
  <2>. QED
    BY <1>1, <2>1 DEF Slack
<1>3. ASSUME NEW j \in Column, row[j] # 0
      PROVE  Cost(row[j], j) = potential[row[j]] + price[j]
  <2>1. row[j] \in Plot /\ Slack(row[j], j) = 0
    BY <1>3, AssignmentAssumption DEF Charged, Plot
  <2> HIDE DEF AssignmentInv, AssignmentTypeOK
  <2>. QED
    BY <1>1, <2>1 DEF Slack
<1>. QED
  BY <1>2, <1>3 DEF Feasible

\* The column each plot has.
Given(i) == CHOOSE j \in Column : row[j] = i

\* What a plot pays: its track's distance, or the gate for none.
Paid(f, i) == IF f[i] = 0 THEN Gate ELSE distance[i][f[i]]

LEMMA LossIsSum ==
  ASSUME NEW f
  PROVE  Loss(f) = Sum([i \in Plot |-> Paid(f, i)], Plot)
BY DEF Loss, Sum, SumFunction, SumFunctionOnSet, FoldFunction, FoldFunctionOnSet, Paid

\* What plots with a column each are charged is what all plots are charged and
\* what those columns are.
LEMMA ChargesAddUp ==
  ASSUME AssignmentInv, NEW g \in [Plot -> Column], \A i, k \in Plot : g[i] = g[k] => i = k,
         NEW c, c = [i \in Plot |-> potential[i] + price[g[i]]]
  PROVE  /\ Summable(c, Plot) /\ Sum(potential, Plot) \in Int
         /\ Sum(c, Plot) = Sum(potential, Plot) + Sum(price, {g[i] : i \in Plot})
<1>1. \A i \in Plot : potential[i] \in Int
  BY AssignmentAssumption DEF AssignmentInv, AssignmentTypeOK, Plot
<1>2. \A j \in Column : price[j] \in Int
  BY DEF AssignmentInv, AssignmentTypeOK
<1>3. IsFiniteSet(Plot)
  BY ColumnsFinite
<1> DEFINE b == [i \in Plot |-> price[g[i]]]
<1>4. Sum(b, Plot) = Sum(price, {g[i] : i \in Plot})
  <2> DEFINE R == {g[i] : i \in Plot}
  <2>1. Moves(g, Plot, Column, R)
    BY DEF Moves
  <2>2. \A i \in Plot : b[i] = price[g[i]]
    OBVIOUS
  <2> HIDE DEF b, R
  <2>3. Sum(b, Plot) = Sum(price, R)
    BY <1>2, <1>3, <2>1, <2>2, SumMoves
  <2>. QED
    BY <2>3 DEF R
<1>5. Summable(potential, Plot) /\ Summable(b, Plot)
  BY <1>1, <1>2, <1>3 DEF Summable
<1>6. \A i \in Plot : c[i] = potential[i] + b[i] /\ c[i] \in Int
  BY <1>1, <1>2
<1>7. Summable(c, Plot)
  BY <1>3, <1>6 DEF Summable
<1> HIDE DEF b
<1>8. Sum(c, Plot) = Sum(potential, Plot) + Sum(b, Plot)
  BY <1>5, <1>6, SumPlus
<1>9. Sum(potential, Plot) \in Int
  BY <1>5, SumStep
<1>. QED
  BY <1>4, <1>7, <1>8, <1>9

\* The columns that are given cost, together, no more than any others: those
\* that are not given cost nothing, and none costs more.
LEMMA GivenCostLeast ==
  ASSUME AssignmentInv, NEW A \in SUBSET Column, \A j \in Column \ A : row[j] = 0,
         NEW B \in SUBSET Column
  PROVE  Sum(price, A) \in Int /\ Sum(price, B) \in Int /\ Sum(price, A) <= Sum(price, B)
<1>1. Summable(price, Column)
  BY ColumnsFinite DEF Summable, AssignmentInv, AssignmentTypeOK
<1>2. (\A j \in Column \ A : price[j] >= 0) /\ (\A j \in Column \ B : price[j] <= 0)
  BY DEF AssignmentInv, Charged
<1>3. Sum(price, Column) >= Sum(price, A) /\ Sum(price, Column) <= Sum(price, B)
  BY <1>1, <1>2, SumExtends
<1>4. Sum(price, A) \in Int /\ Sum(price, B) \in Int /\ Sum(price, Column) \in Int
  BY <1>1, SummableParts, SumStep
<1>. QED
  BY <1>3, <1>4

Solved == AssignmentInv /\ solving = Plots + 1

LEMMA EachIsGiven ==
  ASSUME Solved
  PROVE  /\ \A i \in Plot : Given(i) \in Column /\ row[Given(i)] = i /\ Slack(i, Given(i)) = 0
         /\ \A j \in Column : row[j] # 0 => row[j] \in Plot /\ j = Given(row[j])
<1> USE DEF Solved, AssignmentInv, AssignmentTypeOK
<1>1. solving - 1 = Plots
  BY AssignmentAssumption
<1>2. ASSUME NEW i \in Plot
      PROVE  Given(i) \in Column /\ row[Given(i)] = i
  <2>1. \E j \in Column : row[j] = i
    BY <1>1 DEF PartlyAssigned, Plot
  <2>. QED
    BY <2>1 DEF Given
<1>3. ASSUME NEW j \in Column, row[j] # 0
      PROVE  row[j] \in Plot /\ j = Given(row[j])
  <2>1. row[j] \in Plot
    BY <1>3, AssignmentAssumption DEF Plot
  <2>. QED
    BY <1>2, <1>3, <2>1 DEF PartlyAssigned, Columns
<1>4. ASSUME NEW i \in Plot
      PROVE  Slack(i, Given(i)) = 0
  BY <1>2 DEF Charged, Plot
<1>. QED
  BY <1>2, <1>3, <1>4

Answer == [i \in Plot |-> TrackOf(i)]

LEMMA AnswerMatches ==
  ASSUME Solved
  PROVE  /\ Answer \in Matchings
         /\ \A i \in Plot : Paid(Answer, i) \in Int /\ Paid(Answer, i) <= Cost(i, Given(i))
<1> USE DEF Solved, AssignmentInv
<1>1. ASSUME NEW i \in Plot
      PROVE  /\ Answer[i] = IF Given(i) <= Tracks /\ Cost(i, Given(i)) < Far THEN Given(i) ELSE 0
             /\ Given(i) \in Column /\ Given(i) \in Nat \ {0} /\ row[Given(i)] = i
             /\ Cost(i, Given(i)) \in 0..Far
             /\ Given(i) <= Tracks => Cost(i, Given(i)) = distance[i][Given(i)]
             /\ Given(i) > Tracks => Cost(i, Given(i)) \in {Gate, Far}
  <2>1. Given(i) \in Column /\ row[Given(i)] = i
    BY EachIsGiven
  <2>2. Given(i) \in Nat \ {0}
    BY <2>1, ColumnsFinite
  <2>3. Cost(i, Given(i)) \in 0..Far
    BY <2>1, CostsBounded
  <2>4. Answer[i] = IF Given(i) <= Tracks /\ Cost(i, Given(i)) < Far THEN Given(i) ELSE 0
    BY DEF Answer, TrackOf, Given
  <2>5. /\ Given(i) <= Tracks => Cost(i, Given(i)) = distance[i][Given(i)]
        /\ Given(i) > Tracks => Cost(i, Given(i)) \in {Gate, Far}
    BY <2>2, AssignmentAssumption DEF Cost
  <2>. QED
    BY <2>1, <2>2, <2>3, <2>4, <2>5
<1>2. \A i \in Plot : Answer[i] \in 0..Tracks
  BY <1>1, AssignmentAssumption
<1>3. ASSUME NEW i \in Plot, Answer[i] # 0
      PROVE  distance[i][Answer[i]] # Far /\ \A k \in Plot \ {i} : Answer[k] # Answer[i]
  <2>1. Answer[i] = Given(i) /\ distance[i][Answer[i]] = Cost(i, Given(i)) /\ Cost(i, Given(i)) < Far
    BY <1>1, <1>3
  <2>2. distance[i][Answer[i]] # Far
    BY <1>1, <2>1, AssignmentAssumption
  <2>3. ASSUME NEW k \in Plot \ {i} PROVE Answer[k] # Answer[i]
    <3>1. Answer[k] = 0 \/ Answer[k] = Given(k)
      BY <1>1
    <3>2. Given(k) # Given(i)
      BY <1>1
    <3>. QED
      BY <1>3, <2>1, <3>1, <3>2
  <2>. QED
    BY <2>2, <2>3
<1>4. Answer \in Matchings
  <2>1. Answer \in [Plot -> 0..Tracks]
    BY <1>2 DEF Answer
  <2>. QED
    BY <1>3, <2>1 DEF Matchings
<1>5. ASSUME NEW i \in Plot
      PROVE  Paid(Answer, i) \in Int /\ Paid(Answer, i) <= Cost(i, Given(i))
  <2>1. Gate \in Int /\ Far \in Int /\ Gate <= Far /\ Tracks \in Int
    BY CostsBounded, AssignmentAssumption
  <2>. QED
    BY <1>1, <2>1 DEF Paid
<1>. QED
  BY <1>4, <1>5

\* Where a plot goes under another way to give out the tracks.
Going(f) == [i \in Plot |-> IF f[i] = 0 THEN Tracks + i ELSE f[i]]

LEMMA OthersPayNoLess ==
  ASSUME Solved, NEW f \in Matchings
  PROVE  /\ Going(f) \in [Plot -> Column]
         /\ \A i, k \in Plot : Going(f)[i] = Going(f)[k] => i = k
         /\ \A i \in Plot : /\ Paid(f, i) \in Int
                            /\ potential[i] + price[Going(f)[i]] <= Paid(f, i)
<1>1. /\ f \in [Plot -> 0..Tracks]
      /\ \A i \in Plot : f[i] # 0 => \A k \in Plot \ {i} : f[k] # f[i]
  BY DEF Matchings
<1>2. Tracks \in Nat /\ Plots \in Nat /\ Plot = 1..Plots /\ Column = 1 .. Tracks + Plots /\ Gate \in Nat
  BY AssignmentAssumption DEF Plot, Column
<1>3. Going(f) \in [Plot -> Column]
  BY <1>1, <1>2 DEF Going
<1>4. ASSUME NEW i \in Plot, NEW k \in Plot, Going(f)[i] = Going(f)[k]
      PROVE  i = k
  <2>1. \A x \in Plot :
          /\ f[x] = 0 => Going(f)[x] = Tracks + x
          /\ f[x] # 0 => Going(f)[x] = f[x]
    BY DEF Going
  <2>2. i \in Nat \ {0} /\ k \in Nat \ {0} /\ f[i] \in 0..Tracks /\ f[k] \in 0..Tracks
    BY <1>1, <1>2
  <2>3. CASE f[i] = 0 /\ f[k] = 0
    <3>1. Tracks + i = Tracks + k
      BY <1>4, <2>1, <2>3
    <3>. QED
      BY <1>2, <2>2, <3>1
  <2>4. CASE f[i] # 0 /\ f[k] # 0
    BY <1>1, <1>4, <2>1, <2>4
  <2>5. CASE f[i] = 0 /\ f[k] # 0
    <3>1. Tracks + i = f[k]
      BY <1>4, <2>1, <2>5
    <3>. QED
      BY <1>2, <2>2, <3>1
  <2>6. CASE f[i] # 0 /\ f[k] = 0
    <3>1. f[i] = Tracks + k
      BY <1>4, <2>1, <2>6
    <3>. QED
      BY <1>2, <2>2, <3>1
  <2>. QED
    BY <2>3, <2>4, <2>5, <2>6
<1>5. ASSUME NEW i \in Plot
      PROVE  /\ Paid(f, i) \in Int
             /\ potential[i] + price[Going(f)[i]] <= Paid(f, i)
  <2>1. Going(f)[i] \in Column
    BY <1>3
  <2>2. Paid(f, i) = Cost(i, Going(f)[i])
    <3>1. Going(f)[i] = (IF f[i] = 0 THEN Tracks + i ELSE f[i]) /\ i \in Nat \ {0} /\ f[i] \in 0..Tracks
      BY <1>1, <1>2 DEF Going
    <3>. QED
      BY <1>2, <3>1 DEF Paid, Cost
  <2>3. /\ Cost(i, Going(f)[i]) \in Int
        /\ potential[i] \in Int /\ price[Going(f)[i]] \in Int
        /\ Slack(i, Going(f)[i]) >= 0
    <3>1. Cost(i, Going(f)[i]) \in Int
      BY <2>1, CostsBounded DEF Solved, AssignmentInv
    <3>2. i \in 0..Plots
      BY <1>2
    <3>. QED
      BY <2>1, <3>1, <3>2 DEF Solved, AssignmentInv, AssignmentTypeOK, Charged
  <2>. QED
    BY <2>2, <2>3 DEF Slack
<1>. QED
  BY <1>3, <1>4, <1>5

\* What the answer pays is at most what its plots and columns are charged; that
\* is at most what the plots and columns of any other way are, and so what it
\* pays.
LEMMA AnswerIsBest ==
  ASSUME Solved, NEW f \in Matchings
  PROVE  Loss(Answer) <= Loss(f)
<1> DEFINE c == [i \in Plot |-> Given(i)]
           g == Going(f)
           mine == [i \in Plot |-> potential[i] + price[c[i]]]
           theirs == [i \in Plot |-> potential[i] + price[g[i]]]
           paid == [i \in Plot |-> Paid(Answer, i)]
           owed == [i \in Plot |-> Paid(f, i)]
           C == {c[i] : i \in Plot}
           G == {g[i] : i \in Plot}
<1>1. AssignmentInv /\ IsFiniteSet(Plot)
  BY ColumnsFinite DEF Solved
<1>2. c \in [Plot -> Column] /\ \A i, k \in Plot : c[i] = c[k] => i = k
  BY EachIsGiven
<1>3. \A i \in Plot : c[i] = Given(i) /\ paid[i] = Paid(Answer, i) /\ owed[i] = Paid(f, i)
  OBVIOUS
<1>4. \A i \in Plot : mine[i] = potential[i] + price[c[i]] /\ theirs[i] = potential[i] + price[g[i]]
  OBVIOUS
<1>5. C \in SUBSET Column /\ \A j \in Column \ C : row[j] = 0
  BY EachIsGiven
<1>6. g \in [Plot -> Column] /\ \A i, k \in Plot : g[i] = g[k] => i = k
  BY OthersPayNoLess
<1>7. G \in SUBSET Column
  BY <1>6
<1> HIDE DEF c, g
<1>8. /\ Summable(mine, Plot) /\ Sum(potential, Plot) \in Int
      /\ Sum(mine, Plot) = Sum(potential, Plot) + Sum(price, C)
  BY <1>1, <1>2, ChargesAddUp
<1>9. /\ Summable(theirs, Plot)
      /\ Sum(theirs, Plot) = Sum(potential, Plot) + Sum(price, G)
  BY <1>1, <1>6, ChargesAddUp
<1>10. Sum(mine, Plot) \in Int /\ Sum(theirs, Plot) \in Int /\ Sum(mine, Plot) <= Sum(theirs, Plot)
  <2>1. Sum(price, C) \in Int /\ Sum(price, G) \in Int /\ Sum(price, C) <= Sum(price, G)
    <3> HIDE DEF C, G
    <3>. QED
      BY <1>1, <1>5, <1>7, GivenCostLeast
  <2> HIDE DEF C, G, mine, theirs
  <2>. QED
    BY <1>8, <1>9, <2>1
<1>11. Summable(paid, Plot) /\ \A i \in Plot : paid[i] <= mine[i]
  <2>1. ASSUME NEW i \in Plot
        PROVE  paid[i] \in Int /\ paid[i] <= mine[i]
    <3>1. paid[i] \in Int /\ paid[i] <= Cost(i, c[i])
      BY <1>3, AnswerMatches
    <3>2. Slack(i, c[i]) = 0 /\ c[i] \in Column
      BY <1>3, EachIsGiven
    <3>3. Cost(i, c[i]) \in Int
      BY <1>1, <3>2, CostsBounded DEF AssignmentInv
    <3>4. mine[i] \in Int /\ mine[i] = potential[i] + price[c[i]]
      BY <1>4, <1>8 DEF Summable
    <3>5. potential[i] \in Int /\ price[c[i]] \in Int
      BY <1>1, <3>2, AssignmentAssumption DEF AssignmentInv, AssignmentTypeOK, Plot
    <3> HIDE DEF mine, paid
    <3>. QED
      BY <3>1, <3>2, <3>3, <3>4, <3>5 DEF Slack
  <2>. QED
    BY <1>1, <2>1 DEF Summable
<1>12. Summable(owed, Plot) /\ \A i \in Plot : theirs[i] <= owed[i]
  BY <1>1, <1>3, <1>4, OthersPayNoLess DEF Summable, g
<1> HIDE DEF mine, theirs, paid, owed
<1>13. Sum(paid, Plot) <= Sum(mine, Plot) /\ Sum(theirs, Plot) <= Sum(owed, Plot)
  BY <1>8, <1>9, <1>11, <1>12, SumMonotone
<1>14. Sum(paid, Plot) \in Int /\ Sum(owed, Plot) \in Int
  BY <1>11, <1>12, SumStep
<1>15. Loss(Answer) = Sum(paid, Plot) /\ Loss(f) = Sum(owed, Plot)
  BY LossIsSum DEF paid, owed
<1>. QED
  BY <1>10, <1>13, <1>14, <1>15

AssignmentSpec == AssignmentInit /\ [][AssignmentNext]_AssignmentVars

LEMMA StepKeeps ==
  AssignmentInv /\ [AssignmentNext]_AssignmentVars => AssignmentInv'
<1> SUFFICES ASSUME AssignmentInv, [AssignmentNext]_AssignmentVars
             PROVE  AssignmentInv'
  OBVIOUS
<1>1. CASE Reach
  BY <1>1, ReachKeeps
<1>2. CASE Augment
  BY <1>2, AugmentKeeps
<1>3. CASE UNCHANGED AssignmentVars
  BY <1>3 DEF AssignmentVars, AssignmentInv, AssignmentTypeOK, PartlyAssigned, Charged, Searched,
              Reached, Ranked, Slack, Cost
<1>. QED
  BY <1>1, <1>2, <1>3 DEF AssignmentNext

LEMMA InvIsBest ==
  AssignmentInv => BatchIsJointlyBest
<1> SUFFICES ASSUME AssignmentInv PROVE BatchIsJointlyBest
  OBVIOUS
<1>1. Feasible
  BY InvIsFeasible
<1>2. ASSUME solving = Plots + 1
      PROVE  Answer \in Matchings /\ \A f \in Matchings : Loss(Answer) <= Loss(f)
  <2>1. Solved
    BY <1>2 DEF Solved
  <2>. QED
    BY <2>1, AnswerMatches, AnswerIsBest
<1>. QED
  BY <1>1, <1>2 DEF BatchIsJointlyBest, Answer

\* However many detections a batch has, however many tracks there are and
\* however far apart they lie: the search keeps its potentials feasible, gives
\* no track to two detections nor one beyond its gate, and its answer costs no
\* more in all than any other (hungarian_min_cost).
THEOREM BatchesAreJointlyBest ==
  AssignmentSpec => []BatchIsJointlyBest
<1>1. AssignmentInit => AssignmentInv
  BY StartsAssigning
<1>2. AssignmentInv /\ [AssignmentNext]_AssignmentVars => AssignmentInv'
  BY StepKeeps
<1>3. AssignmentInv => BatchIsJointlyBest
  BY InvIsBest
<1>. QED
  BY <1>1, <1>2, <1>3, PTL DEF AssignmentSpec

-----------------------------------------------------------------------------
(* The detections of a track: their labels, and what their votes weigh.      *)

Filed == {Georeference(d) : d \in Evidence}

Library == OperatorSignatures \o BuiltInSignatures

Fitting(signal) == {i \in DOMAIN Library : Fits(signal, Library[i])}

LEMMA HasMax ==
  ASSUME NEW S \in SUBSET Int, IsFiniteSet(S), S # {}
  PROVE  Max(S) \in S /\ \A y \in S : y <= Max(S)
<1> DEFINE G == {T \in SUBSET Int : T # {} => \E x \in T : \A y \in T : x >= y}
<1>1. \A T \in SUBSET Int : \A z \in Int \ T : IsFiniteSet(T) /\ T \in G => T \cup {z} \in G
  <2> SUFFICES ASSUME NEW T \in SUBSET Int, NEW z \in Int, T \in G
               PROVE  \E x \in T \cup {z} : \A y \in T \cup {z} : x >= y
    OBVIOUS
  <2>1. CASE T = {}
    BY <2>1
  <2>2. CASE T # {}
    <3>1. PICK x \in T : \A y \in T : x >= y
      BY <2>2
    <3>. QED
      BY <3>1
  <2>. QED
    BY <2>1, <2>2
<1>2. S \in G
  <2>1. {} \in G
    OBVIOUS
  <2> HIDE DEF G
  <2>. QED
    BY <1>1, <2>1, FinSets
<1>. QED
  BY <1>2 DEF Max

LEMMA MaxOfTwo == \A a, b \in Int : Max({a, b}) = IF a >= b THEN a ELSE b
<1> SUFFICES ASSUME NEW a \in Int, NEW b \in Int
             PROVE  Max({a, b}) = IF a >= b THEN a ELSE b
  OBVIOUS
<1>1. \E x \in {a, b} : \A y \in {a, b} : x >= y
  OBVIOUS
<1>2. Max({a, b}) \in {a, b} /\ Max({a, b}) >= a /\ Max({a, b}) >= b
  BY <1>1 DEF Max
<1>. QED
  BY <1>2

LEMMA MinOfTwo == \A a, b \in Int : Min({a, b}) = IF a <= b THEN a ELSE b
<1> SUFFICES ASSUME NEW a \in Int, NEW b \in Int
             PROVE  Min({a, b}) = IF a <= b THEN a ELSE b
  OBVIOUS
<1>1. \E x \in {a, b} : \A y \in {a, b} : x <= y
  OBVIOUS
<1>2. Min({a, b}) \in {a, b} /\ Min({a, b}) <= a /\ Min({a, b}) <= b
  BY <1>1 DEF Min
<1>. QED
  BY <1>2

LEMMA LibraryFacts ==
  /\ Library \in Seq(Signature) /\ OperatorSignatures \in Seq(Signature)
  /\ DOMAIN OperatorSignatures \subseteq DOMAIN Library
  /\ \A j \in DOMAIN OperatorSignatures : Library[j] = OperatorSignatures[j]
  /\ DOMAIN Library \subseteq Nat \ {0} /\ IsFiniteSet(DOMAIN Library)
<1>1. OperatorSignatures \in Seq(Signature)
  BY FusionAssumption
<1>2. BuiltInSignatures \in Seq(Signature)
  BY DEF BuiltInSignatures, Signature
<1>3. Library \in Seq(Signature) /\ Len(Library) = Len(OperatorSignatures) + Len(BuiltInSignatures)
  BY <1>1, <1>2, ConcatProperties DEF Library
<1>4. \A j \in DOMAIN OperatorSignatures : Library[j] = OperatorSignatures[j]
  BY <1>1, <1>2, ConcatProperties, LenProperties DEF Library
<1>5. DOMAIN Library = 1 .. Len(Library) /\ Len(Library) \in Nat
  BY <1>3, LenProperties
<1>6. DOMAIN OperatorSignatures = 1 .. Len(OperatorSignatures) /\ Len(OperatorSignatures) \in Nat /\ Len(BuiltInSignatures) \in Nat
  BY <1>1, <1>2, LenProperties
<1>7. DOMAIN OperatorSignatures \subseteq DOMAIN Library /\ DOMAIN Library \subseteq Nat \ {0}
  BY <1>3, <1>5, <1>6
<1>8. IsFiniteSet(DOMAIN Library)
  BY <1>5, FS_Interval
<1>. QED
  BY <1>1, <1>3, <1>4, <1>7, <1>8

LEMMA FirstFits ==
  ASSUME NEW signal, Fitting(signal) # {}
  PROVE  /\ Min(Fitting(signal)) \in Fitting(signal)
         /\ \A j \in Fitting(signal) : Min(Fitting(signal)) <= j
         /\ MatchRfSignature(signal) = Library[Min(Fitting(signal))].confidence
<1>1. Fitting(signal) \in SUBSET Int /\ IsFiniteSet(Fitting(signal))
  BY LibraryFacts, FS_Subset DEF Fitting
<1>2. MatchRfSignature(signal) = Library[Min(Fitting(signal))].confidence
  BY DEF MatchRfSignature, FirstMatch, Fitting, Library
<1>. QED
  BY <1>1, <1>2, HasMin

LEMMA MatchIsNumber ==
  ASSUME NEW signal PROVE MatchRfSignature(signal) \in Int
<1>1. CASE Fitting(signal) = {}
  BY <1>1 DEF MatchRfSignature, Fitting, Library
<1>2. CASE Fitting(signal) # {}
  <2>1. Min(Fitting(signal)) \in DOMAIN Library
    BY <1>2, FirstFits DEF Fitting
  <2>2. Library[Min(Fitting(signal))] \in Signature
    BY <2>1, LibraryFacts, LenProperties, ElementOfSeq
  <2>. QED
    BY <1>2, <2>2, FirstFits DEF Signature
<1>. QED
  BY <1>1, <1>2

LEMMA FiledFacts ==
  ASSUME NEW d \in Filed
  PROVE  /\ d.type \in DOMAIN SensorTrust /\ d.confidence \in 0..100
         /\ DetectionLabel(d) \in Labels \cup {"unknown"}
         /\ Weight(d) \in Nat
<1>1. PICK e \in Evidence : d = Georeference(e)
  BY DEF Filed
<1>2. /\ d.type = e.type /\ d.confidence = e.confidence
      /\ e.type \in DOMAIN SensorTrust /\ e.confidence \in 0..100
  BY <1>1, FusionAssumption DEF Georeference
<1>3. DetectionLabel(d) \in Labels \cup {"unknown"}
  <2>1. DetectionLabel(d) = "friendly" \/ DetectionLabel(d) = Classify(d.type, EffectiveConfidence(d))
    BY DEF DetectionLabel
  <2>2. \A t, c : Classify(t, c) \in {"aircraft", "drone", "bird", "unknown"}
    BY DEF Classify
  <2>. QED
    BY <2>1, <2>2 DEF Labels
<1>4. EffectiveConfidence(d) \in Nat
  <2>1. MatchRfSignature(d.signal) \in Int /\ d.confidence \in Nat
    BY <1>2, MatchIsNumber
  <2>2. Max({d.confidence, MatchRfSignature(d.signal)}) \in Nat
    BY <2>1, MaxOfTwo
  <2>. QED
    BY <2>1, <2>2 DEF EffectiveConfidence
<1>5. SensorTrust[d.type] \in Nat
  BY <1>2 DEF SensorTrust
<1>6. \A a, b \in Nat : a * b \in Nat
  OBVIOUS
<1>. QED
  BY <1>2, <1>3, <1>4, <1>5, <1>6 DEF Weight

-----------------------------------------------------------------------------
(* The votes are counted one after the other. *)

Vote(weights, d) ==
  IF DetectionLabel(d) = "unknown" THEN weights ELSE Voted(weights, DetectionLabel(d), Weight(d))

Ballots(h, F) ==
  [T \in SUBSET DOMAIN h |-> IF T = {} THEN NoWeights ELSE Vote(F[T \ {Max(T)}], h[Max(T)])]

LEMMA BallotsExist ==
  ASSUME NEW h \in Seq(Filed)
  PROVE  \E F : F = Ballots(h, F)
<1> DEFINE S == DOMAIN h
           Small(n) == {T \in SUBSET S : Cardinality(T) <= n}
           Folds(F, n) == F = [T \in Small(n) |-> IF T = {} THEN NoWeights ELSE Vote(F[T \ {Max(T)}], h[Max(T)])]
           H == {n \in Nat : \E F : Folds(F, n)}
<1>0. IsFiniteSet(S) /\ S \in SUBSET Int
  <2>1. S = 1 .. Len(h) /\ Len(h) \in Nat
    BY LenProperties
  <2>. QED
    BY <2>1, FS_Interval
<1> HIDE DEF S
<1>1. \A T \in SUBSET S : IsFiniteSet(T) /\ Cardinality(T) \in Nat /\ (Cardinality(T) = 0 <=> T = {})
  BY <1>0, FS_Subset, FS_CardinalityType, FS_EmptySet
<1>2. \A T \in SUBSET S : T # {} => Max(T) \in T /\ Cardinality(T \ {Max(T)}) = Cardinality(T) - 1
  BY <1>0, <1>1, HasMax, FS_RemoveElement
<1>3. 0 \in H
  <2>1. Folds([T \in Small(0) |-> NoWeights], 0)
    BY <1>1
  <2>. QED
    BY <2>1
<1>4. ASSUME NEW n \in Nat, n \in H
      PROVE  n + 1 \in H
  <2>1. PICK F : Folds(F, n)
    BY <1>4
  <2> DEFINE E == [T \in Small(n + 1) |-> IF T = {} THEN NoWeights ELSE Vote(F[T \ {Max(T)}], h[Max(T)])]
  <2>2. ASSUME NEW T \in Small(n)
        PROVE  E[T] = F[T]
    <3>1. T \in Small(n + 1)
      BY <1>1
    <3>2. F[T] = IF T = {} THEN NoWeights ELSE Vote(F[T \ {Max(T)}], h[Max(T)])
      BY <2>1, Zenon
    <3> HIDE DEF Small
    <3>. QED
      BY <3>1, <3>2
  <2>3. ASSUME NEW T \in Small(n + 1), T # {}
        PROVE  T \ {Max(T)} \in Small(n)
    BY <1>1, <1>2, <2>3
  <2>4. Folds(E, n + 1)
    BY <2>2, <2>3
  <2> HIDE DEF E, Folds
  <2>5. \E e : Folds(e, n + 1)
    BY <2>4
  <2>. QED
    BY <2>5
<1>5. Cardinality(S) \in H
  <2>1. Cardinality(S) \in Nat
    BY <1>1
  <2> HIDE DEF H
  <2>. QED
    BY <1>3, <1>4, <2>1, NatSets
<1>6. Small(Cardinality(S)) = SUBSET S
  BY <1>0, FS_Subset
<1>7. PICK F : Folds(F, Cardinality(S))
  BY <1>5
<1>8. F = Ballots(h, F)
  BY <1>6, <1>7 DEF Ballots, S
<1>. QED
  BY <1>8

Counted(c, h) ==
  /\ c[0] = NoWeights
  /\ \A k \in 0 .. Len(h) - 1 : c[k + 1] = Vote(c[k], h[k + 1])

LEMMA VotesAreCounted ==
  ASSUME NEW h \in Seq(Filed)
  PROVE  \E c : Counted(c, h) /\ ClassificationWeights(h) = c[Len(h)]
<1> DEFINE F == CHOOSE E : E = Ballots(h, E)
           c == [k \in 0 .. Len(h) |-> F[1 .. k]]
<1>1. DOMAIN h = 1 .. Len(h) /\ Len(h) \in Nat
  BY LenProperties
<1>2. ClassificationWeights(h) = F[DOMAIN h]
  BY DEF ClassificationWeights, FoldLeft, MapThenFoldSet, Ballots, Vote
<1>3. F = [T \in SUBSET DOMAIN h |-> IF T = {} THEN NoWeights ELSE Vote(F[T \ {Max(T)}], h[Max(T)])]
  <2>1. F = Ballots(h, F)
    BY BallotsExist, Zenon
  <2>. QED
    BY <2>1 DEF Ballots
<1> HIDE DEF F
<1>4. c[0] = NoWeights
  <2>1. 1 .. 0 = {}
    OBVIOUS
  <2>. QED
    BY <1>1, <1>3, <2>1
<1>5. ASSUME NEW k \in 0 .. Len(h) - 1
      PROVE  c[k + 1] = Vote(c[k], h[k + 1])
  <2>1. 1 .. k + 1 \in SUBSET DOMAIN h /\ 1 .. k + 1 # {} /\ (1 .. k + 1) \ {k + 1} = 1 .. k
    <3>1. k \in Nat /\ k + 1 <= Len(h)
      BY <1>1
    <3>2. 1 .. k + 1 \subseteq 1 .. Len(h)
      BY <1>1, <3>1
    <3>3. k + 1 \in 1 .. k + 1 /\ (1 .. k + 1) \ {k + 1} = 1 .. k
      BY <3>1
    <3>. QED
      BY <1>1, <3>2, <3>3
  <2>2. Max(1 .. k + 1) = k + 1
    <3>1. 1 .. k + 1 \in SUBSET Int /\ IsFiniteSet(1 .. k + 1)
      BY FS_Interval
    <3> DEFINE m == Max(1 .. k + 1)
    <3>2. m \in 1 .. k + 1 /\ \A y \in 1 .. k + 1 : y <= m
      BY <2>1, <3>1, HasMax
    <3> HIDE DEF m
    <3>3. m = k + 1
      BY <1>1, <3>2
    <3>. QED
      BY <3>3 DEF m
  <2>3. F[1 .. k + 1] = Vote(F[1 .. k], h[k + 1])
    BY <1>3, <2>1, <2>2
  <2>4. c[k] = F[1 .. k] /\ c[k + 1] = F[1 .. k + 1]
    BY <1>1
  <2>. QED
    BY <2>3, <2>4
<1>6. c[Len(h)] = F[DOMAIN h]
  <2>1. Len(h) \in 0 .. Len(h)
    BY <1>1
  <2>. QED
    BY <1>1, <2>1
<1>7. Counted(c, h)
  BY <1>4, <1>5 DEF Counted
<1> HIDE DEF c
<1>. QED
  BY <1>2, <1>6, <1>7

-----------------------------------------------------------------------------
(* What has been counted after each of them. *)

LabelsIn(h, k) == {DetectionLabel(h[i]) : i \in 1 .. k} \ {"unknown"}

Voters(h, k, l) == {i \in 1 .. k : DetectionLabel(h[i]) = l}

Weights(h) == [i \in DOMAIN h |-> Weight(h[i])]

\* The first vote for l is before any for m.
Precedes(h, k, l, m) ==
  \E i \in 1 .. k : DetectionLabel(h[i]) = l /\ \A j \in 1 .. i : DetectionLabel(h[j]) # m

Tallied(w, h, k) ==
  /\ w = [order |-> w.order, of |-> w.of]
  /\ w.order \in Seq(Labels)
  /\ w.of \in [LabelsIn(h, k) -> Nat]
  /\ \A l \in LabelsIn(h, k) : w.of[l] = Sum(Weights(h), Voters(h, k, l))
  /\ \A l \in LabelsIn(h, k) : \E a \in DOMAIN w.order : w.order[a] = l
  /\ \A a \in DOMAIN w.order : w.order[a] \in LabelsIn(h, k)
  /\ \A a, b \in DOMAIN w.order : a < b => Precedes(h, k, w.order[a], w.order[b])

LEMMA HistoryFacts ==
  ASSUME NEW h \in Seq(Filed)
  PROVE  /\ DOMAIN h = 1 .. Len(h) /\ Len(h) \in Nat
         /\ \A i \in 1 .. Len(h) : /\ DetectionLabel(h[i]) \in Labels \cup {"unknown"}
                                   /\ Weight(h[i]) \in Nat
<1>1. DOMAIN h = 1 .. Len(h) /\ Len(h) \in Nat
  BY LenProperties
<1>2. \A i \in 1 .. Len(h) : h[i] \in Filed
  BY ElementOfSeq
<1>. QED
  BY <1>1, <1>2, FiledFacts

LEMMA VotersSum ==
  ASSUME NEW h \in Seq(Filed), NEW k \in 0 .. Len(h), NEW l
  PROVE  /\ Summable(Weights(h), Voters(h, k, l))
         /\ Sum(Weights(h), Voters(h, k, l)) \in Nat
         /\ Voters(h, k, l) = {} => Sum(Weights(h), Voters(h, k, l)) = 0
         /\ k < Len(h) =>
              /\ DetectionLabel(h[k + 1]) # l => Voters(h, k + 1, l) = Voters(h, k, l)
              /\ DetectionLabel(h[k + 1]) = l =>
                   Sum(Weights(h), Voters(h, k + 1, l)) = Weight(h[k + 1]) + Sum(Weights(h), Voters(h, k, l))
<1> DEFINE V == Voters(h, k, l)
           W == Weights(h)
<1>1. V \subseteq 1 .. k /\ 1 .. k \subseteq 1 .. Len(h) /\ IsFiniteSet(1 .. k)
  <2>1. V \subseteq 1 .. k
    BY DEF Voters
  <2>2. k \in Int /\ 1 .. k \subseteq 1 .. Len(h)
    BY HistoryFacts
  <2>3. IsFiniteSet(1 .. k)
    BY <2>2, FS_Interval
  <2>. QED
    BY <2>1, <2>2, <2>3
<1>2. \A i \in 1 .. Len(h) : W[i] = Weight(h[i]) /\ W[i] \in Nat
  BY HistoryFacts DEF Weights
<1>3. Summable(W, V)
  BY <1>1, <1>2, FS_Subset DEF Summable
<1>4. Sum(W, {}) = 0
  BY SumOfNone
<1>5. Sum(W, V) \in Nat
  <2>1. Sum(W, V) \in Int /\ Sum(W, {}) = 0
    BY <1>3, SumStep, SumOfNone
  <2>2. Sum(W, V) >= Sum(W, {})
    <3>1. \A x \in V \ {} : W[x] >= 0
      BY <1>1, <1>2
    <3>2. {} \in SUBSET V
      OBVIOUS
    <3> HIDE DEF V, W
    <3>. QED
      BY <1>3, <3>1, <3>2, SumExtends
  <2>. QED
    BY <2>1, <2>2
<1>6. ASSUME k < Len(h)
      PROVE  /\ DetectionLabel(h[k + 1]) # l => Voters(h, k + 1, l) = V
             /\ DetectionLabel(h[k + 1]) = l => Voters(h, k + 1, l) = V \cup {k + 1}
             /\ k + 1 \notin V /\ W[k + 1] = Weight(h[k + 1]) /\ W[k + 1] \in Int
  <2>1. 1 .. k + 1 = (1 .. k) \cup {k + 1} /\ k + 1 \notin 1 .. k /\ k + 1 \in 1 .. Len(h)
    BY <1>6, HistoryFacts
  <2>. QED
    BY <1>1, <1>2, <2>1 DEF Voters
<1>7. ASSUME k < Len(h), DetectionLabel(h[k + 1]) = l
      PROVE  Sum(W, V \cup {k + 1}) = Weight(h[k + 1]) + Sum(W, V)
  <2> HIDE DEF V, W
  <2>. QED
    BY <1>3, <1>6, <1>7, SumAdds
<1>. QED
  BY <1>3, <1>4, <1>5, <1>6, <1>7

LEMMA LabelsGrow ==
  ASSUME NEW h \in Seq(Filed), NEW k \in 0 .. Len(h) - 1
  PROVE  /\ DetectionLabel(h[k + 1]) = "unknown" => LabelsIn(h, k + 1) = LabelsIn(h, k)
         /\ DetectionLabel(h[k + 1]) # "unknown" => LabelsIn(h, k + 1) = LabelsIn(h, k) \cup {DetectionLabel(h[k + 1])}
         /\ LabelsIn(h, k) \subseteq Labels
         /\ \A l : l \in LabelsIn(h, k) <=> l # "unknown" /\ Voters(h, k, l) # {}
         /\ \A l, m : Precedes(h, k, l, m) => Precedes(h, k + 1, l, m)
<1>1. 1 .. k + 1 = (1 .. k) \cup {k + 1} /\ 1 .. k \subseteq 1 .. Len(h)
  BY HistoryFacts
<1>2. LabelsIn(h, k) \subseteq Labels
  BY <1>1, HistoryFacts DEF LabelsIn
<1>3. \A l, m : Precedes(h, k, l, m) => Precedes(h, k + 1, l, m)
  BY <1>1 DEF Precedes
<1>. QED
  BY <1>1, <1>2, <1>3 DEF LabelsIn, Voters

LEMMA TallyStep ==
  ASSUME NEW h \in Seq(Filed), NEW k \in 0 .. Len(h) - 1, NEW w, Tallied(w, h, k)
  PROVE  Tallied(Vote(w, h[k + 1]), h, k + 1)
<1> DEFINE d == h[k + 1]
           L == DetectionLabel(d)
           x == Vote(w, d)
           W == Weights(h)
<1>0. k \in 0 .. Len(h) /\ k < Len(h) /\ k + 1 \in 1 .. Len(h)
  BY HistoryFacts
<1>1. \A l : l # L => Sum(W, Voters(h, k + 1, l)) = Sum(W, Voters(h, k, l))
  BY <1>0, VotersSum
<1>2. /\ Sum(W, Voters(h, k + 1, L)) = Weight(d) + Sum(W, Voters(h, k, L))
      /\ Sum(W, Voters(h, k, L)) \in Nat
  BY <1>0, VotersSum
<1>3. L \in Labels \cup {"unknown"} /\ Weight(d) \in Nat
  BY <1>0, HistoryFacts
<1>4. DOMAIN w.of = LabelsIn(h, k)
  BY DEF Tallied
<1>5. CASE L = "unknown"
  <2>1. x = w /\ LabelsIn(h, k + 1) = LabelsIn(h, k)
    BY <1>5, LabelsGrow DEF Vote
  <2>2. \A l \in LabelsIn(h, k) : l # L
    BY <1>5 DEF LabelsIn
  <2> HIDE DEF L, x, W, d
  <2>. QED
    BY <1>1, <2>1, <2>2, LabelsGrow DEF Tallied, x, d, W
<1>6. CASE L # "unknown" /\ L \in LabelsIn(h, k)
  <2>1. x = [w EXCEPT !.of[L] = @ + Weight(d)]
    BY <1>4, <1>6 DEF Vote, Voted
  <2>2. LabelsIn(h, k + 1) = LabelsIn(h, k)
    <3>1. LabelsIn(h, k + 1) = LabelsIn(h, k) \cup {L}
      BY <1>6, LabelsGrow
    <3> HIDE DEF L
    <3>. QED
      BY <1>6, <3>1
  <2>3. /\ x.order = w.order /\ x = [order |-> x.order, of |-> x.of]
        /\ x.of \in [LabelsIn(h, k) -> Nat]
        /\ x.of[L] = w.of[L] + Weight(d)
        /\ \A l \in LabelsIn(h, k) : l # L => x.of[l] = w.of[l]
    <3> HIDE DEF x, L, d
    <3>1. w = [order |-> w.order, of |-> w.of] /\ w.of \in [LabelsIn(h, k) -> Nat]
      BY DEF Tallied
    <3>2. x = [order |-> w.order, of |-> [w.of EXCEPT ![L] = @ + Weight(d)]]
      BY <2>1, <3>1
    <3>3. Weight(d) \in Nat
      BY <1>3 DEF d
    <3>4. x.order = w.order /\ x.of = [w.of EXCEPT ![L] = @ + Weight(d)]
      BY <3>2
    <3>. QED
      BY <1>6, <3>1, <3>2, <3>3, <3>4
  <2>4. \A l \in LabelsIn(h, k) : x.of[l] = Sum(W, Voters(h, k + 1, l))
    <3>1. Weight(d) \in Nat /\ \A l \in LabelsIn(h, k) : w.of[l] = Sum(W, Voters(h, k, l))
      BY <1>3 DEF Tallied
    <3> HIDE DEF x, L, d, W
    <3>. QED
      BY <1>1, <1>2, <1>6, <2>3, <3>1
  <2> HIDE DEF L, x, d
  <2>. QED
    BY <2>2, <2>3, <2>4, LabelsGrow DEF Tallied, W, x, d
<1>7. CASE L # "unknown" /\ L \notin LabelsIn(h, k)
  <2>1. x = [order |-> Append(w.order, L),
             of |-> [l \in LabelsIn(h, k) \cup {L} |-> IF l = L THEN Weight(d) ELSE w.of[l]]]
    BY <1>4, <1>7 DEF Vote, Voted
  <2>2. LabelsIn(h, k + 1) = LabelsIn(h, k) \cup {L}
    BY <1>7, LabelsGrow
  <2>3. Sum(W, Voters(h, k, L)) = 0 /\ \A i \in 1 .. k : DetectionLabel(h[i]) # L
    <3>1. Voters(h, k, L) = {}
      BY <1>7, LabelsGrow
    <3>. QED
      BY <1>0, <3>1, VotersSum DEF Voters
  <2>4. /\ x = [order |-> x.order, of |-> x.of]
        /\ x.of \in [LabelsIn(h, k) \cup {L} -> Nat]
        /\ \A l \in LabelsIn(h, k) \cup {L} : x.of[l] = Sum(W, Voters(h, k + 1, l))
    <3> HIDE DEF x, L, d
    <3>. QED
      BY <1>1, <1>2, <1>3, <1>7, <2>1, <2>3 DEF Tallied, W
  <2>5. /\ x.order = Append(w.order, L) /\ w.order \in Seq(Labels) /\ L \in Labels
        /\ x.order \in Seq(Labels)
        /\ DOMAIN w.order = 1 .. Len(w.order) /\ Len(w.order) \in Nat
        /\ DOMAIN x.order = 1 .. Len(w.order) + 1
        /\ \A a \in 1 .. Len(w.order) : x.order[a] = w.order[a]
        /\ x.order[Len(w.order) + 1] = L
    <3>1. x.order = Append(w.order, L) /\ w.order \in Seq(Labels) /\ L \in Labels
      BY <1>3, <1>7, <2>1 DEF Tallied
    <3> HIDE DEF x, L, d
    <3>. QED
      BY <3>1, AppendProperties, LenProperties
  <2>6. ASSUME NEW a \in DOMAIN x.order, NEW b \in DOMAIN x.order, a < b
        PROVE  Precedes(h, k + 1, x.order[a], x.order[b])
    <3>1. a \in 1 .. Len(w.order) /\ x.order[a] = w.order[a]
      BY <2>5, <2>6
    <3>2. CASE b \in 1 .. Len(w.order)
      <4>1. Precedes(h, k, w.order[a], w.order[b])
        BY <2>5, <2>6, <3>1, <3>2 DEF Tallied
      <4>. QED
        BY <2>5, <3>1, <3>2, <4>1, LabelsGrow
    <3>3. CASE b = Len(w.order) + 1
      <4>1. w.order[a] \in LabelsIn(h, k)
        BY <2>5, <3>1 DEF Tallied
      <4>2. PICK i \in 1 .. k : DetectionLabel(h[i]) = w.order[a]
        BY <4>1 DEF LabelsIn
      <4>3. i \in 1 .. k + 1 /\ \A j \in 1 .. i : DetectionLabel(h[j]) # L
        BY <1>0, <2>3
      <4>. QED
        BY <2>5, <3>1, <3>3, <4>2, <4>3 DEF Precedes
    <3>. QED
      BY <2>5, <3>2, <3>3
  <2>7. \A l \in LabelsIn(h, k) \cup {L} : \E a \in DOMAIN x.order : x.order[a] = l
    <3> HIDE DEF x, L, d
    <3>. QED
      BY <2>5 DEF Tallied
  <2>8. \A a \in DOMAIN x.order : x.order[a] \in LabelsIn(h, k) \cup {L}
    <3> HIDE DEF x, L, d
    <3>. QED
      BY <2>5 DEF Tallied
  <2> HIDE DEF L, x, d
  <2>. QED
    BY <2>2, <2>4, <2>5, <2>6, <2>7, <2>8 DEF Tallied, W, x, d
<1>. QED
  BY <1>5, <1>6, <1>7

LEMMA VotesAreTallied ==
  ASSUME NEW h \in Seq(Filed)
  PROVE  Tallied(ClassificationWeights(h), h, Len(h))
<1>1. PICK c : Counted(c, h) /\ ClassificationWeights(h) = c[Len(h)]
  BY VotesAreCounted
<1> DEFINE G == {k \in Nat : k <= Len(h) => Tallied(c[k], h, k)}
<1>2. 0 \in G
  <2>1. LabelsIn(h, 0) = {} /\ NoWeights.of \in [{} -> Nat] /\ DOMAIN NoWeights.order = {}
    BY DEF LabelsIn, NoWeights
  <2>2. NoWeights.order \in Seq(Labels) /\ NoWeights = [order |-> NoWeights.order, of |-> NoWeights.of]
    BY DEF NoWeights
  <2>. QED
    BY <1>1, <2>1, <2>2 DEF Counted, Tallied
<1>3. ASSUME NEW k \in Nat, k \in G
      PROVE  k + 1 \in G
  <2> SUFFICES ASSUME k + 1 <= Len(h)
               PROVE  Tallied(c[k + 1], h, k + 1)
    OBVIOUS
  <2>1. k \in 0 .. Len(h) - 1 /\ Tallied(c[k], h, k)
    BY <1>3, HistoryFacts
  <2>2. c[k + 1] = Vote(c[k], h[k + 1])
    BY <1>1, <2>1 DEF Counted
  <2>. QED
    BY <2>1, <2>2, TallyStep
<1>4. Len(h) \in G
  <2>1. Len(h) \in Nat
    BY HistoryFacts
  <2> HIDE DEF G
  <2>. QED
    BY <1>2, <1>3, <2>1, NatSets
<1>. QED
  BY <1>1, <1>4, HistoryFacts

-----------------------------------------------------------------------------
(* Who wins: of the heaviest labels, the one voted for first. *)

LabelsOf(h) == LabelsIn(h, Len(h))

Leads(h, l, m) ==
  \/ Backing(h, m) < Backing(h, l)
  \/ Backing(h, m) = Backing(h, l) /\ Precedes(h, Len(h), l, m)

LEMMA BackingFacts ==
  ASSUME NEW h \in Seq(Filed), NEW l
  PROVE  /\ Backing(h, l) = Sum(Weights(h), Voters(h, Len(h), l))
         /\ Backing(h, l) \in Nat
         /\ Voters(h, Len(h), l) = {} => Backing(h, l) = 0
         /\ LabelsOf(h) \subseteq Labels /\ "unknown" \notin LabelsOf(h)
         /\ l # "unknown" => (l \in LabelsOf(h) <=> Voters(h, Len(h), l) # {})
<1>1. DOMAIN h = 1 .. Len(h) /\ Len(h) \in 0 .. Len(h)
  BY HistoryFacts
<1>2. Backing(h, l) = Sum(Weights(h), Voters(h, Len(h), l))
  BY <1>1 DEF Backing, Weights, Voters, Sum
<1>3. LabelsOf(h) \subseteq Labels
  BY HistoryFacts DEF LabelsOf, LabelsIn
<1>4. /\ Sum(Weights(h), Voters(h, Len(h), l)) \in Nat
      /\ Voters(h, Len(h), l) = {} => Sum(Weights(h), Voters(h, Len(h), l)) = 0
  BY <1>1, VotersSum
<1>5. /\ "unknown" \notin LabelsOf(h)
      /\ l # "unknown" => (l \in LabelsOf(h) <=> Voters(h, Len(h), l) # {})
  BY DEF LabelsOf, LabelsIn, Voters
<1>. QED
  BY <1>2, <1>3, <1>4, <1>5

LEMMA SomeHeaviest ==
  ASSUME NEW S, IsFiniteSet(S), S # {}, NEW of \in [S -> Nat]
  PROVE  \E l \in S : \A m \in S : of[m] <= of[l]
<1> DEFINE G == {T \in SUBSET S : T # {} => \E l \in T : \A m \in T : of[m] <= of[l]}
<1>1. {} \in G
  OBVIOUS
<1>2. ASSUME NEW T \in SUBSET S, NEW z \in S \ T, T \in G
      PROVE  T \cup {z} \in G
  <2> SUFFICES \E l \in T \cup {z} : \A m \in T \cup {z} : of[m] <= of[l]
    OBVIOUS
  <2>1. CASE T = {}
    BY <2>1
  <2>2. CASE T # {}
    <3>1. PICK l \in T : \A m \in T : of[m] <= of[l]
      BY <1>2, <2>2
    <3>. QED
      BY <3>1
  <2>. QED
    BY <2>1, <2>2
<1>3. S \in G
  <2> HIDE DEF G
  <2>. QED
    BY <1>1, <1>2, FinSets
<1>. QED
  BY <1>3

LEMMA LabelsAreFew == IsFiniteSet(Labels) /\ \A T \in SUBSET Labels : IsFiniteSet(T)
<1>1. IsFiniteSet({"friendly"} \cup {"aircraft"} \cup {"drone"} \cup {"bird"})
  BY FS_Singleton, FS_Union
<1>2. Labels = {"friendly"} \cup {"aircraft"} \cup {"drone"} \cup {"bird"}
  BY DEF Labels
<1>. QED
  BY <1>1, <1>2, FS_Subset

LEMMA WinnerLeads ==
  ASSUME NEW h \in Seq(Filed)
  PROVE  /\ LabelsOf(h) = {} => FuseClassification(h) = "unknown"
         /\ LabelsOf(h) # {} =>
              /\ FuseClassification(h) \in LabelsOf(h)
              /\ \A m \in LabelsOf(h) \ {FuseClassification(h)} : Leads(h, FuseClassification(h), m)
<1> DEFINE w == ClassificationWeights(h)
           heaviest == {i \in DOMAIN w.order : \A l \in DOMAIN w.of : w.of[l] <= w.of[w.order[i]]}
           p == Min(heaviest)
<1>1. /\ w.order \in Seq(Labels)
      /\ w.of \in [LabelsOf(h) -> Nat]
      /\ \A l \in LabelsOf(h) : w.of[l] = Backing(h, l)
      /\ \A l \in LabelsOf(h) : \E a \in DOMAIN w.order : w.order[a] = l
      /\ \A a \in DOMAIN w.order : w.order[a] \in LabelsOf(h)
      /\ \A a, b \in DOMAIN w.order : a < b => Precedes(h, Len(h), w.order[a], w.order[b])
  BY VotesAreTallied, BackingFacts DEF Tallied, LabelsOf
<1>2. FuseClassification(h) = IF w.order = <<>> THEN "unknown" ELSE w.order[p]
  BY DEF FuseClassification
<1> HIDE DEF w
<1>3. /\ DOMAIN w.order = 1 .. Len(w.order) /\ Len(w.order) \in Nat
      /\ w.order = <<>> <=> DOMAIN w.order = {}
  BY <1>1, LenProperties, EmptySeq
<1>4. CASE LabelsOf(h) = {}
  <2>1. DOMAIN w.order = {}
    BY <1>1, <1>4
  <2>. QED
    BY <1>2, <1>3, <1>4, <2>1
<1>5. CASE LabelsOf(h) # {}
  <2>1. w.order # <<>> /\ FuseClassification(h) = w.order[p]
    BY <1>1, <1>2, <1>3, <1>5
  <2>2. IsFiniteSet(LabelsOf(h))
    BY LabelsAreFew, BackingFacts
  <2>3. PICK l \in LabelsOf(h) : \A m \in LabelsOf(h) : w.of[m] <= w.of[l]
    BY <1>1, <1>5, <2>2, SomeHeaviest
  <2>4. PICK a \in DOMAIN w.order : w.order[a] = l
    BY <1>1
  <2>5. a \in heaviest /\ heaviest \in SUBSET Int /\ IsFiniteSet(heaviest)
    <3>1. heaviest \subseteq 1 .. Len(w.order) /\ IsFiniteSet(1 .. Len(w.order))
      <4>1. IsFiniteSet(1 .. Len(w.order))
        BY <1>3, FS_Interval
      <4>. QED
        BY <1>3, <4>1
    <3>2. a \in heaviest
      BY <1>1, <2>3, <2>4
    <3> HIDE DEF heaviest
    <3>. QED
      BY <3>1, <3>2, FS_Subset
  <2>6. p \in heaviest /\ \A b \in heaviest : p <= b
    <3> HIDE DEF heaviest
    <3>. QED
      BY <2>5, HasMin
  <2>7. p \in DOMAIN w.order /\ \A m \in LabelsOf(h) : w.of[m] <= w.of[w.order[p]]
    <3> HIDE DEF p
    <3>. QED
      BY <1>1, <2>6
  <2>8. ASSUME NEW m \in LabelsOf(h), m # w.order[p]
        PROVE  Leads(h, w.order[p], m)
    <3>1. PICK b \in DOMAIN w.order : w.order[b] = m
      BY <1>1
    <3>2. CASE w.of[m] < w.of[w.order[p]]
      <4> HIDE DEF p
      <4>. QED
        BY <1>1, <2>7, <3>2 DEF Leads
    <3>3. CASE w.of[m] = w.of[w.order[p]]
      <4>1. b \in heaviest
        <5> HIDE DEF p
        <5>. QED
          BY <1>1, <2>7, <3>1, <3>3
      <4>2. p <= b /\ p # b
        BY <2>6, <2>8, <3>1, <4>1
      <4> HIDE DEF p
      <4>3. p < b
        BY <1>3, <2>7, <3>1, <4>2
      <4>4. Precedes(h, Len(h), w.order[p], m)
        BY <1>1, <2>7, <3>1, <4>3
      <4>. QED
        BY <1>1, <2>7, <3>3, <4>4 DEF Leads
    <3> HIDE DEF p
    <3>4. w.of[m] \in Nat /\ w.of[w.order[p]] \in Nat /\ w.of[m] <= w.of[w.order[p]]
      BY <1>1, <2>7
    <3>. QED
      BY <3>2, <3>3, <3>4
  <2>9. w.order[p] \in LabelsOf(h)
    BY <1>1, <2>7
  <2> HIDE DEF p
  <2>. QED
    BY <1>5, <2>1, <2>8, <2>9
<1>. QED
  BY <1>4, <1>5

LEMMA WinnerIsHeaviest ==
  ASSUME NEW h \in Seq(Filed)
  PROVE  LET winner == FuseClassification(h) IN
         /\ winner = "unknown" <=> \A i \in DOMAIN h : DetectionLabel(h[i]) = "unknown"
         /\ winner = "unknown" <=> LabelsOf(h) = {}
         /\ winner # "unknown" => winner \in LabelsOf(h) /\ \A l \in Labels : Backing(h, l) <= Backing(h, winner)
<1> DEFINE winner == FuseClassification(h)
<1>1. LabelsOf(h) = {} <=> \A i \in DOMAIN h : DetectionLabel(h[i]) = "unknown"
  BY HistoryFacts DEF LabelsOf, LabelsIn
<1>2. "unknown" \notin LabelsOf(h)
  BY DEF LabelsOf, LabelsIn
<1>3. winner = "unknown" <=> LabelsOf(h) = {}
  BY <1>2, WinnerLeads
<1>4. ASSUME winner # "unknown", NEW l \in Labels
      PROVE  Backing(h, l) <= Backing(h, winner)
  <2>1. winner \in LabelsOf(h) /\ \A m \in LabelsOf(h) \ {winner} : Leads(h, winner, m)
    BY <1>3, <1>4, WinnerLeads
  <2>2. Backing(h, l) \in Nat /\ Backing(h, winner) \in Nat
    BY BackingFacts
  <2>3. CASE l \in LabelsOf(h)
    <3> HIDE DEF winner
    <3>. QED
      BY <2>1, <2>2, <2>3 DEF Leads
  <2>4. CASE l \notin LabelsOf(h)
    <3>1. l # "unknown"
      BY DEF Labels
    <3>2. Backing(h, l) = 0
      BY <2>4, <3>1, BackingFacts
    <3>. QED
      BY <2>2, <3>2
  <2>. QED
    BY <2>3, <2>4
<1>5. winner # "unknown" => winner \in LabelsOf(h)
  BY <1>3, WinnerLeads
<1>. QED
  BY <1>1, <1>3, <1>4, <1>5

-----------------------------------------------------------------------------
(* The vote without one of them. *)

LEMMA RestFacts ==
  ASSUME NEW h \in Seq(Filed), NEW i \in DOMAIN h
  PROVE  /\ RemoveAt(h, i) \in Seq(Filed)
         /\ Len(RemoveAt(h, i)) = Len(h) - 1
         /\ \A j \in 1 .. Len(h) - 1 : RemoveAt(h, i)[j] = IF j < i THEN h[j] ELSE h[j + 1]
<1>1. /\ Len(h) \in Nat /\ i \in 1 .. Len(h)
      /\ \A j \in 1 .. Len(h) : h[j] \in Filed
  BY HistoryFacts, ElementOfSeq
<1> DEFINE s == SubSeq(h, 1, i - 1)
           t == SubSeq(h, i + 1, Len(h))
<1>2. /\ s \in Seq(Filed) /\ Len(s) = i - 1
      /\ \A j \in 1 .. i - 1 : s[j] = h[j]
  <2>1. /\ 1 \in Int /\ i - 1 \in Int
        /\ \A j \in 1 .. i - 1 : h[j] \in Filed
    BY <1>1
  <2>2. /\ s \in Seq(Filed) /\ Len(s) = IF 1 <= i - 1 THEN i - 1 - 1 + 1 ELSE 0
        /\ \A j \in 1 .. i - 1 - 1 + 1 : s[j] = h[1 + j - 1]
    BY <2>1, SubSeqProperties
  <2> HIDE DEF s
  <2>. QED
    BY <1>1, <2>2
<1>3. /\ t \in Seq(Filed) /\ Len(t) = Len(h) - i
      /\ \A j \in 1 .. Len(h) - i : t[j] = h[i + j]
  <2>1. /\ i + 1 \in Int /\ Len(h) \in Int
        /\ \A j \in i + 1 .. Len(h) : h[j] \in Filed
    BY <1>1
  <2>2. /\ t \in Seq(Filed) /\ Len(t) = IF i + 1 <= Len(h) THEN Len(h) - (i + 1) + 1 ELSE 0
        /\ \A j \in 1 .. Len(h) - (i + 1) + 1 : t[j] = h[i + 1 + j - 1]
    BY <2>1, SubSeqProperties
  <2> HIDE DEF t
  <2>. QED
    BY <1>1, <2>2
<1> HIDE DEF s, t
<1>4. /\ s \o t \in Seq(Filed) /\ Len(s \o t) = Len(s) + Len(t)
      /\ \A j \in 1 .. Len(s) + Len(t) : (s \o t)[j] = IF j <= Len(s) THEN s[j] ELSE t[j - Len(s)]
  BY <1>2, <1>3, ConcatProperties
<1>5. ASSUME NEW j \in 1 .. Len(h) - 1
      PROVE  (s \o t)[j] = IF j < i THEN h[j] ELSE h[j + 1]
  <2>1. CASE j < i
    BY <1>1, <1>2, <1>3, <1>4, <2>1
  <2>2. CASE ~(j < i)
    <3>1. j \in 1 .. Len(s) + Len(t) /\ ~(j <= Len(s)) /\ j - Len(s) \in 1 .. Len(h) - i
      BY <1>1, <1>2, <1>3, <2>2
    <3>2. (s \o t)[j] = t[j - Len(s)] /\ t[j - Len(s)] = h[i + (j - Len(s))]
      BY <1>3, <1>4, <3>1
    <3>3. i + (j - Len(s)) = j + 1
      BY <1>1, <1>2
    <3>. QED
      BY <2>2, <3>2, <3>3
  <2>. QED
    BY <2>1, <2>2
<1>6. RemoveAt(h, i) = s \o t
  BY DEF RemoveAt, s, t
<1>7. Len(s \o t) = Len(h) - 1
  BY <1>1, <1>2, <1>3, <1>4
<1>. QED
  BY <1>4, <1>5, <1>6, <1>7, Zenon

LEMMA VotersOfRest ==
  ASSUME NEW h \in Seq(Filed), NEW i \in DOMAIN h, NEW rest, rest = RemoveAt(h, i), NEW l
  PROVE  /\ rest \in Seq(Filed)
         /\ Voters(rest, Len(rest), l) = {} <=> Voters(h, Len(h), l) \ {i} = {}
         /\ DetectionLabel(h[i]) # l => Backing(rest, l) = Backing(h, l)
         /\ DetectionLabel(h[i]) = l => Backing(rest, l) = Backing(h, l) - Weight(h[i])
<1> DEFINE n == Len(h)
           S == Voters(rest, Len(rest), l)
           V == Voters(h, n, l)
           R == V \ {i}
           g == [j \in S |-> IF j < i THEN j ELSE j + 1]
<1>1. /\ n \in Nat /\ i \in 1 .. n /\ Len(rest) = n - 1 /\ rest \in Seq(Filed)
      /\ \A j \in 1 .. n - 1 : rest[j] = IF j < i THEN h[j] ELSE h[j + 1]
  BY HistoryFacts, RestFacts
<1>2. S \subseteq 1 .. n - 1 /\ \A j \in S : DetectionLabel(rest[j]) = l
  BY <1>1 DEF Voters
<1>3. ASSUME NEW j \in S
      PROVE  g[j] \in R
  <2>1. g[j] = IF j < i THEN j ELSE j + 1
    OBVIOUS
  <2>2. j \in 1 .. n - 1 /\ rest[j] = h[g[j]]
    BY <1>1, <1>2, <2>1
  <2>3. g[j] \in 1 .. n /\ g[j] # i
    BY <1>1, <2>1, <2>2
  <2>4. DetectionLabel(h[g[j]]) = l
    BY <1>2, <2>2
  <2> HIDE DEF g
  <2>. QED
    BY <2>3, <2>4 DEF Voters
<1>4. ASSUME NEW k \in R
      PROVE  \E j \in S : g[j] = k
  <2>1. k \in 1 .. n /\ k # i /\ DetectionLabel(h[k]) = l
    BY DEF Voters
  <2> DEFINE j == IF k < i THEN k ELSE k - 1
  <2>2. j \in 1 .. n - 1 /\ k = (IF j < i THEN j ELSE j + 1)
    BY <1>1, <2>1
  <2>3. rest[j] = h[k]
    BY <1>1, <2>2
  <2>4. j \in S
    BY <1>1, <2>1, <2>2, <2>3 DEF Voters
  <2>. QED
    BY <2>2, <2>4
<1>5. \A x, y \in S : g[x] = g[y] => x = y
  BY <1>1, <1>2
<1>6. R = {g[x] : x \in S} /\ g \in [S -> R]
  <2>1. g \in [S -> R]
    BY <1>3
  <2>2. R = {g[x] : x \in S}
    <3> HIDE DEF g, R, S
    <3>. QED
      BY <1>3, <1>4
  <2>. QED
    BY <2>1, <2>2
<1>7. Backing(rest, l) = Sum(Weights(h), R)
  <2>1. IsFiniteSet(S)
    BY <1>1, HistoryFacts, VotersSum DEF Summable
  <2>2. \A x \in S : Weights(rest)[x] = Weights(h)[g[x]]
    <3> SUFFICES ASSUME NEW x \in S PROVE Weights(rest)[x] = Weights(h)[g[x]]
      OBVIOUS
    <3>1. g[x] = IF x < i THEN x ELSE x + 1
      OBVIOUS
    <3>2. x \in 1 .. n - 1 /\ rest[x] = h[g[x]]
      BY <1>1, <1>2, <3>1
    <3>3. g[x] \in 1 .. n
      BY <1>1, <3>1, <3>2
    <3>4. DOMAIN rest = 1 .. n - 1 /\ DOMAIN h = 1 .. n
      BY <1>1, HistoryFacts
    <3> HIDE DEF g
    <3>. QED
      BY <3>2, <3>3, <3>4 DEF Weights
  <2>3. \A y \in R : Weights(h)[y] \in Int
    BY <1>1, HistoryFacts DEF Weights, Voters
  <2>4. Moves(g, S, R, R)
    BY <1>5, <1>6 DEF Moves
  <2> HIDE DEF g, S, R
  <2>5. Sum(Weights(rest), S) = Sum(Weights(h), R)
    BY <2>1, <2>2, <2>3, <2>4, SumMoves
  <2>6. Backing(rest, l) = Sum(Weights(rest), S)
    BY <1>1, BackingFacts DEF S
  <2>. QED
    BY <2>5, <2>6
<1>8. S = {} <=> R = {}
  <2> HIDE DEF g, R, S
  <2>. QED
    BY <1>3, <1>4
<1>9. /\ Backing(h, l) = Sum(Weights(h), V) /\ Summable(Weights(h), V)
      /\ Weights(h)[i] = Weight(h[i]) /\ Weight(h[i]) \in Nat
  <2>1. n \in 0 .. Len(h)
    BY <1>1
  <2>. QED
    BY <1>1, <2>1, BackingFacts, VotersSum, HistoryFacts DEF Weights
<1>10. CASE DetectionLabel(h[i]) # l
  <2>1. R = V
    BY <1>10 DEF Voters
  <2>. QED
    BY <1>1, <1>7, <1>8, <1>9, <1>10, <2>1
<1>11. CASE DetectionLabel(h[i]) = l
  <2>1. i \in V
    BY <1>1, <1>11 DEF Voters
  <2>2. Sum(Weights(h), V) = Weight(h[i]) + Sum(Weights(h), R)
    <3> HIDE DEF V
    <3>. QED
      BY <1>9, <2>1, SumStep
  <2>3. Sum(Weights(h), R) \in Int
    <3>1. R \in SUBSET V
      OBVIOUS
    <3> HIDE DEF V, R
    <3>. QED
      BY <1>9, <3>1, SummableParts, SumStep
  <2>. QED
    BY <1>1, <1>7, <1>8, <1>9, <1>11, <2>2, <2>3
<1>. QED
  BY <1>10, <1>11

LEMMA PrecedesInRest ==
  ASSUME NEW h \in Seq(Filed), NEW i \in DOMAIN h, NEW rest, rest = RemoveAt(h, i), NEW l, NEW m,
         DetectionLabel(h[i]) # m, Precedes(rest, Len(rest), l, m)
  PROVE  Precedes(h, Len(h), l, m)
<1>1. /\ Len(h) \in Nat /\ i \in 1 .. Len(h) /\ Len(rest) = Len(h) - 1
      /\ \A j \in 1 .. Len(h) - 1 : rest[j] = IF j < i THEN h[j] ELSE h[j + 1]
  BY HistoryFacts, RestFacts
<1>2. PICK p \in 1 .. Len(h) - 1 : DetectionLabel(rest[p]) = l /\ \A j \in 1 .. p : DetectionLabel(rest[j]) # m
  BY <1>1 DEF Precedes
<1> DEFINE q == IF p < i THEN p ELSE p + 1
<1>3. q \in 1 .. Len(h) /\ DetectionLabel(h[q]) = l
  BY <1>1, <1>2
<1>4. ASSUME NEW j \in 1 .. q
      PROVE  DetectionLabel(h[j]) # m
  <2>1. CASE j = i
    BY <2>1
  <2>2. CASE j < i
    <3>1. j \in 1 .. p /\ j \in 1 .. Len(h) - 1
      BY <1>1, <2>2
    <3>. QED
      BY <1>1, <1>2, <2>2, <3>1
  <2>3. CASE j > i
    <3>1. j - 1 \in 1 .. p /\ j - 1 \in 1 .. Len(h) - 1 /\ ~(j - 1 < i) /\ j - 1 + 1 = j
      BY <1>1, <2>3
    <3>2. rest[j - 1] = h[j]
      BY <1>1, <3>1
    <3>. QED
      BY <1>2, <3>1, <3>2
  <2>. QED
    BY <1>1, <1>3, <2>1, <2>2, <2>3
<1>. QED
  BY <1>3, <1>4 DEF Precedes

LEMMA OneIsFirst ==
  ASSUME NEW h, NEW k \in Nat, NEW l, NEW m, Precedes(h, k, l, m), Precedes(h, k, m, l)
  PROVE  FALSE
BY DEF Precedes

LEMMA FlipNeedsBacking ==
  ASSUME NEW h \in Seq(Filed), NEW i \in DOMAIN h, NEW rest, rest = RemoveAt(h, i),
         NEW W, W = FuseClassification(h), NEW B, B = FuseClassification(rest), B # W, B # "unknown"
  PROVE  /\ DetectionLabel(h[i]) = W
         /\ Weight(h[i]) >= Backing(rest, B) - Backing(rest, W)
<1>1. rest \in Seq(Filed) /\ Len(h) \in Nat
  BY VotersOfRest, HistoryFacts
<1>2. B \in LabelsOf(rest) /\ B \in Labels /\ \A m \in LabelsOf(rest) \ {B} : Leads(rest, B, m)
  BY <1>1, WinnerIsHeaviest, WinnerLeads, BackingFacts
<1>3. B \in LabelsOf(h)
  BY <1>1, <1>2, VotersOfRest, BackingFacts
<1>4. W # "unknown" /\ W \in LabelsOf(h) /\ Leads(h, W, B)
  BY <1>3, WinnerIsHeaviest, WinnerLeads
<1>5. /\ Backing(h, W) \in Nat /\ Backing(h, B) \in Nat
      /\ Backing(rest, W) \in Nat /\ Backing(rest, B) \in Nat /\ Weight(h[i]) \in Nat
  BY <1>1, BackingFacts, HistoryFacts
<1>6. Backing(h, B) <= Backing(h, W)
  BY <1>4, <1>5 DEF Leads
<1>7. Backing(rest, B) <= Backing(h, B)
  BY <1>5, VotersOfRest
<1>8. DetectionLabel(h[i]) = W
  <2> SUFFICES ASSUME DetectionLabel(h[i]) # W PROVE FALSE
    OBVIOUS
  <2>1. Backing(rest, W) = Backing(h, W)
    BY VotersOfRest
  <2>2. W \in LabelsOf(rest)
    <3>1. Voters(h, Len(h), W) # {} /\ i \notin Voters(h, Len(h), W)
      BY <1>4, BackingFacts DEF Voters
    <3>2. Voters(rest, Len(rest), W) # {}
      BY <3>1, VotersOfRest
    <3>. QED
      BY <1>1, <1>4, <3>2, BackingFacts
  <2>3. Leads(rest, B, W)
    BY <1>2, <2>2
  <2>4. Backing(rest, B) = Backing(rest, W) /\ Precedes(rest, Len(rest), B, W)
    BY <1>5, <1>6, <1>7, <2>1, <2>3 DEF Leads
  <2>5. Backing(h, B) = Backing(h, W)
    BY <1>5, <1>6, <1>7, <2>1, <2>4
  <2>6. Precedes(h, Len(h), W, B)
    BY <1>4, <1>5, <2>5 DEF Leads
  <2>7. Precedes(h, Len(h), B, W)
    BY <2>4, PrecedesInRest
  <2>. QED
    BY <1>1, <2>6, <2>7, OneIsFirst
<1>9. Backing(rest, W) = Backing(h, W) - Weight(h[i])
  BY <1>8, VotersOfRest
<1>. QED
  BY <1>5, <1>6, <1>7, <1>8, <1>9

-----------------------------------------------------------------------------
(* The confidences. *)

\* Floors of shares of a positive total.
LEMMA Floors ==
  ASSUME NEW t \in Nat \ {0}, NEW n \in Nat
  PROVE  /\ n \div t \in Nat
         /\ t * (n \div t) <= n /\ n < t * (n \div t) + t
OBVIOUS

LEMMA Cancels ==
  ASSUME NEW t \in Nat \ {0}, NEW a \in Int, NEW b \in Int, t * a < t * b
  PROVE  a < b
<1> SUFFICES ASSUME a >= b PROVE FALSE
  OBVIOUS
<1>1. t * (a - b) >= 0
  OBVIOUS
<1>2. t * (a - b) = t * a - t * b
  OBVIOUS
<1>3. t * a \in Int /\ t * b \in Int
  OBVIOUS
<1>. QED
  BY <1>1, <1>2, <1>3

LEMMA FloorsGrow ==
  ASSUME NEW t \in Nat \ {0}, NEW m \in Nat, NEW n \in Nat, m <= n
  PROVE  m \div t <= n \div t
<1> DEFINE p == m \div t
           q == n \div t
<1>1. p \in Nat /\ q \in Nat /\ t * p <= m /\ n < t * q + t
  BY Floors
<1> HIDE DEF p, q
<1>2. t * p \in Int /\ t * q \in Int /\ t * (q + 1) = t * q + t
  BY <1>1
<1>3. t * p < t * (q + 1)
  BY <1>1, <1>2
<1>4. p < q + 1
  BY <1>1, <1>3, Cancels
<1>. QED
  BY <1>1, <1>4 DEF p, q

\* The shares of a total, in hundredths rounded down.
RoundedShares(share, v, t) ==
  /\ t \in Nat \ {0}
  /\ \A l \in Labels : v[l] \in Nat /\ share[l] = (100 * v[l]) \div t
  /\ v["bird"] + v["drone"] + v["aircraft"] + v["friendly"] = t

LEMMA FourFloors ==
  ASSUME NEW t, NEW v, NEW share, RoundedShares(share, v, t)
  PROVE  share["bird"] + share["drone"] + share["aircraft"] + share["friendly"] \in 97..100
<1> USE DEF RoundedShares
<1>0. \A l \in Labels : share[l] \in Nat /\ t * share[l] <= 100 * v[l] /\ 100 * v[l] < t * share[l] + t
  <2>1. \A n \in Nat : n \div t \in Nat /\ t * (n \div t) <= n /\ n < t * (n \div t) + t
    BY Floors
  <2>2. \A l \in Labels : 100 * v[l] \in Nat
    OBVIOUS
  <2>. QED
    BY <2>1, <2>2, Zenon
<1> DEFINE p == share["bird"]
           q == share["drone"]
           r == share["aircraft"]
           s == share["friendly"]
           a == v["bird"]
           b == v["drone"]
           c == v["aircraft"]
           d == v["friendly"]
<1>1. /\ p \in Nat /\ t * p <= 100 * a /\ 100 * a < t * p + t
      /\ q \in Nat /\ t * q <= 100 * b /\ 100 * b < t * q + t
      /\ r \in Nat /\ t * r <= 100 * c /\ 100 * c < t * r + t
      /\ s \in Nat /\ t * s <= 100 * d /\ 100 * d < t * s + t
      /\ a \in Nat /\ b \in Nat /\ c \in Nat /\ d \in Nat /\ a + b + c + d = t
  <2>1. "bird" \in Labels /\ "drone" \in Labels /\ "aircraft" \in Labels /\ "friendly" \in Labels
    BY DEF Labels
  <2>. QED
    BY <1>0, <2>1
<1> HIDE DEF p, q, r, s, a, b, c, d
<1> DEFINE sum == p + q + r + s
<1>2. t * p \in Int /\ t * q \in Int /\ t * r \in Int /\ t * s \in Int
  BY <1>1
<1>3. t * sum = t * p + t * q + t * r + t * s
  BY <1>1
<1>4. sum \in Nat /\ t * 101 = 100 * t + t /\ t * (sum + 4) = t * sum + t + t + t + t /\ t * 100 = 100 * t
  BY <1>1
<1> HIDE DEF sum
<1>5. t * sum \in Int
  BY <1>4
<1>6. t * sum < t * 101 /\ t * 100 < t * (sum + 4)
  BY <1>1, <1>2, <1>3, <1>4, <1>5
<1>7. sum < 101
  BY <1>4, <1>6, Cancels
<1>8. 100 < sum + 4
  BY <1>4, <1>6, Cancels
<1>. QED
  BY <1>4, <1>7, <1>8 DEF sum, p, q, r, s

LEMMA SumOfFour ==
  ASSUME NEW v, \A l \in Labels : v[l] \in Int
  PROVE  /\ Summable(v, Labels)
         /\ Sum(v, Labels) = v["bird"] + v["drone"] + v["aircraft"] + v["friendly"]
<1>0. v["bird"] \in Int /\ v["drone"] \in Int /\ v["aircraft"] \in Int /\ v["friendly"] \in Int
  BY DEF Labels
<1>1. Summable(v, {}) /\ Sum(v, {}) = 0
  BY SumOfNone, FS_EmptySet DEF Summable
<1>2. Sum(v, {} \cup {"friendly"}) = v["friendly"] /\ Summable(v, {} \cup {"friendly"})
  BY <1>0, <1>1, SumAdds
<1>3. {} \cup {"friendly"} = {"friendly"}
  OBVIOUS
<1>4. /\ Sum(v, {"friendly"} \cup {"aircraft"}) = v["aircraft"] + v["friendly"]
      /\ Summable(v, {"friendly"} \cup {"aircraft"})
  BY <1>0, <1>2, <1>3, SumAdds
<1>5. /\ Sum(v, {"friendly"} \cup {"aircraft"} \cup {"drone"}) = v["drone"] + (v["aircraft"] + v["friendly"])
      /\ Summable(v, {"friendly"} \cup {"aircraft"} \cup {"drone"})
  <2>1. "drone" \notin {"friendly"} \cup {"aircraft"}
    OBVIOUS
  <2>. QED
    BY <1>0, <1>4, <2>1, SumAdds
<1>6. /\ Sum(v, {"friendly"} \cup {"aircraft"} \cup {"drone"} \cup {"bird"}) = v["bird"] + (v["drone"] + (v["aircraft"] + v["friendly"]))
      /\ Summable(v, {"friendly"} \cup {"aircraft"} \cup {"drone"} \cup {"bird"})
  <2>1. "bird" \notin {"friendly"} \cup {"aircraft"} \cup {"drone"}
    OBVIOUS
  <2>. QED
    BY <1>0, <1>5, <2>1, SumAdds
<1>7. Labels = {"friendly"} \cup {"aircraft"} \cup {"drone"} \cup {"bird"}
  BY DEF Labels
<1>. QED
  BY <1>0, <1>6, <1>7

\* What all votes weigh.
Total(h) == SumFunction(ClassificationWeights(h).of)

LEMMA SumOfNothing ==
  ASSUME NEW S, NEW v, Summable(v, S), \A x \in S : v[x] >= 0
  PROVE  /\ Sum(v, S) \in Nat
         /\ \A x \in S : v[x] <= Sum(v, S)
         /\ (\A x \in S : v[x] = 0) => Sum(v, S) = 0
<1>1. Sum(v, {}) = 0 /\ {} \in SUBSET S
  BY SumOfNone
<1>2. Sum(v, S) \in Int /\ \A x \in S : Sum(v, S) = v[x] + Sum(v, S \ {x})
  BY SumStep
<1>3. Sum(v, S) >= 0
  BY <1>1, SumExtends
<1>4. ASSUME NEW x \in S
      PROVE  v[x] <= Sum(v, S)
  <2> DEFINE R == S \ {x}
  <2>1. Summable(v, R) /\ \A y \in R : v[y] >= 0
    BY SummableParts
  <2>2. {} \in SUBSET R
    OBVIOUS
  <2> HIDE DEF R
  <2>3. Sum(v, R) >= 0 /\ Sum(v, R) \in Int
    BY <1>1, <2>1, <2>2, SumExtends, SumStep
  <2>4. v[x] \in Int /\ Sum(v, S) = v[x] + Sum(v, R)
    BY <1>2 DEF R, Summable
  <2>. QED
    BY <2>3, <2>4
<1>5. (\A x \in S : v[x] = 0) => Sum(v, S) <= 0
  BY <1>1, SumExtends
<1>. QED
  BY <1>2, <1>3, <1>4, <1>5

LEMMA TotalFacts ==
  ASSUME NEW h \in Seq(Filed)
  PROVE  /\ Total(h) \in Nat
         /\ Total(h) = Backing(h, "bird") + Backing(h, "drone") + Backing(h, "aircraft") + Backing(h, "friendly")
         /\ Total(h) > 0 <=> \E i \in DOMAIN h : DetectionLabel(h[i]) # "unknown" /\ Weight(h[i]) > 0
<1> DEFINE S == LabelsOf(h)
           of == ClassificationWeights(h).of
           v == [l \in Labels |-> Backing(h, l)]
<1>1. of \in [S -> Nat] /\ \A l \in S : of[l] = Backing(h, l)
  BY VotesAreTallied, BackingFacts DEF Tallied, LabelsOf
<1>2. S \in SUBSET Labels /\ IsFiniteSet(S) /\ "unknown" \notin Labels
  BY BackingFacts, LabelsAreFew DEF Labels
<1>3. \A l \in Labels : v[l] = Backing(h, l) /\ v[l] \in Nat /\ (l \notin S => v[l] = 0)
  BY <1>2, BackingFacts
<1>4. Total(h) = Sum(of, S)
  BY <1>1 DEF Total, SumFunction, Sum
<1>5. Summable(of, S) /\ Summable(v, S) /\ Summable(v, Labels)
  BY <1>1, <1>2, <1>3, LabelsAreFew DEF Summable
<1>6. \A l \in S : of[l] = v[l]
  BY <1>1, <1>2, <1>3
<1> HIDE DEF of, v, S
<1>7. Sum(of, S) = Sum(v, S)
  <2>1. Sum(of, S) <= Sum(v, S) /\ Sum(v, S) <= Sum(of, S)
    <3>1. \A l \in S : of[l] <= v[l] /\ v[l] <= of[l]
      BY <1>5, <1>6 DEF Summable
    <3>. QED
      BY <1>5, <3>1, SumMonotone
  <2>2. Sum(of, S) \in Int /\ Sum(v, S) \in Int
    BY <1>5, SumStep
  <2>. QED
    BY <2>1, <2>2
<1>8. Sum(v, Labels) = Sum(v, S)
  <2>1. \A l \in Labels \ S : v[l] <= 0 /\ v[l] >= 0
    BY <1>3
  <2>2. Sum(v, Labels) <= Sum(v, S) /\ Sum(v, Labels) >= Sum(v, S)
    BY <1>2, <1>5, <2>1, SumExtends
  <2>3. Sum(v, S) \in Int /\ Sum(v, Labels) \in Int
    BY <1>5, SumStep
  <2>. QED
    BY <2>2, <2>3
<1>9. Total(h) = Backing(h, "bird") + Backing(h, "drone") + Backing(h, "aircraft") + Backing(h, "friendly")
  <2>1. Sum(v, Labels) = v["bird"] + v["drone"] + v["aircraft"] + v["friendly"]
    BY <1>3, SumOfFour
  <2>2. {"bird", "drone", "aircraft", "friendly"} \subseteq Labels
    BY DEF Labels
  <2>. QED
    BY <1>3, <1>4, <1>7, <1>8, <2>1, <2>2
<1>10. Sum(v, Labels) \in Nat /\ \A l \in Labels : v[l] <= Sum(v, Labels)
  BY <1>3, <1>5, SumOfNothing
<1>11. ASSUME NEW i \in DOMAIN h, DetectionLabel(h[i]) # "unknown", Weight(h[i]) > 0
       PROVE  Total(h) > 0
  <2> DEFINE l == DetectionLabel(h[i])
             V == Voters(h, Len(h), l)
  <2>1. i \in 1 .. Len(h) /\ Len(h) \in 0 .. Len(h) /\ l \in Labels /\ Weight(h[i]) \in Nat
    BY <1>11, HistoryFacts
  <2>2. i \in V /\ Weights(h)[i] = Weight(h[i]) /\ \A x \in V : Weights(h)[x] >= 0
    BY <2>1, HistoryFacts DEF Voters, Weights
  <2>3. Summable(Weights(h), V) /\ Backing(h, l) = Sum(Weights(h), V)
    BY <2>1, VotersSum, BackingFacts
  <2> HIDE DEF V, l
  <2>4. Weight(h[i]) <= Backing(h, l)
    BY <2>2, <2>3, SumOfNothing
  <2>5. Backing(h, l) <= Total(h) /\ Backing(h, l) \in Nat
    BY <1>3, <1>4, <1>7, <1>8, <1>10, <2>1
  <2>. QED
    BY <1>4, <1>7, <1>8, <1>10, <1>11, <2>1, <2>4, <2>5
<1>12. ASSUME \A i \in DOMAIN h : DetectionLabel(h[i]) = "unknown" \/ ~(Weight(h[i]) > 0)
       PROVE  Total(h) = 0
  <2>1. ASSUME NEW l \in Labels
        PROVE  v[l] = 0
    <3> DEFINE V == Voters(h, Len(h), l)
    <3>1. Len(h) \in 0 .. Len(h)
      BY HistoryFacts
    <3>2. Summable(Weights(h), V) /\ Backing(h, l) = Sum(Weights(h), V)
      BY <3>1, VotersSum, BackingFacts
    <3>3. \A x \in V : Weights(h)[x] = 0
      BY <1>2, <1>12, HistoryFacts DEF Voters, Weights
    <3> HIDE DEF V
    <3>. QED
      BY <1>3, <3>2, <3>3, SumOfNothing
  <2>2. Sum(v, Labels) = 0
    BY <1>5, <2>1, SumOfNothing
  <2>. QED
    BY <1>4, <1>7, <1>8, <2>2
<1>. QED
  BY <1>4, <1>7, <1>8, <1>9, <1>10, <1>11, <1>12

LEMMA ConfidenceIs ==
  ASSUME NEW h \in Seq(Filed), NEW l \in Labels
  PROVE  ClassificationConfidence(h, l) = IF Total(h) <= 0 THEN {} ELSE {(100 * Backing(h, l)) \div Total(h)}
<1> DEFINE of == ClassificationWeights(h).of
           b == IF l \in DOMAIN of THEN of[l] ELSE 0
<1>1. of \in [LabelsOf(h) -> Nat] /\ \A m \in LabelsOf(h) : of[m] = Backing(h, m)
  BY VotesAreTallied, BackingFacts DEF Tallied, LabelsOf
<1>2. l # "unknown"
  BY DEF Labels
<1>3. l \notin LabelsOf(h) => Backing(h, l) = 0
  BY <1>2, BackingFacts
<1>4. b = Backing(h, l)
  BY <1>1, <1>3
<1>5. ClassificationConfidence(h, l) = IF Total(h) <= 0 THEN {} ELSE {(100 * b) \div Total(h)}
  BY <1>2 DEF ClassificationConfidence, Total
<1>. QED
  BY <1>4, <1>5

LEMMA Shares ==
  ASSUME NEW h \in Seq(Filed), Total(h) > 0, NEW share,
         share = [l \in Labels |-> Max(ClassificationConfidence(h, l))]
  PROVE  /\ \A l \in Labels : /\ ClassificationConfidence(h, l) = {share[l]}
                              /\ share[l] <= share[FuseClassification(h)]
         /\ SumFunction(share) \in 97..100
<1> DEFINE t == Total(h)
           b == [l \in Labels |-> Backing(h, l)]
           w == FuseClassification(h)
<1>1. t \in Nat \ {0} /\ t = b["bird"] + b["drone"] + b["aircraft"] + b["friendly"]
  <2>1. {"bird", "drone", "aircraft", "friendly"} \subseteq Labels
    BY DEF Labels
  <2>. QED
    BY <2>1, TotalFacts
<1>2. \A l \in Labels : b[l] \in Nat /\ b[l] = Backing(h, l)
  BY BackingFacts
<1>3. w \in Labels /\ \A l \in Labels : b[l] <= b[w]
  <2>1. \E i \in DOMAIN h : DetectionLabel(h[i]) # "unknown"
    BY TotalFacts
  <2>2. w \in LabelsOf(h) /\ \A l \in Labels : Backing(h, l) <= Backing(h, w)
    BY <2>1, WinnerIsHeaviest
  <2>. QED
    BY <2>2, BackingFacts
<1>4. \A l \in Labels : ClassificationConfidence(h, l) = {(100 * b[l]) \div t}
  <2> SUFFICES ASSUME NEW l \in Labels
               PROVE  ClassificationConfidence(h, l) = {(100 * b[l]) \div t}
    OBVIOUS
  <2>1. ~(Total(h) <= 0) /\ b[l] = Backing(h, l)
    BY <1>1, <1>2
  <2>. QED
    BY <2>1, ConfidenceIs, Zenon
<1> HIDE DEF t, b, w
<1>5. \A n \in Nat : 100 * n \in Nat
  OBVIOUS
<1>6. \A l \in Labels : (100 * b[l]) \div t \in Nat
  BY <1>1, <1>2, <1>5, Floors
<1>7. \A n \in Int : Max({n}) = n
  <2>1. \A n \in Int : Max({n, n}) = n
    BY MaxOfTwo
  <2>2. \A n : {n, n} = {n}
    OBVIOUS
  <2>. QED
    BY <2>1, <2>2
<1>8. \A l \in Labels : share[l] = (100 * b[l]) \div t /\ share[l] \in Int
  BY <1>4, <1>6, <1>7
<1>9. \A l \in Labels : share[l] <= share[w]
  <2> SUFFICES ASSUME NEW l \in Labels PROVE share[l] <= share[w]
    OBVIOUS
  <2>1. 100 * b[l] <= 100 * b[w] /\ 100 * b[l] \in Nat /\ 100 * b[w] \in Nat
    BY <1>2, <1>3
  <2>2. (100 * b[l]) \div t <= (100 * b[w]) \div t
    BY <1>1, <2>1, FloorsGrow
  <2>. QED
    BY <1>3, <1>8, <2>2
<1>10. SumFunction(share) \in 97..100
  <2>1. Sum(share, Labels) = share["bird"] + share["drone"] + share["aircraft"] + share["friendly"]
    BY <1>8, SumOfFour
  <2>3. share["bird"] + share["drone"] + share["aircraft"] + share["friendly"] \in 97..100
    <3>1. RoundedShares(share, b, t)
      BY <1>1, <1>2, <1>8 DEF RoundedShares
    <3>. QED
      BY <3>1, FourFloors
  <2>4. SumFunction(share) = Sum(share, Labels)
    BY DEF SumFunction, Sum
  <2>. QED
    BY <2>1, <2>3, <2>4
<1>. QED
  BY <1>4, <1>8, <1>9, <1>10 DEF w

LEMMA VotesAreFairOf ==
  ASSUME history \in Seq(Filed)
  PROVE  VoteIsFair
<1>1. TheHeaviestWins
  BY WinnerIsHeaviest DEF TheHeaviestWins
<1>2. SharesAreWhole
  <2>1. CASE Total(history) > 0
    <3> DEFINE share == [l \in Labels |-> Max(ClassificationConfidence(history, l))]
    <3>1. /\ \A l \in Labels : /\ ClassificationConfidence(history, l) = {share[l]}
                               /\ share[l] <= share[FuseClassification(history)]
          /\ SumFunction(share) \in 97..100
      BY <2>1, Shares
    <3>2. \E i \in DOMAIN history : DetectionLabel(history[i]) # "unknown" /\ Weight(history[i]) > 0
      BY <2>1, TotalFacts
    <3>. QED
      BY <3>1, <3>2 DEF SharesAreWhole
  <2>2. CASE ~(Total(history) > 0)
    <3>1. Total(history) <= 0 /\ ~ \E i \in DOMAIN history : DetectionLabel(history[i]) # "unknown" /\ Weight(history[i]) > 0
      BY <2>2, TotalFacts
    <3>2. \A l \in Labels : ClassificationConfidence(history, l) = {}
      BY <3>1, ConfidenceIs
    <3>. QED
      BY <3>1, <3>2 DEF SharesAreWhole
  <2>. QED
    BY <2>1, <2>2
<1>3. NoneFlipsAlone
  BY FlipNeedsBacking DEF NoneFlipsAlone
<1>. QED
  BY <1>1, <1>2, <1>3 DEF VoteIsFair

-----------------------------------------------------------------------------
(* What else a label rests on. *)

Elapsed(age) == IF age <= 0 THEN 0 ELSE IF age >= 300 THEN 300 ELSE age

LEMMA DecayIs ==
  ASSUME NEW raw, NEW age \in Int
  PROVE  Elapsed(age) \in 0..300 /\ Decayed(raw, age) = raw * 300 + (30 - raw) * Elapsed(age)
<1>1. Max({0, age}) = IF 0 >= age THEN 0 ELSE age
  BY MaxOfTwo
<1>2. Max({0, age}) \in Int /\ DecaySeconds \in Int
  BY <1>1 DEF DecaySeconds
<1>3. Min({DecaySeconds, Max({0, age})}) = IF DecaySeconds <= Max({0, age}) THEN DecaySeconds ELSE Max({0, age})
  BY <1>2, MinOfTwo
<1>4. Min({DecaySeconds, Max({0, age})}) = Elapsed(age) /\ Elapsed(age) \in 0..300
  BY <1>1, <1>3 DEF DecaySeconds, Elapsed
<1>5. DecaySeconds = 300 /\ Floor = 30
  BY DEF Floor, DecaySeconds
<1>. QED
  BY <1>4, <1>5 DEF Decayed

LEMMA DecayHolds == DecayIsSteady
<1> SUFFICES ASSUME NEW raw \in {0, Floor, 50, 100}, NEW age \in Age, NEW later \in Age
             PROVE  LET end == Floor * DecaySeconds
                        start == raw * DecaySeconds
                        Between(x, y, z) == Within(y, <<Min({x, z}), Max({x, z})>>) IN
                    /\ Between(start, Decayed(raw, age), end)
                    /\ age <= later => Between(Decayed(raw, age), Decayed(raw, later), end)
                    /\ age <= 0 => Decayed(raw, age) = start
  BY DEF DecayIsSteady
<1>1. raw \in {0, 30, 50, 100} /\ age \in Int /\ later \in Int
  BY FusionAssumption DEF Floor
<1> DEFINE e == Elapsed(age)
           f == Elapsed(later)
           p == Decayed(raw, age)
           q == Decayed(raw, later)
           start == raw * DecaySeconds
           end == Floor * DecaySeconds
<1>2. /\ e \in 0..300 /\ p = raw * 300 + (30 - raw) * e
      /\ f \in 0..300 /\ q = raw * 300 + (30 - raw) * f
  BY <1>1, DecayIs
<1>3. (age <= later => e <= f) /\ (age <= 0 => e = 0)
  BY <1>1 DEF Elapsed
<1>4. start = raw * 300 /\ end = 9000
  BY DEF Floor, DecaySeconds
<1> HIDE DEF e, f, p, q, start, end
<1>5. /\ p \in Int /\ q \in Int /\ start \in Int /\ end \in Int
      /\ p \in start .. end \/ p \in end .. start
      /\ e <= f => q \in p .. end \/ q \in end .. p
      /\ e = 0 => p = start
  <2>1. CASE raw = 0
    BY <1>2, <1>4, <2>1
  <2>2. CASE raw = 30
    BY <1>2, <1>4, <2>2
  <2>3. CASE raw = 50
    BY <1>2, <1>4, <2>3
  <2>4. CASE raw = 100
    BY <1>2, <1>4, <2>4
  <2>. QED
    BY <1>1, <2>1, <2>2, <2>3, <2>4
<1>6. ASSUME NEW x \in Int, NEW y \in Int, NEW z \in Int, y \in x .. z \/ y \in z .. x
      PROVE  Within(y, <<Min({x, z}), Max({x, z})>>)
  <2>1. Min({x, z}) = (IF x <= z THEN x ELSE z) /\ Max({x, z}) = IF x >= z THEN x ELSE z
    BY MinOfTwo, MaxOfTwo
  <2>. QED
    BY <1>6, <2>1 DEF Within
<1>7. Within(p, <<Min({start, end}), Max({start, end})>>)
  BY <1>5, <1>6
<1>8. age <= later => Within(q, <<Min({p, end}), Max({p, end})>>)
  BY <1>3, <1>5, <1>6
<1>9. age <= 0 => p = start
  BY <1>3, <1>5
<1>. QED
  BY <1>7, <1>8, <1>9 DEF p, q, start, end

LEMMA SignaturesHold == SignaturesAreBound
<1> SUFFICES ASSUME NEW d \in Evidence
             PROVE  IsAuthorizedDetection(Georeference(d)) <=>
                      \E o \in DOMAIN Operators :
                        \E claim \in d.claim : claim = [operator |-> o, key |-> Operators[o], message |-> <<o, d.sensor, d.time, d.place>>]
  BY DEF SignaturesAreBound
<1> DEFINE g == Georeference(d)
<1>1. d.georeferenced = FALSE /\ d.claim \subseteq OperatorClaim
  BY FusionAssumption
<1>2. g.claim = d.claim /\ \A o : CanonicalMessage(o, g) = <<o, d.sensor, d.time, d.place>>
  <2>1. d \in [type : DOMAIN SensorTrust, confidence : 0..100, signal : Signal, sensor : STRING, time : Int,
               place : SUBSET STRING, bearing : BOOLEAN, georeferenced : {FALSE}, claim : SUBSET OperatorClaim]
    BY FusionAssumption
  <2>2. CASE d.place = {} /\ d.bearing /\ d.sensor \in Registered
    <3>1. g = [d EXCEPT !.place = {Estimate}, !.georeferenced = TRUE]
      BY <2>2 DEF Georeference
    <3>2. g.claim = d.claim /\ g.sensor = d.sensor /\ g.time = d.time /\ g.georeferenced = TRUE
      BY <2>1, <3>1
    <3>. QED
      BY <2>2, <3>2 DEF CanonicalMessage
  <2>3. CASE ~(d.place = {} /\ d.bearing /\ d.sensor \in Registered)
    <3>1. g = d
      BY <2>3 DEF Georeference
    <3>. QED
      BY <1>1, <3>1 DEF CanonicalMessage
  <2>. QED
    BY <2>2, <2>3
<1>3. IsAuthorizedDetection(g) <=>
        \E claim \in d.claim :
          /\ claim.operator \in DOMAIN Operators
          /\ claim.key = Operators[claim.operator]
          /\ claim.message = <<claim.operator, d.sensor, d.time, d.place>>
  BY <1>2 DEF IsAuthorizedDetection
<1> HIDE DEF g
<1>4. \A claim \in d.claim :
        claim = [operator |-> claim.operator, key |-> claim.key, message |-> claim.message]
  BY <1>1 DEF OperatorClaim
<1>5. IsAuthorizedDetection(g) <=>
        \E o \in DOMAIN Operators :
          \E claim \in d.claim : claim = [operator |-> o, key |-> Operators[o], message |-> <<o, d.sensor, d.time, d.place>>]
  <2>1. ASSUME NEW claim \in d.claim,
               claim.operator \in DOMAIN Operators,
               claim.key = Operators[claim.operator],
               claim.message = <<claim.operator, d.sensor, d.time, d.place>>
        PROVE  \E o \in DOMAIN Operators :
                 claim = [operator |-> o, key |-> Operators[o], message |-> <<o, d.sensor, d.time, d.place>>]
    BY <1>4, <2>1
  <2>2. ASSUME NEW o \in DOMAIN Operators, NEW claim \in d.claim,
               claim = [operator |-> o, key |-> Operators[o], message |-> <<o, d.sensor, d.time, d.place>>]
        PROVE  /\ claim.operator \in DOMAIN Operators
               /\ claim.key = Operators[claim.operator]
               /\ claim.message = <<claim.operator, d.sensor, d.time, d.place>>
    BY <2>2
  <2>. QED
    BY <1>3, <2>1, <2>2
<1>. QED
  BY <1>5 DEF g

LEMMA OperatorHolds == OperatorDecides
<1> SUFFICES ASSUME NEW i \in DOMAIN history, NEW j \in DOMAIN OperatorSignatures,
                    Fits(history[i].signal, OperatorSignatures[j])
             PROVE  MatchRfSignature(history[i].signal) \in {OperatorSignatures[k].confidence : k \in 1..j}
  BY DEF OperatorDecides
<1> DEFINE signal == history[i].signal
<1> HIDE DEF signal
<1>1. j \in Fitting(signal)
  BY LibraryFacts DEF Fitting, signal
<1> DEFINE k == Min(Fitting(signal))
<1>2. k \in Fitting(signal) /\ k <= j /\ MatchRfSignature(signal) = Library[k].confidence
  BY <1>1, FirstFits
<1> HIDE DEF k
<1>3. DOMAIN OperatorSignatures = 1 .. Len(OperatorSignatures) /\ Len(OperatorSignatures) \in Nat
  BY LibraryFacts, LenProperties
<1>4. k \in Nat \ {0}
  BY <1>2, LibraryFacts DEF Fitting
<1>5. k \in 1..j /\ k \in DOMAIN OperatorSignatures
  BY <1>2, <1>3, <1>4
<1>6. Library[k] = OperatorSignatures[k]
  BY <1>5, LibraryFacts
<1>. QED
  BY <1>2, <1>5, <1>6 DEF signal

-----------------------------------------------------------------------------
(* Every history the program can hold is one of such detections. *)

FusionSpec == FusionInit /\ [][FusionNext]_history

LEMMA CommitFiles ==
  ASSUME history \in Seq(Filed), NEW d \in Filed, Commit(d)
  PROVE  history' \in Seq(Filed)
<1>1. PICK i \in 1 .. Len(history) + 1 :
        history' = SubSeq(InsertAt(history, i, d), 1, Min({MaxHistory, Len(InsertAt(history, i, d))}))
  BY DEF Commit
<1> DEFINE all == InsertAt(history, i, d)
<1>2. Len(history) \in Nat
  BY LenProperties
<1>3. /\ SubSeq(history, 1, i-1) \in Seq(Filed)
      /\ SubSeq(history, i, Len(history)) \in Seq(Filed)
  BY <1>2, SubSeqProperties
<1>4. all = SubSeq(history, 1, i-1) \o <<d>> \o SubSeq(history, i, Len(history))
  BY DEF InsertAt
<1>5. <<d>> \in Seq(Filed)
  OBVIOUS
<1>6. all \in Seq(Filed)
  BY <1>3, <1>4, <1>5, ConcatProperties
<1> HIDE DEF all
<1>7. Len(all) \in Nat /\ MaxHistory \in Nat \ {0}
  BY <1>6, LenProperties, FusionAssumption
<1>8. Min({MaxHistory, Len(all)}) \in 0 .. Len(all)
  BY <1>7, MinOfTwo
<1> DEFINE n == Min({MaxHistory, Len(all)})
<1> HIDE DEF n
<1>9. n \in Int /\ \A j \in 1 .. n : all[j] \in Filed
  <2>1. n \in 0 .. Len(all)
    BY <1>8 DEF n
  <2>. QED
    BY <1>6, <1>7, <2>1, ElementOfSeq
<1>10. SubSeq(all, 1, n) \in Seq(Filed)
  BY <1>9, SubSeqProperties
<1>. QED
  BY <1>1, <1>10 DEF all, n

\* Whatever detections a track has been given, in whatever order: the label it
\* is shown with has the most evidence behind it, the confidences make up the
\* whole, no detection turns the label without outweighing the lead of the one
\* before, what a reader is told moves steadily to the floor, the operator's
\* own RF signatures decide, and only what an operator signed is friendly
\* (fuse_classification, classification_confidence, match_rf_signature,
\* is_authorized_detection).
THEOREM VotesAreFair == FusionSpec => []VoteRules
<1>1. FusionInit => history \in Seq(Filed)
  BY DEF FusionInit
<1>2. history \in Seq(Filed) /\ [FusionNext]_history => (history \in Seq(Filed))'
  <2> SUFFICES ASSUME history \in Seq(Filed), [FusionNext]_history
               PROVE  history' \in Seq(Filed)
    OBVIOUS
  <2>1. ASSUME NEW d \in Evidence, Commit(Georeference(d))
        PROVE  history' \in Seq(Filed)
    BY <2>1, CommitFiles DEF Filed
  <2>2. CASE UNCHANGED history
    BY <2>2
  <2>. QED
    BY <2>1, <2>2 DEF FusionNext
<1>3. history \in Seq(Filed) => VoteRules
  BY VotesAreFairOf, DecayHolds, SignaturesHold, OperatorHolds DEF VoteRules
<1>. QED
  BY <1>1, <1>2, <1>3, PTL DEF FusionSpec
=============================================================================
