------------------------------ MODULE SumProofs ------------------------------
(***************************************************************************)
(* Induction and recursion for the other proof modules.  A theorem with a  *)
(* predicate for a parameter cannot be applied here, so each principle is  *)
(* stated for a set: the set of the elements for which the claim holds.    *)
(* From them follow the existence of functions defined by recursion and    *)
(* what SumFunctionOnSet computes over any finite set.                     *)
(***************************************************************************)
EXTENDS Functions, FiniteSetTheorems, TLAPS

(* A set of numbers with 0 and every successor is all of Nat. *)
LEMMA NumbersByInduction ==
  ASSUME NEW G \in SUBSET Nat, 0 \in G, \A n \in G : n + 1 \in G
  PROVE  G = Nat
<1> SUFFICES ASSUME Nat \ G # {} PROVE FALSE
  OBVIOUS
<1>1. PICK n \in Nat \ G : \A m \in Nat \ G : <<m, n>> \notin OpToRel(<, Nat)
  BY NatLessThanWellFounded, WFMin
<1>2. n # 0 /\ n - 1 \in Nat
  OBVIOUS
<1>3. <<n - 1, n>> \in OpToRel(<, Nat)
  BY <1>2 DEF OpToRel
<1>4. n - 1 \in G
  BY <1>1, <1>2, <1>3
<1>5. (n - 1) + 1 = n
  OBVIOUS
<1> QED
  BY <1>4, <1>5

(* A non-empty set of numbers has a smallest. *)
LEMMA SmallestNumber ==
  ASSUME NEW G \in SUBSET Nat, G # {}
  PROVE  \E n \in G : \A m \in G : n <= m
<1>1. PICK n \in G : \A m \in G : <<m, n>> \notin OpToRel(<, Nat)
  BY NatLessThanWellFounded, WFMin
<1>2. \A m \in G : ~(m < n)
  BY <1>1 DEF OpToRel
<1> QED
  BY <1>2

(* A set of subsets of a finite S that has every T which it has without any *)
(* one of its elements has all the subsets of S.                            *)
LEMMA SubsetsFromSmaller ==
  ASSUME NEW S, IsFiniteSet(S), NEW G \in SUBSET SUBSET S,
         \A T \in SUBSET S : (\A x \in T : T \ {x} \in G) => T \in G
  PROVE  G = SUBSET S
<1> SUFFICES ASSUME (SUBSET S) \ G # {} PROVE FALSE
  OBVIOUS
<1> DEFINE Size == {Cardinality(T) : T \in (SUBSET S) \ G}
<1>1. \A T \in SUBSET S : IsFiniteSet(T) /\ Cardinality(T) \in Nat
  BY FS_Subset, FS_CardinalityType
<1>2. Size \in SUBSET Nat /\ Size # {}
  BY <1>1
<1>3. PICK n \in Size : \A m \in Size : n <= m
  <2> HIDE DEF Size
  <2> QED
    BY <1>2, SmallestNumber
<1>4. PICK T \in (SUBSET S) \ G : n = Cardinality(T)
  BY <1>3
<1>5. ASSUME NEW x \in T PROVE T \ {x} \in G
  <2>1. T \ {x} \in SUBSET S
    OBVIOUS
  <2>2. Cardinality(T \ {x}) = Cardinality(T) - 1
    BY <1>1, FS_RemoveElement
  <2>3. ~(n <= Cardinality(T \ {x}))
    BY <1>1, <1>4, <2>1, <2>2
  <2> QED
    BY <1>3, <2>1, <2>3
<1> QED
  BY <1>4, <1>5

(* One that has {} and, with each of its members, the member and one more   *)
(* element.                                                                 *)
LEMMA SubsetsByInduction ==
  ASSUME NEW S, IsFiniteSet(S), NEW G \in SUBSET SUBSET S,
         {} \in G, \A T \in G : \A x \in S \ T : T \cup {x} \in G
  PROVE  G = SUBSET S
<1>1. ASSUME NEW T \in SUBSET S, \A x \in T : T \ {x} \in G PROVE T \in G
  <2>1. ASSUME NEW x \in T PROVE T \in G
    <3>1. (T \ {x}) \cup {x} = T /\ x \in S \ (T \ {x}) /\ T \ {x} \in G
      BY <1>1
    <3> QED
      BY <3>1
  <2> QED
    BY <2>1
<1> QED
  BY <1>1, SubsetsFromSmaller
-----------------------------------------------------------------------------
(* Recursion over the numbers: from the first value, step gives the next.   *)

Unfolds(h, n, S, first, step) ==
    h \in [0 .. n -> S] /\ h[0] = first /\ \A i \in 0 .. n - 1 : h[i + 1] = step[i][h[i]]

LEMMA UnfoldsOnce ==
  ASSUME NEW S, NEW first, NEW step,
         NEW n \in Nat, NEW g, Unfolds(g, n, S, first, step),
         NEW m \in Nat, NEW h, Unfolds(h, m, S, first, step), n <= m
  PROVE  \A i \in 0 .. n : g[i] = h[i]
<1> DEFINE G == {i \in Nat : i <= n => g[i] = h[i]}
<1>1. 0 \in G
  BY DEF Unfolds
<1>2. ASSUME NEW i \in G PROVE i + 1 \in G
  <2> SUFFICES ASSUME i + 1 <= n PROVE g[i + 1] = h[i + 1]
    OBVIOUS
  <2>1. i \in 0 .. n - 1 /\ i \in 0 .. m - 1 /\ g[i] = h[i]
    OBVIOUS
  <2> QED
    BY <2>1 DEF Unfolds
<1>3. G = Nat
  <2> HIDE DEF G
  <2>1. G \in SUBSET Nat
    BY DEF G
  <2> QED
    BY <1>1, <1>2, <2>1, NumbersByInduction
<1>4. \A i \in 0 .. n : i \in G /\ i <= n
  BY <1>3
<1> QED
  BY <1>4

LEMMA UnfoldsAnyLength ==
  ASSUME NEW S, NEW first \in S, NEW step \in [Nat -> [S -> S]]
  PROVE  \A n \in Nat : \E h : Unfolds(h, n, S, first, step)
<1> DEFINE G == {n \in Nat : \E h : Unfolds(h, n, S, first, step)}
<1>1. 0 \in G
  <2>1. Unfolds([i \in 0 .. 0 |-> first], 0, S, first, step)
    BY DEF Unfolds
  <2> QED
    BY <2>1
<1>2. ASSUME NEW n \in G PROVE n + 1 \in G
  <2>1. PICK h : Unfolds(h, n, S, first, step)
    OBVIOUS
  <2> DEFINE g == [i \in 0 .. n + 1 |-> IF i = n + 1 THEN step[n][h[n]] ELSE h[i]]
  <2>2. g \in [0 .. n + 1 -> S]
    BY <2>1 DEF Unfolds
  <2>3. g[0] = first
    BY <2>1 DEF Unfolds
  <2>4. ASSUME NEW i \in 0 .. (n + 1) - 1 PROVE g[i + 1] = step[i][g[i]]
    <3>1. CASE i = n
      BY <3>1
    <3>2. CASE i # n
      <4>1. i \in 0 .. n - 1 /\ i + 1 \in 0 .. n /\ i \in 0 .. n
        BY <3>2
      <4> QED
        BY <2>1, <4>1 DEF Unfolds
    <3> QED
      BY <3>1, <3>2
  <2> HIDE DEF g
  <2>5. Unfolds(g, n + 1, S, first, step)
    BY <2>2, <2>3, <2>4 DEF Unfolds
  <2>6. n + 1 \in Nat
    OBVIOUS
  <2> QED
    BY <2>5, <2>6
<1>3. G = Nat
  <2> HIDE DEF G
  <2>1. G \in SUBSET Nat
    BY DEF G
  <2> QED
    BY <1>1, <1>2, <2>1, NumbersByInduction
<1> QED
  BY <1>3

(* A function on all of Nat is defined by its first value and its step.     *)
Steps(S) == [Nat -> [S -> S]]

Follows(f, S, first, step) ==
    f \in [Nat -> S] /\ f[0] = first /\ \A n \in Nat : f[n + 1] = step[n][f[n]]

LEMMA Recursion ==
  ASSUME NEW S, NEW first \in S, NEW step \in Steps(S)
  PROVE  \E f : Follows(f, S, first, step)
<1> USE DEF Steps
<1> DEFINE upTo(n) == CHOOSE h : Unfolds(h, n, S, first, step)
           f == [n \in Nat |-> upTo(n)[n]]
<1>1. \A n \in Nat : Unfolds(upTo(n), n, S, first, step)
  BY UnfoldsAnyLength
<1> HIDE DEF upTo
<1>2. ASSUME NEW n \in Nat PROVE f[n] \in S
  BY <1>1 DEF Unfolds
<1>3. f[0] = first
  BY <1>1 DEF Unfolds
<1>4. ASSUME NEW n \in Nat PROVE f[n + 1] = step[n][f[n]]
  <2>1. n + 1 \in Nat /\ n <= n + 1 /\ n \in 0 .. (n + 1) - 1 /\ n \in 0 .. n
    OBVIOUS
  <2>2. \A i \in 0 .. n : upTo(n)[i] = upTo(n + 1)[i]
    BY <1>1, <2>1, UnfoldsOnce
  <2>3. upTo(n + 1)[n + 1] = step[n][upTo(n + 1)[n]]
    BY <1>1, <2>1 DEF Unfolds
  <2> QED
    BY <2>1, <2>2, <2>3
<1>5. f \in [Nat -> S]
  BY <1>2
<1> QED
  BY <1>3, <1>4, <1>5 DEF Follows
-----------------------------------------------------------------------------
(* Sums.  A table h of the sums of f over the subsets of S adds one element *)
(* at a time, in whatever order; SumFunctionOnSet, which takes them in one  *)
(* order, computes what the table says.                                     *)

Totals(h, f, S) ==
    h[{}] = 0 /\ \A U \in SUBSET S : \A x \in U : h[U] = f[x] + h[U \ {x}]

LEMMA TableOfTotals ==
  ASSUME NEW S, IsFiniteSet(S), NEW f, \A x \in S : f[x] \in Int
  PROVE  \E h \in [SUBSET S -> Int] : Totals(h, f, S)
<1> DEFINE G == {T \in SUBSET S : \E h \in [SUBSET T -> Int] : Totals(h, f, T)}
<1>1. {} \in G
  <2>1. [U \in SUBSET {} |-> 0] \in [SUBSET {} -> Int]
    OBVIOUS
  <2>2. Totals([U \in SUBSET {} |-> 0], f, {})
    BY DEF Totals
  <2> QED
    BY <2>1, <2>2
<1>2. ASSUME NEW T \in G, NEW y \in S \ T PROVE T \cup {y} \in G
  <2>1. PICK h \in [SUBSET T -> Int] : Totals(h, f, T)
    OBVIOUS
  <2> DEFINE g == [U \in SUBSET (T \cup {y}) |-> IF y \in U THEN f[y] + h[U \ {y}] ELSE h[U]]
  <2>2. \A U \in SUBSET (T \cup {y}) : U \ {y} \in SUBSET T /\ h[U \ {y}] \in Int
    OBVIOUS
  <2>3. \A U \in SUBSET T : h[U] \in Int
    OBVIOUS
  <2>4. g \in [SUBSET (T \cup {y}) -> Int]
    BY <2>2, <2>3
  <2>5. \A U \in SUBSET T : y \notin U /\ U \in SUBSET (T \cup {y}) /\ g[U] = h[U]
    OBVIOUS
  <2>6. \A U \in SUBSET (T \cup {y}) : y \in U => g[U] = f[y] + h[U \ {y}]
    OBVIOUS
  <2> HIDE DEF g
  <2>7. ASSUME NEW U \in SUBSET (T \cup {y}), NEW x \in U PROVE g[U] = f[x] + g[U \ {x}]
    <3>1. CASE x = y
      BY <2>2, <2>5, <2>6, <3>1
    <3>2. CASE x # y /\ y \in U
      <4>1. /\ U \ {x} \in SUBSET (T \cup {y}) /\ y \in U \ {x} /\ x \in U \ {y}
            /\ (U \ {x}) \ {y} = (U \ {y}) \ {x} /\ (U \ {y}) \ {x} \in SUBSET T
        BY <3>2
      <4>2. g[U] = f[y] + h[U \ {y}] /\ g[U \ {x}] = f[y] + h[(U \ {y}) \ {x}]
        BY <2>6, <3>2, <4>1
      <4>3. h[U \ {y}] = f[x] + h[(U \ {y}) \ {x}]
        BY <2>1, <2>2, <4>1 DEF Totals
      <4>4. f[x] \in Int /\ f[y] \in Int /\ h[(U \ {y}) \ {x}] \in Int
        BY <2>3, <4>1
      <4> QED
        BY <4>2, <4>3, <4>4
    <3>3. CASE y \notin U
      <4>1. U \in SUBSET T /\ U \ {x} \in SUBSET T
        BY <3>3
      <4>2. h[U] = f[x] + h[U \ {x}]
        BY <2>1, <4>1 DEF Totals
      <4> QED
        BY <2>5, <4>1, <4>2
    <3> QED
      BY <3>1, <3>2, <3>3
  <2>8. Totals(g, f, T \cup {y})
    <3>1. g[{}] = 0
      BY <2>1, <2>5 DEF Totals
    <3> QED
      BY <2>7, <3>1 DEF Totals
  <2> QED
    BY <2>4, <2>8
<1>3. S \in G
  <2> HIDE DEF G
  <2>1. G \in SUBSET SUBSET S
    BY DEF G
  <2>2. G = SUBSET S
    BY <1>1, <1>2, <2>1, SubsetsByInduction
  <2> QED
    BY <2>2
<1> QED
  BY <1>3

LEMMA SumIsTotal ==
  ASSUME NEW S, IsFiniteSet(S), NEW f, \A x \in S : f[x] \in Int,
         NEW h \in [SUBSET S -> Int], Totals(h, f, S)
  PROVE  SumFunctionOnSet(f, S) = h[S]
<1> DEFINE any(s) == CHOOSE x \in s : TRUE
           iterates(k) == k = [s \in SUBSET S |-> IF s = {} THEN 0 ELSE f[any(s)] + k[s \ {any(s)}]]
           k == CHOOSE k : iterates(k)
<1>1. \A s \in SUBSET S : s # {} => any(s) \in s /\ s \ {any(s)} \in SUBSET S
  OBVIOUS
<1>2. SumFunctionOnSet(f, S) = k[S]
  BY DEF SumFunctionOnSet, FoldFunctionOnSet, MapThenFoldSet
<1> HIDE DEF any
<1>3. iterates(h)
  <2>1. \A s \in SUBSET S : h[s] = IF s = {} THEN 0 ELSE f[any(s)] + h[s \ {any(s)}]
    BY <1>1 DEF Totals
  <2> QED
    BY <2>1
<1>4. iterates(k)
  <2> HIDE DEF iterates
  <2> QED
    BY <1>3
<1> HIDE DEF k
<1> DEFINE G == {T \in SUBSET S : k[T] = h[T]}
<1>5. ASSUME NEW T \in SUBSET S, \A x \in T : T \ {x} \in G PROVE T \in G
  <2>1. CASE T = {}
    BY <1>4, <2>1 DEF Totals
  <2>2. CASE T # {}
    <3>1. any(T) \in T /\ T \ {any(T)} \in G
      BY <1>1, <1>5, <2>2
    <3>2. k[T] = f[any(T)] + k[T \ {any(T)}]
      BY <1>4, <2>2
    <3>3. h[T] = f[any(T)] + h[T \ {any(T)}]
      BY <3>1 DEF Totals
    <3> QED
      BY <3>1, <3>2, <3>3
  <2> QED
    BY <2>1, <2>2
<1>6. S \in G
  <2> HIDE DEF G
  <2>1. G \in SUBSET SUBSET S
    BY DEF G
  <2>2. G = SUBSET S
    BY <1>5, <2>1, SubsetsFromSmaller
  <2> QED
    BY <2>2
<1> QED
  BY <1>2, <1>6

(* The sum over nothing is 0, any element may be taken first, and the sum   *)
(* of integers is one.                                                      *)
LEMMA SumProperties ==
  ASSUME NEW S, IsFiniteSet(S), NEW f, \A x \in S : f[x] \in Int
  PROVE  /\ SumFunctionOnSet(f, S) \in Int
         /\ SumFunctionOnSet(f, {}) = 0
         /\ \A x \in S : SumFunctionOnSet(f, S) = f[x] + SumFunctionOnSet(f, S \ {x})
<1>1. PICK h \in [SUBSET S -> Int] : Totals(h, f, S)
  BY TableOfTotals
<1>2. ASSUME NEW T \in SUBSET S PROVE SumFunctionOnSet(f, T) = h[T]
  <2> DEFINE g == [U \in SUBSET T |-> h[U]]
  <2>1. g \in [SUBSET T -> Int]
    OBVIOUS
  <2>2. Totals(g, f, T)
    <3>1. g[{}] = 0
      BY <1>1 DEF Totals
    <3>2. ASSUME NEW U \in SUBSET T, NEW x \in U PROVE g[U] = f[x] + g[U \ {x}]
      <4>1. U \in SUBSET S /\ g[U] = h[U] /\ g[U \ {x}] = h[U \ {x}]
        OBVIOUS
      <4> QED
        BY <1>1, <4>1 DEF Totals
    <3> HIDE DEF g
    <3> QED
      BY <3>1, <3>2 DEF Totals
  <2>3. g[T] = h[T] /\ IsFiniteSet(T) /\ \A x \in T : f[x] \in Int
    BY FS_Subset
  <2> HIDE DEF g
  <2>4. SumFunctionOnSet(f, T) = g[T]
    BY <2>1, <2>2, <2>3, SumIsTotal
  <2> QED
    BY <2>3, <2>4
<1>3. h[S] \in Int /\ h[{}] = 0 /\ \A x \in S : h[S] = f[x] + h[S \ {x}]
  BY <1>1 DEF Totals
<1>4. SumFunctionOnSet(f, S) = h[S] /\ SumFunctionOnSet(f, {}) = h[{}]
  BY <1>2
<1>5. \A x \in S : SumFunctionOnSet(f, S \ {x}) = h[S \ {x}]
  BY <1>2
<1> QED
  BY <1>3, <1>4, <1>5

(* One more element. *)
LEMMA SumAddElement ==
  ASSUME NEW S, IsFiniteSet(S), NEW y, y \notin S, NEW f, \A x \in S \cup {y} : f[x] \in Int
  PROVE  SumFunctionOnSet(f, S \cup {y}) = f[y] + SumFunctionOnSet(f, S)
<1>1. IsFiniteSet(S \cup {y}) /\ y \in S \cup {y} /\ (S \cup {y}) \ {y} = S
  BY FS_AddElement
<1>2. SumFunctionOnSet(f, S \cup {y}) = f[y] + SumFunctionOnSet(f, (S \cup {y}) \ {y})
  BY <1>1, SumProperties
<1> QED
  BY <1>1, <1>2

(* A sum of natural numbers is one. *)
LEMMA SumOfNaturals ==
  ASSUME NEW S, IsFiniteSet(S), NEW f, \A x \in S : f[x] \in Nat
  PROVE  SumFunctionOnSet(f, S) \in Nat
<1> DEFINE G == {T \in SUBSET S : SumFunctionOnSet(f, T) \in Nat}
<1>1. {} \in G
  BY SumProperties
<1>2. ASSUME NEW T \in G, NEW y \in S \ T PROVE T \cup {y} \in G
  <2>1. IsFiniteSet(T) /\ \A x \in T \cup {y} : f[x] \in Int
    BY FS_Subset
  <2>2. SumFunctionOnSet(f, T \cup {y}) = f[y] + SumFunctionOnSet(f, T)
    BY <2>1, SumAddElement
  <2> QED
    BY <2>2
<1>3. S \in G
  <2> HIDE DEF G
  <2>1. G \in SUBSET SUBSET S
    BY DEF G
  <2>2. G = SUBSET S
    BY <1>1, <1>2, <2>1, SubsetsByInduction
  <2> QED
    BY <2>2
<1> QED
  BY <1>3

(* A union has no more elements than its parts together. *)
LEMMA UnionWithinSum ==
  ASSUME NEW S, IsFiniteSet(S), NEW part, \A x \in S : IsFiniteSet(part[x]),
         NEW size, \A x \in S : size[x] = Cardinality(part[x])
  PROVE  /\ IsFiniteSet(UNION {part[x] : x \in S})
         /\ Cardinality(UNION {part[x] : x \in S}) <= SumFunctionOnSet(size, S)
<1> DEFINE union(T) == UNION {part[x] : x \in T}
           G == {T \in SUBSET S : /\ IsFiniteSet(union(T))
                                  /\ Cardinality(union(T)) <= SumFunctionOnSet(size, T)}
<1>1. \A x \in S : size[x] \in Nat
  BY FS_CardinalityType
<1>2. {} \in G
  <2>1. union({}) = {}
    OBVIOUS
  <2>2. SumFunctionOnSet(size, {}) = 0
    BY <1>1, SumProperties
  <2> HIDE DEF union
  <2> QED
    BY <2>1, <2>2, FS_EmptySet
<1>3. ASSUME NEW T \in G, NEW y \in S \ T PROVE T \cup {y} \in G
  <2>1. union(T \cup {y}) = union(T) \cup part[y]
    OBVIOUS
  <2> HIDE DEF union
  <2>2. /\ IsFiniteSet(union(T) \cup part[y])
        /\ Cardinality(union(T) \cup part[y])
             = Cardinality(union(T)) + Cardinality(part[y]) - Cardinality(union(T) \cap part[y])
    BY FS_Union
  <2>3. /\ Cardinality(union(T)) \in Nat /\ Cardinality(part[y]) \in Nat
        /\ Cardinality(union(T) \cap part[y]) \in Nat
    BY FS_CardinalityType, FS_Intersection
  <2>4. IsFiniteSet(T) /\ \A x \in T \cup {y} : size[x] \in Int
    BY <1>1, FS_Subset
  <2>5. /\ SumFunctionOnSet(size, T \cup {y}) = size[y] + SumFunctionOnSet(size, T)
        /\ SumFunctionOnSet(size, T) \in Int
    BY <2>4, SumAddElement, SumProperties
  <2>6. Cardinality(union(T) \cup part[y]) <= size[y] + SumFunctionOnSet(size, T)
    BY <2>2, <2>3, <2>5
  <2> QED
    BY <2>1, <2>2, <2>5, <2>6
<1>4. S \in G
  <2> HIDE DEF G
  <2>1. G \in SUBSET SUBSET S
    BY DEF G
  <2>2. G = SUBSET S
    BY <1>2, <1>3, <2>1, SubsetsByInduction
  <2> QED
    BY <2>2
<1> QED
  BY <1>4
=============================================================================
