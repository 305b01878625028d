--------------------------- MODULE AnalysisProofs ---------------------------
(***************************************************************************)
(* What the pure parts of a session compute: the sums that a report and    *)
(* the counters are, the bags of results they are taken over, and the      *)
(* sentences and the occurrences of terms the analyzer finds in a text.    *)
(***************************************************************************)
EXTENDS Report, Analyzer, Counting, FiniteSetTheorems
-----------------------------------------------------------------------------
(* Sums. *)

\* As many pairs as f has over S: its sum is how many there are.
Heap(f, S) == {p \in S \X Nat : p[2] \in 1..f[p[1]]}

\* As many numbers paired with x as there are numbers.
LEMMA Pile ==
  ASSUME NEW x, NEW I, IsFiniteSet(I)
  PROVE  IsFiniteSet({x} \X I) /\ Cardinality({x} \X I) = Cardinality(I)
<1>1. IsFiniteSet({x}) /\ Cardinality({x}) = 1
  BY FS_Singleton
<1>2. IsFiniteSet({x} \X I) /\ Cardinality({x} \X I) = Cardinality({x}) * Cardinality(I)
  BY <1>1, FS_Product
<1>3. Cardinality(I) \in Nat
  BY FS_CardinalityType
<1>4. \A k \in Nat : 1 * k = k
  OBVIOUS
<1> QED
  BY <1>1, <1>2, <1>3, <1>4

\* There are d numbers after a up to a + d.
LEMMA Between ==
  ASSUME NEW a \in Nat, NEW d \in Nat
  PROVE  IsFiniteSet((a + 1)..(a + d)) /\ Cardinality((a + 1)..(a + d)) = d
<1> DEFINE I == (a + 1)..(a + d)
<1>1. IsFiniteSet(I) /\ Cardinality(I) = IF a + 1 > a + d THEN 0 ELSE a + d - (a + 1) + 1
  BY FS_Interval
<1> HIDE DEF I
<1>2. IsFiniteSet(I) /\ Cardinality(I) = d
  BY <1>1
<1> QED
  BY <1>2 DEF I

\* Two finite sets with nothing in common have as many elements as both.
LEMMA Apart ==
  ASSUME NEW H, NEW P, IsFiniteSet(H), IsFiniteSet(P), H \cap P = {}
  PROVE  IsFiniteSet(H \cup P) /\ Cardinality(H \cup P) = Cardinality(H) + Cardinality(P)
<1>1. /\ IsFiniteSet(H \cup P)
      /\ Cardinality(H \cup P) = Cardinality(H) + Cardinality(P) - Cardinality(H \cap P)
  BY FS_Union
<1>2. Cardinality(H) \in Nat /\ Cardinality(P) \in Nat /\ Cardinality(H \cap P) = 0
  BY FS_CardinalityType, FS_EmptySet
<1>3. \A h, k \in Nat : h + k - 0 = h + k
  OBVIOUS
<1>4. Cardinality(H \cup P) = Cardinality(H) + Cardinality(P) - 0
  BY <1>1, <1>2
<1> QED
  BY <1>1, <1>2, <1>3, <1>4

\* g has d more at x than f, which counts for 0 outside S.
Adds(f, g, S, x, d) ==
  /\ d \in Nat /\ \A y \in S : f[y] \in Nat
  /\ g[x] = (IF x \in S THEN f[x] ELSE 0) + d
  /\ \A y \in S \ {x} : g[y] = f[y]

\* With d more of x there are d more pairs.
LEMMA HeapGrows ==
  ASSUME NEW S, NEW x, NEW f, NEW g, NEW d, IsFiniteSet(Heap(f, S)), Adds(f, g, S, x, d)
  PROVE  /\ IsFiniteSet(Heap(g, S \cup {x}))
         /\ Cardinality(Heap(g, S \cup {x})) = Cardinality(Heap(f, S)) + d
<1> DEFINE a == IF x \in S THEN f[x] ELSE 0
           P == {x} \X ((a + 1)..(a + d))
           H == Heap(f, S)
           K == Heap(g, S \cup {x})
<1>1. /\ a \in Nat /\ d \in Nat /\ (x \in S => f[x] = a) /\ (x \notin S => a = 0) /\ g[x] = a + d
      /\ \A y \in S \ {x} : g[y] = f[y]
  BY DEF Adds
<1> HIDE DEF a
<1>2. IsFiniteSet(P) /\ Cardinality(P) = d
  <2> DEFINE I == (a + 1)..(a + d)
  <2>1. IsFiniteSet(I) /\ Cardinality(I) = d
    BY <1>1, Between
  <2> HIDE DEF I
  <2>2. IsFiniteSet({x} \X I) /\ Cardinality({x} \X I) = d
    BY <2>1, Pile
  <2> QED
    BY <2>2 DEF I
<1>3. \A y, i : <<y, i>> \in P <=> y = x /\ i \in (a + 1)..(a + d)
  OBVIOUS
<1>4. \A y, i : <<y, i>> \in H <=> y \in S /\ i \in Nat /\ i \in 1..f[y]
  BY DEF Heap
<1>5. \A y, i : <<y, i>> \in K <=> (y \in S \/ y = x) /\ i \in Nat /\ i \in 1..g[y]
  BY DEF Heap
<1>6. /\ \A p \in P : p = <<p[1], p[2]>>
      /\ \A p \in H : p = <<p[1], p[2]>>
      /\ \A p \in K : p = <<p[1], p[2]>>
  BY DEF Heap
<1>7. \A i : i \in (a + 1)..(a + d) <=> i \in 1..(a + d) /\ ~(i \in 1..a)
  BY <1>1
<1>8. \A i : i \in 1..(a + d) => i \in Nat
  BY <1>1
<1>9. \A i : i \in 1..a => i \in 1..(a + d)
  BY <1>1
<1> HIDE DEF P, H, K
<1>10. \A y, i : <<y, i>> \in K <=> <<y, i>> \in H \/ <<y, i>> \in P
  <2> SUFFICES ASSUME NEW y, NEW i PROVE <<y, i>> \in K <=> <<y, i>> \in H \/ <<y, i>> \in P
    OBVIOUS
  <2>1. CASE y # x
    BY <1>1, <1>3, <1>4, <1>5, <2>1
  <2>2. CASE y = x /\ x \in S
    <3>1. <<x, i>> \in K <=> i \in 1..(a + d)
      BY <1>1, <1>5, <1>8
    <3>2. <<x, i>> \in H <=> i \in 1..a
      BY <1>1, <1>4, <1>8, <1>9, <2>2
    <3>3. <<x, i>> \in P <=> i \in 1..(a + d) /\ ~(i \in 1..a)
      BY <1>3, <1>7
    <3> QED
      BY <1>9, <2>2, <3>1, <3>2, <3>3
  <2>3. CASE y = x /\ x \notin S
    <3>1. <<x, i>> \in K <=> i \in 1..(a + d)
      BY <1>1, <1>5, <1>8
    <3>2. <<x, i>> \notin H
      BY <1>4, <2>3
    <3>3. <<x, i>> \in P <=> i \in 1..(a + d) /\ ~(i \in 1..a)
      BY <1>3, <1>7
    <3>4. ~(i \in 1..0)
      OBVIOUS
    <3>5. ~(i \in 1..a)
      BY <1>1, <2>3, <3>4
    <3> QED
      BY <2>3, <3>1, <3>2, <3>3, <3>5
  <2> QED
    BY <2>1, <2>2, <2>3
<1>11. K = H \cup P
  BY <1>6, <1>10
<1>12. H \cap P = {}
  <2> SUFFICES ASSUME NEW p \in H, p \in P PROVE FALSE
    OBVIOUS
  <2>1. p = <<p[1], p[2]>>
    BY <1>6
  <2>2. p[1] = x /\ p[2] \in (a + 1)..(a + d)
    BY <1>3, <2>1
  <2>3. x \in S /\ p[2] \in 1..a
    BY <1>1, <1>4, <2>1, <2>2
  <2> QED
    BY <1>7, <2>2, <2>3
<1>13. IsFiniteSet(H \cup P) /\ Cardinality(H \cup P) = Cardinality(H) + Cardinality(P)
  <2>1. IsFiniteSet(H)
    BY DEF H
  <2> QED
    BY <1>2, <1>12, <2>1, Apart
<1>14. IsFiniteSet(K) /\ Cardinality(K) = Cardinality(H) + d
  BY <1>2, <1>11, <1>13
<1> QED
  BY <1>14 DEF H, K

\* An element that is new brings its own pairs.
LEMMA HeapGrowsByNew ==
  ASSUME NEW S, NEW f, NEW x, x \notin S, \A y \in S \cup {x} : f[y] \in Nat,
         IsFiniteSet(Heap(f, S))
  PROVE  /\ IsFiniteSet(Heap(f, S \cup {x}))
         /\ Cardinality(Heap(f, S \cup {x})) = Cardinality(Heap(f, S)) + f[x]
<1>1. \A n \in Nat : 0 + n = n
  OBVIOUS
<1>2. Adds(f, f, S, x, f[x])
  BY <1>1 DEF Adds
<1> QED
  BY <1>2, HeapGrows

\* The pairs of numbers on a finite set are finitely many.
LEMMA HeapFinite ==
  ASSUME NEW f, NEW S, IsFiniteSet(S), \A x \in S : f[x] \in Nat
  PROVE  IsFiniteSet(Heap(f, S))
<1> DEFINE N == Cardinality(S)
           Good == {n \in 0..N : \A T \in SUBSET S : Cardinality(T) = n => IsFiniteSet(Heap(f, T))}
<1>1. N \in Nat
  BY FS_CardinalityType
<1>2. 0 \in Good
  <2> SUFFICES ASSUME NEW T \in SUBSET S, Cardinality(T) = 0 PROVE IsFiniteSet(Heap(f, T))
    BY <1>1
  <2>1. T = {}
    BY FS_Subset, FS_EmptySet
  <2>2. Heap(f, T) = {}
    BY <2>1 DEF Heap
  <2> QED
    BY <2>2, FS_EmptySet
<1>3. ASSUME NEW n \in 0..N, n \in Good, n < N PROVE n + 1 \in Good
  <2>1. n + 1 \in 0..N /\ n \in Nat /\ n + 1 # 0
    BY <1>1, <1>3
  <2> SUFFICES ASSUME NEW T \in SUBSET S, Cardinality(T) = n + 1 PROVE IsFiniteSet(Heap(f, T))
    BY <2>1
  <2>2. IsFiniteSet(T)
    BY FS_Subset
  <2>3. PICK x : x \in T
    BY <2>1, <2>2, FS_EmptySet
  <2> DEFINE U == T \ {x}
  <2>4. U \in SUBSET S /\ Cardinality(U) = Cardinality(T) - 1
    BY <2>2, <2>3, FS_RemoveElement
  <2>5. Cardinality(U) = n
    BY <2>1, <2>4
  <2>6. IsFiniteSet(Heap(f, U))
    BY <1>3, <2>4, <2>5
  <2>7. f[x] \in Nat /\ x \notin U /\ U \cup {x} = T /\ 0 + f[x] = f[x] /\ 0 \in Nat
    BY <2>3
  <2> HIDE DEF U
  <2>8. IsFiniteSet(Heap(f, U \cup {x}))
    BY <2>6, <2>7, HeapGrowsByNew
  <2> QED
    BY <2>7, <2>8
<1> HIDE DEF Good
<1>4. 0..N \subseteq Good
  BY <1>1, <1>2, <1>3, Induction
<1>5. N \in Good /\ S \in SUBSET S
  BY <1>1, <1>4
<1> QED
  BY <1>5 DEF Good

\* SumOf, whose recursion takes the elements one by one, counts the pairs.
LEMMA SumCounts ==
  ASSUME NEW f, NEW S, IsFiniteSet(S), \A x \in S : f[x] \in Nat
  PROVE  SumOf(f, S) = Cardinality(Heap(f, S))
<1> DEFINE Pick(T) == CHOOSE x \in T : TRUE
           Unfolds(h) == h = [T \in SUBSET S |-> IF T = {} THEN 0 ELSE f[Pick(T)] + h[T \ {Pick(T)}]]
           Sum == [T \in SUBSET S |-> Cardinality(Heap(f, T))]
           N == Cardinality(S)
           Good(h) == {n \in 0..N : \A T \in SUBSET S : Cardinality(T) = n => h[T] = Cardinality(Heap(f, T))}
<1>1. SumOf(f, S) = (CHOOSE h : Unfolds(h))[S]
  BY DEF SumOf, MapThenSumSet, MapThenFoldSet
<1>2. \A T \in SUBSET S : IsFiniteSet(T) /\ Cardinality(T) \in Nat /\ IsFiniteSet(Heap(f, T))
  <2> SUFFICES ASSUME NEW T \in SUBSET S PROVE IsFiniteSet(T) /\ Cardinality(T) \in Nat /\ IsFiniteSet(Heap(f, T))
    OBVIOUS
  <2>1. IsFiniteSet(T)
    BY FS_Subset
  <2> QED
    BY <2>1, HeapFinite, FS_CardinalityType
<1>3. ASSUME NEW T \in SUBSET S, T # {}
      PROVE  /\ Pick(T) \in T
             /\ T \ {Pick(T)} \in SUBSET S
             /\ Cardinality(T \ {Pick(T)}) = Cardinality(T) - 1
             /\ Cardinality(Heap(f, T)) = f[Pick(T)] + Cardinality(Heap(f, T \ {Pick(T)}))
  <2>1. Pick(T) \in T
    BY <1>3
  <2> DEFINE x == Pick(T)
             U == T \ {x}
  <2> HIDE DEF x
  <2>2. x \in T /\ x \in S /\ f[x] \in Nat
    BY <2>1 DEF x
  <2>3. U \in SUBSET S /\ Cardinality(U) = Cardinality(T) - 1
    BY <1>2, <2>2, FS_RemoveElement
  <2>4. x \notin U /\ U \cup {x} = T /\ 0 + f[x] = f[x] /\ 0 \in Nat
    BY <2>2
  <2> HIDE DEF U
  <2>5. IsFiniteSet(Heap(f, U))
    BY <1>2, <2>3
  <2>6. Cardinality(Heap(f, U \cup {x})) = Cardinality(Heap(f, U)) + f[x]
    BY <2>2, <2>4, <2>5, HeapGrowsByNew
  <2>7. Cardinality(Heap(f, U)) \in Nat
    BY <2>5, FS_CardinalityType
  <2>8. Cardinality(Heap(f, T)) = f[x] + Cardinality(Heap(f, U))
    <3>1. \A k, m \in Nat : k + m = m + k
      OBVIOUS
    <3> QED
      BY <2>2, <2>4, <2>6, <2>7, <3>1
  <2> QED
    BY <2>2, <2>3, <2>8 DEF x, U
<1>4. Heap(f, {}) = {} /\ Cardinality({}) = 0
  BY FS_EmptySet DEF Heap
<1> HIDE DEF Pick
<1>5. Unfolds(Sum)
  <2>1. \A T \in SUBSET S : Sum[T] = IF T = {} THEN 0 ELSE f[Pick(T)] + Sum[T \ {Pick(T)}]
    BY <1>3, <1>4
  <2> QED
    BY <2>1
<1>6. PICK h : Unfolds(h) /\ SumOf(f, S) = h[S]
  BY <1>1, <1>5
<1>7. h[{}] = 0 /\ \A T \in SUBSET S : T # {} => h[T] = f[Pick(T)] + h[T \ {Pick(T)}]
  <2>1. \A T \in SUBSET S : h[T] = IF T = {} THEN 0 ELSE f[Pick(T)] + h[T \ {Pick(T)}]
    BY <1>6
  <2> QED
    BY <2>1
<1> HIDE DEF Unfolds, Sum
<1>8. N \in Nat
  BY <1>2
<1>9. 0 \in Good(h)
  <2> SUFFICES ASSUME NEW T \in SUBSET S, Cardinality(T) = 0 PROVE h[T] = Cardinality(Heap(f, T))
    BY <1>8
  <2>1. T = {}
    BY <1>2, FS_EmptySet
  <2> QED
    BY <1>4, <1>7, <2>1
<1>10. ASSUME NEW n \in 0..N, n \in Good(h), n < N PROVE n + 1 \in Good(h)
  <2>1. n + 1 \in 0..N /\ n \in Nat /\ n + 1 # 0 /\ (n + 1) - 1 = n
    BY <1>8, <1>10
  <2> SUFFICES ASSUME NEW T \in SUBSET S, Cardinality(T) = n + 1 PROVE h[T] = Cardinality(Heap(f, T))
    BY <2>1
  <2>2. T # {}
    BY <1>4, <2>1
  <2>3. h[T \ {Pick(T)}] = Cardinality(Heap(f, T \ {Pick(T)}))
    BY <1>3, <1>10, <2>1, <2>2
  <2> QED
    BY <1>3, <1>7, <2>2, <2>3
<1> HIDE DEF Good
<1>11. 0..N \subseteq Good(h)
  BY <1>8, <1>9, <1>10, Induction
<1>12. N \in Good(h) /\ S \in SUBSET S
  BY <1>8, <1>11
<1> QED
  BY <1>6, <1>12 DEF Good

\* A sum of naturals is a natural.
LEMMA SumType ==
  ASSUME NEW f, NEW S, IsFiniteSet(S), \A x \in S : f[x] \in Nat
  PROVE  SumOf(f, S) \in Nat
<1>1. SumOf(f, S) = Cardinality(Heap(f, S)) /\ IsFiniteSet(Heap(f, S))
  BY SumCounts, HeapFinite
<1> QED
  BY <1>1, FS_CardinalityType

\* Functions that agree have the same sum.
LEMMA SumSame ==
  ASSUME NEW f, NEW g, NEW S, IsFiniteSet(S),
         \A x \in S : f[x] \in Nat /\ g[x] = f[x]
  PROVE  SumOf(g, S) = SumOf(f, S)
<1>1. Heap(g, S) = Heap(f, S)
  BY DEF Heap
<1>2. SumOf(f, S) = Cardinality(Heap(f, S))
  BY SumCounts
<1>3. \A x \in S : g[x] \in Nat
  OBVIOUS
<1>4. SumOf(g, S) = Cardinality(Heap(g, S))
  BY <1>3, SumCounts
<1> QED
  BY <1>1, <1>2, <1>4

\* With d more of x the sum is d more.
LEMMA SumGrows ==
  ASSUME NEW S, NEW x, NEW f, NEW g, NEW d, IsFiniteSet(S), Adds(f, g, S, x, d)
  PROVE  SumOf(g, S \cup {x}) = SumOf(f, S) + d
<1>1. \A y \in S : f[y] \in Nat
  BY DEF Adds
<1>2. IsFiniteSet(Heap(f, S)) /\ SumOf(f, S) = Cardinality(Heap(f, S))
  BY <1>1, SumCounts, HeapFinite
<1>3. Cardinality(Heap(g, S \cup {x})) = Cardinality(Heap(f, S)) + d
  BY <1>2, HeapGrows
<1>4. IsFiniteSet(S \cup {x})
  BY FS_AddElement
<1>5. \A y \in S \cup {x} : g[y] \in Nat
  <2>1. \A m, n \in Nat : m + n \in Nat
    OBVIOUS
  <2> QED
    BY <2>1 DEF Adds
<1>6. SumOf(g, S \cup {x}) = Cardinality(Heap(g, S \cup {x}))
  BY <1>4, <1>5, SumCounts
<1> QED
  BY <1>2, <1>3, <1>6

\* The sum over two sets with nothing in common is the sum of theirs.
LEMMA SumSplit ==
  ASSUME NEW f, NEW A, NEW B, IsFiniteSet(A), IsFiniteSet(B), A \cap B = {},
         \A x \in A \cup B : f[x] \in Nat
  PROVE  SumOf(f, A \cup B) = SumOf(f, A) + SumOf(f, B)
<1>1. IsFiniteSet(A \cup B)
  BY FS_Union
<1>2. SumOf(f, A \cup B) = Cardinality(Heap(f, A \cup B))
  BY <1>1, SumCounts
<1>3. \A x \in A : f[x] \in Nat
  OBVIOUS
<1>4. \A x \in B : f[x] \in Nat
  OBVIOUS
<1>5. SumOf(f, A) = Cardinality(Heap(f, A)) /\ IsFiniteSet(Heap(f, A))
  BY <1>3, SumCounts, HeapFinite
<1>6. SumOf(f, B) = Cardinality(Heap(f, B)) /\ IsFiniteSet(Heap(f, B))
  BY <1>4, SumCounts, HeapFinite
<1>7. Heap(f, A \cup B) = Heap(f, A) \cup Heap(f, B)
  BY DEF Heap
<1>8. Heap(f, A) \cap Heap(f, B) = {}
  BY DEF Heap
<1> DEFINE H == Heap(f, A)
           K == Heap(f, B)
<1>9. IsFiniteSet(H) /\ IsFiniteSet(K) /\ H \cap K = {}
  BY <1>5, <1>6, <1>8
<1> HIDE DEF H, K
<1>10. Cardinality(H \cup K) = Cardinality(H) + Cardinality(K)
  BY <1>9, Apart
<1> QED
  BY <1>2, <1>5, <1>6, <1>7, <1>10 DEF H, K
(* Bags. *)

FiniteBag(B) == IsFiniteSet(DOMAIN B) /\ B \in [DOMAIN B -> Nat \ {0}]
Copies(B, e) == IF e \in DOMAIN B THEN B[e] ELSE 0
Part(U, K) == \A e : Copies(U, e) <= Copies(K, e)

\* A bag has a number of copies of anything, none of what is not in it.
LEMMA CopiesOf ==
  ASSUME NEW B, FiniteBag(B), NEW e
  PROVE  Copies(B, e) \in Nat /\ (e \in DOMAIN B <=> Copies(B, e) # 0)
<1>1. \A x \in DOMAIN B : B[x] \in Nat /\ B[x] # 0
  BY DEF FiniteBag
<1> QED
  BY <1>1 DEF Copies

\* Bags that have as many copies of everything are the same.
LEMMA SameCopies ==
  ASSUME NEW A, NEW B, FiniteBag(A), FiniteBag(B), \A e : Copies(A, e) = Copies(B, e)
  PROVE  A = B
<1>1. \A e : e \in DOMAIN A <=> e \in DOMAIN B
  BY CopiesOf
<1>2. DOMAIN A = DOMAIN B
  BY <1>1
<1>3. \A e \in DOMAIN A : A[e] = B[e]
  BY <1>2 DEF Copies
<1>4. A = [e \in DOMAIN A |-> A[e]] /\ B = [e \in DOMAIN B |-> B[e]]
  BY DEF FiniteBag
<1> QED
  BY <1>2, <1>3, <1>4

\* A bag with one more of an element.
LEMMA OneMoreBag ==
  ASSUME NEW B, NEW x, FiniteBag(B)
  PROVE  /\ FiniteBag(OneMore(B, x)) /\ DOMAIN OneMore(B, x) = DOMAIN B \cup {x}
         /\ \A e : Copies(OneMore(B, x), e) = Copies(B, e) + (IF e = x THEN 1 ELSE 0)
<1>1. \A e \in DOMAIN B : B[e] \in Nat /\ B[e] # 0
  BY DEF FiniteBag
<1>2. OneMore(B, x) = [e \in DOMAIN B \cup {x} |->
        (IF e \in DOMAIN B THEN B[e] ELSE 0) + (IF e \in {x} THEN [y \in {x} |-> 1][e] ELSE 0)]
  BY DEF OneMore, (+), SetToBag
<1>3. IsFiniteSet(DOMAIN B \cup {x})
  BY FS_AddElement DEF FiniteBag
<1> DEFINE M == OneMore(B, x)
<1>4. DOMAIN M = DOMAIN B \cup {x} /\ M = [e \in DOMAIN M |-> M[e]]
  BY <1>2
<1>5. \A e \in DOMAIN M : M[e] = Copies(B, e) + (IF e = x THEN 1 ELSE 0)
  BY <1>2 DEF Copies
<1>6. \A e \in DOMAIN M : M[e] \in Nat /\ M[e] # 0
  <2> HIDE DEF M
  <2> SUFFICES ASSUME NEW e \in DOMAIN M PROVE M[e] \in Nat /\ M[e] # 0
    OBVIOUS
  <2>1. Copies(B, e) \in Nat /\ (e # x => Copies(B, e) # 0)
    BY <1>4, CopiesOf
  <2>2. M[e] = Copies(B, e) + (IF e = x THEN 1 ELSE 0)
    BY <1>5
  <2>3. \A n \in Nat : /\ n + 1 \in Nat /\ n + 1 # 0 /\ n + 0 = n
    OBVIOUS
  <2> QED
    BY <2>1, <2>2, <2>3
<1> HIDE DEF M
<1>7. FiniteBag(M)
  BY <1>3, <1>4, <1>6 DEF FiniteBag
<1>8. ASSUME NEW e PROVE Copies(M, e) = Copies(B, e) + (IF e = x THEN 1 ELSE 0)
  <2>1. CASE e \in DOMAIN M
    BY <1>5, <2>1 DEF Copies
  <2>2. CASE e \notin DOMAIN M
    <3>1. Copies(M, e) = 0 /\ Copies(B, e) = 0 /\ e # x
      BY <1>4, <2>2 DEF Copies
    <3> QED
      BY <3>1
  <2> QED
    BY <2>1, <2>2
<1> QED
  BY <1>4, <1>7, <1>8 DEF M

\* Two bags together.
LEMMA BothBags ==
  ASSUME NEW A, NEW B, FiniteBag(A), FiniteBag(B)
  PROVE  /\ FiniteBag(A (+) B) /\ DOMAIN (A (+) B) = DOMAIN A \cup DOMAIN B
         /\ \A e : Copies(A (+) B, e) = Copies(A, e) + Copies(B, e)
<1> DEFINE M == A (+) B
<1>1. DOMAIN M = DOMAIN A \cup DOMAIN B /\ M = [e \in DOMAIN M |-> M[e]]
  BY DEF (+)
<1>2. \A e \in DOMAIN M : M[e] = Copies(A, e) + Copies(B, e)
  BY DEF (+), Copies
<1> HIDE DEF M
<1>3. ASSUME NEW e
      PROVE  /\ Copies(A, e) \in Nat /\ Copies(B, e) \in Nat
             /\ Copies(A, e) + Copies(B, e) \in Nat
             /\ e \in DOMAIN M <=> Copies(A, e) + Copies(B, e) # 0
  <2>1. /\ Copies(A, e) \in Nat /\ (e \in DOMAIN A <=> Copies(A, e) # 0)
        /\ Copies(B, e) \in Nat /\ (e \in DOMAIN B <=> Copies(B, e) # 0)
    BY CopiesOf
  <2>2. \A m, n \in Nat : m + n \in Nat /\ (m + n # 0 <=> m # 0 \/ n # 0)
    OBVIOUS
  <2> QED
    BY <1>1, <2>1, <2>2
<1>4. FiniteBag(M)
  <2>1. IsFiniteSet(DOMAIN M)
    <3>1. IsFiniteSet(DOMAIN A) /\ IsFiniteSet(DOMAIN B)
      BY DEF FiniteBag
    <3>2. IsFiniteSet(DOMAIN A \cup DOMAIN B)
      BY <3>1, FS_Union
    <3> QED
      BY <1>1, <3>2
  <2>2. \A e \in DOMAIN M : M[e] \in Nat \ {0}
    BY <1>2, <1>3
  <2> QED
    BY <1>1, <2>1, <2>2 DEF FiniteBag
<1>5. ASSUME NEW e PROVE Copies(M, e) = Copies(A, e) + Copies(B, e)
  <2>1. CASE e \in DOMAIN M
    BY <1>2, <2>1 DEF Copies
  <2>2. CASE e \notin DOMAIN M
    BY <1>3, <2>2 DEF Copies
  <2> QED
    BY <2>1, <2>2
<1> QED
  BY <1>1, <1>4, <1>5 DEF M

\* What joins one of two bags joins both.
LEMMA JoinsBoth ==
  ASSUME NEW A, NEW B, NEW x, FiniteBag(A), FiniteBag(B)
  PROVE  /\ OneMore(A, x) (+) B = OneMore(A (+) B, x)
         /\ A (+) OneMore(B, x) = OneMore(A (+) B, x)
<1> DEFINE one(e) == IF e = x THEN 1 ELSE 0
           L == OneMore(A, x)
           M == OneMore(B, x)
           N == OneMore(A (+) B, x)
<1>1. /\ FiniteBag(L) /\ \A e : Copies(L, e) = Copies(A, e) + one(e)
      /\ FiniteBag(M) /\ \A e : Copies(M, e) = Copies(B, e) + one(e)
  BY OneMoreBag
<1>2. FiniteBag(A (+) B) /\ \A e : Copies(A (+) B, e) = Copies(A, e) + Copies(B, e)
  BY BothBags
<1>3. FiniteBag(N) /\ \A e : Copies(N, e) = Copies(A (+) B, e) + one(e)
  BY <1>2, OneMoreBag
<1>4. \A e : Copies(A, e) \in Nat /\ Copies(B, e) \in Nat /\ one(e) \in Nat
  BY CopiesOf
<1> HIDE DEF L, M, N, one
<1>5. /\ FiniteBag(L (+) B) /\ \A e : Copies(L (+) B, e) = Copies(L, e) + Copies(B, e)
      /\ FiniteBag(A (+) M) /\ \A e : Copies(A (+) M, e) = Copies(A, e) + Copies(M, e)
  BY <1>1, BothBags
<1>6. \A a, b, i \in Nat : (a + i) + b = (a + b) + i /\ a + (b + i) = (a + b) + i
  OBVIOUS
<1>7. \A e : Copies(L (+) B, e) = Copies(N, e) /\ Copies(A (+) M, e) = Copies(N, e)
  BY <1>1, <1>2, <1>3, <1>4, <1>5, <1>6
<1>8. L (+) B = N /\ A (+) M = N
  BY <1>3, <1>5, <1>7, SameCopies
<1> QED
  BY <1>8 DEF L, M, N

\* A bag without a part of it.
LEMMA WithoutPart ==
  ASSUME NEW K, NEW U, FiniteBag(K), FiniteBag(U), Part(U, K)
  PROVE  /\ FiniteBag(K (-) U) /\ DOMAIN (K (-) U) \subseteq DOMAIN K
         /\ \A e : Copies(K (-) U, e) = Copies(K, e) - Copies(U, e)
<1> DEFINE D == {e \in DOMAIN K : Copies(K, e) - Copies(U, e) > 0}
           M == [e \in D |-> Copies(K, e) - Copies(U, e)]
<1>1. K (-) U = M
  <2> DEFINE L == [e \in DOMAIN K |-> IF e \in DOMAIN U THEN K[e] - U[e] ELSE K[e]]
  <2>1. K (-) U = [e \in {d \in DOMAIN L : L[d] > 0} |-> L[e]]
    BY DEF (-)
  <2>2. ASSUME NEW e \in DOMAIN K PROVE L[e] = Copies(K, e) - Copies(U, e)
    <3>1. K[e] \in Nat
      BY DEF FiniteBag
    <3>2. \A n \in Nat : n - 0 = n
      OBVIOUS
    <3> QED
      BY <3>1, <3>2 DEF Copies
  <2>3. DOMAIN L = DOMAIN K
    OBVIOUS
  <2> HIDE DEF L
  <2>4. {d \in DOMAIN L : L[d] > 0} = D
    BY <2>2, <2>3
  <2> HIDE DEF D
  <2>5. D \subseteq DOMAIN K
    BY DEF D
  <2> QED
    BY <2>1, <2>2, <2>4, <2>5
<1>2. ASSUME NEW e
      PROVE  /\ Copies(K, e) \in Nat /\ Copies(U, e) \in Nat
             /\ Copies(K, e) - Copies(U, e) \in Nat
             /\ e \in D <=> Copies(K, e) - Copies(U, e) # 0
  <2>1. /\ Copies(K, e) \in Nat /\ (e \in DOMAIN K <=> Copies(K, e) # 0)
        /\ Copies(U, e) \in Nat /\ Copies(U, e) <= Copies(K, e)
    BY CopiesOf DEF Part
  <2>2. \A k, u \in Nat : u <= k => /\ k - u \in Nat /\ (k - u # 0 <=> k - u > 0)
                                    /\ (k - u # 0 => k # 0)
    OBVIOUS
  <2> QED
    BY <2>1, <2>2
<1>3. DOMAIN M = D /\ \A e \in D : M[e] = Copies(K, e) - Copies(U, e)
  OBVIOUS
<1>4. M = [e \in D |-> M[e]]
  OBVIOUS
<1>5. D \subseteq DOMAIN K
  OBVIOUS
<1> HIDE DEF D, M
<1>6. FiniteBag(M)
  <2>1. IsFiniteSet(D)
    BY <1>5, FS_Subset DEF FiniteBag
  <2>2. \A e \in D : M[e] \in Nat \ {0}
    BY <1>2, <1>3
  <2> QED
    BY <1>3, <1>4, <2>1, <2>2 DEF FiniteBag
<1>7. ASSUME NEW e PROVE Copies(M, e) = Copies(K, e) - Copies(U, e)
  <2>1. CASE e \in D
    BY <1>3, <2>1 DEF Copies
  <2>2. CASE e \notin D
    BY <1>2, <1>3, <2>2 DEF Copies
  <2> QED
    BY <2>1, <2>2
<1> QED
  BY <1>1, <1>3, <1>5, <1>6, <1>7

\* What joins a bag and the part that is left out leaves the rest as it is.
LEMMA BothGrow ==
  ASSUME NEW K, NEW U, NEW x, FiniteBag(K), FiniteBag(U), Part(U, K)
  PROVE  /\ Part(OneMore(U, x), OneMore(K, x))
         /\ OneMore(K, x) (-) OneMore(U, x) = K (-) U
<1> DEFINE L == OneMore(K, x)
           V == OneMore(U, x)
           one(e) == IF e = x THEN 1 ELSE 0
<1>1. /\ FiniteBag(L) /\ \A e : Copies(L, e) = Copies(K, e) + one(e)
      /\ FiniteBag(V) /\ \A e : Copies(V, e) = Copies(U, e) + one(e)
  BY OneMoreBag
<1> HIDE DEF L, V
<1>2. \A e : /\ Copies(K, e) \in Nat /\ Copies(U, e) \in Nat /\ Copies(U, e) <= Copies(K, e)
             /\ one(e) \in Nat
  BY CopiesOf DEF Part
<1> HIDE DEF one
<1>3. \A k, u, i \in Nat : u <= k => u + i <= k + i /\ (k + i) - (u + i) = k - u
  OBVIOUS
<1>4. \A e : Copies(V, e) <= Copies(L, e) /\ Copies(L, e) - Copies(V, e) = Copies(K, e) - Copies(U, e)
  BY <1>1, <1>2, <1>3
<1>5. Part(V, L)
  BY <1>4 DEF Part
<1>6. FiniteBag(L (-) V) /\ \A e : Copies(L (-) V, e) = Copies(L, e) - Copies(V, e)
  BY <1>1, <1>5, WithoutPart
<1>7. FiniteBag(K (-) U) /\ \A e : Copies(K (-) U, e) = Copies(K, e) - Copies(U, e)
  BY WithoutPart
<1>8. L (-) V = K (-) U
  BY <1>4, <1>6, <1>7, SameCopies
<1> QED
  BY <1>5, <1>8 DEF L, V

\* What leaves the part that is left out joins the rest.
LEMMA PartShrinks ==
  ASSUME NEW K, NEW U, NEW x, FiniteBag(K), FiniteBag(U), Part(OneMore(U, x), K)
  PROVE  Part(U, K) /\ K (-) U = OneMore(K (-) OneMore(U, x), x)
<1> DEFINE V == OneMore(U, x)
           one(e) == IF e = x THEN 1 ELSE 0
<1>1. FiniteBag(V) /\ Part(V, K) /\ \A e : Copies(V, e) = Copies(U, e) + one(e)
  BY OneMoreBag
<1> HIDE DEF V
<1>2. \A e : /\ Copies(K, e) \in Nat /\ Copies(U, e) \in Nat /\ Copies(V, e) <= Copies(K, e)
             /\ one(e) \in Nat
  BY <1>1, CopiesOf DEF Part
<1>3. \A k, u, i \in Nat : u + i <= k => u <= k /\ k - u = (k - (u + i)) + i
  OBVIOUS
<1> DEFINE R == K (-) V
<1>4. FiniteBag(R) /\ \A e : Copies(R, e) = Copies(K, e) - Copies(V, e)
  BY <1>1, WithoutPart
<1> HIDE DEF R
<1>5. FiniteBag(OneMore(R, x)) /\ \A e : Copies(OneMore(R, x), e) = Copies(R, e) + one(e)
  BY <1>4, OneMoreBag
<1> HIDE DEF one
<1>6. \A e : Copies(U, e) <= Copies(K, e) /\ Copies(K, e) - Copies(U, e) = Copies(OneMore(R, x), e)
  BY <1>1, <1>2, <1>3, <1>4, <1>5
<1>7. Part(U, K)
  BY <1>6 DEF Part
<1>8. FiniteBag(K (-) U) /\ \A e : Copies(K (-) U, e) = Copies(K, e) - Copies(U, e)
  BY <1>7, WithoutPart
<1>9. K (-) U = OneMore(R, x)
  BY <1>5, <1>6, <1>8, SameCopies
<1> QED
  BY <1>7, <1>9 DEF V, R
(* The accounts of a bag of results. *)

Among(B, Q) == SumOf(B, {x \in DOMAIN B : x \in Q})
Bytes(B) == SumOf([r \in DOMAIN B |-> B[r] * r.bytes], DOMAIN B)

\* The number of copies of what is in a set grows by one if the element is in it.
LEMMA AmongGrows ==
  ASSUME NEW B, NEW x, NEW Q, FiniteBag(B)
  PROVE  /\ x \in Q => Among(OneMore(B, x), Q) = Among(B, Q) + 1
         /\ x \notin Q => Among(OneMore(B, x), Q) = Among(B, Q)
<1> DEFINE M == OneMore(B, x)
           S == {y \in DOMAIN B : y \in Q}
           a == Copies(B, x)
           d == 1
<1>1. FiniteBag(M) /\ DOMAIN M = DOMAIN B \cup {x}
  BY OneMoreBag
<1>2. \A e : Copies(M, e) = Copies(B, e) + (IF e = x THEN 1 ELSE 0)
  BY OneMoreBag
<1>3. \A e : Copies(B, e) \in Nat
  BY CopiesOf
<1>4. IsFiniteSet(S)
  BY FS_Subset DEF FiniteBag
<1>5. \A y \in DOMAIN B : B[y] = Copies(B, y) /\ B[y] \in Nat
  BY <1>3 DEF Copies
<1>6. \A y \in DOMAIN M : M[y] = Copies(M, y)
  BY DEF Copies
<1>7. S \subseteq DOMAIN B
  OBVIOUS
<1>8. \A y \in S : y # x => M[y] = B[y]
  <2> SUFFICES ASSUME NEW y \in S, y # x PROVE M[y] = B[y]
    OBVIOUS
  <2>1. M[y] = Copies(B, y) + 0
    BY <1>1, <1>2, <1>6
  <2>2. \A n \in Nat : n + 0 = n
    OBVIOUS
  <2> QED
    BY <1>3, <1>5, <2>1, <2>2
<1>9. a \in Nat /\ d \in Nat /\ M[x] = a + d
  <2>1. x \in DOMAIN M
    BY <1>1
  <2>2. M[x] = Copies(B, x) + 1
    BY <1>2, <1>6, <2>1
  <2> QED
    BY <1>3, <2>2
<1>10. (x \in DOMAIN B => B[x] = a) /\ (x \notin DOMAIN B => a = 0)
  BY DEF Copies
<1> HIDE DEF a, M, d
<1>11. CASE x \in Q
  <2>1. {y \in DOMAIN M : y \in Q} = S \cup {x}
    BY <1>1, <1>11
  <2>2. (x \in S => B[x] = a) /\ (x \notin S => a = 0)
    BY <1>10, <1>11
  <2>3. (\A y \in S : B[y] \in Nat) /\ \A y \in S \ {x} : M[y] = B[y]
    BY <1>5, <1>8
  <2> HIDE DEF S
  <2>4. Adds(B, M, S, x, d)
    BY <1>9, <2>2, <2>3 DEF Adds
  <2>5. SumOf(M, S \cup {x}) = SumOf(B, S) + d
    BY <1>4, <2>4, SumGrows
  <2> QED
    BY <1>11, <2>1, <2>5 DEF Among, S, M, d
<1>12. CASE x \notin Q
  <2>1. {y \in DOMAIN M : y \in Q} = S
    BY <1>1, <1>12
  <2>2. \A y \in S : B[y] \in Nat /\ M[y] = B[y]
    BY <1>5, <1>8, <1>12
  <2> HIDE DEF S
  <2>3. SumOf(M, S) = SumOf(B, S)
    BY <1>4, <2>2, SumSame
  <2> QED
    BY <1>12, <2>1, <2>3 DEF Among, S, M
<1> QED
  BY <1>11, <1>12

\* The bytes of a bag grow by those of the result that joins it.
LEMMA BytesGrow ==
  ASSUME NEW B, NEW x, FiniteBag(B), \A r \in DOMAIN B \cup {x} : r.bytes \in Nat
  PROVE  Bytes(OneMore(B, x)) = Bytes(B) + x.bytes
<1> DEFINE M == OneMore(B, x)
           S == DOMAIN B
           f == [r \in DOMAIN B |-> B[r] * r.bytes]
           g == [r \in DOMAIN M |-> M[r] * r.bytes]
           a == Copies(B, x) * x.bytes
           d == x.bytes
<1>1. FiniteBag(M) /\ DOMAIN M = DOMAIN B \cup {x}
  BY OneMoreBag
<1>2. \A e : Copies(M, e) = Copies(B, e) + (IF e = x THEN 1 ELSE 0)
  BY OneMoreBag
<1>3. \A e : Copies(B, e) \in Nat
  BY CopiesOf
<1>4. IsFiniteSet(S)
  BY DEF FiniteBag
<1>5. \A y \in S : f[y] = Copies(B, y) * y.bytes /\ y \in DOMAIN M
  BY <1>1 DEF Copies
<1>6. \A y \in DOMAIN M : g[y] = Copies(M, y) * y.bytes
  BY DEF Copies
<1> HIDE DEF f, g, M
<1>7. \A y \in S : f[y] \in Nat
  <2>1. \A k, m \in Nat : k * m \in Nat
    OBVIOUS
  <2> QED
    BY <1>3, <1>5, <2>1
<1>8. \A y \in S \ {x} : g[y] = f[y]
  <2> SUFFICES ASSUME NEW y \in S, y # x PROVE g[y] = f[y]
    OBVIOUS
  <2>1. Copies(M, y) = Copies(B, y) + 0
    BY <1>2
  <2>2. \A n \in Nat : n + 0 = n
    OBVIOUS
  <2>3. Copies(M, y) = Copies(B, y)
    BY <1>3, <2>1, <2>2
  <2> QED
    BY <1>5, <1>6, <2>3
<1>9. a \in Nat /\ d \in Nat /\ g[x] = a + d
  <2>1. \A k, m \in Nat : k * m \in Nat /\ (k + 1) * m = k * m + m
    OBVIOUS
  <2>2. x \in DOMAIN M /\ Copies(M, x) = Copies(B, x) + 1 /\ x.bytes \in Nat
    BY <1>1, <1>2
  <2>3. g[x] = (Copies(B, x) + 1) * x.bytes
    BY <1>6, <2>2
  <2> QED
    BY <1>3, <2>1, <2>2, <2>3
<1>10. (x \in S => f[x] = a) /\ (x \notin S => a = 0)
  <2>1. \A m \in Nat : 0 * m = 0
    OBVIOUS
  <2>2. x \notin S => Copies(B, x) = 0
    BY DEF Copies
  <2> QED
    BY <1>5, <2>1, <2>2
<1> HIDE DEF S, a, d
<1>11. Adds(f, g, S, x, d)
  BY <1>7, <1>8, <1>9, <1>10 DEF Adds
<1>12. SumOf(g, S \cup {x}) = SumOf(f, S) + d
  BY <1>4, <1>11, SumGrows
<1> QED
  BY <1>1, <1>12 DEF Bytes, S, M, f, g, d

\* The counters say of the results they were told what the results say.
Balanced(M, K) ==
  /\ FiniteBag(M.requests)
  /\ \A Q : Among(M.requests, Q) = Among(K, {r \in DOMAIN K : Label(r) \in Q})
  /\ M.bytes = Bytes(K)

\* They go on to when they are told of one more.
LEMMA BalanceKept ==
  ASSUME NEW M, NEW K, NEW x, FiniteBag(K), Balanced(M, K),
         \A r \in DOMAIN K \cup {x} : r.bytes \in Nat
  PROVE  Balanced(RecordScrape(M, x), OneMore(K, x))
<1> DEFINE N == RecordScrape(M, x)
           L == OneMore(K, x)
<1>1. N.requests = OneMore(M.requests, Label(x)) /\ N.bytes = M.bytes + x.bytes
  BY DEF RecordScrape
<1>2. FiniteBag(M.requests) /\ M.bytes = Bytes(K)
  BY DEF Balanced
<1>3. FiniteBag(N.requests)
  <2> HIDE DEF N
  <2>1. FiniteBag(OneMore(M.requests, Label(x)))
    BY <1>2, OneMoreBag
  <2> QED
    BY <1>1, <2>1
<1>4. Bytes(L) = Bytes(K) + x.bytes
  BY BytesGrow
<1>5. DOMAIN L = DOMAIN K \cup {x}
  BY OneMoreBag
<1>6. ASSUME NEW Q
      PROVE  Among(N.requests, Q) = Among(L, {r \in DOMAIN L : Label(r) \in Q})
  <2> DEFINE P == {r \in DOMAIN L : Label(r) \in Q}
  <2>1. Among(M.requests, Q) = Among(K, {r \in DOMAIN K : Label(r) \in Q})
    BY DEF Balanced
  <2>2. {r \in DOMAIN K : r \in {y \in DOMAIN K : Label(y) \in Q}} = {r \in DOMAIN K : r \in P}
    BY <1>5
  <2>3. Among(M.requests, Q) = Among(K, P)
    BY <2>1, <2>2 DEF Among
  <2>4. x \in P <=> Label(x) \in Q
    BY <1>5
  <2> HIDE DEF P
  <2>5. /\ x \in P => Among(L, P) = Among(K, P) + 1
        /\ x \notin P => Among(L, P) = Among(K, P)
    BY AmongGrows
  <2>6. /\ Label(x) \in Q => Among(OneMore(M.requests, Label(x)), Q) = Among(M.requests, Q) + 1
        /\ Label(x) \notin Q => Among(OneMore(M.requests, Label(x)), Q) = Among(M.requests, Q)
    BY <1>2, AmongGrows
  <2>7. Among(N.requests, Q) = Among(L, P)
    BY <1>1, <2>3, <2>4, <2>5, <2>6
  <2> QED
    BY <2>7 DEF P
<1> HIDE DEF N, L
<1> QED
  BY <1>1, <1>2, <1>3, <1>4, <1>6 DEF Balanced, N, L
\* Nothing was recorded yet.
LEMMA BalanceOfNothing ==
  ASSUME NEW K, DOMAIN K = {}
  PROVE  Balanced(NoMetrics, K)
<1>1. \A f : SumOf(f, {}) = 0
  <2> SUFFICES ASSUME NEW f PROVE SumOf(f, {}) = 0
    OBVIOUS
  <2>1. Heap(f, {}) = {} /\ IsFiniteSet({}) /\ Cardinality({}) = 0
    BY FS_EmptySet DEF Heap
  <2> QED
    BY <2>1, SumCounts
<1>2. DOMAIN EmptyBag = {} /\ FiniteBag(EmptyBag)
  BY FS_EmptySet DEF EmptyBag, SetToBag, FiniteBag
<1>3. \A Q : Among(EmptyBag, Q) = 0 /\ Among(K, Q) = 0
  <2>1. \A Q : {x \in DOMAIN EmptyBag : x \in Q} = {} /\ {x \in DOMAIN K : x \in Q} = {}
    BY <1>2
  <2> QED
    BY <1>1, <2>1 DEF Among
<1>4. Bytes(K) = 0
  BY <1>1 DEF Bytes
<1> QED
  BY <1>2, <1>3, <1>4 DEF Balanced, NoMetrics

(* The bag of what each of a set has in hand. *)

InHand(R, q) == [r \in {q[w] : w \in R} |-> Cardinality({w \in R : q[w] = r})]

\* There are as many copies of a result as there are who have it.
LEMMA InHandBag ==
  ASSUME NEW R, NEW q, IsFiniteSet(R)
  PROVE  /\ FiniteBag(InHand(R, q))
         /\ \A e : Copies(InHand(R, q), e) = Cardinality({w \in R : q[w] = e})
<1> DEFINE who(e) == {w \in R : q[w] = e}
           D == {q[w] : w \in R}
           M == InHand(R, q)
<1>1. ASSUME NEW e
      PROVE  /\ IsFiniteSet(who(e)) /\ Cardinality(who(e)) \in Nat
             /\ e \in D <=> Cardinality(who(e)) # 0
  <2>1. IsFiniteSet(who(e))
    BY FS_Subset
  <2>2. who(e) = {} <=> Cardinality(who(e)) = 0
    BY <2>1, FS_EmptySet
  <2>3. e \in D <=> who(e) # {}
    OBVIOUS
  <2> HIDE DEF who
  <2> QED
    BY <2>1, <2>2, <2>3, FS_CardinalityType
<1>2. DOMAIN M = D /\ M = [e \in D |-> M[e]] /\ \A e \in D : M[e] = Cardinality(who(e))
  BY DEF InHand
<1>3. IsFiniteSet(D)
  <2> DEFINE g == [x \in R |-> q[x]]
  <2>1. g \in Surjection(R, D)
    BY DEF Surjection
  <2> HIDE DEF g, D
  <2> QED
    BY <2>1, FS_Surjection
<1> HIDE DEF M, D, who
<1>4. FiniteBag(M)
  BY <1>1, <1>2, <1>3 DEF FiniteBag
<1>5. \A e : Copies(M, e) = Cardinality(who(e))
  BY <1>1, <1>2 DEF Copies
<1> QED
  BY <1>4, <1>5 DEF M, who

\* What is in hand depends on those who have it only.
LEMMA InHandSame ==
  ASSUME NEW R, NEW p, NEW q, \A w \in R : p[w] = q[w]
  PROVE  InHand(R, p) = InHand(R, q)
<1>1. {p[w] : w \in R} = {q[w] : w \in R}
  OBVIOUS
<1>2. \A r : {w \in R : p[w] = r} = {w \in R : q[w] = r}
  OBVIOUS
<1> QED
  BY <1>1, <1>2 DEF InHand

\* Another one with something in hand.
LEMMA InHandGrows ==
  ASSUME NEW R, NEW p, NEW q, NEW w, IsFiniteSet(R), w \notin R,
         \A v \in R : p[v] = q[v]
  PROVE  InHand(R \cup {w}, p) = OneMore(InHand(R, q), p[w])
<1> DEFINE L == InHand(R, q)
           M == InHand(R \cup {w}, p)
           x == p[w]
<1>1. IsFiniteSet(R \cup {w})
  BY FS_AddElement
<1>2. FiniteBag(M) /\ \A e : Copies(M, e) = Cardinality({v \in R \cup {w} : p[v] = e})
  BY <1>1, InHandBag
<1>3. FiniteBag(L) /\ \A e : Copies(L, e) = Cardinality({v \in R : q[v] = e})
  BY InHandBag
<1> HIDE DEF L, M
<1>4. FiniteBag(OneMore(L, x))
  BY <1>3, OneMoreBag
<1>5. \A e : Copies(OneMore(L, x), e) = Copies(L, e) + (IF e = x THEN 1 ELSE 0)
  BY <1>3, OneMoreBag
<1>6. ASSUME NEW e
      PROVE  Copies(M, e) = Copies(OneMore(L, x), e)
  <2> DEFINE S == {v \in R : q[v] = e}
             T == {v \in R \cup {w} : p[v] = e}
  <2>1. IsFiniteSet(S) /\ w \notin S
    BY FS_Subset
  <2>2. T = IF e = x THEN S \cup {w} ELSE S
    OBVIOUS
  <2>3. Copies(M, e) = Cardinality(T) /\ Copies(L, e) = Cardinality(S)
    BY <1>2, <1>3
  <2> HIDE DEF S, T, x
  <2>4. Cardinality(S \cup {w}) = Cardinality(S) + 1 /\ Cardinality(S) \in Nat
    BY <2>1, FS_AddElement, FS_CardinalityType
  <2>5. \A n \in Nat : n + 0 = n
    OBVIOUS
  <2> QED
    BY <1>5, <2>2, <2>3, <2>4, <2>5
<1>7. M = OneMore(L, x)
  BY <1>2, <1>4, <1>6, SameCopies
<1> QED
  BY <1>7 DEF L, M
-----------------------------------------------------------------------------
(* Recursion. *)

\* There is what a recursion yields.
Recurs(S, base, bound, step) ==
  \E g \in [0..bound -> S] : g[0] = base /\ \A n \in 1..bound : g[n] = step[n][g[n - 1]]

\* A recursion yields something.
LEMMA Recurring ==
  ASSUME NEW S, NEW base \in S, NEW bound \in Nat, NEW step \in [1..bound -> [S -> S]]
  PROVE  Recurs(S, base, bound, step)
<1>1. \E g \in [0..bound -> S] : g[0] = base /\ \A n \in 1..bound : g[n] = step[n][g[n - 1]]
  BY Recursion
<1> QED
  BY <1>1 DEF Recurs
-----------------------------------------------------------------------------
(* The elements of a sequence that are in a set. *)

\* What a sequence has with one element more.
LEMMA AppendedSet ==
  ASSUME NEW T, NEW s \in Seq(T), NEW x \in T
  PROVE  ToSet(Append(s, x)) = ToSet(s) \cup {x}
<1> DEFINE N == Len(s)
           t == Append(s, x)
<1>1. /\ N \in Nat /\ DOMAIN s = 1..N /\ DOMAIN t = 1..(N + 1) /\ t[N + 1] = x
      /\ \A n \in 1..N : t[n] = s[n]
  BY LenProperties, AppendProperties
<1>2. 1..(N + 1) = 1..N \cup {N + 1} /\ 1..N \subseteq 1..(N + 1)
  BY <1>1
<1> HIDE DEF t, N
<1>3. {t[i] : i \in 1..(N + 1)} = {s[i] : i \in 1..N} \cup {x}
  BY <1>1, <1>2
<1> QED
  BY <1>1, <1>3 DEF ToSet, t

\* f has, for each length, those of so many first elements.
Gathers(f, s, S, T) ==
  /\ f \in [0..Len(s) -> Seq(T)]
  /\ Those(s, S) = f[Len(s)] /\ f[0] = <<>>
  /\ \A n \in 1..Len(s) : f[n] = IF s[n] \in S THEN Append(f[n - 1], s[n]) ELSE f[n - 1]

\* Those are gathered from the first element to the last.
LEMMA ThoseUnfold ==
  ASSUME NEW T, NEW s \in Seq(T), NEW S
  PROVE  \E f : Gathers(f, s, S, T)
<1> DEFINE N == Len(s)
           Takes(r, x) == IF x \in S THEN Append(r, x) ELSE r
           Q == Seq(T)
           step == [n \in 1..N |-> [r \in Q |-> Takes(r, s[n])]]
<1>1. N \in Nat /\ \A n \in 1..N : s[n] \in T
  BY LenProperties, ElementOfSeq
<1>2. \A n \in 1..N : \A r \in Q : step[n][r] = Takes(r, s[n]) /\ step[n][r] \in Q
  BY <1>1
<1>3. step \in [1..N -> [Q -> Q]]
  BY <1>2
<1>4. <<>> \in Q
  OBVIOUS
<1>5. N \in Nat
  BY <1>1
<1> HIDE DEF step, Q, N
<1>6. PICK g \in [0..N -> Q] : g[0] = <<>> /\ \A n \in 1..N : g[n] = step[n][g[n - 1]]
  <2> DEFINE none == <<>>
  <2>1. none \in Q
    BY <1>4
  <2> HIDE DEF none
  <2>2. Recurs(Q, none, N, step)
    BY <1>3, <1>5, <2>1, Recurring
  <2> QED
    BY <2>2 DEF Recurs, none
<1>7. \A n \in 1..N : n - 1 \in 0..N /\ g[n - 1] \in Q /\ n \in 0..N /\ n # 0
  BY <1>1, <1>6
<1>8. \A n \in 1..N : g[n] = Takes(g[n - 1], s[n])
  BY <1>2, <1>6, <1>7
<1> DEFINE Recursive(h) == h = [n \in 0..N |-> IF n = 0 THEN <<>> ELSE Takes(h[n - 1], s[n])]
           f == CHOOSE h : Recursive(h)
<1>9. Recursive(g)
  <2> HIDE DEF Takes
  <2>1. \A n \in 0..N : g[n] = IF n = 0 THEN <<>> ELSE Takes(g[n - 1], s[n])
    BY <1>1, <1>6, <1>8
  <2> QED
    BY <1>6, <2>1
<1>10. Recursive(f)
  BY <1>9
<1>11. Those(s, S) = f[N]
  BY DEF Those, N
<1> HIDE DEF f, Takes
<1>12. f[0] = <<>> /\ \A n \in 1..N : f[n] = Takes(f[n - 1], s[n])
  <2>1. 0 \in 0..N
    BY <1>1
  <2> QED
    BY <1>7, <1>10, <2>1
<1> DEFINE Good == {n \in 0..N : f[n] = g[n]}
<1>13. 0 \in Good
  BY <1>1, <1>6, <1>12
<1>14. ASSUME NEW n \in 0..N, n \in Good, n < N PROVE n + 1 \in Good
  <2>1. n + 1 \in 1..N /\ n + 1 \in 0..N /\ (n + 1) - 1 = n /\ f[n] = g[n]
    BY <1>1, <1>14
  <2> QED
    BY <1>8, <1>12, <2>1
<1> HIDE DEF Good
<1>15. 0..N \subseteq Good
  BY <1>1, <1>13, <1>14, Induction
<1>16. N \in 0..N /\ f[N] = g[N]
  BY <1>1, <1>15 DEF Good
<1> HIDE DEF Recursive
<1>17. /\ g \in [0..N -> Q] /\ Those(s, S) = g[N] /\ g[0] = <<>>
       /\ \A n \in 1..N : g[n] = Takes(g[n - 1], s[n])
  BY <1>6, <1>8, <1>11, <1>16
<1> QED
  BY <1>17 DEF N, Q, Takes, Gathers

\* Of no elements there are none in a set.
LEMMA ThoseOfNone == \A S : Those(<<>>, S) = <<>>
<1> SUFFICES ASSUME NEW S PROVE Those(<<>>, S) = <<>>
  OBVIOUS
<1>1. <<>> \in Seq({}) /\ Len(<<>>) = 0
  OBVIOUS
<1>2. PICK f : Gathers(f, <<>>, S, {})
  BY <1>1, ThoseUnfold
<1> QED
  BY <1>1, <1>2 DEF Gathers

\* One more element joins them if it is in the set.
LEMMA ThoseAppend ==
  ASSUME NEW T, NEW s \in Seq(T), NEW x \in T, NEW S
  PROVE  Those(Append(s, x), S) = IF x \in S THEN Append(Those(s, S), x) ELSE Those(s, S)
<1> DEFINE N == Len(s)
           t == Append(s, x)
<1>1. /\ N \in Nat /\ t \in Seq(T) /\ Len(t) = N + 1 /\ t[N + 1] = x
      /\ \A n \in 1..N : t[n] = s[n]
  BY LenProperties, AppendProperties
<1> HIDE DEF t
<1>2. PICK f : Gathers(f, s, S, T)
  BY ThoseUnfold
<1>3. PICK g : Gathers(g, t, S, T)
  BY <1>1, ThoseUnfold
<1>4. /\ Those(s, S) = f[N] /\ f[0] = <<>>
      /\ \A n \in 1..N : f[n] = IF s[n] \in S THEN Append(f[n - 1], s[n]) ELSE f[n - 1]
      /\ Those(t, S) = g[N + 1] /\ g[0] = <<>>
      /\ \A n \in 1..(N + 1) : g[n] = IF t[n] \in S THEN Append(g[n - 1], t[n]) ELSE g[n - 1]
  BY <1>1, <1>2, <1>3 DEF Gathers
<1> HIDE DEF N
<1> DEFINE Good == {n \in 0..N : f[n] = g[n]}
<1>5. 0 \in Good
  BY <1>1, <1>4
<1>6. ASSUME NEW n \in 0..N, n \in Good, n < N PROVE n + 1 \in Good
  <2>1. n + 1 \in 1..N /\ n + 1 \in 0..N /\ (n + 1) - 1 = n /\ f[n] = g[n] /\ n + 1 \in 1..(N + 1)
    BY <1>1, <1>6
  <2>2. t[n + 1] = s[n + 1]
    BY <1>1, <2>1
  <2>3. f[n + 1] = IF s[n + 1] \in S THEN Append(f[n], s[n + 1]) ELSE f[n]
    BY <1>4, <2>1
  <2>4. g[n + 1] = IF t[n + 1] \in S THEN Append(g[n], t[n + 1]) ELSE g[n]
    BY <1>4, <2>1
  <2> QED
    BY <2>1, <2>2, <2>3, <2>4
<1> HIDE DEF Good
<1>7. 0..N \subseteq Good
  BY <1>1, <1>5, <1>6, Induction
<1>8. f[N] = g[N]
  BY <1>1, <1>7 DEF Good
<1>9. N + 1 \in 1..(N + 1) /\ (N + 1) - 1 = N
  BY <1>1
<1>10. g[N + 1] = IF x \in S THEN Append(g[N], x) ELSE g[N]
  BY <1>1, <1>4, <1>9
<1> QED
  BY <1>4, <1>8, <1>10 DEF t

\* Those are elements of the sequence that are in the set, all of them, and no
\* more than it has; if all are in the set, they are the sequence.
LEMMA ThoseAre ==
  ASSUME NEW T, NEW S
  PROVE  \A s \in Seq(T) : /\ Those(s, S) \in Seq(T) /\ Len(Those(s, S)) <= Len(s)
                           /\ ToSet(Those(s, S)) = {x \in ToSet(s) : x \in S}
                           /\ ToSet(s) \subseteq S => Those(s, S) = s
<1> DEFINE P(s) == /\ Those(s, S) \in Seq(T) /\ Len(Those(s, S)) <= Len(s)
                   /\ ToSet(Those(s, S)) = {x \in ToSet(s) : x \in S}
                   /\ ToSet(s) \subseteq S => Those(s, S) = s
           G == {s \in Seq(T) : P(s)}
<1>1. <<>> \in G
  <2>1. <<>> \in Seq(T) /\ ToSet(<<>>) = {} /\ Those(<<>>, S) = <<>> /\ Len(<<>>) <= Len(<<>>)
    BY ThoseOfNone DEF ToSet
  <2> QED
    BY <2>1
<1>2. ASSUME NEW s \in Seq(T), NEW x \in T, s \in G PROVE Append(s, x) \in G
  <2> DEFINE r == Those(s, S)
             t == Append(s, x)
             q == Those(t, S)
  <2>1. /\ r \in Seq(T) /\ Len(r) <= Len(s) /\ ToSet(r) = {y \in ToSet(s) : y \in S}
        /\ ToSet(s) \subseteq S => r = s
    BY <1>2
  <2>2. q = IF x \in S THEN Append(r, x) ELSE r
    BY ThoseAppend
  <2>3. t \in Seq(T) /\ Len(t) = Len(s) + 1 /\ Len(s) \in Nat /\ Len(r) \in Nat
    BY <2>1, LenProperties, AppendProperties
  <2>4. ToSet(t) = ToSet(s) \cup {x} /\ Append(r, x) \in Seq(T)
        /\ Len(Append(r, x)) = Len(r) + 1 /\ ToSet(Append(r, x)) = ToSet(r) \cup {x}
    BY <2>1, AppendedSet, AppendProperties
  <2> HIDE DEF r, q
  <2>5. CASE x \in S
    <3>1. q = Append(r, x)
      BY <2>2, <2>5
    <3>2. Len(q) <= Len(t)
      BY <2>1, <2>3, <2>4, <3>1
    <3>3. ToSet(q) = {y \in ToSet(t) : y \in S}
      BY <2>1, <2>4, <2>5, <3>1
    <3>4. ToSet(t) \subseteq S => q = t
      BY <2>1, <2>4, <3>1
    <3> QED
      BY <2>3, <2>4, <3>1, <3>2, <3>3, <3>4 DEF q
  <2>6. CASE x \notin S
    <3>1. q = r
      BY <2>2, <2>6
    <3>2. Len(q) <= Len(t)
      BY <2>1, <2>3, <3>1
    <3>3. ToSet(q) = {y \in ToSet(t) : y \in S}
      BY <2>1, <2>4, <2>6, <3>1
    <3>4. ~(ToSet(t) \subseteq S)
      BY <2>4, <2>6
    <3> QED
      BY <2>1, <2>3, <3>1, <3>2, <3>3, <3>4 DEF q
  <2> QED
    BY <2>5, <2>6
<1> HIDE DEF G
<1>3. Seq(T) \subseteq G
  BY <1>1, <1>2, SequenceInduction
<1> QED
  BY <1>3 DEF G

\* What is appended to a concatenation is appended to its second part.
LEMMA ConcatAppend ==
  ASSUME NEW T, NEW s \in Seq(T), NEW t \in Seq(T), NEW x \in T
  PROVE  s \o Append(t, x) = Append(s \o t, x)
<1>1. s \o t \in Seq(T) /\ <<x>> \in Seq(T)
  BY ConcatProperties
<1>2. Append(t, x) = t \o <<x>> /\ Append(s \o t, x) = (s \o t) \o <<x>>
  BY <1>1, AppendIsConcat
<1>3. (s \o t) \o <<x>> = s \o (t \o <<x>>)
  BY <1>1, ConcatAssociative
<1> QED
  BY <1>2, <1>3

\* Those of a concatenation are those of its parts.
LEMMA ThoseConcat ==
  ASSUME NEW T, NEW s \in Seq(T), NEW S
  PROVE  \A t \in Seq(T) : Those(s \o t, S) = Those(s, S) \o Those(t, S)
<1> DEFINE P(t) == Those(s \o t, S) = Those(s, S) \o Those(t, S)
           G == {t \in Seq(T) : P(t)}
           r == Those(s, S)
<1>1. r \in Seq(T)
  BY ThoseAre
<1>2. <<>> \in G
  <2>1. s \o <<>> = s /\ r \o <<>> = r
    BY <1>1, ConcatEmptySeq
  <2>2. Those(<<>>, S) = <<>> /\ <<>> \in Seq(T)
    BY ThoseOfNone
  <2>3. Those(s \o <<>>, S) = r
    BY <2>1
  <2>4. P(<<>>)
    BY <2>1, <2>2, <2>3
  <2> QED
    BY <2>2, <2>4
<1>3. ASSUME NEW t \in Seq(T), NEW x \in T, t \in G PROVE Append(t, x) \in G
  <2> DEFINE q == Those(t, S)
             u == s \o t
  <2>1. q \in Seq(T)
    BY ThoseAre
  <2>2. Those(u, S) = r \o q
    BY <1>3
  <2>3. s \o Append(t, x) = Append(u, x)
    BY ConcatAppend
  <2>4. r \o Append(q, x) = Append(r \o q, x)
    <3> HIDE DEF r, q, u, G
    <3> QED
      BY <1>1, <2>1, ConcatAppend
  <2>5. u \in Seq(T)
    BY ConcatProperties
  <2> HIDE DEF q, u, r
  <2>6. Those(Append(u, x), S) = IF x \in S THEN Append(Those(u, S), x) ELSE Those(u, S)
    BY <2>5, ThoseAppend
  <2>7. Those(Append(t, x), S) = IF x \in S THEN Append(q, x) ELSE q
    BY ThoseAppend DEF q
  <2>8. Those(s \o Append(t, x), S) = r \o Those(Append(t, x), S)
    BY <2>2, <2>3, <2>4, <2>6, <2>7
  <2>9. Append(t, x) \in Seq(T)
    OBVIOUS
  <2> QED
    BY <2>8, <2>9 DEF r
<1> HIDE DEF G
<1>4. Seq(T) \subseteq G
  BY <1>2, <1>3, SequenceInduction
<1> QED
  BY <1>4 DEF G

\* Where no element is in the set there are none.
LEMMA ThoseOutside ==
  ASSUME NEW T, NEW s \in Seq(T), NEW S, \A n \in 1..Len(s) : s[n] \notin S
  PROVE  Those(s, S) = <<>>
<1> DEFINE r == Those(s, S)
<1>1. r \in Seq(T) /\ ToSet(r) = {x \in ToSet(s) : x \in S}
  BY ThoseAre
<1>2. DOMAIN s = 1..Len(s) /\ DOMAIN r = 1..Len(r) /\ Len(r) \in Nat
  BY <1>1, LenProperties
<1>3. ToSet(r) = {}
  BY <1>1, <1>2 DEF ToSet
<1> HIDE DEF r
<1>4. Len(r) = 0
  <2>1. SUFFICES ASSUME Len(r) # 0 PROVE FALSE
    OBVIOUS
  <2>2. 1 \in DOMAIN r
    BY <1>2, <2>1
  <2> QED
    BY <1>3, <2>2 DEF ToSet
<1>5. r = <<>>
  BY <1>1, <1>4
<1> QED
  BY <1>5 DEF r
-----------------------------------------------------------------------------
(* The sequences of a sequence, one after another. *)

\* f has, for each length, what so many first sequences make together.
Joins(f, ss, T) ==
  /\ f \in [0..Len(ss) -> Seq(T)]
  /\ FlattenSeq(ss) = f[Len(ss)] /\ f[0] = <<>>
  /\ \A n \in 1..Len(ss) : f[n] = f[n - 1] \o ss[n]

\* Sequences are joined from the first to the last.
LEMMA FlattenUnfold ==
  ASSUME NEW T, NEW ss \in Seq(Seq(T))
  PROVE  \E f : Joins(f, ss, T)
<1> DEFINE N == Len(ss)
           Q == Seq(T)
           step == [n \in 1..N |-> [r \in Q |-> r \o ss[n]]]
<1>1. N \in Nat /\ \A n \in 1..N : ss[n] \in Q
  BY LenProperties, ElementOfSeq
<1>2. \A n \in 1..N : \A r \in Q : step[n][r] = r \o ss[n] /\ step[n][r] \in Q
  BY <1>1, ConcatProperties
<1>3. step \in [1..N -> [Q -> Q]]
  BY <1>2
<1>4. N \in Nat
  BY <1>1
<1> HIDE DEF step, Q, N
<1>5. PICK g \in [0..N -> Q] : g[0] = <<>> /\ \A n \in 1..N : g[n] = step[n][g[n - 1]]
  <2> DEFINE none == <<>>
  <2>1. none \in Q
    BY DEF Q
  <2> HIDE DEF none
  <2>2. Recurs(Q, none, N, step)
    BY <1>3, <1>4, <2>1, Recurring
  <2> QED
    BY <2>2 DEF Recurs, none
<1>6. \A n \in 1..N : n - 1 \in 0..N /\ g[n - 1] \in Q
  BY <1>1, <1>5
<1>7. \A n \in 1..N : g[n] = g[n - 1] \o ss[n]
  BY <1>2, <1>5, <1>6
<1> DEFINE Recursive(h) == h = [i \in 1..N |-> IF i = 1 THEN ss[i] ELSE h[i - 1] \o ss[i]]
           f == CHOOSE h : Recursive(h)
<1>8. CASE N = 0
  <2>1. FlattenSeq(ss) = ss
    BY <1>8 DEF FlattenSeq, N
  <2>2. ss = <<>>
    BY <1>8 DEF N
  <2> QED
    BY <1>5, <1>7, <1>8, <2>1, <2>2 DEF Joins, N, Q
<1>9. CASE N # 0
  <2>1. 1 \in 1..N /\ 0 \in 0..N
    BY <1>1, <1>9
  <2>2. g[1] = ss[1]
    <3>1. g[1] = <<>> \o ss[1]
      <4> DEFINE one == 1
      <4>1. one \in 1..N /\ one - 1 = 0
        BY <2>1
      <4> HIDE DEF one
      <4>2. g[one] = g[one - 1] \o ss[one]
        BY <1>7, <4>1
      <4> QED
        BY <1>5, <4>1, <4>2 DEF one
    <3> QED
      BY <1>1, <2>1, <3>1, ConcatEmptySeq DEF Q
  <2> DEFINE k == [i \in 1..N |-> g[i]]
  <2>3. Recursive(k)
    <3>1. ASSUME NEW i \in 1..N PROVE k[i] = IF i = 1 THEN ss[i] ELSE k[i - 1] \o ss[i]
      <4>1. CASE i = 1
        BY <2>2, <4>1
      <4>2. CASE i # 1
        <5>1. i - 1 \in 1..N
          BY <1>1, <4>2
        <5> QED
          BY <1>7, <4>2, <5>1
      <4> QED
        BY <4>1, <4>2
    <3> QED
      BY <3>1
  <2>4. Recursive(f)
    BY <2>3
  <2>5. FlattenSeq(ss) = f[N]
    BY <1>9 DEF FlattenSeq, N
  <2> HIDE DEF f, k
  <2>6. f[1] = ss[1] /\ \A i \in 1..N : i # 1 => f[i] = f[i - 1] \o ss[i]
    BY <2>1, <2>4
  <2> DEFINE Good == {n \in 0..N : n > 0 => f[n] = g[n]}
  <2>7. 0 \in Good
    BY <2>1
  <2>8. ASSUME NEW n \in 0..N, n \in Good, n < N PROVE n + 1 \in Good
    <3>1. n + 1 \in 1..N /\ n + 1 \in 0..N /\ (n + 1) - 1 = n
      BY <1>1, <2>8
    <3>2. CASE n = 0
      BY <2>2, <2>6, <3>1, <3>2
    <3>3. CASE n # 0
      <4>1. f[n] = g[n] /\ n + 1 # 1
        BY <2>8, <3>3
      <4>2. f[n + 1] = f[n] \o ss[n + 1] /\ g[n + 1] = g[n] \o ss[n + 1]
        BY <1>7, <2>6, <3>1, <4>1
      <4> QED
        BY <3>1, <4>1, <4>2
    <3> QED
      BY <3>2, <3>3
  <2> HIDE DEF Good
  <2>9. 0..N \subseteq Good
    BY <1>4, <2>7, <2>8, Induction
  <2>10. f[N] = g[N]
    BY <1>1, <1>9, <2>9 DEF Good
  <2> QED
    BY <1>5, <1>7, <2>5, <2>10 DEF Joins, N, Q
<1> QED
  BY <1>8, <1>9

\* One sequence more comes behind the others.
LEMMA FlattenAppend ==
  ASSUME NEW T, NEW ss \in Seq(Seq(T)), NEW x \in Seq(T)
  PROVE  /\ FlattenSeq(ss) \in Seq(T)
         /\ FlattenSeq(Append(ss, x)) = FlattenSeq(ss) \o x
<1> DEFINE N == Len(ss)
           tt == Append(ss, x)
<1>1. /\ N \in Nat /\ tt \in Seq(Seq(T)) /\ Len(tt) = N + 1 /\ tt[N + 1] = x
      /\ \A n \in 1..N : tt[n] = ss[n]
  BY LenProperties, AppendProperties
<1> HIDE DEF tt
<1>2. PICK f : Joins(f, ss, T)
  BY FlattenUnfold
<1>3. PICK g : Joins(g, tt, T)
  BY <1>1, FlattenUnfold
<1>4. /\ FlattenSeq(ss) = f[N] /\ f[0] = <<>> /\ \A n \in 1..N : f[n] = f[n - 1] \o ss[n]
      /\ f \in [0..N -> Seq(T)]
      /\ FlattenSeq(tt) = g[N + 1] /\ g[0] = <<>>
      /\ \A n \in 1..(N + 1) : g[n] = g[n - 1] \o tt[n]
  BY <1>1, <1>2, <1>3 DEF Joins
<1> HIDE DEF N
<1> DEFINE Good == {n \in 0..N : f[n] = g[n]}
<1>5. 0 \in Good
  BY <1>1, <1>4
<1>6. ASSUME NEW n \in 0..N, n \in Good, n < N PROVE n + 1 \in Good
  <2>1. n + 1 \in 1..N /\ n + 1 \in 0..N /\ (n + 1) - 1 = n /\ f[n] = g[n] /\ n + 1 \in 1..(N + 1)
    BY <1>1, <1>6
  <2>2. tt[n + 1] = ss[n + 1]
    BY <1>1, <2>1
  <2>3. f[n + 1] = f[n] \o ss[n + 1]
    BY <1>4, <2>1
  <2>4. g[n + 1] = g[n] \o tt[n + 1]
    BY <1>4, <2>1
  <2> QED
    BY <2>1, <2>2, <2>3, <2>4
<1> HIDE DEF Good
<1>7. 0..N \subseteq Good
  BY <1>1, <1>5, <1>6, Induction
<1>8. f[N] = g[N] /\ f[N] \in Seq(T)
  <2>1. N \in 0..N
    BY <1>1
  <2> QED
    BY <1>4, <1>7, <2>1 DEF Good
<1>9. N + 1 \in 1..(N + 1) /\ (N + 1) - 1 = N
  BY <1>1
<1>10. g[N + 1] = g[N] \o x
  BY <1>1, <1>4, <1>9
<1> QED
  BY <1>4, <1>8, <1>10 DEF tt
-----------------------------------------------------------------------------
(* A sentence without the white space at its ends. *)

\* A bounded set of numbers has a greatest.
LEMMA GreatestNumber ==
  ASSUME NEW b \in Nat, NEW T, T \subseteq 0..b, T # {}
  PROVE  \E x \in T : \A y \in T : y <= x
<1> DEFINE R == {b - x : x \in T}
<1>1. R \subseteq Nat /\ R # {}
  <2>1. \A x \in T : b - x \in Nat
    OBVIOUS
  <2> QED
    BY <2>1
<1> HIDE DEF R
<1>2. PICK z \in R : \A y \in R : ~(y < z)
  BY <1>1, LeastNumber
<1>3. PICK x \in T : z = b - x
  BY DEF R
<1>4. ASSUME NEW y \in T PROVE y <= x
  <2>1. b - y \in R
    BY DEF R
  <2>2. ~(b - y < b - x)
    BY <1>2, <1>3, <2>1
  <2>3. x \in 0..b /\ y \in 0..b
    OBVIOUS
  <2> QED
    BY <2>2, <2>3
<1> QED
  BY <1>4

\* From p to q goes what is left of the part from a to i.
Trims(text, a, i, p, q) ==
  /\ p \in a..i /\ q \in p..i /\ text[p] # "_" /\ text[q] # "_"
  /\ \A k \in a..i : text[k] # "_" => p <= k /\ k <= q
  /\ Trimmed(text, a, i) = SubSeq(text, p, q)

\* Where what is left goes.
LEMMA TrimsWhere ==
  ASSUME NEW text, NEW a \in Nat, NEW i \in Nat, NEW p, NEW q, Trims(text, a, i, p, q)
  PROVE  /\ p \in Nat /\ q \in Nat /\ a <= p /\ p <= q /\ q <= i
         /\ \A k \in a..i : k < p \/ q < k => text[k] = "_"
<1>1. p \in a..i /\ q \in p..i
  BY DEF Trims
<1>2. \A k \in a..i : text[k] # "_" => p <= k /\ k <= q
  BY DEF Trims
<1>3. p \in Nat /\ q \in Nat /\ a <= p /\ p <= q /\ q <= i
  BY <1>1
<1>4. ASSUME NEW k \in a..i, k < p \/ q < k PROVE text[k] = "_"
  <2>1. ~(p <= k /\ k <= q)
    BY <1>3, <1>4
  <2> QED
    BY <1>2, <2>1
<1> QED
  BY <1>3, <1>4

\* Nothing is left of white space.
Blanks(text, a, i) == (\A k \in a..i : text[k] = "_") /\ Trimmed(text, a, i) = <<>>

\* What is trimmed is the part between the first and the last character that is
\* no white space.
LEMMA TrimmedIs ==
  ASSUME NEW text, NEW a \in Nat, NEW i \in Nat
  PROVE  Blanks(text, a, i) \/ \E p, q \in Nat : Trims(text, a, i, p, q)
<1> DEFINE solid == {k \in a..i : text[k] # "_"}
           first == CHOOSE k \in solid : \A l \in solid : k <= l
           last == CHOOSE k \in solid : \A l \in solid : l <= k
<1>1. CASE solid = {}
  <2>1. \A k \in a..i : text[k] = "_"
    BY <1>1
  <2> QED
    BY <1>1, <2>1 DEF Blanks, Trimmed
<1>2. CASE solid # {}
  <2>1. solid \subseteq Nat /\ solid \subseteq 0..i
    <3>1. \A k \in a..i : k \in Nat /\ k \in 0..i
      OBVIOUS
    <3> QED
      BY <3>1
  <2>2. Trimmed(text, a, i) = SubSeq(text, first, last)
    BY <1>2 DEF Trimmed
  <2>3. \A k \in solid : k \in a..i /\ text[k] # "_"
    OBVIOUS
  <2>4. \A k \in a..i : text[k] # "_" => k \in solid
    OBVIOUS
  <2> HIDE DEF solid
  <2>5. \E k \in solid : \A l \in solid : k <= l
    <3>1. PICK k \in solid : \A l \in solid : ~(l < k)
      BY <1>2, <2>1, LeastNumber
    <3>2. \A l \in solid : k <= l
      BY <2>1, <3>1
    <3> QED
      BY <3>2
  <2>6. first \in solid /\ \A l \in solid : first <= l
    BY <2>5
  <2>7. \E k \in solid : \A l \in solid : l <= k
    BY <1>2, <2>1, GreatestNumber
  <2>8. last \in solid /\ \A l \in solid : l <= last
    BY <2>7
  <2> HIDE DEF first, last
  <2>9. first \in a..i /\ text[first] # "_" /\ last \in first..i /\ text[last] # "_"
    <3>1. first \in a..i /\ last \in a..i /\ first <= last /\ text[first] # "_" /\ text[last] # "_"
      BY <2>3, <2>6, <2>8
    <3>2. first \in a..i /\ last \in a..i /\ first <= last
      BY <3>1
    <3>3. last \in first..i
      BY <3>2
    <3> QED
      BY <3>1, <3>3
  <2>10. \A k \in a..i : text[k] # "_" => first <= k /\ k <= last
    BY <2>4, <2>6, <2>8
  <2>11. first \in Nat /\ last \in Nat
    BY <2>1, <2>6, <2>8
  <2>12. Trims(text, a, i, first, last)
    BY <2>2, <2>9, <2>10 DEF Trims
  <2> QED
    BY <2>11, <2>12
<1> QED
  BY <1>1, <1>2

\* A part of a text is a text.
LEMMA PartOf ==
  ASSUME NEW text \in Seq(Char), NEW p \in Nat \ {0}, NEW q \in 0..Len(text)
  PROVE  /\ SubSeq(text, p, q) \in Seq(Char)
         /\ Len(SubSeq(text, p, q)) = IF p <= q THEN q - p + 1 ELSE 0
         /\ \A k \in 1..(q - p + 1) : SubSeq(text, p, q)[k] = text[p + k - 1]
<1>1. Len(text) \in Nat
  BY LenProperties
<1>2. \A k \in p..q : k \in 1..Len(text)
  BY <1>1
<1>3. \A k \in p..q : text[k] \in Char
  BY <1>2, ElementOfSeq
<1> HIDE DEF Char
<1> QED
  BY <1>1, <1>3, SubSeqProperties

\* What is trimmed is a text.
LEMMA TrimmedType ==
  ASSUME NEW text \in Seq(Char), NEW a \in Nat \ {0}, NEW i \in 0..Len(text)
  PROVE  Trimmed(text, a, i) \in Seq(Char)
<1>1. Len(text) \in Nat /\ i \in Nat /\ a \in Nat
  BY LenProperties
<1>2. CASE Blanks(text, a, i)
  <2>1. Trimmed(text, a, i) = <<>>
    BY <1>2 DEF Blanks
  <2>2. <<>> \in Seq(Char)
    OBVIOUS
  <2> QED
    BY <2>1, <2>2
<1>3. ASSUME NEW p \in Nat, NEW q \in Nat, Trims(text, a, i, p, q)
      PROVE  Trimmed(text, a, i) \in Seq(Char)
  <2>1. a <= p /\ p <= q /\ q <= i
    BY <1>1, <1>3, TrimsWhere
  <2>2. p \in Nat \ {0} /\ q \in 0..Len(text)
    BY <1>1, <2>1
  <2>3. Trimmed(text, a, i) = SubSeq(text, p, q)
    BY <1>3 DEF Trims
  <2> QED
    BY <2>2, <2>3, PartOf
<1>4. Blanks(text, a, i) \/ \E p, q \in Nat : Trims(text, a, i, p, q)
  BY <1>1, TrimmedIs
<1> QED
  BY <1>2, <1>3, <1>4

\* t is v with u before and w behind it.
Pads(t, u, v, w) ==
  u \in Seq(Char) /\ v \in Seq(Char) /\ w \in Seq(Char) /\ t = u \o (v \o w)

\* What has none of the elements leaves those of the rest.
LEMMA PadsSame ==
  ASSUME NEW t, NEW u, NEW v, NEW w, NEW S, Pads(t, u, v, w),
         Those(u, S) = <<>>, Those(w, S) = <<>>
  PROVE  Those(t, S) = Those(v, S)
<1> DEFINE T == Char
<1>1. u \in Seq(T) /\ v \in Seq(T) /\ w \in Seq(T) /\ t = u \o (v \o w)
  BY DEF Pads
<1> HIDE DEF T
<1>2. ASSUME NEW x \in Seq(T), NEW y \in Seq(T) PROVE Those(x \o y, S) = Those(x, S) \o Those(y, S)
  <2>1. \A z \in Seq(T) : Those(x \o z, S) = Those(x, S) \o Those(z, S)
    BY ThoseConcat
  <2> QED
    BY <2>1
<1> DEFINE x == v \o w
<1>3. Those(v, S) \in Seq(T) /\ x \in Seq(T)
  BY <1>1, ThoseAre, ConcatProperties
<1>4. Those(x, S) = Those(v, S) \o Those(w, S)
  BY <1>1, <1>2
<1> HIDE DEF x
<1>5. Those(u \o x, S) = Those(u, S) \o Those(x, S)
  BY <1>1, <1>2, <1>3
<1>6. Those(v, S) \o <<>> = Those(v, S) /\ <<>> \o Those(v, S) = Those(v, S)
  BY <1>3, ConcatEmptySeq
<1> QED
  BY <1>1, <1>4, <1>5, <1>6 DEF x

\* White space apart, it is all that was there.
LEMMA TrimmedSolid ==
  ASSUME NEW text \in Seq(Char), NEW a \in 1..Len(text), NEW i \in a..Len(text)
  PROVE  Solid(Trimmed(text, a, i)) = Solid(SubSeq(text, a, i))
<1> DEFINE S == Char \ {"_"}
           N == Len(text)
<1>1. N \in Nat /\ a \in Nat \ {0} /\ i \in 0..N /\ i \in Nat /\ a \in Nat /\ i \in Int /\ a \in Int
  BY LenProperties
<1>2. ASSUME NEW p \in Nat \ {0}, NEW q \in 0..N, \A k \in p..q : text[k] = "_"
      PROVE  Those(SubSeq(text, p, q), S) = <<>>
  <2> DEFINE w == SubSeq(text, p, q)
  <2>1. w \in Seq(Char) /\ Len(w) = (IF p <= q THEN q - p + 1 ELSE 0)
        /\ \A k \in 1..(q - p + 1) : w[k] = text[p + k - 1]
    BY PartOf
  <2>2. ASSUME NEW n \in 1..Len(w) PROVE w[n] \notin S
    <3>1. n \in 1..(q - p + 1) /\ p + n - 1 \in p..q
      BY <1>1, <2>1, <2>2
    <3>2. w[n] = "_"
      BY <1>2, <2>1, <3>1
    <3> QED
      BY <3>2
  <2> HIDE DEF w, S
  <2> QED
    BY <2>1, <2>2, ThoseOutside DEF w
<1>3. CASE Blanks(text, a, i)
  <2>1. Those(SubSeq(text, a, i), S) = <<>>
    BY <1>1, <1>2, <1>3 DEF Blanks
  <2>2. Trimmed(text, a, i) = <<>>
    BY <1>3 DEF Blanks
  <2> QED
    BY <2>1, <2>2, ThoseOfNone DEF Solid
<1>4. ASSUME NEW p \in Nat, NEW q \in Nat, Trims(text, a, i, p, q)
      PROVE  Solid(Trimmed(text, a, i)) = Solid(SubSeq(text, a, i))
  <2> DEFINE u == SubSeq(text, a, p - 1)
             v == SubSeq(text, p, q)
             w == SubSeq(text, q + 1, i)
             t == SubSeq(text, a, i)
  <2>1. /\ a <= p /\ p <= q /\ q <= i
        /\ \A k \in a..i : k < p \/ q < k => text[k] = "_"
    BY <1>1, <1>4, TrimsWhere
  <2>2. i <= N /\ 1 <= a /\ N \in Nat /\ a \in Nat /\ i \in Nat
    BY <1>1
  <2>3. p \in Nat /\ q \in Nat /\ a <= p /\ p <= q /\ q <= i
    BY <2>1
  <2>4. Trimmed(text, a, i) = v
    BY <1>4 DEF Trims
  <2>5. /\ p \in 1..N /\ q \in 0..N /\ p - 1 \in 0..N /\ q + 1 \in Nat \ {0} /\ p \in Nat \ {0}
        /\ p - 1 \in (a - 1)..N /\ i \in (p - 1)..N /\ q \in (p - 1)..N /\ i \in q..N
        /\ a \in 1..(N + 1) /\ p \in 1..(N + 1) /\ (p - 1) + 1 = p
    <3> HIDE DEF N
    <3> QED
      BY <2>2, <2>3
  <2>6. u \in Seq(Char) /\ v \in Seq(Char) /\ w \in Seq(Char)
    BY <1>1, <2>5, PartOf
  <2>7. t = u \o SubSeq(text, p, i)
    BY <2>5, ConcatAdjacentSubSeq
  <2>8. SubSeq(text, p, i) = v \o w
    BY <2>5, ConcatAdjacentSubSeq
  <2>9. \A k \in a..(p - 1) : text[k] = "_"
    <3>1. \A k \in a..(p - 1) : k \in a..i /\ k < p
      BY <2>2, <2>3
    <3> QED
      BY <2>1, <3>1
  <2>10. \A k \in (q + 1)..i : text[k] = "_"
    <3>1. \A k \in (q + 1)..i : k \in a..i /\ q < k
      BY <2>2, <2>3
    <3> QED
      BY <2>1, <3>1
  <2>11. Those(u, S) = <<>>
    BY <1>1, <1>2, <2>5, <2>9
  <2>12. Those(w, S) = <<>>
    BY <1>1, <1>2, <2>5, <2>10
  <2>13. t = u \o (v \o w)
    BY <2>7, <2>8
  <2>14. Pads(t, u, v, w)
    BY <2>6, <2>13 DEF Pads
  <2> HIDE DEF u, v, w, t, S
  <2>15. Those(t, S) = Those(v, S)
    BY <2>11, <2>12, <2>14, PadsSame
  <2> QED
    BY <2>4, <2>15 DEF Solid, S, t
<1>5. Blanks(text, a, i) \/ \E p, q \in Nat : Trims(text, a, i, p, q)
  BY <1>1, TrimmedIs
<1> QED
  BY <1>3, <1>4, <1>5
-----------------------------------------------------------------------------
(* The sentences of a text. *)

Borders(text) == Cuts(text) \cup {Len(text)}
Pieces == [start : Nat \ {0}, sentences : Seq(Seq(Char))]
NoPieces == [start |-> 1, sentences |-> <<>>]

\* What the i-th character makes of the sentences before it.
Splitting(text, i, r) ==
  IF i \notin Borders(text) THEN r
  ELSE [start |-> i + 1, sentences |-> Append(r.sentences, Trimmed(text, r.start, i))]

\* f has what the text is split into by each place of it.
Splits(f, text) ==
  /\ f \in [0..Len(text) -> Pieces]
  /\ splitIntoSentences(text) = f[Len(text)].sentences /\ f[0] = NoPieces
  /\ \A i \in 1..Len(text) : f[i] = Splitting(text, i, f[i - 1])

\* A step of the splitting.
LEMMA SplittingType ==
  ASSUME NEW text \in Seq(Char), NEW i \in 1..Len(text), NEW r \in Pieces
  PROVE  Splitting(text, i, r) \in Pieces
<1> DEFINE x == Trimmed(text, r.start, i)
           ss == r.sentences
<1>1. Len(text) \in Nat /\ i \in 0..Len(text) /\ i + 1 \in Nat \ {0}
  BY LenProperties
<1>2. r.start \in Nat \ {0} /\ ss \in Seq(Seq(Char))
  BY DEF Pieces
<1>3. x \in Seq(Char)
  BY <1>1, <1>2, TrimmedType
<1>4. Append(ss, x) \in Seq(Seq(Char))
  BY <1>2, <1>3, AppendProperties
<1>5. [start |-> i + 1, sentences |-> Append(ss, x)] \in Pieces
  BY <1>1, <1>4 DEF Pieces
<1> QED
  BY <1>5 DEF Splitting

\* A text is split from its first character to its last.
LEMMA SplitUnfold ==
  ASSUME NEW text \in Seq(Char)
  PROVE  \E f : Splits(f, text)
<1> DEFINE N == Len(text)
           step == [i \in 1..N |-> [r \in Pieces |-> Splitting(text, i, r)]]
<1>1. N \in Nat
  BY LenProperties
<1>2. NoPieces \in Pieces
  BY DEF NoPieces, Pieces
<1>3. \A i \in 1..N : \A r \in Pieces : Splitting(text, i, r) \in Pieces
  BY SplittingType
<1>4. \A i \in 1..N : \A r \in Pieces : step[i][r] = Splitting(text, i, r)
  OBVIOUS
<1>5. step \in [1..N -> [Pieces -> Pieces]]
  BY <1>3
<1> HIDE DEF step, N
<1>6. PICK g \in [0..N -> Pieces] : g[0] = NoPieces /\ \A i \in 1..N : g[i] = step[i][g[i - 1]]
  <2>1. Recurs(Pieces, NoPieces, N, step)
    BY <1>1, <1>2, <1>5, Recurring
  <2> QED
    BY <2>1 DEF Recurs
<1>7. \A i \in 1..N : i - 1 \in 0..N /\ g[i - 1] \in Pieces
  BY <1>1, <1>6
<1>8. \A i \in 1..N : g[i] = Splitting(text, i, g[i - 1])
  BY <1>4, <1>6, <1>7
<1> DEFINE Recursive(h) == h = [i \in 0..N |-> IF i = 0 THEN NoPieces ELSE Splitting(text, i, h[i - 1])]
           f == CHOOSE h : Recursive(h)
<1>9. Recursive(g)
  <2>1. \A i \in 0..N : g[i] = IF i = 0 THEN NoPieces ELSE Splitting(text, i, g[i - 1])
    BY <1>1, <1>6, <1>8
  <2> QED
    BY <1>6, <2>1
<1>10. Recursive(f)
  BY <1>9
<1>11. splitIntoSentences(text) = f[N].sentences
  BY DEF splitIntoSentences, N, NoPieces, Splitting, Borders
<1> HIDE DEF f
<1>12. f[0] = NoPieces /\ \A i \in 1..N : f[i] = Splitting(text, i, f[i - 1])
  <2>1. 0 \in 0..N
    BY <1>1
  <2>2. \A i \in 1..N : i \in 0..N /\ i # 0
    BY <1>1
  <2> QED
    BY <1>10, <2>1, <2>2
<1> DEFINE Good == {i \in 0..N : f[i] = g[i]}
<1>13. 0 \in Good
  BY <1>1, <1>6, <1>12
<1>14. ASSUME NEW i \in 0..N, i \in Good, i < N PROVE i + 1 \in Good
  <2>1. i + 1 \in 1..N /\ i + 1 \in 0..N /\ (i + 1) - 1 = i /\ f[i] = g[i]
    BY <1>1, <1>14
  <2>2. f[i + 1] = Splitting(text, i + 1, f[i])
    BY <1>12, <2>1
  <2>3. g[i + 1] = Splitting(text, i + 1, g[i])
    BY <1>8, <2>1
  <2> QED
    BY <2>1, <2>2, <2>3
<1> HIDE DEF Good
<1>15. 0..N \subseteq Good
  BY <1>1, <1>13, <1>14, Induction
<1>16. f[N] = g[N]
  <2>1. N \in 0..N
    BY <1>1
  <2> QED
    BY <1>15, <2>1 DEF Good
<1> QED
  BY <1>6, <1>8, <1>11, <1>16 DEF Splits, N

\* Behind what was split off, i characters on: a place behind a cut, no border
\* since, and no more sentences than characters.
Splitted(text, i, r) ==
  /\ r.start \in 1..(i + 1) /\ r.sentences \in Seq(Seq(Char))
  /\ r.start = 1 \/ r.start - 1 \in Borders(text)
  /\ \A k \in r.start..i : k \notin Borders(text)
  /\ Len(r.sentences) < r.start
  /\ r.start = 1 => r.sentences = <<>>

\* At every place of the text.
LEMMA SplitPlaces ==
  ASSUME NEW text \in Seq(Char), NEW f, Splits(f, text)
  PROVE  \A i \in 0..Len(text) : Splitted(text, i, f[i])
<1> DEFINE N == Len(text)
           Good == {i \in 0..N : Splitted(text, i, f[i])}
<1>1. N \in Nat
  BY LenProperties
<1>2. 0 \in Good
  <2>1. f[0] = NoPieces
    BY DEF Splits
  <2>2. NoPieces.start = 1 /\ NoPieces.sentences = <<>>
    BY DEF NoPieces
  <2>3. Splitted(text, 0, NoPieces)
    BY <2>2 DEF Splitted
  <2> QED
    BY <1>1, <2>1, <2>3
<1>3. ASSUME NEW i \in 0..N, i \in Good, i < N PROVE i + 1 \in Good
  <2> DEFINE j == i + 1
             r == f[i]
             x == Trimmed(text, r.start, j)
  <2>1. j \in 1..N /\ j \in 0..N /\ j - 1 = i /\ Splitted(text, i, r)
    BY <1>1, <1>3
  <2>2. f[j] = Splitting(text, j, f[j - 1])
    BY <2>1 DEF Splits
  <2>3. f[j] = Splitting(text, j, r)
    BY <2>1, <2>2
  <2>4. /\ r.start \in 1..(i + 1) /\ r.sentences \in Seq(Seq(Char))
        /\ r.start = 1 \/ r.start - 1 \in Borders(text)
        /\ \A k \in r.start..i : k \notin Borders(text)
        /\ Len(r.sentences) < r.start /\ Len(r.sentences) \in Nat
        /\ r.start = 1 => r.sentences = <<>>
    BY <2>1, LenProperties DEF Splitted
  <2>5. r.start \in Nat \ {0}
    BY <2>4
  <2>6. x \in Seq(Char)
    BY <2>1, <2>5, TrimmedType
  <2>7. Append(r.sentences, x) \in Seq(Seq(Char)) /\ Len(Append(r.sentences, x)) = Len(r.sentences) + 1
    BY <2>4, <2>6, AppendProperties
  <2> HIDE DEF x, r
  <2>8. CASE j \notin Borders(text)
    <3>1. f[j] = r
      BY <2>3, <2>8 DEF Splitting
    <3>2. \A k \in r.start..j : k \in r.start..i \/ k = j
      BY <2>4
    <3>3. r.start \in 1..(j + 1)
      BY <1>1, <2>4
    <3> QED
      BY <2>1, <2>4, <2>8, <3>1, <3>2, <3>3 DEF Splitted
  <2>9. CASE j \in Borders(text)
    <3> DEFINE y == Append(r.sentences, x)
               q == [start |-> j + 1, sentences |-> y]
    <3>1. f[j] = q
      BY <2>3, <2>9 DEF Splitting, x
    <3>2. q.start = j + 1 /\ q.sentences = y
      OBVIOUS
    <3> HIDE DEF q, y
    <3>3. j + 1 \in 1..(j + 1) /\ (j + 1) - 1 = j /\ j + 1 # 1 /\ (j + 1)..j = {}
      BY <2>1
    <3>4. Len(y) < j + 1
      BY <1>1, <2>4, <2>7 DEF y
    <3>5. y \in Seq(Seq(Char))
      BY <2>7 DEF y
    <3>6. Splitted(text, j, q)
      BY <2>9, <3>2, <3>3, <3>4, <3>5 DEF Splitted
    <3> QED
      BY <2>1, <3>1, <3>6
  <2> QED
    BY <2>8, <2>9
<1> HIDE DEF Good
<1>4. 0..N \subseteq Good
  BY <1>1, <1>2, <1>3, Induction
<1> QED
  BY <1>4 DEF Good

\* From k to c there is the end of a sentence and white space.
Ended(text, k, c) == text[k] = "." /\ \A l \in (k + 1)..c : text[l] = "_"

\* Where a text is cut.
LEMMA CutIs ==
  ASSUME NEW text \in Seq(Char), NEW c \in 1..Len(text), c < Len(text)
  PROVE  c \in Borders(text) <=> text[c + 1] # "_" /\ \E k \in 1..c : Ended(text, k, c)
<1>1. Len(text) \in Nat
  BY LenProperties
<1>2. c \in 1..(Len(text) - 1) /\ c # Len(text)
  BY <1>1
<1>3. c \in Borders(text) <=> c \in Cuts(text)
  BY <1>2 DEF Borders
<1>4. c \in Cuts(text) <=> text[c + 1] # "_" /\ \E k \in 1..c : Ended(text, k, c)
  BY <1>2 DEF Cuts, Ended
<1> QED
  BY <1>3, <1>4

\* The sentence that goes to i begins with white space only where the text
\* does, and its end is the one the cut has.
LEMMA PieceEnds ==
  ASSUME NEW text \in Seq(Char), NEW i \in 1..Len(text), NEW r,
         Splitted(text, i - 1, r), i \in Borders(text)
  PROVE  /\ r.start \in 1..i /\ \A k \in r.start..(i - 1) : k \notin Borders(text)
         /\ r.start = 1 \/ text[r.start] # "_"
         /\ i < Len(text) => \E k \in r.start..i : Ended(text, k, i)
<1> DEFINE a == r.start
           N == Len(text)
<1>1. N \in Nat /\ i \in 1..N
  BY LenProperties
<1>2. a \in 1..((i - 1) + 1) /\ (a = 1 \/ a - 1 \in Borders(text))
      /\ \A k \in a..(i - 1) : k \notin Borders(text)
  BY DEF Splitted
<1> HIDE DEF a, N
<1>3. a \in 1..i
  BY <1>1, <1>2
<1>4. a = 1 \/ text[a] # "_"
  <2>1. SUFFICES ASSUME a # 1 PROVE text[a] # "_"
    OBVIOUS
  <2> DEFINE c == a - 1
  <2>2. c \in 1..N /\ c < N /\ c + 1 = a
    BY <1>1, <1>3, <2>1
  <2>3. c \in Borders(text)
    BY <1>2, <2>1
  <2> HIDE DEF c
  <2>4. text[c + 1] # "_"
    BY <2>2, <2>3, CutIs DEF N
  <2> QED
    BY <2>2, <2>4
<1>5. ASSUME i < N PROVE \E k \in a..i : Ended(text, k, i)
  <2>1. PICK k \in 1..i : Ended(text, k, i)
    BY <1>1, <1>5, CutIs DEF N
  <2>2. a <= k
    <3>1. SUFFICES ASSUME k < a PROVE FALSE
      BY <1>3
    <3>2. a # 1 /\ a \in (k + 1)..i
      BY <1>3, <3>1
    <3>3. text[a] = "_"
      BY <2>1, <3>2 DEF Ended
    <3> QED
      BY <1>4, <3>2, <3>3
  <2>3. k \in a..i
    BY <1>3, <2>2
  <2> QED
    BY <2>1, <2>3
<1> QED
  BY <1>2, <1>3, <1>4, <1>5 DEF a, N

\* The end of a sentence that is not its last character is cut behind.
LEMMA CutBehind ==
  ASSUME NEW text \in Seq(Char), NEW m \in 1..Len(text), NEW q \in 1..Len(text),
         m < q
  PROVE  text[m] = "." /\ text[q] # "_" => \E c \in m..(q - 1) : c \in Borders(text)
<1> DEFINE N == Len(text)
           T == {l \in (m + 1)..q : text[l] # "_"}
<1>1. N \in Nat
  BY LenProperties
<1>2. q \in (m + 1)..q /\ (m + 1)..q \subseteq Nat
  BY <1>1
<1>3. \A z \in (m + 1)..q :
        /\ z - 1 \in m..(q - 1) /\ z - 1 \in 1..N /\ z - 1 < N /\ (z - 1) + 1 = z
        /\ m \in 1..(z - 1)
        /\ \A l \in (m + 1)..(z - 1) : l \in (m + 1)..q /\ l < z
  BY <1>1
<1> SUFFICES ASSUME text[m] = ".", text[q] # "_"
             PROVE  \E c \in m..(q - 1) : c \in Borders(text)
  OBVIOUS
<1>4. q \in T /\ T \subseteq (m + 1)..q
  BY <1>2
<1>5. T \subseteq Nat /\ T # {}
  BY <1>2, <1>4
<1>6. \A l \in (m + 1)..q : l \notin T => text[l] = "_"
  OBVIOUS
<1>7. \A l \in T : text[l] # "_"
  OBVIOUS
<1> HIDE DEF T
<1>8. PICK z \in T : \A l \in T : ~(l < z)
  BY <1>5, LeastNumber
<1> DEFINE c == z - 1
<1>9. z \in (m + 1)..q
  BY <1>4, <1>8
<1>10. /\ c \in m..(q - 1) /\ c \in 1..N /\ c < N /\ c + 1 = z /\ m \in 1..c
       /\ \A l \in (m + 1)..c : l \in (m + 1)..q /\ l < z
  BY <1>3, <1>9
<1>11. text[c + 1] # "_"
  BY <1>7, <1>8, <1>10
<1>12. Ended(text, m, c)
  <2>1. ASSUME NEW l \in (m + 1)..c PROVE text[l] = "_"
    <3>1. l \in (m + 1)..q /\ l < z
      BY <1>10
    <3> QED
      BY <1>6, <1>8, <3>1
  <2> QED
    BY <2>1 DEF Ended
<1> HIDE DEF c
<1>13. c \in Borders(text)
  BY <1>10, <1>11, <1>12, CutIs
<1> QED
  BY <1>10, <1>13

\* What a sentence is to be: nothing only where the text has just white space;
\* nothing that ends a sentence but its last character; and that, unless it is
\* what is left behind the last end.
SentenceIs(text, a, i, x) ==
  /\ Solid(x) = Solid(SubSeq(text, a, i))
  /\ x = <<>> => a = 1 /\ i = Len(text)
  /\ \A k \in DOMAIN x : x[k] = "." => k = Len(x)
  /\ i < Len(text) => Last(x) = "."

\* Every sentence is so.
LEMMA PieceSound ==
  ASSUME NEW text \in Seq(Char), NEW i \in 1..Len(text), NEW r,
         Splitted(text, i - 1, r), i \in Borders(text)
  PROVE  SentenceIs(text, r.start, i, Trimmed(text, r.start, i))
<1> DEFINE a == r.start
           N == Len(text)
           x == Trimmed(text, a, i)
<1>1. N \in Nat /\ i \in 1..N
  BY LenProperties
<1>2. /\ a \in 1..i /\ \A k \in a..(i - 1) : k \notin Borders(text)
      /\ a = 1 \/ text[a] # "_"
      /\ i < N => \E k \in a..i : Ended(text, k, i)
  BY PieceEnds
<1>3. a \in 1..N /\ i \in a..N /\ a \in Nat /\ i \in Nat /\ a \in a..i
  <2>1. a \in 1..i
    BY <1>2
  <2> HIDE DEF a, N
  <2> QED
    BY <1>1, <2>1
<1>4. Solid(x) = Solid(SubSeq(text, a, i))
  BY <1>3, TrimmedSolid
<1>5. CASE Blanks(text, a, i)
  <2>1. x = <<>>
    BY <1>5 DEF Blanks
  <2>2. a = 1
    BY <1>2, <1>3, <1>5 DEF Blanks
  <2>3. ~(i < N)
    BY <1>2, <1>5 DEF Blanks, Ended
  <2>4. i = N
    BY <1>1, <2>3
  <2>5. DOMAIN x = {}
    BY <2>1
  <2> QED
    BY <1>4, <2>1, <2>2, <2>3, <2>4, <2>5 DEF SentenceIs
<1>6. ASSUME NEW p \in Nat, NEW q \in Nat, Trims(text, a, i, p, q)
      PROVE  SentenceIs(text, a, i, x)
  <2>1. /\ a <= p /\ p <= q /\ q <= i
        /\ \A k \in a..i : k < p \/ q < k => text[k] = "_"
    BY <1>3, <1>6, TrimsWhere
  <2>2. a <= p /\ p <= q /\ q <= i
    BY <2>1
  <2> HIDE DEF a, N
  <2>3. /\ p \in Nat \ {0} /\ q \in 0..N /\ p \in 1..N /\ q \in 1..N /\ q \in a..i
        /\ q - p + 1 \in Nat \ {0}
    BY <1>1, <1>3, <2>2
  <2>4. x = SubSeq(text, p, q) /\ text[q] # "_"
    BY <1>6 DEF Trims, x
  <2> HIDE DEF x
  <2>5. /\ x \in Seq(Char) /\ Len(x) = q - p + 1
        /\ \A k \in 1..(q - p + 1) : x[k] = text[p + k - 1]
    BY <2>2, <2>3, <2>4, PartOf DEF N
  <2>6. DOMAIN x = 1..(q - p + 1) /\ x # <<>>
    BY <2>3, <2>5, LenProperties
  <2>7. ASSUME NEW k \in 1..(q - p + 1), k # q - p + 1 PROVE x[k] # "."
    <3> DEFINE m == p + k - 1
    <3>1. m \in 1..N /\ m < q /\ a <= m
      <4>1. k < q - p + 1 /\ k \in Nat /\ 1 <= k
        BY <2>3, <2>7
      <4>2. p \in Nat /\ q \in Nat /\ N \in Nat /\ a \in Nat /\ q <= N /\ 1 <= p /\ a <= p
        BY <1>1, <1>3, <2>2, <2>3
      <4> QED
        BY <4>1, <4>2
    <3>2. SUFFICES ASSUME x[k] = "." PROVE FALSE
      OBVIOUS
    <3>3. text[m] = "."
      BY <2>5, <3>2
    <3> HIDE DEF m
    <3>4. PICK c \in m..(q - 1) : c \in Borders(text)
      BY <2>3, <2>4, <3>1, <3>3, CutBehind DEF N
    <3>5. c \in a..(i - 1)
      BY <1>3, <2>2, <3>1
    <3> QED
      BY <1>2, <3>4, <3>5
  <2>8. \A k \in DOMAIN x : x[k] = "." => k = Len(x)
    BY <2>5, <2>6, <2>7
  <2>9. ASSUME i < N PROVE Last(x) = "."
    <3>1. PICK k \in a..i : Ended(text, k, i)
      BY <1>2, <2>9
    <3>2. text[k] = "." /\ \A l \in (k + 1)..i : text[l] = "_"
      BY <3>1 DEF Ended
    <3>3. text[k] # "_"
      BY <3>2
    <3>4. ~(q < k)
      BY <2>1, <3>3
    <3>5. ~(k < q)
      <4>1. SUFFICES ASSUME k < q PROVE FALSE
        OBVIOUS
      <4>2. q \in (k + 1)..i
        BY <1>3, <2>2, <4>1
      <4> QED
        BY <2>4, <3>2, <4>2
    <3>6. k = q
      BY <1>3, <3>4, <3>5
    <3> DEFINE n == q - p + 1
    <3>7. n \in 1..(q - p + 1) /\ p + n - 1 = q /\ Len(x) = n
      BY <2>3, <2>5
    <3> HIDE DEF n
    <3>8. x[n] = text[q]
      BY <2>5, <3>7
    <3> QED
      BY <3>2, <3>6, <3>7, <3>8 DEF Last
  <2> QED
    BY <1>4, <2>6, <2>8, <2>9 DEF SentenceIs, N
<1>7. Blanks(text, a, i) \/ \E p, q \in Nat : Trims(text, a, i, p, q)
  BY <1>3, TrimmedIs
<1> QED
  BY <1>5, <1>6, <1>7

\* What the n-th sentence is to be.
OneSound(text, r, n) ==
  LET x == r.sentences[n]
  IN  /\ x = <<>> => Len(r.sentences) = 1 /\ r.start = Len(text) + 1
      /\ \A k \in DOMAIN x : x[k] = "." => k = Len(x)
      /\ n < Len(r.sentences) \/ r.start <= Len(text) => Last(x) = "."

\* What was split off is what was there.
Sound(text, r) ==
  /\ Solid(FlattenSeq(r.sentences)) = Solid(SubSeq(text, 1, r.start - 1))
  /\ \A n \in 1..Len(r.sentences) : OneSound(text, r, n)

\* One sentence more is as sound as the others.
LEMMA OneMoreSound ==
  ASSUME NEW text \in Seq(Char), NEW i \in 1..Len(text), NEW r,
         Splitted(text, i - 1, r), i \in Borders(text), Sound(text, r)
  PROVE  Sound(text, Splitting(text, i, r))
<1> DEFINE a == r.start
           N == Len(text)
           x == Trimmed(text, a, i)
           ss == r.sentences
           tt == Append(ss, x)
           S == Char \ {"_"}
           q == [start |-> i + 1, sentences |-> tt]
<1>1. N \in Nat /\ i \in 1..N
  BY LenProperties
<1>2. SentenceIs(text, a, i, x)
  BY PieceSound
<1>3. a \in 1..i
  BY PieceEnds
<1>4. a \in Nat \ {0} /\ i \in 0..N
  BY <1>1, <1>3
<1>5. x \in Seq(Char)
  BY <1>4, TrimmedType
<1>6. ss \in Seq(Seq(Char))
  BY DEF Splitted
<1>7. /\ tt \in Seq(Seq(Char)) /\ Len(ss) \in Nat /\ Len(tt) = Len(ss) + 1 /\ tt[Len(ss) + 1] = x
      /\ \A n \in 1..Len(ss) : tt[n] = ss[n]
  BY <1>5, <1>6, AppendProperties, LenProperties
<1>8. q.start = i + 1 /\ q.sentences = tt
  OBVIOUS
<1>9. Splitting(text, i, r) = q
  BY DEF Splitting
<1>10. a = 1 => Len(ss) = 0
  BY DEF Splitted
<1>11. Solid(FlattenSeq(tt)) = Solid(SubSeq(text, 1, i))
  <2> DEFINE u == FlattenSeq(ss)
             v == SubSeq(text, 1, a - 1)
             w == SubSeq(text, a, i)
  <2>1. u \in Seq(Char) /\ FlattenSeq(tt) = u \o x
    BY <1>5, <1>6, FlattenAppend
  <2>2. a - 1 \in 0..N /\ 1 \in Nat \ {0} /\ (a - 1) + 1 = a /\ 1 \in 1..(N + 1)
        /\ a - 1 \in (1 - 1)..N /\ i \in (a - 1)..N
    <3> HIDE DEF a, N
    <3> QED
      BY <1>1, <1>3
  <2>3. v \in Seq(Char) /\ w \in Seq(Char)
    BY <1>4, <2>2, PartOf
  <2>4. v \o w = SubSeq(text, 1, i)
    BY <2>2, ConcatAdjacentSubSeq
  <2>5. Those(u, S) = Those(v, S) /\ Those(x, S) = Those(w, S)
    BY <1>2 DEF Sound, SentenceIs, Solid
  <2> HIDE DEF u, v, w, S, x, tt
  <2>6. Those(u \o x, S) = Those(u, S) \o Those(x, S)
    BY <1>5, <2>1, ThoseConcat
  <2>7. Those(v \o w, S) = Those(v, S) \o Those(w, S)
    BY <2>3, ThoseConcat
  <2> QED
    BY <2>1, <2>4, <2>5, <2>6, <2>7 DEF Solid, S
<1>12. ASSUME NEW n \in 1..Len(tt) PROVE OneSound(text, q, n)
  <2>1. CASE n = Len(ss) + 1
    <3>1. tt[n] = x
      BY <1>7, <2>1
    <3>2. x = <<>> => a = 1 /\ i = N
      BY <1>2 DEF SentenceIs
    <3>3. \A k \in DOMAIN x : x[k] = "." => k = Len(x)
      BY <1>2 DEF SentenceIs
    <3>4. i < N => Last(x) = "."
      BY <1>2 DEF SentenceIs
    <3> HIDE DEF x, tt, ss, a, N
    <3>5. n = Len(tt) /\ (Len(ss) = 0 => Len(tt) = 1)
      BY <1>7, <2>1
    <3>6. n < Len(tt) \/ i + 1 <= N => i < N
      BY <1>1, <1>7, <2>1
    <3>7. x = <<>> => Len(tt) = 1 /\ i + 1 = N + 1
      BY <1>10, <3>2, <3>5
    <3> HIDE DEF q
    <3> QED
      BY <1>8, <3>1, <3>3, <3>4, <3>6, <3>7 DEF OneSound, N
  <2>2. CASE n # Len(ss) + 1
    <3>1. n \in 1..Len(ss)
      BY <1>7, <2>2
    <3>2. OneSound(text, r, n) /\ tt[n] = ss[n]
      BY <1>7, <3>1 DEF Sound
    <3> DEFINE y == ss[n]
    <3>3. /\ y = <<>> => a = N + 1
          /\ \A k \in DOMAIN y : y[k] = "." => k = Len(y)
          /\ a <= N => Last(y) = "."
      BY <3>2 DEF OneSound
    <3> HIDE DEF y, a, N
    <3>4. a <= N /\ a # N + 1
      BY <1>1, <1>3
    <3>5. y # <<>> /\ Last(y) = "." /\ tt[n] = y
      BY <3>2, <3>3, <3>4 DEF y
    <3> HIDE DEF q
    <3> QED
      BY <1>8, <3>3, <3>5 DEF OneSound
  <2> QED
    BY <2>1, <2>2
<1>13. (i + 1) - 1 = i
  BY <1>1
<1> HIDE DEF q, tt
<1> QED
  BY <1>8, <1>9, <1>11, <1>12, <1>13 DEF Sound

\* What a text is split into is sound at every place of it.
LEMMA SplitSound ==
  ASSUME NEW text \in Seq(Char), NEW f, Splits(f, text)
  PROVE  \A i \in 0..Len(text) : Sound(text, f[i])
<1> DEFINE N == Len(text)
           Good == {i \in 0..N : Sound(text, f[i])}
<1>1. N \in Nat
  BY LenProperties
<1>2. \A i \in 0..N : Splitted(text, i, f[i])
  BY SplitPlaces
<1>3. 0 \in Good
  <2>1. f[0] = NoPieces
    BY DEF Splits
  <2>2. NoPieces.start - 1 = 0 /\ NoPieces.sentences = <<>>
    BY DEF NoPieces
  <2>3. FlattenSeq(<<>>) = <<>>
    BY DEF FlattenSeq
  <2>4. SubSeq(text, 1, 0) = <<>>
    BY SubSeqEmpty
  <2>5. 1..Len(<<>>) = {}
    OBVIOUS
  <2>6. Sound(text, NoPieces)
    BY <2>2, <2>3, <2>4, <2>5 DEF Sound
  <2> QED
    BY <1>1, <2>1, <2>6
<1>4. ASSUME NEW i \in 0..N, i \in Good, i < N PROVE i + 1 \in Good
  <2> DEFINE j == i + 1
             r == f[i]
  <2>1. j \in 1..N /\ j \in 0..N /\ j - 1 = i /\ Sound(text, r)
    BY <1>1, <1>4
  <2>2. Splitted(text, j - 1, r)
    BY <1>2, <2>1
  <2>3. f[j] = Splitting(text, j, r)
    BY <2>1 DEF Splits
  <2> HIDE DEF j, r
  <2>4. Sound(text, Splitting(text, j, r))
    <3>1. CASE j \in Borders(text)
      BY <2>1, <2>2, <3>1, OneMoreSound
    <3>2. CASE j \notin Borders(text)
      BY <2>1, <3>2 DEF Splitting
    <3> QED
      BY <3>1, <3>2
  <2> QED
    BY <2>1, <2>3, <2>4 DEF j
<1> HIDE DEF Good
<1>5. 0..N \subseteq Good
  BY <1>1, <1>3, <1>4, Induction
<1> QED
  BY <1>5 DEF Good

\* All of the text is split off.
LEMMA SplitWhole ==
  ASSUME NEW text \in Seq(Char), NEW f, Splits(f, text)
  PROVE  f[Len(text)].start = Len(text) + 1
<1> DEFINE N == Len(text)
           a == f[N].start
<1>1. N \in Nat /\ N \in 0..N
  BY LenProperties
<1>2. Splitted(text, N, f[N])
  BY <1>1, SplitPlaces
<1>3. a \in 1..(N + 1) /\ \A k \in a..N : k \notin Borders(text)
  BY <1>2 DEF Splitted
<1>4. N \in Borders(text)
  BY DEF Borders
<1> HIDE DEF N, a
<1>5. a = N + 1
  BY <1>1, <1>3, <1>4
<1> QED
  BY <1>5 DEF N, a

\* The sentences of a text are sound, and no more than its characters.
LEMMA SplitIsSound ==
  ASSUME NEW text \in Seq(Char)
  PROVE  /\ splitIntoSentences(text) \in Seq(Seq(Char))
         /\ Len(splitIntoSentences(text)) <= Len(text)
         /\ SentencesSound(text)
<1> DEFINE N == Len(text)
           s == splitIntoSentences(text)
<1>1. N \in Nat /\ N \in 0..N
  BY LenProperties
<1>2. PICK f : Splits(f, text)
  BY SplitUnfold
<1> DEFINE r == f[N]
<1>3. s = r.sentences /\ r.start = N + 1
  BY <1>2, SplitWhole DEF Splits
<1>4. Splitted(text, N, r) /\ Sound(text, r)
  BY <1>1, <1>2, SplitPlaces, SplitSound
<1>5. s \in Seq(Seq(Char)) /\ Len(s) < N + 1
  BY <1>3, <1>4 DEF Splitted
<1>6. Len(s) \in Nat /\ DOMAIN s = 1..Len(s)
  BY <1>5, LenProperties
<1>7. Solid(FlattenSeq(s)) = Solid(text)
  <2>1. (N + 1) - 1 = N /\ SubSeq(text, 1, N) = text
    BY <1>1, SubSeqFull
  <2> HIDE DEF s, r
  <2> QED
    BY <1>3, <1>4, <2>1 DEF Sound
<1>8. ASSUME NEW n \in DOMAIN s
      PROVE  /\ s[n] = <<>> => Len(s) = 1
             /\ \A k \in DOMAIN s[n] : s[n][k] = "." => k = Len(s[n])
             /\ n < Len(s) => Last(s[n]) = "."
  <2> HIDE DEF s, r
  <2>1. OneSound(text, r, n)
    BY <1>3, <1>4, <1>6 DEF Sound
  <2> QED
    BY <1>3, <2>1 DEF OneSound
<1>9. Len(s) <= N
  BY <1>1, <1>5, <1>6
<1>10. SentencesSound(text)
  <2> HIDE DEF s
  <2> SUFFICES /\ Solid(FlattenSeq(s)) = Solid(text)
               /\ \A n \in DOMAIN s :
                    /\ s[n] = <<>> => Len(s) = 1
                    /\ \A k \in DOMAIN s[n] : s[n][k] = "." => k = Len(s[n])
                    /\ n < Len(s) => Last(s[n]) = "."
    BY DEF SentencesSound, s
  <2> QED
    BY <1>7, <1>8
<1> QED
  BY <1>5, <1>9, <1>10
-----------------------------------------------------------------------------
(* The most occurrences that do not overlap. *)

Spaced(S, L) == \A i, j \in S : i < j => i + L <= j
Spacings(P, L, i) == {S \in SUBSET {j \in P : i <= j} : Spaced(S, L)}
SpacedSizes(P, L, i) == {Cardinality(S) : S \in Spacings(P, L, i)}

\* The size of the largest set of places from i on that are L apart.
Most(P, L, i) == CHOOSE n \in SpacedSizes(P, L, i) : \A m \in SpacedSizes(P, L, i) : m <= n

\* A set of so many places is finite.
LEMMA PlacesFinite ==
  ASSUME NEW B \in Nat, NEW S, S \subseteq 1..B
  PROVE  IsFiniteSet(S) /\ Cardinality(S) \in 0..B
<1>1. IsFiniteSet(1..B) /\ Cardinality(1..B) = IF 1 > B THEN 0 ELSE B - 1 + 1
  BY FS_Interval
<1>2. Cardinality(1..B) = B
  BY <1>1
<1>3. IsFiniteSet(S) /\ Cardinality(S) <= Cardinality(1..B)
  BY <1>1, FS_Subset
<1>4. Cardinality(S) \in Nat
  BY <1>3, FS_CardinalityType
<1> QED
  BY <1>2, <1>3, <1>4

\* There is a largest one.
LEMMA MostIs ==
  ASSUME NEW B \in Nat, NEW P, P \subseteq 1..B, NEW L, NEW i
  PROVE  /\ \E S \in Spacings(P, L, i) : Cardinality(S) = Most(P, L, i)
         /\ \A S \in Spacings(P, L, i) : Cardinality(S) <= Most(P, L, i)
         /\ Most(P, L, i) \in Nat
<1> DEFINE F == Spacings(P, L, i)
           Z == SpacedSizes(P, L, i)
           M == Most(P, L, i)
<1>1. {} \in F
  BY DEF Spacings, Spaced
<1>2. \A S \in F : S \subseteq 1..B
  BY DEF Spacings
<1>3. \A S \in F : Cardinality(S) \in Z
  BY DEF SpacedSizes
<1>4. \A n \in Z : \E S \in F : n = Cardinality(S)
  BY DEF SpacedSizes
<1>5. M = CHOOSE n \in Z : \A m \in Z : m <= n
  BY DEF Most
<1> HIDE DEF F, Z, M
<1>6. \A S \in F : Cardinality(S) \in 0..B
  BY <1>2, PlacesFinite
<1>7. Z \subseteq 0..B /\ Z # {}
  BY <1>1, <1>3, <1>4, <1>6
<1>8. \E n \in Z : \A m \in Z : m <= n
  BY <1>7, GreatestNumber
<1>9. M \in Z /\ \A m \in Z : m <= M
  BY <1>5, <1>8
<1>10. \E S \in F : Cardinality(S) = M
  BY <1>4, <1>9
<1>11. \A S \in F : Cardinality(S) <= M
  BY <1>3, <1>9
<1>12. M \in Nat
  BY <1>7, <1>9
<1> QED
  BY <1>10, <1>11, <1>12 DEF F, M

\* The largest ones of equal choices are equal.
LEMMA MostSame ==
  ASSUME NEW P, NEW L, NEW i, NEW k, {j \in P : i <= j} = {j \in P : k <= j}
  PROVE  Most(P, L, i) = Most(P, L, k)
<1>1. Spacings(P, L, i) = Spacings(P, L, k)
  BY DEF Spacings
<1>2. SpacedSizes(P, L, i) = SpacedSizes(P, L, k)
  BY <1>1 DEF SpacedSizes
<1> QED
  BY <1>2 DEF Most

\* Where there is no place there is nothing.
LEMMA MostNone ==
  ASSUME NEW B \in Nat, NEW P, P \subseteq 1..B, NEW L, NEW i, \A j \in P : ~(i <= j)
  PROVE  Most(P, L, i) = 0
<1>1. PICK S \in Spacings(P, L, i) : Cardinality(S) = Most(P, L, i)
  BY MostIs
<1>2. S \subseteq {j \in P : i <= j}
  BY DEF Spacings
<1>3. S = {}
  BY <1>2
<1>4. Cardinality({}) = 0
  BY FS_EmptySet
<1> QED
  BY <1>1, <1>3, <1>4

\* A place that is none can be left out.
LEMMA MostSkip ==
  ASSUME NEW B \in Nat, NEW P, P \subseteq 1..B, NEW L, NEW i \in Nat, i \notin P
  PROVE  Most(P, L, i) = Most(P, L, i + 1)
<1>1. \A j \in 1..B : j # i => (i <= j <=> i + 1 <= j)
  OBVIOUS
<1>2. \A j \in P : i <= j <=> i + 1 <= j
  BY <1>1
<1>3. {j \in P : i <= j} = {j \in P : i + 1 <= j}
  BY <1>2
<1> QED
  BY <1>3, MostSame

\* P are places up to B, to be L apart.
Field(P, B, L) == B \in Nat /\ P \subseteq 1..B /\ L \in Nat \ {0}

\* k is L places further than i.
Further(k, i, L) == k = i + L

\* Places from i + L on leave room for i.
LEMMA MostWith ==
  ASSUME NEW B, NEW P, NEW L, Field(P, B, L), NEW i \in P,
         NEW k, Further(k, i, L), NEW S \in Spacings(P, L, k)
  PROVE  /\ {i} \cup S \in Spacings(P, L, i)
         /\ Cardinality({i} \cup S) = Cardinality(S) + 1
<1>1. k = i + L /\ B \in Nat /\ P \subseteq 1..B /\ L \in Nat \ {0}
  BY DEF Further, Field
<1>2. S \subseteq P /\ \A j \in S : i + L <= j
  BY <1>1 DEF Spacings
<1>3. \A j, l \in S : j < l => j + L <= l
  BY DEF Spacings, Spaced
<1>4. i \in Nat /\ S \subseteq 1..B
  BY <1>1, <1>2
<1>5. \A j \in S : i < j /\ ~(j < i) /\ i <= j
  BY <1>1, <1>2, <1>4
<1>6. {i} \cup S \subseteq {j \in P : i <= j}
  BY <1>2, <1>4, <1>5
<1>7. Spaced({i} \cup S, L)
  <2> SUFFICES ASSUME NEW j \in {i} \cup S, NEW l \in {i} \cup S, j < l PROVE j + L <= l
    BY DEF Spaced
  <2>1. ~(i < i)
    BY <1>4
  <2> QED
    BY <1>1, <1>2, <1>3, <1>5, <2>1
<1>8. i \notin S
  BY <1>4, <1>5
<1>9. IsFiniteSet(S)
  BY <1>1, <1>4, PlacesFinite
<1>10. Cardinality(S \cup {i}) = Cardinality(S) + 1
  BY <1>8, <1>9, FS_AddElement
<1>11. S \cup {i} = {i} \cup S
  OBVIOUS
<1> QED
  BY <1>6, <1>7, <1>10, <1>11 DEF Spacings

\* Of places from i on all but the first are from i + L on.
LEMMA MostWithout ==
  ASSUME NEW B, NEW P, NEW L, Field(P, B, L), NEW i \in Nat,
         NEW k, Further(k, i, L), NEW S \in Spacings(P, L, i), S # {}
  PROVE  \E R \in Spacings(P, L, k) : Cardinality(S) = Cardinality(R) + 1
<1>1. k = i + L /\ B \in Nat /\ P \subseteq 1..B /\ L \in Nat \ {0}
  BY DEF Further, Field
<1>2. S \subseteq P /\ \A j \in S : i <= j
  BY DEF Spacings
<1>3. \A j, l \in S : j < l => j + L <= l
  BY DEF Spacings, Spaced
<1>4. S \subseteq Nat /\ S \subseteq 1..B
  BY <1>1, <1>2
<1>5. PICK m \in S : \A j \in S : ~(j < m)
  BY <1>4, LeastNumber
<1> DEFINE R == S \ {m}
<1>6. ASSUME NEW j \in R PROVE i + L <= j
  <2>1. j \in Nat /\ m \in Nat /\ j # m /\ j \in S /\ ~(j < m)
    BY <1>4, <1>5
  <2>2. m < j
    BY <2>1
  <2>3. m + L <= j /\ i <= m
    BY <1>2, <1>3, <2>1, <2>2
  <2> QED
    BY <1>1, <2>1, <2>3
<1>7. R \subseteq {j \in P : i + L <= j} /\ Spaced(R, L)
  BY <1>1, <1>2, <1>3, <1>6 DEF Spaced
<1>8. R \in Spacings(P, L, k)
  <2> HIDE DEF R
  <2> QED
    BY <1>1, <1>7 DEF Spacings
<1>9. IsFiniteSet(S) /\ IsFiniteSet(R)
  BY <1>1, <1>4, PlacesFinite
<1>10. Cardinality(R \cup {m}) = Cardinality(R) + 1
  BY <1>9, FS_AddElement
<1>11. R \cup {m} = S
  BY <1>5
<1> QED
  BY <1>8, <1>10, <1>11

\* The first place is always worth taking.
LEMMA MostTake ==
  ASSUME NEW B, NEW P, NEW L, Field(P, B, L), NEW i \in P
  PROVE  Most(P, L, i) = 1 + Most(P, L, i + L)
<1> DEFINE m == Most(P, L, i)
           k == i + L
           n == Most(P, L, k)
<1>1. i \in Nat /\ Further(k, i, L) /\ L \in Nat
  BY DEF Further, Field
<1>2. B \in Nat /\ P \subseteq 1..B
  BY DEF Field
<1>3. /\ \E S \in Spacings(P, L, i) : Cardinality(S) = m
      /\ \A S \in Spacings(P, L, i) : Cardinality(S) <= m
      /\ m \in Nat
  BY <1>2, MostIs
<1>4. /\ \E S \in Spacings(P, L, k) : Cardinality(S) = n
      /\ \A S \in Spacings(P, L, k) : Cardinality(S) <= n
      /\ n \in Nat
  BY <1>2, MostIs
<1> HIDE DEF m, n, k
<1>5. n + 1 <= m
  <2>1. PICK S \in Spacings(P, L, k) : Cardinality(S) = n
    BY <1>4
  <2>2. /\ {i} \cup S \in Spacings(P, L, i)
        /\ Cardinality({i} \cup S) = Cardinality(S) + 1
    BY <1>1, MostWith
  <2> QED
    BY <1>3, <2>1, <2>2
<1>6. m <= n + 1
  <2>1. PICK S \in Spacings(P, L, i) : Cardinality(S) = m
    BY <1>3
  <2>2. CASE S = {}
    <3>1. m = 0
      BY <2>1, <2>2, FS_EmptySet
    <3> QED
      BY <1>4, <3>1
  <2>3. CASE S # {}
    <3>1. PICK R \in Spacings(P, L, k) : Cardinality(S) = Cardinality(R) + 1
      <4>1. /\ Field(P, B, L) /\ i \in Nat
            /\ Further(k, i, L) /\ S \in Spacings(P, L, i) /\ S # {}
        BY <1>1, <2>3
      <4> QED
        BY <4>1, MostWithout
    <3>2. Cardinality(R) <= n
      BY <1>4
    <3>3. IsFiniteSet(R)
      <4>1. R \subseteq 1..B
        BY <1>2 DEF Spacings
      <4> QED
        BY <1>2, <4>1, PlacesFinite
    <3>4. Cardinality(R) \in Nat
      BY <3>3, FS_CardinalityType
    <3> QED
      BY <1>4, <2>1, <3>1, <3>2, <3>4
  <2> QED
    BY <2>2, <2>3
<1>7. m = 1 + n
  BY <1>3, <1>4, <1>5, <1>6
<1> QED
  BY <1>7 DEF m, n, k

\* Counting from i on, when h has the counts from later places on.
Tally(x, t, h, i) ==
  IF i + Len(t) > Len(x) + 1 THEN 0
  ELSE IF OccursAt(x, t, i) THEN 1 + h[i + Len(t)]
  ELSE h[i + 1]

\* A term that is not empty starts within the text.
LEMMA StartsWithin ==
  ASSUME NEW x \in Seq(Char), NEW t \in Seq(Char), t # <<>>
  PROVE  /\ Field(Starts(x, t), Len(x), Len(t))
         /\ \A j \in Starts(x, t) : j + Len(t) <= Len(x) + 1
         /\ \A i \in Nat \ {0} : i + Len(t) <= Len(x) + 1 => (i \in Starts(x, t) <=> OccursAt(x, t, i))
<1> DEFINE N == Len(x)
           L == Len(t)
           P == Starts(x, t)
<1>1. N \in Nat /\ L \in Nat \ {0}
  BY LenProperties, EmptySeq
<1>2. P \subseteq 1..(N - L + 1)
  BY DEF Starts
<1>3. \A i \in 1..(N - L + 1) : i \in P <=> OccursAt(x, t, i)
  BY DEF Starts
<1> HIDE DEF N, L, P
<1>4. \A i \in 1..(N - L + 1) : i \in 1..N /\ i + L <= N + 1
  BY <1>1
<1>5. \A i \in Nat \ {0} : i + L <= N + 1 => i \in 1..(N - L + 1)
  BY <1>1
<1>6. P \subseteq 1..N /\ \A j \in P : j + L <= N + 1
  BY <1>2, <1>4
<1>7. Field(P, N, L)
  BY <1>1, <1>6 DEF Field
<1>8. \A i \in Nat \ {0} : i + L <= N + 1 => (i \in P <=> OccursAt(x, t, i))
  BY <1>3, <1>5
<1> QED
  BY <1>6, <1>7, <1>8 DEF N, L, P

\* The largest sets of occurrences are what is counted.
LEMMA MostTallies ==
  ASSUME NEW x \in Seq(Char), NEW t \in Seq(Char), t # <<>>, NEW g,
         g = [i \in 1..(Len(x) + 2) |-> Most(Starts(x, t), Len(t), i)]
  PROVE  \A i \in 1..(Len(x) + 2) : g[i] = Tally(x, t, g, i)
<1> DEFINE N == Len(x)
           L == Len(t)
           P == Starts(x, t)
<1>1. N \in Nat /\ L \in Nat \ {0}
  BY LenProperties, EmptySeq
<1>2. /\ Field(P, N, L)
      /\ \A j \in P : j + L <= N + 1
      /\ \A i \in Nat \ {0} : i + L <= N + 1 => (i \in P <=> OccursAt(x, t, i))
  BY StartsWithin
<1>3. N \in Nat /\ P \subseteq 1..N
  BY <1>2 DEF Field
<1>4. \A i \in 1..(N + 2) : g[i] = Most(P, L, i)
  OBVIOUS
<1>5. \A i \in 1..(N + 2) : Tally(x, t, g, i) = IF i + L > N + 1 THEN 0
                                           ELSE IF OccursAt(x, t, i) THEN 1 + g[i + L]
                                           ELSE g[i + 1]
  BY DEF Tally
<1> HIDE DEF N, L, P
<1> SUFFICES ASSUME NEW i \in 1..(N + 2) PROVE g[i] = Tally(x, t, g, i)
  BY DEF N
<1>6. i \in Nat /\ i \in Nat \ {0}
  BY <1>1
<1>7. CASE i + L > N + 1
  <2>1. \A j \in P : j \in Nat
    BY <1>3
  <2>2. \A j \in P : ~(i <= j)
    BY <1>1, <1>2, <1>6, <1>7, <2>1
  <2>3. Most(P, L, i) = 0
    BY <1>3, <2>2, MostNone
  <2> QED
    BY <1>4, <1>5, <1>7, <2>3
<1>8. CASE ~(i + L > N + 1) /\ OccursAt(x, t, i)
  <2>1. i + L <= N + 1 /\ i + L \in 1..(N + 2)
    BY <1>1, <1>6, <1>8
  <2>2. i \in P
    BY <1>2, <1>6, <1>8, <2>1
  <2>3. Most(P, L, i) = 1 + Most(P, L, i + L)
    BY <1>2, <2>2, MostTake
  <2>4. g[i] = 1 + g[i + L]
    BY <1>4, <2>1, <2>3
  <2> QED
    BY <1>5, <1>8, <2>4
<1>9. CASE ~(i + L > N + 1) /\ ~OccursAt(x, t, i)
  <2>1. i + L <= N + 1 /\ i + 1 \in 1..(N + 2)
    BY <1>1, <1>6, <1>9
  <2>2. i \notin P
    BY <1>2, <1>6, <1>9, <2>1
  <2>3. Most(P, L, i) = Most(P, L, i + 1)
    BY <1>3, <1>6, <2>2, MostSkip
  <2>4. g[i] = g[i + 1]
    BY <1>4, <2>1, <2>3
  <2> QED
    BY <1>5, <1>9, <2>4
<1> QED
  BY <1>7, <1>8, <1>9

\* Whatever tallies from every place on has the same counts.
LEMMA OneTally ==
  ASSUME NEW x \in Seq(Char), NEW t \in Seq(Char), t # <<>>, NEW f, NEW g,
         \A i \in 1..(Len(x) + 2) : f[i] = Tally(x, t, f, i),
         \A i \in 1..(Len(x) + 2) : g[i] = Tally(x, t, g, i)
  PROVE  f[1] = g[1]
<1> DEFINE N == Len(x)
           L == Len(t)
           M == N + 2
           Good == {n \in 0..M : \A i \in 1..M : M - i <= n => f[i] = g[i]}
<1>1. N \in Nat /\ L \in Nat \ {0} /\ M \in Nat
  BY LenProperties, EmptySeq
<1>2. \A i \in 1..M : i + L > N + 1 => f[i] = g[i]
  BY DEF Tally
<1>3. \A i \in 1..M : i + L <= N + 1 => i + L \in 1..M /\ i + 1 \in 1..M /\ ~(i + L > N + 1)
  BY <1>1
<1>4. \A i \in 1..M : i + L <= N + 1 /\ f[i + L] = g[i + L] /\ f[i + 1] = g[i + 1] => f[i] = g[i]
  <2> SUFFICES ASSUME NEW i \in 1..M, i + L <= N + 1, f[i + L] = g[i + L], f[i + 1] = g[i + 1]
               PROVE  f[i] = g[i]
    OBVIOUS
  <2>1. Tally(x, t, f, i) = Tally(x, t, g, i)
    BY DEF Tally
  <2> QED
    BY <2>1
<1>5. 0 \in Good
  <2>1. \A i \in 1..M : M - i <= 0 => i + L > N + 1
    BY <1>1
  <2>2. 0 \in 0..M
    BY <1>1
  <2> QED
    BY <1>2, <2>1, <2>2
<1>6. ASSUME NEW n \in 0..M, n \in Good, n < M PROVE n + 1 \in Good
  <2>1. n + 1 \in 0..M
    BY <1>1, <1>6
  <2>2. ASSUME NEW i \in 1..M, M - i <= n + 1 PROVE f[i] = g[i]
    <3>1. CASE i + L > N + 1
      BY <1>2, <3>1
    <3>2. CASE i + L <= N + 1
      <4>1. i + L \in 1..M /\ i + 1 \in 1..M
        BY <1>3, <3>2
      <4> HIDE DEF N, L, M
      <4>2. M - (i + L) <= n /\ M - (i + 1) <= n
        BY <1>1, <2>2
      <4>3. f[i + L] = g[i + L] /\ f[i + 1] = g[i + 1]
        BY <1>6, <4>1, <4>2
      <4> QED
        BY <1>4, <3>2, <4>3
    <3> HIDE DEF N, L
    <3> QED
      BY <1>1, <3>1, <3>2
  <2> QED
    BY <2>1, <2>2
<1> HIDE DEF Good
<1>7. 0..M \subseteq Good
  <2> HIDE DEF M
  <2> QED
    BY <1>1, <1>5, <1>6, Induction
<1>8. M \in Good /\ 1 \in 1..M /\ M - 1 <= M
  <2> HIDE DEF N
  <2>1. M \in 0..M /\ 1 \in 1..M /\ M - 1 <= M
    BY <1>1
  <2> QED
    BY <1>7, <2>1
<1> QED
  BY <1>8 DEF Good

\* strings.Count finds the most occurrences that do not overlap.
LEMMA CountIsMost ==
  ASSUME NEW x \in Seq(Char), NEW t \in Seq(Char), t # <<>>
  PROVE  /\ Count(x, t) = MostOccurrences(x, t)
         /\ Count(x, t) = Most(Starts(x, t), Len(t), 1)
<1> DEFINE N == Len(x)
           L == Len(t)
           P == Starts(x, t)
           Recursive(h) == h = [i \in 1..(N + 2) |->
                                  IF i + Len(t) > Len(x) + 1 THEN 0
                                  ELSE IF OccursAt(x, t, i) THEN 1 + h[i + Len(t)]
                                  ELSE h[i + 1]]
           f == CHOOSE h : Recursive(h)
           g == [i \in 1..(N + 2) |-> Most(P, L, i)]
<1>1. N \in Nat /\ L \in Nat \ {0}
  BY LenProperties, EmptySeq
<1>2. \A i \in 1..(N + 2) : g[i] = Tally(x, t, g, i)
  <2> DEFINE h == g
  <2>1. h = [i \in 1..(Len(x) + 2) |-> Most(Starts(x, t), Len(t), i)]
    OBVIOUS
  <2> HIDE DEF h
  <2>2. \A i \in 1..(Len(x) + 2) : h[i] = Tally(x, t, h, i)
    BY <2>1, MostTallies
  <2> QED
    BY <2>2 DEF h
<1>3. Recursive(g)
  <2> DEFINE h == g
  <2>1. h = [i \in 1..(N + 2) |-> h[i]]
    OBVIOUS
  <2>2. \A i \in 1..(N + 2) : h[i] = IF i + Len(t) > Len(x) + 1 THEN 0
                                  ELSE IF OccursAt(x, t, i) THEN 1 + h[i + Len(t)]
                                  ELSE h[i + 1]
    BY <1>2 DEF Tally
  <2> HIDE DEF h, N
  <2>3. Recursive(h)
    BY <2>1, <2>2
  <2> QED
    BY <2>3 DEF h, N
<1>4. Recursive(f)
  <2> HIDE DEF g, Recursive
  <2> QED
    BY <1>3
<1>5. Count(x, t) = f[1]
  BY DEF Count
<1> HIDE DEF f
<1>6. \A i \in 1..(N + 2) : f[i] = Tally(x, t, f, i)
  BY <1>4 DEF Tally
<1>7. f[1] = g[1]
  <2> HIDE DEF g
  <2> QED
    BY <1>2, <1>6, OneTally
<1>8. g[1] = Most(P, L, 1)
  <2>1. 1 \in 1..(N + 2)
    BY <1>1
  <2> QED
    BY <2>1
<1>9. MostOccurrences(x, t) = Most(P, L, 1)
  <2> DEFINE apart(S) == \A i, j \in S : i < j => i + Len(t) <= j
             sizes == {Cardinality(S) : S \in {S \in SUBSET Starts(x, t) : apart(S)}}
  <2>1. \A j \in P : 1 <= j
    <3>1. P \subseteq 1..N
      BY StartsWithin DEF Field
    <3> QED
      BY <1>1, <3>1
  <2>2. {j \in P : 1 <= j} = P
    BY <2>1
  <2>3. \A S : apart(S) <=> Spaced(S, L)
    BY DEF Spaced
  <2>4. Spacings(P, L, 1) = {S \in SUBSET Starts(x, t) : apart(S)}
    <3> HIDE DEF apart
    <3> QED
      BY <2>2, <2>3 DEF Spacings
  <2>5. SpacedSizes(P, L, 1) = sizes
    BY <2>4 DEF SpacedSizes
  <2>6. MostOccurrences(x, t) = CHOOSE n \in sizes : \A m \in sizes : m <= n
    BY DEF MostOccurrences
  <2> QED
    BY <2>5, <2>6 DEF Most
<1> QED
  BY <1>5, <1>7, <1>8, <1>9
-----------------------------------------------------------------------------
(* Sentences that contain a term. *)

LowerOf(c) == IF c = "X" THEN "x" ELSE c

\* A text in lower case.
LEMMA Lowered ==
  ASSUME NEW text \in Seq(Char)
  PROVE  /\ ToLower(text) \in Seq(Char) /\ Len(ToLower(text)) = Len(text)
         /\ \A i \in 1..Len(text) : ToLower(text)[i] = LowerOf(text[i])
<1> DEFINE x == ToLower(text)
           N == Len(text)
<1>1. N \in Nat /\ DOMAIN text = 1..N
  BY LenProperties
<1>2. \A i \in 1..N : text[i] \in Char
  BY ElementOfSeq
<1>3. \A c \in Char : LowerOf(c) \in Char
  BY DEF Char, LowerOf
<1>4. x = [i \in 1..N |-> LowerOf(text[i])]
  BY <1>1 DEF ToLower, LowerOf
<1>5. \A i \in 1..N : LowerOf(text[i]) \in Char
  BY <1>2, <1>3
<1> HIDE DEF x, N, Char
<1>6. x \in [1..N -> Char] /\ \A i \in 1..N : x[i] = LowerOf(text[i])
  BY <1>4, <1>5
<1>7. x \in Seq(Char)
  BY <1>1, <1>6
<1>8. Len(x) = N
  <2>1. DOMAIN x = 1..N
    BY <1>6
  <2>2. DOMAIN x = 1..Len(x) /\ Len(x) \in Nat
    BY <1>7, LenProperties
  <2> QED
    BY <1>1, <2>1, <2>2
<1> QED
  BY <1>6, <1>7, <1>8 DEF x, N

\* An occurrence has the characters of the term.
LEMMA OccursIs ==
  ASSUME NEW x \in Seq(Char), NEW t \in Seq(Char), NEW i \in Nat \ {0},
         i + Len(t) <= Len(x) + 1
  PROVE  OccursAt(x, t, i) <=> \A k \in 1..Len(t) : x[i + k - 1] = t[k]
<1> DEFINE N == Len(x)
           L == Len(t)
           q == i + L - 1
           y == SubSeq(x, i, q)
<1>1. N \in Nat /\ L \in Nat
  BY LenProperties
<1>2. q \in 0..N /\ (IF i <= q THEN q - i + 1 ELSE 0) = L /\ q - i + 1 = L
  <2> HIDE DEF N, L
  <2>1. i + L <= N + 1
    BY DEF N, L
  <2> QED
    BY <1>1, <2>1
<1> HIDE DEF q
<1>3. /\ y \in Seq(Char) /\ Len(y) = (IF i <= q THEN q - i + 1 ELSE 0)
      /\ \A k \in 1..(q - i + 1) : y[k] = x[i + k - 1]
  BY <1>2, PartOf
<1>4. Len(y) = L /\ \A k \in 1..L : y[k] = x[i + k - 1]
  BY <1>2, <1>3
<1>5. OccursAt(x, t, i) <=> y = t
  BY DEF OccursAt, q
<1> HIDE DEF y, L
<1>6. ASSUME \A k \in 1..L : x[i + k - 1] = t[k] PROVE y = t
  <2>1. \A k \in 1..Len(y) : y[k] = t[k]
    BY <1>4, <1>6
  <2>2. Len(y) = Len(t)
    BY <1>4 DEF L
  <2> QED
    BY <1>3, <2>1, <2>2, SeqEqual
<1>7. ASSUME y = t PROVE \A k \in 1..L : x[i + k - 1] = t[k]
  BY <1>4, <1>7
<1> QED
  BY <1>5, <1>6, <1>7 DEF L

\* A term in a part of a text is in the text.
LEMMA OccursInPart ==
  ASSUME NEW text \in Seq(Char), NEW t \in Seq(Char), t # <<>>,
         NEW p \in 1..Len(text), NEW q \in p..Len(text),
         HasTerm(ToLower(SubSeq(text, p, q)), t)
  PROVE  \E j \in Starts(ToLower(text), t) : p <= j /\ j + Len(t) <= q + 1
<1> DEFINE N == Len(text)
           L == Len(t)
           M == q - p + 1
           x == ToLower(text)
           y == SubSeq(text, p, q)
           z == ToLower(y)
<1>1. N \in Nat /\ L \in Nat /\ p \in Nat \ {0} /\ q \in 0..N /\ q \in Nat /\ p <= q /\ q <= N
  BY LenProperties
<1>2. M \in Nat /\ (IF p <= q THEN q - p + 1 ELSE 0) = M
  BY <1>1
<1>3. /\ y \in Seq(Char) /\ Len(y) = M
      /\ \A k \in 1..M : y[k] = text[p + k - 1]
  BY <1>1, <1>2, PartOf
<1>4. x \in Seq(Char) /\ Len(x) = N /\ \A k \in 1..N : x[k] = LowerOf(text[k])
  BY Lowered
<1> HIDE DEF y, x
<1>5. z \in Seq(Char) /\ Len(z) = M /\ \A k \in 1..M : z[k] = LowerOf(y[k])
  BY <1>3, Lowered
<1>6. HasTerm(z, t)
  BY DEF y
<1> HIDE DEF z
<1>7. PICK n \in Starts(z, t) : TRUE
  BY <1>6 DEF HasTerm
<1>8. Field(Starts(z, t), M, L) /\ n + L <= M + 1
      /\ (n \in Nat \ {0} => OccursAt(z, t, n))
  BY <1>5, <1>7, StartsWithin
<1>9. n \in 1..M /\ L \in Nat \ {0}
  BY <1>7, <1>8 DEF Field
<1> HIDE DEF N, L, M
<1>10. n \in Nat \ {0} /\ n \in Nat /\ n + L <= M + 1
  BY <1>2, <1>8, <1>9
<1>11. \A k \in 1..L : z[n + k - 1] = t[k]
  BY <1>5, <1>8, <1>10, OccursIs DEF L
<1> DEFINE j == p + n - 1
<1>12. /\ j \in Nat \ {0} /\ p <= j /\ j + L <= q + 1 /\ j + L <= N + 1
       /\ \A k \in 1..L : n + k - 1 \in 1..M /\ j + k - 1 \in 1..N
                          /\ p + (n + k - 1) - 1 = j + k - 1
  <2>1. M = q - p + 1
    BY DEF M
  <2> QED
    BY <1>1, <1>9, <1>10, <2>1
<1> HIDE DEF j
<1>13. ASSUME NEW k \in 1..L PROVE x[j + k - 1] = t[k]
  <2> DEFINE m == n + k - 1
             l == j + k - 1
  <2>1. m \in 1..M /\ l \in 1..N /\ p + m - 1 = l
    BY <1>12
  <2>2. t[k] = z[m]
    BY <1>11
  <2> HIDE DEF m, l
  <2>3. z[m] = LowerOf(y[m]) /\ y[m] = text[l] /\ x[l] = LowerOf(text[l])
    BY <1>3, <1>4, <1>5, <2>1
  <2> QED
    BY <2>2, <2>3 DEF l
<1>14. OccursAt(x, t, j)
  BY <1>4, <1>12, <1>13, OccursIs DEF L
<1>15. j \in Starts(x, t)
  BY <1>4, <1>12, <1>14, StartsWithin DEF L
<1> QED
  BY <1>12, <1>15 DEF x, L

\* Before the start of what is left there are as many occurrences apart as
\* sentences in W.
Carries(text, t, W, r) ==
  \E S \in Spacings(Starts(ToLower(text), t), Len(t), 1) :
    /\ \A j \in S : j + Len(t) <= r.start
    /\ Cardinality(S) = Len(Those(r.sentences, W))

\* A sentence that contains the term has an occurrence that is no other's.
LEMMA OneMoreCarried ==
  ASSUME NEW text \in Seq(Char), NEW t \in Seq(Char), t # <<>>, NEW W,
         \A s \in W : HasTerm(ToLower(s), t),
         NEW i \in 1..Len(text), NEW r, Splitted(text, i - 1, r), i \in Borders(text),
         Carries(text, t, W, r)
  PROVE  Carries(text, t, W, Splitting(text, i, r))
<1> DEFINE a == r.start
           N == Len(text)
           L == Len(t)
           x == ToLower(text)
           P == Starts(x, t)
           s == Trimmed(text, a, i)
           ss == r.sentences
           tt == Append(ss, s)
           q == [start |-> i + 1, sentences |-> tt]
<1>1. N \in Nat /\ i \in 1..N /\ L \in Nat
  BY LenProperties
<1>2. a \in 1..i
  BY PieceEnds
<1>3. a \in Nat \ {0} /\ i \in 0..N /\ a \in Nat /\ i \in Nat
  BY <1>1, <1>2
<1>4. s \in Seq(Char)
  BY <1>3, TrimmedType
<1>5. ss \in Seq(Seq(Char))
  BY DEF Splitted
<1>6. Splitting(text, i, r) = q /\ q.start = i + 1 /\ q.sentences = tt
  BY DEF Splitting
<1>7. x \in Seq(Char) /\ Len(x) = N
  BY Lowered
<1>8. Field(P, N, L)
  <2> HIDE DEF x
  <2> QED
    BY <1>7, StartsWithin
<1>9. P \subseteq 1..N /\ N \in Nat /\ L \in Nat \ {0}
  BY <1>8 DEF Field
<1>10. PICK S \in Spacings(P, L, 1) : (\A j \in S : j + L <= a) /\ Cardinality(S) = Len(Those(ss, W))
  BY DEF Carries
<1>11. S \subseteq P /\ (\A j \in S : 1 <= j) /\ \A j, k \in S : j < k => j + L <= k
  BY DEF Spacings, Spaced
<1>12. Those(tt, W) = IF s \in W THEN Append(Those(ss, W), s) ELSE Those(ss, W)
  <2> HIDE DEF s, ss
  <2> QED
    BY <1>4, <1>5, ThoseAppend
<1>13. Those(ss, W) \in Seq(Seq(Char))
  BY <1>5, ThoseAre
<1>14. CASE s \notin W
  <2>1. Those(tt, W) = Those(ss, W)
    BY <1>12, <1>14
  <2> HIDE DEF P, L, a, tt, q, N
  <2>2. \A j \in S : j + L <= i + 1
    BY <1>2, <1>9, <1>10, <1>11
  <2>3. \E R \in Spacings(P, L, 1) : (\A j \in R : j + L <= q.start)
                                     /\ Cardinality(R) = Len(Those(q.sentences, W))
    BY <1>6, <1>10, <2>1, <2>2
  <2> QED
    BY <1>6, <2>3 DEF Carries, P, L
<1>15. CASE s \in W
  <2>1. HasTerm(ToLower(s), t)
    BY <1>15
  <2>2. \E j \in P : a <= j /\ j + L <= i + 1
    <3>1. CASE Blanks(text, a, i)
      <4>1. s = <<>>
        BY <3>1 DEF Blanks
      <4> DEFINE z == ToLower(s)
      <4>2. Len(s) = 0
        BY <4>1
      <4>3. z \in Seq(Char) /\ Len(z) = 0
        BY <1>4, <4>2, Lowered
      <4>4. HasTerm(z, t)
        BY <2>1
      <4> HIDE DEF z
      <4>5. Field(Starts(z, t), 0, L)
        <5>1. Field(Starts(z, t), Len(z), L)
          BY <4>3, StartsWithin
        <5> QED
          BY <4>3, <5>1
      <4>6. Starts(z, t) = {}
        BY <4>5 DEF Field
      <4> QED
        BY <4>4, <4>6 DEF HasTerm
    <3>2. ASSUME NEW p \in Nat, NEW u \in Nat, Trims(text, a, i, p, u)
          PROVE  \E j \in P : a <= j /\ j + L <= i + 1
      <4>1. a <= p /\ p <= u /\ u <= i
        BY <1>3, <3>2, TrimsWhere
      <4>2. s = SubSeq(text, p, u)
        BY <3>2 DEF Trims
      <4>3. p \in 1..N /\ u \in p..N
        <5> HIDE DEF a, N
        <5> QED
          BY <1>1, <1>2, <4>1
      <4>4. HasTerm(ToLower(SubSeq(text, p, u)), t)
        BY <2>1, <4>2
      <4>5. PICK j \in P : p <= j /\ j + L <= u + 1
        BY <4>3, <4>4, OccursInPart
      <4> HIDE DEF a, N, L, P, s
      <4>6. j \in Nat
        BY <1>9
      <4>7. a <= j /\ j + L <= i + 1
        BY <1>1, <1>3, <1>9, <4>1, <4>5, <4>6
      <4> QED
        BY <4>7
    <3>3. Blanks(text, a, i) \/ \E p, u \in Nat : Trims(text, a, i, p, u)
      BY <1>3, TrimmedIs
    <3> QED
      BY <3>1, <3>2, <3>3
  <2>3. PICK j \in P : a <= j /\ j + L <= i + 1
    BY <2>2
  <2>4. Len(Those(tt, W)) = Len(Those(ss, W)) + 1
    <3>1. Those(tt, W) = Append(Those(ss, W), s)
      BY <1>12, <1>15
    <3> QED
      BY <1>4, <1>13, <3>1, AppendProperties
  <2> HIDE DEF P, L, a, tt, q, N, s, ss
  <2> DEFINE R == S \cup {j}
  <2>5. j \in Nat /\ 1 <= j /\ \A k \in S : k \in Nat
    BY <1>9, <1>11
  <2>6. \A k \in S : k + L <= j /\ k < j /\ k + L <= i + 1 /\ ~(j < k)
    BY <1>2, <1>3, <1>9, <1>10, <2>3, <2>5
  <2>7. R \subseteq {k \in P : 1 <= k}
    BY <1>11, <2>5
  <2>8. \A k, l \in R : k < l => k + L <= l
    <3>1. ~(j < j)
      BY <2>5
    <3> QED
      BY <1>11, <2>6, <3>1
  <2>9. R \in Spacings(P, L, 1)
    <3>1. Spaced(R, L)
      <4> HIDE DEF R
      <4> QED
        BY <2>8 DEF Spaced
    <3> HIDE DEF R
    <3> QED
      BY <2>7, <3>1 DEF Spacings
  <2>10. j \notin S
    BY <2>5, <2>6
  <2>11. IsFiniteSet(S)
    <3>1. S \subseteq 1..N
      BY <1>9, <1>11
    <3> QED
      BY <1>9, <3>1, PlacesFinite
  <2>12. Cardinality(R) = Cardinality(S) + 1
    BY <2>10, <2>11, FS_AddElement
  <2>13. \A k \in R : k + L <= i + 1
    BY <2>3, <2>6
  <2> HIDE DEF R
  <2>14. Cardinality(R) = Len(Those(tt, W))
    BY <1>10, <2>4, <2>12
  <2>15. \E Q \in Spacings(P, L, 1) : (\A k \in Q : k + L <= q.start)
                                     /\ Cardinality(Q) = Len(Those(q.sentences, W))
    BY <1>6, <2>9, <2>13, <2>14
  <2> QED
    BY <1>6, <2>15 DEF Carries, P, L
<1> QED
  BY <1>14, <1>15

\* At every place of the text.
LEMMA SplitCarries ==
  ASSUME NEW text \in Seq(Char), NEW t \in Seq(Char), t # <<>>, NEW W,
         \A s \in W : HasTerm(ToLower(s), t), NEW f, Splits(f, text)
  PROVE  \A i \in 0..Len(text) : Carries(text, t, W, f[i])
<1> DEFINE N == Len(text)
           Good == {i \in 0..N : Carries(text, t, W, f[i])}
<1>1. N \in Nat
  BY LenProperties
<1>2. \A i \in 0..N : Splitted(text, i, f[i])
  BY SplitPlaces
<1>3. 0 \in Good
  <2>1. f[0] = NoPieces
    BY DEF Splits
  <2>2. NoPieces.sentences = <<>>
    BY DEF NoPieces
  <2>3. Those(<<>>, W) = <<>> /\ Len(<<>>) = 0
    BY ThoseOfNone
  <2>4. Cardinality({}) = 0
    BY FS_EmptySet
  <2>5. {} \in Spacings(Starts(ToLower(text), t), Len(t), 1)
    BY DEF Spacings, Spaced
  <2>6. Carries(text, t, W, NoPieces)
    BY <2>2, <2>3, <2>4, <2>5 DEF Carries
  <2> QED
    BY <1>1, <2>1, <2>6
<1>4. ASSUME NEW i \in 0..N, i \in Good, i < N PROVE i + 1 \in Good
  <2> DEFINE j == i + 1
             r == f[i]
  <2>1. j \in 1..N /\ j \in 0..N /\ j - 1 = i /\ Carries(text, t, W, r)
    BY <1>1, <1>4
  <2>2. Splitted(text, j - 1, r)
    BY <1>2, <2>1
  <2>3. f[j] = Splitting(text, j, r)
    BY <2>1 DEF Splits
  <2> HIDE DEF j, r
  <2>4. Carries(text, t, W, Splitting(text, j, r))
    <3>1. CASE j \in Borders(text)
      BY <2>1, <2>2, <3>1, OneMoreCarried
    <3>2. CASE j \notin Borders(text)
      BY <2>1, <3>2 DEF Splitting
    <3> QED
      BY <3>1, <3>2
  <2> QED
    BY <2>1, <2>3, <2>4 DEF j
<1> HIDE DEF Good
<1>5. 0..N \subseteq Good
  BY <1>1, <1>3, <1>4, Induction
<1> QED
  BY <1>5 DEF Good

\* No more sentences contain a term than it has occurrences.
LEMMA FewSentences ==
  ASSUME NEW text \in Seq(Char), NEW t \in Seq(Char), NEW W,
         \A s \in W : HasTerm(ToLower(s), t)
  PROVE  Len(Those(splitIntoSentences(text), W)) <= Count(ToLower(text), t)
<1> DEFINE N == Len(text)
           ss == splitIntoSentences(text)
           x == ToLower(text)
           k == Len(Those(ss, W))
<1>1. ss \in Seq(Seq(Char)) /\ Len(ss) <= N /\ N \in Nat
  BY SplitIsSound, LenProperties
<1>2. x \in Seq(Char) /\ Len(x) = N
  BY Lowered
<1> HIDE DEF x
<1>3. CASE t = <<>>
  <2>1. Count(x, t) = N + 1
    BY <1>2, <1>3 DEF Count
  <2>2. Those(ss, W) \in Seq(Seq(Char)) /\ k <= Len(ss)
    BY <1>1, ThoseAre
  <2>3. k \in Nat /\ Len(ss) \in Nat
    BY <1>1, <2>2, LenProperties
  <2> HIDE DEF k, ss, N
  <2>4. k <= N + 1
    BY <1>1, <2>2, <2>3
  <2> QED
    BY <2>1, <2>4 DEF k, ss, x
<1>4. CASE t # <<>>
  <2>1. PICK f : Splits(f, text)
    BY SplitUnfold
  <2>2. ss = f[N].sentences
    BY <2>1 DEF Splits
  <2>3. Carries(text, t, W, f[N])
    <3>1. N \in 0..N
      BY <1>1
    <3> QED
      BY <1>4, <2>1, <3>1, SplitCarries
  <2>4. PICK S \in Spacings(Starts(x, t), Len(t), 1) : Cardinality(S) = k
    BY <2>2, <2>3 DEF Carries, x
  <2>5. Field(Starts(x, t), Len(x), Len(t))
    BY <1>2, <1>4, StartsWithin
  <2> DEFINE P == Starts(x, t)
             L == Len(t)
             B == Len(x)
  <2>6. B \in Nat /\ P \subseteq 1..B
    BY <2>5 DEF Field
  <2>7. Count(x, t) = Most(P, L, 1)
    BY <1>2, <1>4, CountIsMost
  <2>8. S \in Spacings(P, L, 1)
    OBVIOUS
  <2> HIDE DEF P, L, B
  <2> DEFINE one == 1
  <2>9. S \in Spacings(P, L, one)
    BY <2>8
  <2>10. Count(x, t) = Most(P, L, one)
    BY <2>7
  <2> HIDE DEF one
  <2>11. Cardinality(S) <= Most(P, L, one)
    BY <2>6, <2>9, MostIs
  <2> QED
    BY <2>4, <2>10, <2>11 DEF k, ss, x
<1> QED
  BY <1>3, <1>4

\* What matches is a sequence of sentences, no longer than theirs, and has no
\* more of them than the term has occurrences.
LEMMA MatchingIs ==
  ASSUME NEW text \in Seq(Char), NEW term \in Seq(Char)
  PROVE  LET ss == splitIntoSentences(text)
             m == Matching(text, term)
         IN  /\ m \in Seq(Seq(Char)) /\ Len(m) \in 0..Len(ss)
             /\ Len(m) <= Count(ToLower(text), ToLower(term))
<1> DEFINE ss == splitIntoSentences(text)
           m == Matching(text, term)
           t == ToLower(term)
           W == {s \in ToSet(ss) : HasTerm(ToLower(s), t)}
<1>1. ss \in Seq(Seq(Char)) /\ Len(ss) \in Nat
  BY SplitIsSound, LenProperties
<1>2. t \in Seq(Char)
  BY Lowered
<1>3. m = Those(ss, W)
  BY DEF Matching
<1>4. \A s \in W : HasTerm(ToLower(s), t)
  OBVIOUS
<1> HIDE DEF W, t, m
<1>5. Len(Those(ss, W)) <= Count(ToLower(text), t)
  BY <1>2, <1>4, FewSentences
<1> HIDE DEF ss
<1>6. m \in Seq(Seq(Char)) /\ Len(m) <= Len(ss)
  BY <1>1, <1>3, ThoseAre
<1>7. Len(m) \in 0..Len(ss)
  <2>1. Len(m) \in Nat
    BY <1>6, LenProperties
  <2> QED
    BY <1>1, <1>6, <2>1
<1>8. Len(m) <= Count(ToLower(text), t)
  BY <1>3, <1>5
<1> QED
  BY <1>6, <1>7, <1>8 DEF ss, m, t

\* A match with as many sentences as match its term counts right.
LEMMA MatchIsRight ==
  ASSUME NEW text \in Seq(Char), NEW term \in Seq(Char), NEW sentences,
         Len(sentences) = Len(Matching(text, term))
  PROVE  CountedRight(text, Match(text, term, sentences))
<1> DEFINE t == ToLower(term)
           match == Match(text, term, sentences)
           c == Count(ToLower(text), t)
<1>1. Len(sentences) <= c
  BY MatchingIs
<1>2. match.term = term /\ match.count = c /\ match.sentences = sentences
  BY DEF Match
<1>3. ToLower(text) \in Seq(Char) /\ t \in Seq(Char)
  BY Lowered
<1>4. term # <<>> => t # <<>>
  BY Lowered
<1>5. t # <<>> => c = MostOccurrences(ToLower(text), t)
  BY <1>3, CountIsMost
<1> HIDE DEF match, c
<1>6. /\ match.term # <<>> => match.count = MostOccurrences(ToLower(text), ToLower(match.term))
      /\ Len(match.sentences) <= match.count
  BY <1>1, <1>2, <1>4, <1>5
<1> QED
  BY <1>6 DEF CountedRight, match

\* So many sentences as match are the first of all.
LEMMA FirstSentences ==
  ASSUME NEW text \in Seq(Char), NEW term \in Seq(Char)
  PROVE  LET n == Len(Matching(text, term))
         IN  Len(SubSeq(splitIntoSentences(text), 1, n)) = n
<1> DEFINE ss == splitIntoSentences(text)
           n == Len(Matching(text, term))
           one == 1
           T == Seq(Char)
<1>1. ss \in Seq(T) /\ Len(ss) \in Nat
  BY SplitIsSound, LenProperties
<1>2. n \in 0..Len(ss)
  BY MatchingIs
<1> HIDE DEF ss, n
<1>3. n \in 0..Len(ss) /\ one \in Int /\ n \in Int /\ one = 1
  BY <1>1, <1>2
<1>4. \A k \in one..n : k \in 1..Len(ss)
  BY <1>1, <1>3
<1> HIDE DEF one, T
<1>5. \A k \in one..n : ss[k] \in T
  BY <1>1, <1>4, ElementOfSeq
<1>6. Len(SubSeq(ss, one, n)) = IF one <= n THEN n - one + 1 ELSE 0
  BY <1>3, <1>5, SubSeqProperties
<1>7. Len(SubSeq(ss, one, n)) = n
  BY <1>1, <1>3, <1>6
<1> QED
  BY <1>7 DEF ss, n, one

\* What either function finds of any terms in any text counts right.
LEMMA SearchesCountRight ==
  ASSUME NEW text \in Seq(Char), NEW terms \in Seq(Seq(Char)),
         NEW match \in ToSet(FindTermMatches(text, terms))
                         \cup ToSet(FindTermMatchesOptimized(text, terms))
  PROVE  CountedRight(text, match)
<1> DEFINE found == Found(text, terms)
           none == IF text = <<>> THEN <<>> ELSE found
           plain == FindTermMatches(text, terms)
           fast == FindTermMatchesOptimized(text, terms)
           n == Len(found)
           T == Seq(Char)
<1>1. found \in Seq(T)
  <2>1. terms \in Seq(T)
    OBVIOUS
  <2> HIDE DEF T
  <2> QED
    BY <2>1, ThoseAre DEF Found
<1>2. plain = [i \in DOMAIN found |->
                 Match(text, found[i],
                       SubSeq(splitIntoSentences(text), 1, Len(Matching(text, found[i]))))]
  BY DEF FindTermMatches
<1>3. fast = [i \in DOMAIN none |-> Match(text, none[i], Matching(text, none[i]))]
  BY DEF FindTermMatchesOptimized
<1>4. none = found \/ DOMAIN none = {}
  <2>1. DOMAIN <<>> = {}
    OBVIOUS
  <2> HIDE DEF found
  <2> QED
    BY <2>1
<1>5. match \in ToSet(plain) \/ match \in ToSet(fast)
  OBVIOUS
<1> HIDE DEF found, plain, fast, none
<1>6. n \in Nat /\ DOMAIN found = 1..n /\ \A i \in 1..n : found[i] \in T
  <2> HIDE DEF T
  <2> QED
    BY <1>1, LenProperties, ElementOfSeq
<1>7. CASE match \in ToSet(plain)
  <2>1. PICK i \in DOMAIN plain : match = plain[i]
    BY <1>7 DEF ToSet
  <2>2. i \in DOMAIN found
    BY <1>2, <2>1
  <2> DEFINE term == found[i]
             first == SubSeq(splitIntoSentences(text), 1, Len(Matching(text, term)))
  <2>3. term \in Seq(Char)
    BY <1>6, <2>2
  <2>4. match = Match(text, term, first)
    BY <1>2, <2>1, <2>2
  <2> HIDE DEF term
  <2>5. Len(first) = Len(Matching(text, term))
    BY <2>3, FirstSentences
  <2> HIDE DEF first
  <2> QED
    BY <2>3, <2>4, <2>5, MatchIsRight
<1>8. CASE match \in ToSet(fast)
  <2>1. PICK i \in DOMAIN fast : match = fast[i]
    BY <1>8 DEF ToSet
  <2>2. i \in DOMAIN found /\ none = found
    BY <1>3, <1>4, <2>1
  <2> DEFINE term == found[i]
  <2>3. term \in Seq(Char)
    BY <1>6, <2>2
  <2>4. match = Match(text, term, Matching(text, term))
    BY <1>3, <2>1, <2>2
  <2> HIDE DEF term
  <2> QED
    BY <2>3, <2>4, MatchIsRight
<1> QED
  BY <1>5, <1>7, <1>8
=============================================================================
