------------------------------ MODULE Counting ------------------------------
(***************************************************************************)
(* Induction over the naturals and definition by recursion, as statements  *)
(* about a set of numbers and about functions, which the proofs of the     *)
(* components cite.                                                        *)
(***************************************************************************)
EXTENDS Naturals, Sequences, SequenceTheorems, WellFoundedInduction, TLAPS

\* A set of naturals that is not empty has a least element.
LEMMA LeastNumber ==
  ASSUME NEW T, T \subseteq Nat, T # {}
  PROVE  \E x \in T : \A y \in T : ~(y < x)
<1> DEFINE Below == {p \in Nat \X Nat : p[1] < p[2]}
<1>1. IsWellFoundedOn(Below, Nat)
  BY NatLessThanWellFounded DEF OpToRel
<1>2. \A x, y \in Nat : y < x => <<y, x>> \in Below
  OBVIOUS
<1> HIDE DEF Below
<1>3. \E x \in T : \A y \in T : ~(<<y, x>> \in Below)
  BY <1>1, WFMin
<1> QED
  BY <1>2, <1>3

\* A set of naturals that has zero and, up to a bound, the successor of each of
\* its elements, has all the naturals up to the bound.
LEMMA Induction ==
  ASSUME NEW bound \in Nat, NEW S, 0 \in S,
         \A n \in 0..bound : n \in S /\ n < bound => n + 1 \in S
  PROVE  0..bound \subseteq S
<1>1. SUFFICES ASSUME 0..bound \ S # {} PROVE FALSE
  OBVIOUS
<1>2. PICK x \in 0..bound \ S : \A y \in 0..bound \ S : ~(y < x)
  <2> DEFINE T == 0..bound \ S
  <2>1. T \subseteq Nat /\ T # {}
    BY <1>1
  <2> HIDE DEF T
  <2>2. \E x \in T : \A y \in T : ~(y < x)
    BY <2>1, LeastNumber
  <2> QED
    BY <2>2 DEF T
<1>3. x # 0 /\ x - 1 \in 0..bound /\ x - 1 < x /\ (x - 1) + 1 = x
  BY <1>2
<1> QED
  BY <1>2, <1>3

\* A function on an initial segment of the naturals is defined by its first
\* value and by what makes each value out of the one before.
LEMMA Recursion ==
  ASSUME NEW S, NEW base \in S, NEW bound \in Nat,
         NEW step \in [1..bound -> [S -> S]]
  PROVE  \E f \in [0..bound -> S] :
           f[0] = base /\ \A n \in 1..bound : f[n] = step[n][f[n - 1]]
<1> DEFINE Good == {b \in 0..bound : \E f \in [0..b -> S] :
             f[0] = base /\ \A n \in 1..b : f[n] = step[n][f[n - 1]]}
<1>1. 0 \in Good
  <2> DEFINE f == [n \in 0..0 |-> base]
  <2>1. f \in [0..0 -> S] /\ f[0] = base /\ \A n \in 1..0 : f[n] = step[n][f[n - 1]]
    OBVIOUS
  <2>2. 0 \in 0..bound
    OBVIOUS
  <2> HIDE DEF f
  <2> QED
    BY <2>1, <2>2
<1>2. ASSUME NEW b \in 0..bound, b \in Good, b < bound
      PROVE  b + 1 \in Good
  <2>1. PICK f \in [0..b -> S] : f[0] = base /\ \A n \in 1..b : f[n] = step[n][f[n - 1]]
    BY <1>2
  <2> DEFINE g == [n \in 0..(b + 1) |-> IF n <= b THEN f[n] ELSE step[b + 1][f[b]]]
  <2>2. f[b] \in S /\ step[b + 1][f[b]] \in S
    BY <1>2, <2>1
  <2>3. g \in [0..(b + 1) -> S] /\ g[0] = base
    BY <1>2, <2>1, <2>2
  <2>4. ASSUME NEW n \in 1..(b + 1) PROVE g[n] = step[n][g[n - 1]]
    <3>1. CASE n <= b
      <4>1. n \in 1..b /\ n \in 0..(b + 1) /\ n - 1 \in 0..(b + 1) /\ n - 1 <= b
        BY <3>1
      <4> QED
        BY <2>1, <3>1, <4>1
    <3>2. CASE n = b + 1
      BY <3>2
    <3> QED
      BY <3>1, <3>2
  <2>5. b + 1 \in 0..bound
    BY <1>2
  <2> HIDE DEF g
  <2> QED
    BY <2>3, <2>4, <2>5
<1> HIDE DEF Good
<1>3. 0..bound \subseteq Good
  BY <1>1, <1>2, Induction
<1>4. bound \in Good
  BY <1>3
<1> QED
  BY <1>4 DEF Good

\* A set of sequences that has the empty one and each that is one element
\* longer than one it has, has them all.
LEMMA SequenceInduction ==
  ASSUME NEW T, NEW G, <<>> \in G,
         \A s \in Seq(T) : \A x \in T : s \in G => Append(s, x) \in G
  PROVE  Seq(T) \subseteq G
<1> SUFFICES ASSUME NEW t \in Seq(T) PROVE t \in G
  OBVIOUS
<1> DEFINE N == Len(t)
           Good == {n \in 0..N : SubSeq(t, 1, n) \in G}
<1>1. N \in Nat /\ \A i \in 1..N : t[i] \in T
  BY LenProperties, ElementOfSeq
<1>2. \A n \in 0..N : /\ SubSeq(t, 1, n) \in Seq(T) /\ Len(SubSeq(t, 1, n)) = n
                      /\ \A i \in 1..n : SubSeq(t, 1, n)[i] = t[i]
  <2> SUFFICES ASSUME NEW n \in 0..N
               PROVE  /\ SubSeq(t, 1, n) \in Seq(T) /\ Len(SubSeq(t, 1, n)) = n
                      /\ \A i \in 1..n : SubSeq(t, 1, n)[i] = t[i]
    OBVIOUS
  <2>1. \A i \in 1..n : t[i] \in T
    BY <1>1
  <2> QED
    BY <1>1, <2>1, SubSeqProperties
<1>3. 0 \in Good
  <2>1. 0 \in 0..N
    BY <1>1
  <2>2. SubSeq(t, 1, 0) = <<>>
    <3>1. SubSeq(t, 1, 0) \in Seq(T) /\ Len(SubSeq(t, 1, 0)) = 0
      BY <1>2, <2>1
    <3> QED
      BY <3>1
  <2> QED
    BY <2>1, <2>2
<1>4. ASSUME NEW n \in 0..N, n \in Good, n < N PROVE n + 1 \in Good
  <2> DEFINE s == SubSeq(t, 1, n)
             u == SubSeq(t, 1, n + 1)
             x == t[n + 1]
  <2>1. n + 1 \in 0..N /\ n + 1 \in 1..N /\ n \in Nat
    BY <1>1, <1>4
  <2>2. /\ s \in Seq(T) /\ Len(s) = n /\ \A i \in 1..n : s[i] = t[i]
        /\ u \in Seq(T) /\ Len(u) = n + 1 /\ \A i \in 1..(n + 1) : u[i] = t[i]
        /\ s \in G /\ x \in T
    BY <1>1, <1>2, <1>4, <2>1
  <2> HIDE DEF s, u
  <2>3. /\ Append(s, x) \in Seq(T) /\ Len(Append(s, x)) = n + 1
        /\ \A i \in 1..n : Append(s, x)[i] = s[i]
        /\ Append(s, x)[n + 1] = x
    BY <2>2, AppendProperties
  <2>4. \A i \in 1..(n + 1) : i \in 1..n \/ i = n + 1
    BY <2>1
  <2>5. \A i \in 1..(n + 1) : u[i] = Append(s, x)[i]
    BY <2>2, <2>3, <2>4
  <2>6. u = Append(s, x)
    BY <2>2, <2>3, <2>5, SeqEqual
  <2> QED
    BY <2>1, <2>2, <2>6 DEF u
<1> HIDE DEF Good
<1>5. 0..N \subseteq Good
  BY <1>1, <1>3, <1>4, Induction
<1>6. SubSeq(t, 1, N) \in G
  BY <1>1, <1>5 DEF Good
<1>7. SubSeq(t, 1, N) = t
  <2> DEFINE u == SubSeq(t, 1, N)
  <2>1. u \in Seq(T) /\ Len(u) = N /\ \A i \in 1..N : u[i] = t[i]
    BY <1>1, <1>2
  <2> HIDE DEF u
  <2>2. u = t
    BY <2>1, SeqEqual
  <2> QED
    BY <2>2 DEF u
<1> QED
  BY <1>6, <1>7
=============================================================================
