------------------------- MODULE RateLimiterProofs -------------------------
(***************************************************************************)
(* The rate is bounded, for any number of callers, any interval and any    *)
(* jitter.  RateBounded is not inductive: the ticks in the channel, the    *)
(* time that has gone by since the last one and the passes that sleepers   *)
(* have yet to make all count against the same bound.                      *)
(***************************************************************************)
EXTENDS RateLimiter, FiniteSetTheorems, TLAPS

\* The callers that have a tick and at least s units of their sleep to go.
Asleep(s) == {c \in Callers : pc[c] = "asleep" /\ sleep[c] >= s}

\* What the ticker has ready: a tick, and the part of the next one that is over.
Credit == (IF tick THEN Interval ELSE 0) + (Interval - next)

\* s units from now, when d is paid for or overdrawn by as much, what is owed,
\* asleep for so long or ready is still in bounds.
Bounded(d, s) == d + Interval * Cardinality(Asleep(s)) + Credit < 2 * Interval + Jitter

IInv ==
  /\ TypeOK
  /\ IsFiniteSet(Asleep(0))
  /\ \A s \in 0..Jitter : Bounded(s, s)
  /\ Bounded(debt, 0)

\* What the assumption says of the two durations.
LEMMA Sizes == Interval \in Nat /\ Interval > 0 /\ Jitter \in Nat /\ Jitter <= Interval
BY LimiterAssumption DEF LimiterAssumption

\* The limiter starts with the types of its variables.
LEMMA InitTyped == Init => TypeOK
<1> SUFFICES ASSUME Init PROVE TypeOK
  OBVIOUS
<1>1. tick \in BOOLEAN /\ stopped \in BOOLEAN /\ cancelled \in BOOLEAN
  BY DEF Init
<1>2. pc \in [Callers -> {"out", "select", "asleep"}] /\ sleep \in [Callers -> 0..Jitter]
  BY Sizes DEF Init
<1> QED
  BY <1>1, <1>2, Sizes DEF Init, TypeOK

\* Every step keeps the types.
LEMMA StepTyped == TypeOK /\ [Next]_vars => TypeOK'
<1> USE Sizes
<1> SUFFICES ASSUME TypeOK, [Next]_vars PROVE TypeOK'
  OBVIOUS
<1> USE DEF TypeOK, Goto, Passes
<1>1. CASE Elapse
  BY <1>1 DEF Elapse
<1>2. CASE Stop
  BY <1>2 DEF Stop
<1>3. CASE Cancel
  BY <1>3 DEF Cancel
<1>4. ASSUME NEW c \in Callers, Wait(c) PROVE TypeOK'
  BY <1>4 DEF Wait
<1>5. ASSUME NEW c \in Callers, Take(c) PROVE TypeOK'
  <2>1. tick' \in BOOLEAN
    BY <1>5 DEF Take
  <2>2. sleep' \in [Callers -> 0..Jitter] /\ debt' \in Nat
    BY <1>5 DEF Take
  <2> QED
    BY <1>5, <2>1, <2>2 DEF Take
<1>6. ASSUME NEW c \in Callers, Wake(c) PROVE TypeOK'
  BY <1>6 DEF Wake
<1>7. ASSUME NEW c \in Callers, Abandon(c) PROVE TypeOK'
  BY <1>7 DEF Abandon
<1>8. CASE UNCHANGED vars
  BY <1>8 DEF vars
<1> QED
  BY <1>1, <1>2, <1>3, <1>4, <1>5, <1>6, <1>7, <1>8 DEF Next

\* Every variable keeps its type, whatever the callers do.
THEOREM TypeCorrect == Spec => []TypeOK
BY InitTyped, StepTyped, PTL DEF Spec
-----------------------------------------------------------------------------
\* More callers cost more, and one more costs an interval.
LEMMA Cost ==
  ASSUME NEW i \in Nat
  PROVE  /\ \A n \in Nat : i * n \in Nat /\ i * (n + 1) = i * n + i
         /\ \A m, n \in Nat : m <= n => i * m <= i * n
         /\ i * 0 = 0
OBVIOUS

\* A set of sleepers within another one is finite and costs no more.
LEMMA FewerCost ==
  ASSUME NEW S, IsFiniteSet(S), NEW T, T \subseteq S
  PROVE  /\ IsFiniteSet(T)
         /\ Interval * Cardinality(T) \in Nat
         /\ Interval * Cardinality(S) \in Nat
         /\ Interval * Cardinality(T) <= Interval * Cardinality(S)
<1>1. IsFiniteSet(T) /\ Cardinality(T) <= Cardinality(S)
  BY FS_Subset
<1>2. Cardinality(T) \in Nat /\ Cardinality(S) \in Nat
  BY <1>1, FS_CardinalityType
<1> QED
  BY <1>1, <1>2, Cost, Sizes

\* One more sleeper costs an interval.
LEMMA OneMoreCosts ==
  ASSUME NEW S, IsFiniteSet(S), NEW c
  PROVE  /\ IsFiniteSet(S \cup {c})
         /\ Interval * Cardinality(S \cup {c}) \in Nat
         /\ Interval * Cardinality(S) \in Nat
         /\ Interval * Cardinality(S \cup {c}) <= Interval * Cardinality(S) + Interval
         /\ c \notin S =>
              Interval * Cardinality(S \cup {c}) = Interval * Cardinality(S) + Interval
<1>1. /\ IsFiniteSet(S \cup {c})
      /\ Cardinality(S \cup {c}) = Cardinality(S) \/ Cardinality(S \cup {c}) = Cardinality(S) + 1
      /\ c \notin S => Cardinality(S \cup {c}) = Cardinality(S) + 1
  BY FS_AddElement
<1>2. Cardinality(S) \in Nat
  BY FS_CardinalityType
<1> QED
  BY <1>1, <1>2, Cost, Sizes

\* What is ready is a number: a tick and what has gone by of the next one.
CreditTypeOK ==
  /\ Credit \in Nat /\ Credit < 2 * Interval
  /\ ~tick => Credit = Interval - next
  /\ tick => Credit = Interval + (Interval - next)

\* The credit that the invariant counts is a number.
LEMMA CreditType == TypeOK => CreditTypeOK
<1> SUFFICES ASSUME TypeOK PROVE CreditTypeOK
  OBVIOUS
<1>1. next \in Nat /\ 1 <= next /\ next <= Interval
  BY Sizes DEF TypeOK
<1>2. CASE tick
  BY <1>1, <1>2, Sizes DEF Credit, CreditTypeOK
<1>3. CASE ~tick
  BY <1>1, <1>3, Sizes DEF Credit, CreditTypeOK
<1> QED
  BY <1>2, <1>3

\* The same after a step.
LEMMA CreditTypeAfter == TypeOK' => CreditTypeOK'
BY CreditType, PTL

\* The sleepers of a caller's list are finitely many and cost a number.
LEMMA SleepersCost ==
  ASSUME IInv, NEW s \in Nat
  PROVE  IsFiniteSet(Asleep(s)) /\ Interval * Cardinality(Asleep(s)) \in Nat
<1>1. Asleep(s) \subseteq Asleep(0)
  BY Sizes DEF IInv, TypeOK, Asleep
<1> QED
  BY <1>1, FewerCost DEF IInv

\* A step after which nobody sleeps longer, nothing more is ready and nothing
\* more is owed keeps the bounds.
LEMMA NoMoreOwed ==
  ASSUME IInv, TypeOK', Credit' <= Credit, debt' = debt,
         \A s \in 0..Jitter : Asleep(s)' \subseteq Asleep(s)
  PROVE  IInv'
<1> USE Sizes
<1>1. Credit \in Nat /\ Credit' \in Nat
  BY CreditType, CreditTypeAfter DEF IInv, CreditTypeOK
<1>2. ASSUME NEW s \in 0..Jitter
      PROVE  /\ IsFiniteSet(Asleep(s)')
             /\ Interval * Cardinality(Asleep(s)') \in Nat
             /\ Interval * Cardinality(Asleep(s)) \in Nat
             /\ Interval * Cardinality(Asleep(s)') <= Interval * Cardinality(Asleep(s))
  BY SleepersCost, FewerCost
<1>3. ASSUME NEW s \in 0..Jitter, NEW d \in Nat, Bounded(d, s)
      PROVE  d + Interval * Cardinality(Asleep(s)') + Credit' < 2 * Interval + Jitter
  BY <1>1, <1>2, <1>3 DEF Bounded
<1>4. debt \in Nat /\ 0 \in 0..Jitter /\ 0..Jitter \subseteq Nat
  BY DEF IInv, TypeOK
<1> QED
  BY <1>2, <1>3, <1>4 DEF IInv, Bounded

\* Taking the tick turns what was ready into a pass or into one more sleeper.
LEMMA TakeStep ==
  ASSUME IInv, TypeOK', NEW c \in Callers, Take(c)
  PROVE  IInv'
<1> USE Sizes
<1>1. TypeOK /\ debt \in Nat
  BY DEF IInv, TypeOK
<1>2. Credit \in Nat /\ Credit' \in Nat /\ Credit = Credit' + Interval
  BY <1>1, CreditType, CreditTypeAfter DEF CreditTypeOK, Take, TypeOK
<1>3. CASE Passes /\ Goto(c, "out") /\ UNCHANGED sleep
  <2>1. \A s \in 0..Jitter : Asleep(s)' = Asleep(s)
    BY <1>1, <1>3 DEF TypeOK, Take, Goto, Asleep
  <2>2. \A s \in 0..Jitter : /\ IsFiniteSet(Asleep(s))
                               /\ Interval * Cardinality(Asleep(s)) \in Nat
    BY SleepersCost
  <2>3. debt' = debt + Interval /\ 0 \in 0..Jitter
    BY <1>3 DEF Passes
  <2>4. \A s \in 0..Jitter : Bounded(s, s)'
    BY <1>2, <2>1, <2>2 DEF IInv, Bounded
  <2>5. Bounded(debt, 0)'
    BY <1>1, <1>2, <2>1, <2>2, <2>3 DEF IInv, Bounded
  <2> QED
    BY <2>1, <2>2, <2>3, <2>4, <2>5 DEF IInv
<1>4. ASSUME NEW n \in 1..Jitter,
             sleep' = [sleep EXCEPT ![c] = n], Goto(c, "asleep"), UNCHANGED debt
      PROVE  IInv'
  <2>1. ASSUME NEW s \in 0..Jitter
        PROVE  Asleep(s)' \subseteq Asleep(s) \cup {c}
    BY <1>1, <1>4 DEF TypeOK, Take, Goto, Asleep
  <2>2. ASSUME NEW s \in 0..Jitter
        PROVE  /\ IsFiniteSet(Asleep(s)')
               /\ Interval * Cardinality(Asleep(s)') \in Nat
               /\ Interval * Cardinality(Asleep(s)) \in Nat
               /\ Interval * Cardinality(Asleep(s)') <= Interval * Cardinality(Asleep(s)) + Interval
    <3> IsFiniteSet(Asleep(s))
      BY SleepersCost
    <3>1. IsFiniteSet(Asleep(s) \cup {c})
      BY OneMoreCosts
    <3>2. Interval * Cardinality(Asleep(s)') <= Interval * Cardinality(Asleep(s) \cup {c})
      BY <3>1, <2>1, FewerCost
    <3> QED
      BY <3>1, <3>2, <2>1, FewerCost, OneMoreCosts
  <2>3. ASSUME NEW s \in 0..Jitter, NEW d \in Nat, Bounded(d, s)
        PROVE  d + Interval * Cardinality(Asleep(s)') + Credit' < 2 * Interval + Jitter
    BY <1>2, <2>2, <2>3 DEF Bounded
  <2>4. 0 \in 0..Jitter /\ 0..Jitter \subseteq Nat /\ debt' = debt
    BY <1>4
  <2> QED
    BY <1>1, <2>2, <2>3, <2>4 DEF IInv, Bounded
<1> QED
  BY <1>3, <1>4 DEF Take

\* A sleeper that passes is owed for and sleeps no more.
LEMMA WakeStep ==
  ASSUME IInv, TypeOK', NEW c \in Callers, Wake(c)
  PROVE  IInv'
<1> USE Sizes
<1>1. TypeOK /\ debt \in Nat /\ 0 \in 0..Jitter
  BY DEF IInv, TypeOK
<1>2. Credit \in Nat /\ Credit' = Credit
  BY <1>1, CreditType DEF CreditTypeOK, Credit, Wake
<1>3. debt' = debt + Interval
  BY DEF Wake, Passes
<1>4. \A s \in 0..Jitter : Asleep(s)' \subseteq Asleep(s)
  BY <1>1 DEF TypeOK, Wake, Goto, Asleep
<1>5. c \notin Asleep(0)' /\ Asleep(0) = Asleep(0)' \cup {c}
  BY <1>1 DEF TypeOK, Wake, Goto, Asleep
<1>6. ASSUME NEW s \in 0..Jitter
      PROVE  /\ IsFiniteSet(Asleep(s)')
             /\ Interval * Cardinality(Asleep(s)') \in Nat
             /\ Interval * Cardinality(Asleep(s)) \in Nat
             /\ Interval * Cardinality(Asleep(s)') <= Interval * Cardinality(Asleep(s))
  BY <1>4, SleepersCost, FewerCost
<1>7. Interval * Cardinality(Asleep(0)) = Interval * Cardinality(Asleep(0)') + Interval
  BY <1>1, <1>5, <1>6, OneMoreCosts
<1>8. Bounded(debt, 0)'
  BY <1>1, <1>2, <1>3, <1>6, <1>7 DEF IInv, Bounded
<1>9. \A s \in 0..Jitter : Bounded(s, s)'
  BY <1>2, <1>6 DEF IInv, Bounded
<1> QED
  BY <1>1, <1>6, <1>8, <1>9 DEF IInv

\* A unit of time brings the sleepers a unit closer to their passes, pays a
\* unit of what is owed and makes at most a unit more ready.
LEMMA ElapseStep ==
  ASSUME IInv, TypeOK', Elapse
  PROVE  IInv'
<1> USE Sizes
<1>1. TypeOK /\ debt \in Nat /\ 0 \in 0..Jitter
  BY DEF IInv, TypeOK
<1>2. Credit \in Nat /\ Credit' \in Nat /\ Credit' <= Credit + 1 /\ Credit' < 2 * Interval
  <2>1. next \in Nat /\ 1 <= next /\ next <= Interval
    BY <1>1 DEF TypeOK
  <2>2. CreditTypeOK /\ CreditTypeOK'
    BY <1>1, CreditType, CreditTypeAfter
  <2>3. ASSUME next = 1 PROVE Credit' <= Credit + 1
    BY <2>1, <2>2, <2>3 DEF CreditTypeOK, Elapse
  <2>4. ASSUME next # 1 PROVE Credit' <= Credit + 1
    <3>1. (tick' <=> tick) /\ next' = next - 1
      BY <2>4 DEF Elapse
    <3>2. CASE tick
      BY <2>1, <2>2, <3>1, <3>2 DEF CreditTypeOK
    <3>3. CASE ~tick
      BY <2>1, <2>2, <3>1, <3>3 DEF CreditTypeOK
    <3> QED
      BY <3>2, <3>3
  <2> QED
    BY <2>2, <2>3, <2>4 DEF CreditTypeOK
<1>3. \A s \in 0..Jitter : Asleep(s)' = Asleep(s + 1)
  BY <1>1 DEF TypeOK, Elapse, Asleep
<1>4. Asleep(0) = Asleep(1) /\ Asleep(Jitter + 1) = {}
  BY <1>1 DEF TypeOK, Elapse, Asleep
<1>5. ASSUME NEW s \in 0..Jitter
      PROVE  /\ IsFiniteSet(Asleep(s)')
             /\ Interval * Cardinality(Asleep(s)') \in Nat
             /\ Interval * Cardinality(Asleep(s + 1)) \in Nat
             /\ Interval * Cardinality(Asleep(s)') = Interval * Cardinality(Asleep(s + 1))
  BY <1>3, SleepersCost
<1>6. ASSUME NEW s \in 0..Jitter PROVE Bounded(s, s)'
  <2>1. CASE s = Jitter
    <3>1. Interval * Cardinality(Asleep(s)') = 0
      BY <1>4, <1>5, <2>1, FS_EmptySet, Cost
    <3> QED
      BY <1>2, <2>1, <3>1 DEF Bounded
  <2>2. CASE s # Jitter
    <3>1. s + 1 \in 0..Jitter /\ Bounded(s + 1, s + 1)
      BY <2>2 DEF IInv
    <3> QED
      BY <1>2, <1>5, <3>1 DEF Bounded
  <2> QED
    BY <2>1, <2>2
<1>7. Bounded(debt, 0)'
  <2>1. CASE debt = 0
    BY <1>1, <1>6, <2>1 DEF Bounded, Elapse
  <2>2. CASE debt > 0
    <3>1. debt' = debt - 1 /\ Bounded(debt, 0)
      BY <2>2 DEF Elapse, IInv
    <3>2. Interval * Cardinality(Asleep(0)') = Interval * Cardinality(Asleep(0))
      BY <1>1, <1>3, <1>4
    <3> QED
      BY <1>1, <1>2, <1>5, <2>2, <3>1, <3>2 DEF Bounded
  <2> QED
    BY <1>1, <2>1, <2>2
<1> QED
  BY <1>1, <1>5, <1>6, <1>7 DEF IInv

\* A limiter that starts has nothing ready, and nobody sleeps or is owed for.
LEMMA InvInit == Init => IInv
<1> SUFFICES ASSUME Init, TypeOK PROVE IInv
  BY InitTyped
<1> USE Sizes
<1>1. Credit = 0
  BY DEF Init, Credit
<1>2. \A s \in 0..Jitter : Asleep(s) = {}
  BY DEF Init, Asleep
<1>3. Cardinality({}) = 0 /\ IsFiniteSet({}) /\ Interval * 0 = 0
  BY FS_EmptySet, Cost
<1>4. \A s \in 0..Jitter : Bounded(s, s)
  BY <1>1, <1>2, <1>3 DEF Bounded
<1> QED
  BY <1>2, <1>3, <1>4 DEF IInv, Init

\* Every step preserves the inductive invariant.
LEMMA InvStep == IInv /\ [Next]_vars => IInv'
<1> SUFFICES ASSUME IInv, [Next]_vars PROVE IInv'
  OBVIOUS
<1> USE Sizes
<1>1. TypeOK /\ TypeOK'
  BY StepTyped DEF IInv
<1>2. Credit \in Nat /\ CreditTypeOK /\ CreditTypeOK'
  BY <1>1, CreditType, CreditTypeAfter DEF CreditTypeOK
<1>3. CASE Elapse
  BY <1>1, <1>3, ElapseStep
<1>4. CASE Stop
  <2>1. Credit' <= Credit
    BY <1>1, <1>2, <1>4 DEF Stop, CreditTypeOK, TypeOK
  <2>2. debt' = debt /\ \A s \in 0..Jitter : Asleep(s)' \subseteq Asleep(s)
    BY <1>4 DEF Stop, Asleep
  <2> QED
    BY <1>1, <2>1, <2>2, NoMoreOwed
<1>5. CASE Cancel \/ UNCHANGED vars
  <2>1. Credit' = Credit /\ Credit' <= Credit
    BY <1>2, <1>5 DEF Cancel, vars, Credit
  <2>2. debt' = debt /\ \A s \in 0..Jitter : Asleep(s)' \subseteq Asleep(s)
    BY <1>5 DEF Cancel, vars, Asleep
  <2> QED
    BY <1>1, <2>1, <2>2, NoMoreOwed
<1>6. ASSUME NEW c \in Callers, Wait(c) \/ Abandon(c) PROVE IInv'
  <2>1. Credit' = Credit /\ Credit' <= Credit
    BY <1>2, <1>6 DEF Wait, Abandon, Credit
  <2>2. debt' = debt /\ \A s \in 0..Jitter : Asleep(s)' \subseteq Asleep(s)
    BY <1>1, <1>6 DEF TypeOK, Wait, Abandon, Goto, Asleep
  <2> QED
    BY <1>1, <2>1, <2>2, NoMoreOwed
<1>7. ASSUME NEW c \in Callers, Take(c) PROVE IInv'
  BY <1>1, <1>7, TakeStep
<1>8. ASSUME NEW c \in Callers, Wake(c) PROVE IInv'
  BY <1>1, <1>8, WakeStep
<1> QED
  BY <1>3, <1>4, <1>5, <1>6, <1>7, <1>8 DEF Next

\* Any stretch of time sees no more passes than ticks, but for the kept tick,
\* the one about to come and the passes jitter put off: Wait keeps the rate.
THEOREM RateKept == Spec => []RateBounded
<1>1. IInv => RateBounded
  <2> SUFFICES ASSUME IInv PROVE RateBounded
    OBVIOUS
  <2>1. /\ Credit \in Nat /\ debt \in Nat
        /\ Interval * Cardinality(Asleep(0)) \in Nat
    BY CreditType, SleepersCost DEF IInv, CreditTypeOK, TypeOK
  <2> QED
    BY <2>1, Sizes DEF IInv, Bounded, RateBounded
<1> QED
  BY <1>1, InvInit, InvStep, PTL DEF Spec
=============================================================================
