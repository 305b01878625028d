------------------------ MODULE ProxiedFetchProofs -------------------------
(***************************************************************************)
(* The pool's health tracking for any list of proxies, duplicates and      *)
(* rejected lines included, any number of callers and any interleaving of  *)
(* theirs: type correctness, the limit on failures and the cooldown.       *)
(***************************************************************************)
EXTENDS ProxiedFetch, SequenceTheorems, FiniteSetTheorems, TLAPS

\* A list of proxies in which every enabled one is below the limit.
Healthy(list) ==
  \A i \in DOMAIN list : ~list[i].disabled => list[i].failures < MaxFailures

-----------------------------------------------------------------------------
(* What the operations of the pool do to a list. *)

\* A call of Add appends new proxies.
LEMMA AddEffect ==
  ASSUME PoolTypeOK, Healthy(proxies),
         NEW raws \in Seq(ProxyURL \cup {BadURL}), Add(raws)
  PROVE  /\ PoolTypeOK' /\ Healthy(proxies)'
         /\ Len(proxies) <= Len(proxies')
         /\ \A i \in DOMAIN proxies : proxies'[i] = proxies[i]
<1>1. PICK n \in 0..Len(raws) :
        /\ \A i \in 1..n : raws[i] # BadURL
        /\ proxies' = proxies \o [i \in 1..n |-> Fresh(raws[i])]
  BY DEF Add
<1> DEFINE new == [i \in 1..n |-> Fresh(raws[i])]
<1>2. \A i \in 1..n : raws[i] \in ProxyURL
  BY <1>1, ElementOfSeq, LenProperties
<1>3. \A i \in 1..n : Fresh(raws[i]) \in Proxy
  BY <1>2, PoolAssumption DEF Fresh, Proxy
<1>4. new \in Seq(Proxy) /\ Len(new) = n
  BY <1>3, LenProperties
<1>5. proxies \in Seq(Proxy)
  BY DEF PoolTypeOK
<1>6. /\ proxies' \in Seq(Proxy)
      /\ Len(proxies') = Len(proxies) + n
      /\ \A i \in 1..(Len(proxies) + n) :
           proxies'[i] = IF i <= Len(proxies) THEN proxies[i] ELSE new[i - Len(proxies)]
  BY <1>1, <1>4, <1>5, ConcatProperties
<1>7. \A i \in 1..n : ~new[i].disabled /\ new[i].failures < MaxFailures
  BY PoolAssumption DEF Fresh
<1> HIDE DEF new
<1>8. Healthy(proxies)'
  <2> SUFFICES ASSUME NEW i \in 1..(Len(proxies) + n), ~proxies'[i].disabled
               PROVE  proxies'[i].failures < MaxFailures
    BY <1>6, LenProperties DEF Healthy
  <2>1. CASE i <= Len(proxies)
    BY <2>1, <1>5, <1>6, LenProperties DEF Healthy
  <2>2. CASE i > Len(proxies)
    <3>1. i - Len(proxies) \in 1..n
      BY <2>2, <1>5, LenProperties
    <3> QED
      BY <2>2, <3>1, <1>5, <1>6, <1>7, LenProperties
  <2> QED
    BY <2>1, <2>2, <1>5, LenProperties
<1>9. PoolTypeOK'
  BY <1>5, <1>6, LenProperties DEF PoolTypeOK, Add
<1> QED
  BY <1>5, <1>6, <1>8, <1>9, LenProperties

\* A step changes the list in place: proxies stay in it, it stays healthy, and
\* nobody is enabled before the end of the cooldown.
InPlace ==
  /\ PoolTypeOK' /\ Healthy(proxies)'
  /\ Len(proxies') = Len(proxies)
  /\ \A i \in DOMAIN proxies : proxies'[i].url = proxies[i].url
  /\ \A i \in DOMAIN proxies :
       proxies[i].disabled /\ ~proxies'[i].disabled => proxies[i].left < 0

\* Replacing one proxy, by one that fits, changes the list in place.
LEMMA Replacement ==
  ASSUME PoolTypeOK, Healthy(proxies), NEW k, NEW q,
         proxies' = [proxies EXCEPT ![k] = q],
         currentIndex' \in Nat,
         currentIndex' = 0 \/ currentIndex' < Len(proxies),
         k \in DOMAIN proxies =>
           /\ q \in Proxy /\ q.url = proxies[k].url
           /\ ~q.disabled => q.failures < MaxFailures
           /\ proxies[k].disabled /\ ~q.disabled => proxies[k].left < 0
  PROVE  InPlace
<1>1. proxies \in Seq(Proxy) /\ DOMAIN proxies = 1..Len(proxies)
  BY LenProperties DEF PoolTypeOK
<1>2. /\ proxies' \in Seq(Proxy) /\ Len(proxies') = Len(proxies)
      /\ DOMAIN proxies' = DOMAIN proxies
      /\ \A i \in DOMAIN proxies : proxies'[i] = IF i = k THEN q ELSE proxies[i]
  <2>1. CASE k \in DOMAIN proxies
    BY <2>1, <1>1, ExceptSeq, LenProperties
  <2>2. CASE k \notin DOMAIN proxies
    <3>1. proxies' = proxies
      BY <2>2, <1>1
    <3> QED
      BY <2>2, <3>1, <1>1
  <2> QED
    BY <2>1, <2>2
<1>3. PoolTypeOK'
  BY <1>2 DEF PoolTypeOK
<1>4. Healthy(proxies)'
  BY <1>2 DEF Healthy
<1> QED
  BY <1>2, <1>3, <1>4 DEF InPlace

\* A revived proxy, field by field.
LEMMA RevivedRecord ==
  ASSUME NEW p \in Proxy, NEW n \in Nat
  PROVE  LET q == [p EXCEPT !.failures = n, !.disabled = FALSE]
         IN  q \in Proxy /\ q.url = p.url /\ q.left = p.left /\ ~q.disabled /\ q.failures = n
<1> DEFINE r == [p EXCEPT !.failures = n]
           q == [r EXCEPT !.disabled = FALSE]
<1>1. r \in Proxy /\ r.url = p.url /\ r.left = p.left /\ r.failures = n
  BY DEF Proxy
<1> HIDE DEF r
<1>2. q \in Proxy /\ q.url = r.url /\ q.left = r.left /\ ~q.disabled /\ q.failures = r.failures
  BY <1>1 DEF Proxy
<1>3. q = [p EXCEPT !.failures = n, !.disabled = FALSE]
  BY DEF r
<1> HIDE DEF q
<1> QED
  BY <1>1, <1>2, <1>3

\* Next revives and hands out a proxy whose cooldown, if it had one, is over.
LEMMA NextInPlace ==
  ASSUME PoolTypeOK, Healthy(proxies), NEW i \in DOMAIN proxies, Next(i)
  PROVE  InPlace
<1>1. proxies \in Seq(Proxy) /\ DOMAIN proxies = 1..Len(proxies) /\ Len(proxies) \in Nat
  BY LenProperties DEF PoolTypeOK
<1> DEFINE q == [proxies[i] EXCEPT !.failures = IF proxies[i].disabled THEN 0 ELSE @,
                                   !.disabled = FALSE]
<1>2. Eligible(i) /\ proxies' = Revived(i) /\ currentIndex' = i % Len(proxies)
  BY DEF Next, Picks
<1>3. proxies[i] \in Proxy
  BY <1>1
<1>4. proxies' = [proxies EXCEPT ![i] = q]
  BY <1>1, <1>2, <1>3 DEF Revived, Proxy
<1>5. /\ q \in Proxy /\ q.url = proxies[i].url
      /\ ~q.disabled => q.failures < MaxFailures
      /\ proxies[i].disabled /\ ~q.disabled => proxies[i].left < 0
  <2> DEFINE n == IF proxies[i].disabled THEN 0 ELSE proxies[i].failures
  <2>1. n \in Nat /\ n < MaxFailures
    <3>1. proxies[i].failures \in Nat
      BY <1>3 DEF Proxy
    <3>2. CASE proxies[i].disabled
      BY <3>2, PoolAssumption
    <3>3. CASE ~proxies[i].disabled
      BY <3>1, <3>3 DEF Healthy
    <3> QED
      BY <3>2, <3>3
  <2>2. q = [proxies[i] EXCEPT !.failures = n, !.disabled = FALSE]
    OBVIOUS
  <2> HIDE DEF n, q
  <2>3. q \in Proxy /\ q.url = proxies[i].url /\ ~q.disabled /\ q.failures = n
    BY <1>3, <2>1, <2>2, RevivedRecord
  <2> QED
    BY <1>2, <2>1, <2>3 DEF Eligible
<1>6. currentIndex' \in Nat /\ currentIndex' < Len(proxies)
  BY <1>1, <1>2
<1> HIDE DEF q
<1> QED
  BY <1>4, <1>5, <1>6, Replacement

\* A success lowers the failures and enables nobody.
LEMMA SuccessInPlace ==
  ASSUME PoolTypeOK, Healthy(proxies), NEW u, MarkSuccess(u)
  PROVE  InPlace
<1> DEFINE k == Find(u)
           q == [proxies[k] EXCEPT !.failures = IF @ > 0 THEN @ - 1 ELSE 0]
<1> HIDE DEF k
<1>1. UNCHANGED currentIndex /\ proxies' = [proxies EXCEPT ![k] = q]
  BY DEF MarkSuccess, k
<1>2. ASSUME k \in DOMAIN proxies
      PROVE  /\ q \in Proxy /\ q.url = proxies[k].url
             /\ ~q.disabled => q.failures < MaxFailures
             /\ proxies[k].disabled /\ ~q.disabled => proxies[k].left < 0
  <2>1. proxies[k] \in Proxy
    BY <1>2, ElementOfSeq, LenProperties DEF PoolTypeOK
  <2> QED
    BY <1>2, <2>1, PoolAssumption DEF Proxy, Healthy
<1>3. currentIndex' \in Nat /\ (currentIndex' = 0 \/ currentIndex' < Len(proxies))
  BY <1>1 DEF PoolTypeOK
<1> HIDE DEF q
<1> QED
  BY <1>1, <1>2, <1>3, Replacement

\* A failure that reaches the limit disables the proxy.
LEMMA FailureInPlace ==
  ASSUME PoolTypeOK, Healthy(proxies), NEW u, MarkFailure(u)
  PROVE  InPlace
<1> DEFINE k == Find(u)
           q == IF proxies[k].failures + 1 >= MaxFailures
                  THEN Disabled(Failed(proxies[k])) ELSE Failed(proxies[k])
<1> HIDE DEF k
<1>1. UNCHANGED currentIndex /\ proxies' = [proxies EXCEPT ![k] = q]
  BY DEF MarkFailure, k
<1>2. ASSUME k \in DOMAIN proxies
      PROVE  /\ q \in Proxy /\ q.url = proxies[k].url
             /\ ~q.disabled => q.failures < MaxFailures
             /\ proxies[k].disabled /\ ~q.disabled => proxies[k].left < 0
  <2>1. proxies[k] \in Proxy
    BY <1>2, ElementOfSeq, LenProperties DEF PoolTypeOK
  <2>2. CASE proxies[k].failures + 1 >= MaxFailures
    <3>1. q = [url |-> proxies[k].url, failures |-> proxies[k].failures + 1,
               disabled |-> TRUE, left |-> Cooldown]
      BY <2>1, <2>2 DEF Proxy, Failed, Disabled
    <3> HIDE DEF q
    <3> QED
      BY <2>1, <3>1, PoolAssumption DEF Proxy
  <2>3. CASE ~(proxies[k].failures + 1 >= MaxFailures)
    BY <2>1, <2>3, PoolAssumption DEF Proxy, Failed
  <2> QED
    BY <2>2, <2>3
<1>3. currentIndex' \in Nat /\ (currentIndex' = 0 \/ currentIndex' < Len(proxies))
  BY <1>1 DEF PoolTypeOK
<1> HIDE DEF q
<1> QED
  BY <1>1, <1>2, <1>3, Replacement

\* The clock touches nothing but the time that is left.
LEMMA TickInPlace ==
  ASSUME PoolTypeOK, Healthy(proxies), Tick
  PROVE  InPlace
<1>1. proxies \in Seq(Proxy) /\ DOMAIN proxies = 1..Len(proxies) /\ Len(proxies) \in Nat
  BY LenProperties DEF PoolTypeOK
<1> DEFINE q(i) == [proxies[i] EXCEPT !.left = IF @ >= 0 THEN @ - 1 ELSE @]
<1>2. ASSUME NEW i \in 1..Len(proxies)
      PROVE  /\ q(i) \in Proxy /\ q(i).url = proxies[i].url
             /\ q(i).disabled = proxies[i].disabled /\ q(i).failures = proxies[i].failures
  <2>1. proxies[i] \in Proxy
    BY <1>1
  <2> QED
    BY <2>1, PoolAssumption DEF Proxy
<1>3. proxies' = [i \in 1..Len(proxies) |-> q(i)] /\ UNCHANGED currentIndex
  BY <1>1 DEF Tick
<1> HIDE DEF q
<1>4. proxies' \in Seq(Proxy) /\ Len(proxies') = Len(proxies)
  BY <1>1, <1>2, <1>3
<1>5. PoolTypeOK'
  BY <1>3, <1>4 DEF PoolTypeOK
<1>6. Healthy(proxies)'
  BY <1>1, <1>2, <1>3 DEF Healthy
<1> QED
  BY <1>1, <1>2, <1>3, <1>4, <1>5, <1>6 DEF InPlace
-----------------------------------------------------------------------------
(* The callers and the pool together. *)

Inv == TypeOK /\ Healthy(proxies)

\* Every initial state satisfies the invariant.
LEMMA InvInit == Init => Inv
<1> SUFFICES ASSUME Init PROVE Inv
  OBVIOUS
<1>1. PoolTypeOK /\ Healthy(proxies)
  BY DEF Init, PoolInit, PoolTypeOK, Healthy
<1>2. using \in [Callers -> ProxyURL \cup {Idle, Direct}]
  BY DEF Init
<1>3. overlooked \in [DOMAIN proxies -> Nat]
  BY DEF Init, PoolInit
<1> QED
  BY <1>1, <1>2, <1>3, FetchAssumption DEF Inv, TypeOK, Init

\* A step of a caller or of the clock that changes the list in place, and the
\* rest within its type.
LEMMA InPlaceStep ==
  ASSUME Inv, InPlace, UNCHANGED loads,
         using' \in [Callers -> ProxyURL \cup {Idle, Direct}],
         overlooked' \in [DOMAIN proxies -> Nat]
  PROVE  Inv'
<1>1. DOMAIN proxies' = DOMAIN proxies
  BY LenProperties DEF Inv, TypeOK, PoolTypeOK, InPlace
<1> QED
  BY <1>1 DEF Inv, TypeOK, InPlace

\* A step that leaves the pool alone.
LEMMA PoolUnchanged ==
  ASSUME Inv, UNCHANGED <<proxies, currentIndex>>
  PROVE  InPlace
BY DEF Inv, TypeOK, PoolTypeOK, Healthy, InPlace

\* Every step but Load changes the list in place, and keeps the types of what
\* belongs to the callers.
LEMMA CallerStep ==
  ASSUME Inv, Pass \/ \E c \in Callers : Request(c) \/ Respond(c) \/ Fail(c) \/ Drop(c)
  PROVE  InPlace /\ Inv'
<1>1. /\ PoolTypeOK /\ Healthy(proxies)
      /\ using \in [Callers -> ProxyURL \cup {Idle, Direct}]
      /\ overlooked \in [DOMAIN proxies -> Nat]
  BY DEF Inv, TypeOK
<1>2. CASE Pass
  BY <1>1, <1>2, TickInPlace, InPlaceStep DEF Pass
<1>3. ASSUME NEW c \in Callers, Request(c) PROVE InPlace /\ Inv'
  <2>1. ASSUME NEW i \in DOMAIN proxies, Next(i),
               using' = [using EXCEPT ![c] = proxies[i].url],
               overlooked' = [j \in DOMAIN proxies |->
                 IF j # i /\ Eligible(j) THEN overlooked[j] + 1 ELSE 0]
        PROVE  InPlace /\ Inv'
    <3>1. proxies[i].url \in ProxyURL
      <4>1. proxies[i] \in Proxy
        BY <1>1, ElementOfSeq, LenProperties DEF PoolTypeOK
      <4> QED
        BY <4>1 DEF Proxy
    <3>2. using' \in [Callers -> ProxyURL \cup {Idle, Direct}]
      BY <1>1, <2>1, <3>1
    <3>3. overlooked' \in [DOMAIN proxies -> Nat]
      BY <1>1, <2>1
    <3>4. InPlace
      BY <1>1, <2>1, NextInPlace
    <3> QED
      BY <1>3, <3>2, <3>3, <3>4, InPlaceStep DEF Request
  <2>2. ASSUME NextIsNil, using' = [using EXCEPT ![c] = Direct], UNCHANGED overlooked
        PROVE  InPlace /\ Inv'
    <3>1. InPlace
      BY <2>2, PoolUnchanged DEF NextIsNil, pool
    <3> QED
      BY <1>1, <1>3, <2>2, <3>1, InPlaceStep DEF Request
  <2> QED
    BY <1>3, <2>1, <2>2 DEF Request
<1>4. ASSUME NEW c \in Callers, Respond(c) PROVE InPlace /\ Inv'
  <2>1. InPlace
    BY <1>1, <1>4, SuccessInPlace, PoolUnchanged DEF Respond, pool
  <2> QED
    BY <1>1, <1>4, <2>1, InPlaceStep DEF Respond
<1>5. ASSUME NEW c \in Callers, Fail(c) PROVE InPlace /\ Inv'
  <2>1. InPlace
    BY <1>1, <1>5, FailureInPlace, PoolUnchanged DEF Fail, pool
  <2> QED
    BY <1>1, <1>5, <2>1, InPlaceStep DEF Fail
<1>6. ASSUME NEW c \in Callers, Drop(c) PROVE InPlace /\ Inv'
  <2>1. InPlace
    BY <1>6, PoolUnchanged DEF Drop
  <2> QED
    BY <1>1, <1>6, <2>1, InPlaceStep DEF Drop
<1> QED
  BY <1>2, <1>3, <1>4, <1>5, <1>6

\* Load keeps the proxies there are and appends new ones.
LEMMA LoadStep ==
  ASSUME Inv, Load
  PROVE  Inv' /\ \A i \in DOMAIN proxies : proxies'[i] = proxies[i]
<1>1. /\ PoolTypeOK /\ Healthy(proxies)
      /\ loads \in Seq(Seq(ProxyURL \cup {BadURL})) /\ loads # <<>>
      /\ overlooked \in [DOMAIN proxies -> Nat]
  BY DEF Inv, TypeOK, Load
<1>2. /\ Head(loads) \in Seq(ProxyURL \cup {BadURL})
      /\ Tail(loads) \in Seq(Seq(ProxyURL \cup {BadURL}))
  BY <1>1
<1>3. /\ PoolTypeOK' /\ Healthy(proxies)'
      /\ \A i \in DOMAIN proxies : proxies'[i] = proxies[i]
  BY <1>1, <1>2, AddEffect DEF Load
<1>4. overlooked' \in [DOMAIN proxies' -> Nat]
  BY <1>1 DEF Load
<1> QED
  BY <1>2, <1>3, <1>4 DEF Inv, TypeOK, Load

\* Every step preserves the invariant.
LEMMA InvStep == Inv /\ [NextStep]_vars => Inv'
<1> SUFFICES ASSUME Inv, [NextStep]_vars PROVE Inv'
  OBVIOUS
<1>1. CASE UNCHANGED vars
  BY <1>1 DEF vars, Inv, TypeOK, PoolTypeOK, Healthy
<1> QED
  BY <1>1, CallerStep, LoadStep DEF NextStep

\* The inductive invariant holds of every behaviour.
THEOREM Invariance == Spec => []Inv
BY InvInit, InvStep, PTL DEF Spec

\* The variables keep their types, the cursor stays on the list.
THEOREM TypeCorrect == Spec => []TypeOK
<1>1. Inv => TypeOK
  BY DEF Inv
<1> QED
  BY <1>1, Invariance, PTL

\* No proxy that reached the maximum of failures is enabled.
THEOREM BelowLimit == Spec => []EnabledBelowLimit
<1>1. Inv => EnabledBelowLimit
  BY DEF Inv, Healthy, EnabledBelowLimit
<1> QED
  BY <1>1, Invariance, PTL

\* Nothing but the end of its cooldown enables a proxy.
THEOREM CooldownKept == Spec => CooldownServed
<1> DEFINE Kept == \A i \in DOMAIN proxies :
             proxies[i].disabled /\ ~proxies'[i].disabled => proxies[i].left < 0
<1>1. Inv /\ [NextStep]_vars => [Kept]_vars
  <2> SUFFICES ASSUME Inv, NextStep PROVE Kept
    OBVIOUS
  <2> QED
    BY CallerStep, LoadStep DEF NextStep, InPlace
<1> QED
  BY <1>1, Invariance, PTL DEF Spec, CooldownServed
-----------------------------------------------------------------------------
(***************************************************************************)
(* Whose turn it is.  The cursor goes round the list, so how long a proxy  *)
(* that can be given is passed over is bounded by its way to the cursor:   *)
(* each time it is passed over that way gets shorter by one at least, and  *)
(* a list that grows lengthens both the way and the bound.                 *)
(***************************************************************************)

\* How many proxies of a list of n come before the j-th, from cursor c on.
Away(c, n, j) == IF j > c THEN j - 1 - c ELSE j - 1 - c + n

Distance(i) == Away(currentIndex, Len(proxies), i)

\* A proxy that has been passed over is the closer to its turn for it.
Patient == \A i \in DOMAIN proxies : overlooked[i] + Distance(i) < Len(proxies)

\* A remainder of what is less than twice the divisor.
LEMMA Remainder ==
  ASSUME NEW n \in Nat \ {0}, NEW a \in 0..(2 * n - 1)
  PROVE  a % n = IF a < n THEN a ELSE a - n
<1>1. CASE a < n
  <2>1. a \in Nat
    OBVIOUS
  <2> QED
    BY <1>1, <2>1
<1>2. CASE a >= n
  <2> DEFINE b == a - n
  <2>1. b \in Nat /\ b < n /\ a = b + n
    BY <1>2
  <2> HIDE DEF b
  <2>2. (b + n) % n = b
    BY <2>1
  <2> QED
    BY <1>2, <2>1, <2>2
<1> QED
  BY <1>1, <1>2

\* The way is shorter than the list and leads to the proxy it is the way of.
LEMMA WayLeads ==
  ASSUME NEW n \in Nat \ {0}, NEW c \in 0..(n - 1), NEW j \in 1..n
  PROVE  /\ Away(c, n, j) \in 0..(n - 1)
         /\ ((c + Away(c, n, j)) % n) + 1 = j
<1>1. Away(c, n, j) \in 0..(n - 1)
  BY DEF Away
<1>2. c + Away(c, n, j) = IF j > c THEN j - 1 ELSE j - 1 + n
  BY DEF Away
<1>3. c + Away(c, n, j) \in 0..(2 * n - 1)
  BY <1>2
<1>4. (c + Away(c, n, j)) % n = j - 1
  BY <1>2, <1>3, Remainder
<1> QED
  BY <1>1, <1>4

\* Behind the proxy that was k steps away, whoever was further away is closer
\* by k + 1.
LEMMA WayShrinks ==
  ASSUME NEW n \in Nat \ {0}, NEW c \in 0..(n - 1), NEW j \in 1..n,
         NEW k \in 0..(n - 1), k < Away(c, n, j),
         NEW i, i = ((c + k) % n) + 1
  PROVE  Away(i % n, n, j) = Away(c, n, j) - k - 1
<1>1. i = (IF c + k < n THEN c + k ELSE c + k - n) + 1
  <2> DEFINE a == c + k
  <2>1. a \in 0..(2 * n - 1)
    OBVIOUS
  <2> HIDE DEF a
  <2>2. a % n = IF a < n THEN a ELSE a - n
    BY <2>1, Remainder
  <2> QED
    BY <2>2 DEF a
<1>2. i \in 1..n
  BY <1>1
<1>3. i % n = IF i < n THEN i ELSE 0
  <2>1. i \in 0..(2 * n - 1)
    BY <1>2
  <2> QED
    BY <1>2, <2>1, Remainder
<1>4. CASE j > c
  <2>1. Away(c, n, j) = j - 1 - c
    BY <1>4 DEF Away
  <2>2. i = c + k + 1 /\ i < j
    BY <1>1, <2>1
  <2> QED
    BY <1>3, <2>1, <2>2 DEF Away
<1>5. CASE j <= c
  <2>1. Away(c, n, j) = j - 1 - c + n
    BY <1>5 DEF Away
  <2>2. CASE c + k < n
    <3>1. i = c + k + 1
      BY <1>1, <2>2
    <3>2. CASE i < n
      BY <1>3, <1>5, <2>1, <3>1, <3>2 DEF Away
    <3>3. CASE i = n
      BY <1>3, <1>5, <2>1, <3>1, <3>3 DEF Away
    <3> QED
      BY <1>2, <3>2, <3>3
  <2>3. CASE c + k >= n
    <3>1. i = c + k - n + 1 /\ i < j
      BY <1>1, <2>1, <2>3
    <3> QED
      BY <1>3, <2>1, <3>1 DEF Away
  <2> QED
    BY <2>2, <2>3
<1> QED
  BY <1>4, <1>5

\* Next passes over nobody who is closer than the proxy it gives.
LEMMA RequestPatient ==
  ASSUME Inv, Patient, NEW i \in DOMAIN proxies, Next(i),
         overlooked' = [j \in DOMAIN proxies |->
           IF j # i /\ Eligible(j) THEN overlooked[j] + 1 ELSE 0]
  PROVE  Patient'
<1> DEFINE n == Len(proxies)
           c == currentIndex
<1>1. /\ PoolTypeOK /\ Healthy(proxies)
      /\ overlooked \in [DOMAIN proxies -> Nat]
  BY DEF Inv, TypeOK
<1>2. DOMAIN proxies = 1..n /\ n \in Nat \ {0} /\ c \in 0..(n - 1)
  BY <1>1, LenProperties DEF PoolTypeOK
<1>3. Len(proxies') = n /\ DOMAIN proxies' = 1..n
  BY <1>1, <1>2, NextInPlace, LenProperties DEF InPlace, PoolTypeOK
<1>4. PICK k \in 0..(n - 1) :
        /\ i = ((c + k) % n) + 1
        /\ \A l \in 0..(k - 1) : ~Eligible(((c + l) % n) + 1)
  BY DEF Next, Picks, Turn
<1>5. currentIndex' = i % n
  BY DEF Next
<1>6. \A j \in 1..n : overlooked[j] + Away(c, n, j) < n
  BY <1>2 DEF Patient, Distance
<1> HIDE DEF n, c
<1>7. SUFFICES ASSUME NEW j \in 1..n
               PROVE  overlooked'[j] + Away(i % n, n, j) < n
  BY <1>3, <1>5 DEF Patient, Distance
<1>8. i % n \in 0..(n - 1)
  BY <1>2
<1>9. CASE j # i /\ Eligible(j)
  <2>1. /\ Away(c, n, j) \in 0..(n - 1)
        /\ ((c + Away(c, n, j)) % n) + 1 = j
    BY <1>2, WayLeads
  <2>2. Away(c, n, j) # k
    BY <1>4, <1>9, <2>1
  <2>3. ~(Away(c, n, j) < k)
    <3> SUFFICES ASSUME Away(c, n, j) < k PROVE FALSE
      OBVIOUS
    <3>1. Away(c, n, j) \in 0..(k - 1)
      BY <2>1, <1>2
    <3> QED
      BY <1>4, <1>9, <2>1, <3>1
  <2>4. k < Away(c, n, j)
    BY <1>2, <2>1, <2>2, <2>3
  <2>5. Away(i % n, n, j) = Away(c, n, j) - k - 1
    BY <1>2, <1>4, <2>4, WayShrinks
  <2>6. overlooked'[j] = overlooked[j] + 1 /\ overlooked[j] \in Nat
    BY <1>1, <1>2, <1>9
  <2> DEFINE a == Away(c, n, j)
           o == overlooked[j]
  <2>7. a \in Int /\ o \in Nat /\ o + a < n
    BY <1>6, <2>1, <2>6
  <2> HIDE DEF a, o
  <2>8. (o + 1) + (a - k - 1) < n
    BY <1>2, <2>7
  <2> QED
    BY <2>5, <2>6, <2>8 DEF a, o
<1>10. CASE ~(j # i /\ Eligible(j))
  <2>1. overlooked'[j] = 0
    BY <1>2, <1>10
  <2>2. Away(i % n, n, j) \in 0..(n - 1)
    BY <1>2, <1>8, WayLeads
  <2> QED
    BY <1>2, <2>1, <2>2
<1> QED
  BY <1>9, <1>10

\* A longer list leaves each proxy as many others before it as it is longer, at
\* most, and the new ones have not been passed over.
LEMMA LoadPatient ==
  ASSUME Inv, Patient, Load
  PROVE  Patient'
<1>1. /\ PoolTypeOK /\ Healthy(proxies)
      /\ loads \in Seq(Seq(ProxyURL \cup {BadURL})) /\ loads # <<>>
      /\ overlooked \in [DOMAIN proxies -> Nat]
  BY DEF Inv, TypeOK, Load
<1>2. Head(loads) \in Seq(ProxyURL \cup {BadURL}) /\ Add(Head(loads))
  BY <1>1 DEF Load
<1>3. PoolTypeOK' /\ Len(proxies) <= Len(proxies')
  BY <1>1, <1>2, AddEffect
<1> DEFINE n == Len(proxies)
           m == Len(proxies')
           c == currentIndex
<1>4. /\ DOMAIN proxies = 1..n /\ DOMAIN proxies' = 1..m
      /\ n \in Nat /\ m \in Nat /\ n <= m /\ c \in Nat /\ (c = 0 \/ c < n)
  BY <1>1, <1>3, LenProperties DEF PoolTypeOK
<1>5. c' = c
  BY <1>2 DEF Add
<1>6. \A j \in 1..m : overlooked'[j] = IF j \in 1..n THEN overlooked[j] ELSE 0
  BY <1>1, <1>4 DEF Load
<1>7. \A j \in 1..n : overlooked[j] + Away(c, n, j) < n /\ overlooked[j] \in Nat
  BY <1>1, <1>4 DEF Patient, Distance
<1>8. SUFFICES ASSUME NEW j \in 1..m
               PROVE  overlooked'[j] + Away(c, m, j) < m
  BY <1>4, <1>5 DEF Patient, Distance
<1> HIDE DEF n, m, c
<1>9. CASE j \in 1..n
  <2>1. overlooked'[j] = overlooked[j]
    BY <1>6, <1>9
  <2> QED
    BY <1>4, <1>7, <1>9, <2>1 DEF Away
<1>10. CASE j \notin 1..n
  <2>1. overlooked'[j] = 0 /\ j > n
    BY <1>4, <1>6, <1>10
  <2> QED
    BY <1>4, <2>1 DEF Away
<1> QED
  BY <1>9, <1>10

\* Nobody else moves the cursor or counts.
LEMMA RestPatient ==
  ASSUME Inv, Patient, InPlace, UNCHANGED <<currentIndex, overlooked>>
  PROVE  Patient'
<1>1. DOMAIN proxies' = DOMAIN proxies /\ Len(proxies') = Len(proxies)
  BY LenProperties DEF Inv, TypeOK, PoolTypeOK, InPlace
<1> QED
  BY <1>1 DEF Patient, Distance

\* Every step leaves every proxy at most its way to wait.
LEMMA PatientStep == Inv /\ Patient /\ [NextStep]_vars => Patient'
<1> SUFFICES ASSUME Inv, Patient, [NextStep]_vars PROVE Patient'
  OBVIOUS
<1>1. CASE UNCHANGED vars
  BY <1>1 DEF vars, Patient, Distance
<1>2. CASE Load
  BY <1>2, LoadPatient
<1>3. CASE Pass
  BY <1>3, CallerStep, RestPatient DEF Pass, Tick
<1>4. ASSUME NEW c \in Callers, Request(c) PROVE Patient'
  <2>1. ASSUME NEW i \in DOMAIN proxies, Next(i),
               overlooked' = [j \in DOMAIN proxies |->
                 IF j # i /\ Eligible(j) THEN overlooked[j] + 1 ELSE 0]
        PROVE  Patient'
    BY <2>1, RequestPatient
  <2>2. CASE NextIsNil /\ UNCHANGED overlooked
    BY <1>4, <2>2, CallerStep, RestPatient DEF NextIsNil, pool
  <2> QED
    BY <1>4, <2>1, <2>2 DEF Request
<1>5. ASSUME NEW c \in Callers, Respond(c) \/ Fail(c) \/ Drop(c) PROVE Patient'
  <2>1. UNCHANGED <<currentIndex, overlooked>>
    BY <1>5 DEF Respond, Fail, Drop, MarkSuccess, MarkFailure, pool
  <2> QED
    BY <1>5, <2>1, CallerStep, RestPatient
<1> QED
  BY <1>1, <1>2, <1>3, <1>4, <1>5 DEF NextStep

\* A proxy that could be given is passed over less often in a row than the list
\* is long.
THEOREM FairTurns == Spec => []NobodyOverlooked
<1>1. Init => Patient
  BY DEF Init, PoolInit, Patient
<1>2. Inv /\ Patient => NobodyOverlooked
  <2> SUFFICES ASSUME Inv, Patient, NEW i \in DOMAIN proxies
               PROVE  overlooked[i] < Len(proxies)
    BY DEF NobodyOverlooked
  <2>1. /\ Len(proxies) \in Nat /\ DOMAIN proxies = 1..Len(proxies)
        /\ currentIndex \in Nat /\ (currentIndex = 0 \/ currentIndex < Len(proxies))
        /\ overlooked[i] \in Nat
    BY LenProperties DEF Inv, TypeOK, PoolTypeOK
  <2>2. overlooked[i] + Away(currentIndex, Len(proxies), i) < Len(proxies)
    BY DEF Patient, Distance
  <2> QED
    BY <2>1, <2>2 DEF Away
<1> QED
  BY <1>1, <1>2, PatientStep, Invariance, PTL DEF Spec
-----------------------------------------------------------------------------
(***************************************************************************)
(* Failures that come in late.  They are counted on the first proxy with   *)
(* the URL of the request (findProxy), so the bound needs a list in which  *)
(* no URL is accepted twice: with two entries of one URL the second keeps  *)
(* handing it out while failures pile up on the first.                     *)
(***************************************************************************)

\* Add got as far as the m-th line.
Accepted(raws, m) == \A l \in 1..m : raws[l] # BadURL

\* No URL is accepted twice, in one call or in two.
NamedOnce(lists) ==
  \A k, l \in DOMAIN lists : \A m \in DOMAIN lists[k], o \in DOMAIN lists[l] :
    Accepted(lists[k], m) /\ Accepted(lists[l], o) /\ lists[k][m] = lists[l][o]
      => k = l /\ m = o

Unique == \A i, j \in DOMAIN proxies : proxies[i].url = proxies[j].url => i = j

\* What is still to be accepted is not on the list.
StillNew ==
  \A i \in DOMAIN proxies, k \in DOMAIN loads : \A m \in DOMAIN loads[k] :
    Accepted(loads[k], m) => loads[k][m] # proxies[i].url

\* A request goes through a proxy that is on the list.
Known == \A c \in Callers : using[c] \in ProxyURL => \E i \in DOMAIN proxies : proxies[i].url = using[c]

Apart == NamedOnce(loads) /\ Unique /\ StillNew /\ Known

Users(u) == {c \in Callers : using[c] = u}

\* The callers are finitely many, and so are those of one proxy.
LEMMA UsersCounted ==
  /\ Cardinality(Callers) \in Nat
  /\ \A v : IsFiniteSet(Users(v)) /\ Cardinality(Users(v)) \in Nat
            /\ Cardinality(Users(v)) <= Cardinality(Callers)
<1>1. IsFiniteSet(Callers)
  BY FetchAssumption
<1>2. \A u : Users(u) \subseteq Callers
  BY DEF Users
<1> QED
  BY <1>1, <1>2, FS_Subset, FS_CardinalityType

\* A caller that starts with u is one more user of u.
LEMMA OneMoreUser ==
  ASSUME Inv, NEW c \in Callers, NEW u, using[c] # u, using' = [using EXCEPT ![c] = u]
  PROVE  /\ Cardinality(Users(u)') = Cardinality(Users(u)) + 1
         /\ \A v : v # u /\ v # using[c] => Users(v)' = Users(v)
<1>1. using \in [Callers -> ProxyURL \cup {Idle, Direct}]
  BY DEF Inv, TypeOK
<1>2. Users(u)' = Users(u) \cup {c} /\ c \notin Users(u)
  BY <1>1 DEF Users
<1>3. \A v : v # u /\ v # using[c] => Users(v)' = Users(v)
  BY <1>1 DEF Users
<1> QED
  BY <1>2, <1>3, UsersCounted, FS_AddElement

\* A caller that goes idle is one user less of what it used.
LEMMA OneUserLess ==
  ASSUME Inv, NEW c \in Callers, NEW u, using[c] = u, u # Idle,
         using' = [using EXCEPT ![c] = Idle]
  PROVE  /\ Cardinality(Users(u)') + 1 = Cardinality(Users(u))
         /\ \A v : v # Idle /\ v # u => Users(v)' = Users(v)
<1>1. using \in [Callers -> ProxyURL \cup {Idle, Direct}]
  BY DEF Inv, TypeOK
<1>2. Users(u)' = Users(u) \ {c} /\ c \in Users(u)
  BY <1>1 DEF Users
<1>3. \A v : v # Idle /\ v # u => Users(v)' = Users(v)
  BY <1>1 DEF Users
<1>4. Cardinality(Users(u) \ {c}) = Cardinality(Users(u)) - 1
  BY <1>2, UsersCounted, FS_RemoveElement
<1>5. Cardinality(Users(u)) \in Nat
  BY UsersCounted
<1> QED
  BY <1>2, <1>3, <1>4, <1>5

\* A call of Add appends fresh proxies for the lines it gets to.
LEMMA AddedLines ==
  ASSUME PoolTypeOK, NEW raws \in Seq(ProxyURL \cup {BadURL}), Add(raws)
  PROVE  /\ DOMAIN proxies = 1..Len(proxies) /\ Len(proxies) \in Nat
         /\ DOMAIN proxies' = 1..Len(proxies') /\ Len(proxies') \in Nat
         /\ DOMAIN raws = 1..Len(raws) /\ Len(raws) \in Nat
         /\ Len(proxies) <= Len(proxies')
         /\ \A i \in 1..Len(proxies') :
              \/ i \in 1..Len(proxies) /\ proxies'[i] = proxies[i]
              \/ /\ i \notin 1..Len(proxies)
                 /\ i - Len(proxies) \in 1..Len(raws)
                 /\ Accepted(raws, i - Len(proxies))
                 /\ proxies'[i] = Fresh(raws[i - Len(proxies)])
<1>1. PICK n \in 0..Len(raws) :
        /\ \A i \in 1..n : raws[i] # BadURL
        /\ proxies' = proxies \o [i \in 1..n |-> Fresh(raws[i])]
  BY DEF Add
<1> DEFINE new == [i \in 1..n |-> Fresh(raws[i])]
<1>2. proxies \in Seq(Proxy) /\ raws \in Seq(ProxyURL \cup {BadURL})
  BY DEF PoolTypeOK
<1>3. Len(raws) \in Nat /\ DOMAIN raws = 1..Len(raws)
  BY <1>2, LenProperties
<1>4. n \in Nat /\ n <= Len(raws)
  BY <1>3
<1>5. \A i \in 1..n : raws[i] \in ProxyURL
  BY <1>1, <1>3, <1>4, ElementOfSeq
<1>6. \A i \in 1..n : Fresh(raws[i]) \in Proxy
  BY <1>5, PoolAssumption DEF Fresh, Proxy
<1>7. new \in Seq(Proxy) /\ Len(new) = n /\ \A i \in 1..n : new[i] = Fresh(raws[i])
  BY <1>4, <1>6, LenProperties
<1>8. /\ proxies' \in Seq(Proxy)
      /\ Len(proxies') = Len(proxies) + n
      /\ \A i \in 1..(Len(proxies) + n) :
           proxies'[i] = IF i <= Len(proxies) THEN proxies[i] ELSE new[i - Len(proxies)]
  <2> HIDE DEF new
  <2>1. proxies' = proxies \o new
    BY <1>1 DEF new
  <2> QED
    BY <1>2, <1>7, <2>1, ConcatProperties
<1> HIDE DEF new
<1>9. /\ DOMAIN proxies = 1..Len(proxies) /\ Len(proxies) \in Nat
      /\ DOMAIN proxies' = 1..Len(proxies') /\ Len(proxies') \in Nat
  BY <1>2, <1>8, LenProperties
<1>10. ASSUME NEW i \in 1..Len(proxies'), i \notin 1..Len(proxies)
       PROVE  /\ i - Len(proxies) \in 1..Len(raws)
              /\ Accepted(raws, i - Len(proxies))
              /\ proxies'[i] = Fresh(raws[i - Len(proxies)])
  <2>1. i - Len(proxies) \in 1..n /\ ~(i <= Len(proxies))
    BY <1>4, <1>8, <1>9, <1>10
  <2>2. i - Len(proxies) \in 1..Len(raws) /\ \A l \in 1..(i - Len(proxies)) : l \in 1..n
    BY <1>3, <1>4, <2>1
  <2> QED
    BY <1>1, <1>7, <1>8, <2>1, <2>2 DEF Accepted
<1>11. ASSUME NEW i \in 1..Len(proxies)
       PROVE  proxies'[i] = proxies[i]
  BY <1>4, <1>8, <1>9
<1> QED
  BY <1>3, <1>4, <1>8, <1>9, <1>10, <1>11

\* A call of Add puts nothing on the list that is there already.
LEMMA LoadApart ==
  ASSUME Inv, Apart, Load
  PROVE  Apart'
<1> DEFINE raws == Head(loads)
           n == Len(proxies)
           All == Seq(ProxyURL \cup {BadURL})
<1>1. PoolTypeOK /\ loads \in Seq(All) /\ loads # <<>>
  BY DEF Inv, TypeOK, Load
<1>2. /\ raws = loads[1] /\ 1 \in DOMAIN loads /\ raws \in All
      /\ loads' = Tail(loads)
      /\ \A k \in DOMAIN loads' : k + 1 \in DOMAIN loads /\ loads'[k] = loads[k + 1]
                                  /\ k + 1 # 1 /\ k \in Nat
  <2>1. loads' = Tail(loads) /\ Len(loads) \in Nat /\ Len(loads) # 0
    BY <1>1, LenProperties DEF Load
  <2>2. /\ Tail(loads) \in Seq(All) /\ Len(Tail(loads)) = Len(loads) - 1
        /\ \A k \in 1..(Len(loads) - 1) : Tail(loads)[k] = loads[k + 1]
    BY <1>1, HeadTailProperties
  <2>3. DOMAIN loads = 1..Len(loads) /\ DOMAIN loads' = 1..(Len(loads) - 1)
    BY <1>1, <2>1, <2>2, LenProperties
  <2>4. raws = loads[1] /\ raws \in All
    BY <1>1
  <2> QED
    BY <2>1, <2>2, <2>3, <2>4
<1>3. /\ DOMAIN proxies = 1..n /\ n \in Nat /\ DOMAIN proxies' = 1..Len(proxies')
      /\ Len(proxies') \in Nat /\ n <= Len(proxies') /\ DOMAIN raws = 1..Len(raws)
      /\ \A i \in DOMAIN proxies' :
           \/ i \in DOMAIN proxies /\ proxies'[i] = proxies[i]
           \/ /\ i \notin DOMAIN proxies /\ i - n \in DOMAIN raws
              /\ Accepted(raws, i - n) /\ proxies'[i].url = raws[i - n]
  <2>1. Add(raws) /\ raws \in Seq(ProxyURL \cup {BadURL})
    BY <1>2 DEF Load
  <2> HIDE DEF raws
  <2>2. \A i : Fresh(raws[i]).url = raws[i]
    BY DEF Fresh
  <2> QED
    BY <1>1, <2>1, <2>2, AddedLines
<1> HIDE DEF raws, n, All
<1>4. NamedOnce(loads')
  <2> SUFFICES ASSUME NEW k \in DOMAIN loads', NEW l \in DOMAIN loads',
                      NEW m \in DOMAIN loads'[k], NEW o \in DOMAIN loads'[l],
                      Accepted(loads'[k], m), Accepted(loads'[l], o), loads'[k][m] = loads'[l][o]
               PROVE  k = l /\ m = o
    BY DEF NamedOnce
  <2>1. k + 1 = l + 1 /\ m = o
    BY <1>2 DEF Apart, NamedOnce
  <2> QED
    BY <1>2, <2>1
<1>5. Unique'
  <2> SUFFICES ASSUME NEW i \in DOMAIN proxies', NEW j \in DOMAIN proxies',
                      proxies'[i].url = proxies'[j].url
               PROVE  i = j
    BY DEF Unique
  <2>1. CASE i \in DOMAIN proxies /\ j \in DOMAIN proxies
    BY <1>3, <2>1 DEF Apart, Unique
  <2>2. CASE i \notin DOMAIN proxies /\ j \in DOMAIN proxies
    BY <1>2, <1>3, <2>2 DEF Apart, StillNew
  <2>3. CASE i \in DOMAIN proxies /\ j \notin DOMAIN proxies
    BY <1>2, <1>3, <2>3 DEF Apart, StillNew
  <2>4. CASE i \notin DOMAIN proxies /\ j \notin DOMAIN proxies
    <3>1. i - n = j - n
      BY <1>2, <1>3, <2>4 DEF Apart, NamedOnce
    <3> QED
      BY <1>3, <3>1
  <2> QED
    BY <2>1, <2>2, <2>3, <2>4
<1>6. StillNew'
  <2> SUFFICES ASSUME NEW i \in DOMAIN proxies', NEW k \in DOMAIN loads', NEW m \in DOMAIN loads'[k],
                      Accepted(loads'[k], m), loads'[k][m] = proxies'[i].url
               PROVE  FALSE
    BY DEF StillNew
  <2>1. CASE i \in DOMAIN proxies
    BY <1>2, <1>3, <2>1 DEF Apart, StillNew
  <2>2. CASE i \notin DOMAIN proxies
    <3>1. /\ k + 1 \in DOMAIN loads /\ loads[k + 1] = loads'[k]
          /\ 1 \in DOMAIN loads /\ loads[1] = raws
      BY <1>2
    <3>2. /\ i - n \in DOMAIN raws /\ Accepted(raws, i - n)
          /\ proxies'[i].url = raws[i - n]
      BY <1>3, <2>2
    <3>3. k + 1 = 1
      BY <3>1, <3>2 DEF Apart, NamedOnce
    <3> QED
      BY <1>2, <3>3
  <2> QED
    BY <2>1, <2>2
<1>7. Known'
  <2>1. \A i \in DOMAIN proxies : i \in DOMAIN proxies' /\ proxies'[i] = proxies[i]
    BY <1>3
  <2>2. using' = using
    BY DEF Load
  <2> QED
    BY <2>1, <2>2 DEF Apart, Known
<1> QED
  BY <1>4, <1>5, <1>6, <1>7 DEF Apart

\* Changing the list in place keeps every URL where it is; a caller takes one of
\* them or becomes idle.
LEMMA InPlaceApart ==
  ASSUME Inv, Apart, InPlace, UNCHANGED loads,
         \A c \in Callers : \/ using'[c] = using[c]
                            \/ using'[c] \in {Idle, Direct}
                            \/ \E i \in DOMAIN proxies : using'[c] = proxies[i].url
  PROVE  Apart'
<1>1. DOMAIN proxies' = DOMAIN proxies
  BY LenProperties DEF Inv, TypeOK, PoolTypeOK, InPlace
<1>2. \A i \in DOMAIN proxies : proxies'[i].url = proxies[i].url
  BY DEF InPlace
<1>3. Unique' /\ StillNew' /\ NamedOnce(loads')
  BY <1>1, <1>2 DEF Apart, Unique, StillNew
<1>4. Known'
  BY <1>1, <1>2, FetchAssumption DEF Apart, Known
<1> QED
  BY <1>3, <1>4 DEF Apart

\* Every step keeps the URLs apart.
LEMMA ApartStep == Inv /\ Apart /\ [NextStep]_vars => Apart'
<1> SUFFICES ASSUME Inv, Apart, [NextStep]_vars PROVE Apart'
  OBVIOUS
<1>1. using \in [Callers -> ProxyURL \cup {Idle, Direct}]
  BY DEF Inv, TypeOK
<1>2. CASE UNCHANGED vars
  BY <1>2 DEF vars, Apart, Unique, StillNew, Known
<1>3. CASE Load
  BY <1>3, LoadApart
<1>4. CASE Pass
  BY <1>4, CallerStep, InPlaceApart DEF Pass
<1>5. ASSUME NEW c \in Callers, Request(c) PROVE Apart'
  <2>1. UNCHANGED loads
    BY <1>5 DEF Request
  <2>2. \/ \E i \in DOMAIN proxies : using' = [using EXCEPT ![c] = proxies[i].url]
        \/ using' = [using EXCEPT ![c] = Direct]
    BY <1>5 DEF Request
  <2>3. \A d \in Callers : \/ using'[d] = using[d]
                           \/ using'[d] \in {Idle, Direct}
                           \/ \E i \in DOMAIN proxies : using'[d] = proxies[i].url
    BY <1>1, <2>2
  <2> QED
    BY <1>5, <2>1, <2>3, CallerStep, InPlaceApart
<1>6. ASSUME NEW c \in Callers, Respond(c) \/ Fail(c) \/ Drop(c) PROVE Apart'
  <2>1. UNCHANGED loads /\ using' = [using EXCEPT ![c] = Idle]
    BY <1>6 DEF Respond, Fail, Drop
  <2>2. \A d \in Callers : using'[d] = using[d] \/ using'[d] \in {Idle, Direct}
    BY <1>1, <2>1
  <2> QED
    BY <1>6, <2>1, <2>2, CallerStep, InPlaceApart
<1> QED
  BY <1>2, <1>3, <1>4, <1>5, <1>6 DEF NextStep

\* Failures are counted where the URL is.
LEMMA FindsIt ==
  ASSUME PoolTypeOK, Unique, NEW i \in DOMAIN proxies
  PROVE  Find(proxies[i].url) = i
<1>1. DOMAIN proxies = 1..Len(proxies)
  BY LenProperties DEF PoolTypeOK
<1>2. {j \in DOMAIN proxies : proxies[j].url = proxies[i].url} = {i}
  BY DEF Unique
<1>3. i <= i
  BY <1>1
<1> QED
  BY <1>2, <1>3 DEF Find, Min

\* Every entry of the list is a proxy with a URL.
LEMMA ProxiesTyped ==
  ASSUME PoolTypeOK
  PROVE  \A i \in DOMAIN proxies : proxies[i] \in Proxy /\ proxies[i].url \in ProxyURL
<1>1. \A i \in DOMAIN proxies : proxies[i] \in Proxy
  BY ElementOfSeq, LenProperties DEF PoolTypeOK
<1>2. \A p \in Proxy : p.url \in ProxyURL
  BY DEF Proxy
<1> QED
  BY <1>1, <1>2

\* A step that changes the list in place keeps the bound, if for each proxy it
\* adds no more failures than it takes away users, or leaves it enabled.
LEMMA BoundKept ==
  ASSUME Inv, InPlace, LateFailuresBounded,
         \A i \in DOMAIN proxies : \A u : u = proxies[i].url =>
           \/ ~proxies'[i].disabled
           \/ proxies'[i].failures + Cardinality(Users(u)')
                <= proxies[i].failures + Cardinality(Users(u))
  PROVE  LateFailuresBounded'
<1>1. DOMAIN proxies' = DOMAIN proxies
  BY LenProperties DEF Inv, TypeOK, PoolTypeOK, InPlace
<1>2. SUFFICES ASSUME NEW i \in DOMAIN proxies, NEW u, u = proxies[i].url
               PROVE  proxies'[i].failures + Cardinality(Users(u)')
                        < MaxFailures + Cardinality(Callers)
  BY <1>1 DEF LateFailuresBounded, Users, InPlace
<1>3. proxies[i].failures \in Nat /\ proxies'[i].failures \in Nat
  <2>1. proxies[i] \in Proxy /\ proxies'[i] \in Proxy
    BY <1>1, ElementOfSeq, LenProperties DEF Inv, TypeOK, InPlace, PoolTypeOK
  <2> QED
    BY <2>1 DEF Proxy
<1>4. /\ Cardinality(Callers) \in Nat /\ Cardinality(Users(u)) \in Nat
      /\ Cardinality(Users(u)') \in Nat /\ Cardinality(Users(u)') <= Cardinality(Callers)
  <2>1. (\A v : IsFiniteSet(Users(v)) /\ Cardinality(Users(v)) \in Nat
                 /\ Cardinality(Users(v)) <= Cardinality(Callers))'
    BY UsersCounted, PTL
  <2> QED
    BY <2>1, UsersCounted
<1>5. proxies[i].failures + Cardinality(Users(u)) < MaxFailures + Cardinality(Callers)
  BY <1>2 DEF LateFailuresBounded, Users
<1>6. CASE ~proxies'[i].disabled
  <2>1. proxies'[i].failures < MaxFailures
    BY <1>1, <1>6 DEF InPlace, Healthy
  <2> QED
    BY <1>3, <1>4, <2>1, PoolAssumption
<1>7. CASE proxies'[i].failures + Cardinality(Users(u)')
             <= proxies[i].failures + Cardinality(Users(u))
  BY <1>3, <1>4, <1>5, <1>7, PoolAssumption
<1> QED
  BY <1>2, <1>6, <1>7

\* A proxy that is handed out is enabled.
LEMMA RequestLate ==
  ASSUME Inv, Apart, LateFailuresBounded, NEW c \in Callers, Request(c)
  PROVE  LateFailuresBounded'
<1>1. InPlace
  BY CallerStep
<1>2. /\ using \in [Callers -> ProxyURL \cup {Idle, Direct}] /\ using[c] = Idle
      /\ \A i \in DOMAIN proxies : proxies[i] \in Proxy /\ proxies[i].url \in ProxyURL
  BY ProxiesTyped DEF Inv, TypeOK, Request
<1>3. SUFFICES ASSUME NEW i \in DOMAIN proxies, NEW u, u = proxies[i].url, proxies'[i].disabled
               PROVE  proxies'[i].failures + Cardinality(Users(u)')
                        <= proxies[i].failures + Cardinality(Users(u))
  BY <1>1, BoundKept
<1>4. u \in ProxyURL /\ u # Idle /\ u # Direct
  BY <1>2, <1>3, FetchAssumption
<1>5. proxies[i].failures \in Nat /\ Cardinality(Users(u)) \in Nat
  BY <1>2, UsersCounted DEF Proxy
<1>6. ASSUME NEW k \in DOMAIN proxies, Next(k), using' = [using EXCEPT ![c] = proxies[k].url]
      PROVE  proxies'[i] = proxies[i] /\ Users(u)' = Users(u)
  <2>1. proxies' = Revived(k)
    BY <1>6 DEF Next
  <2>2. i # k
    <3>1. ~proxies'[k].disabled
      BY <1>2, <1>6, <2>1 DEF Revived, Proxy
    <3> QED
      BY <1>3, <3>1
  <2>3. proxies'[i] = proxies[i]
    BY <2>1, <2>2 DEF Revived
  <2>4. proxies[k].url # u
    BY <1>3, <2>2 DEF Apart, Unique
  <2>5. using[c] # proxies[k].url
    BY <1>2, FetchAssumption
  <2> QED
    BY <1>2, <1>4, <1>6, <2>3, <2>4, <2>5, OneMoreUser
<1>7. ASSUME NextIsNil, using' = [using EXCEPT ![c] = Direct]
      PROVE  proxies'[i] = proxies[i] /\ Users(u)' = Users(u)
  <2>1. using[c] # Direct
    BY <1>2, FetchAssumption
  <2>2. Users(u)' = Users(u)
    BY <1>2, <1>4, <1>7, <2>1, OneMoreUser
  <2> QED
    BY <1>7, <2>2 DEF NextIsNil, pool
<1>8. proxies'[i] = proxies[i] /\ Users(u)' = Users(u)
  BY <1>6, <1>7 DEF Request
<1> QED
  BY <1>5, <1>8

\* A failure comes with one user less of the proxy it is counted on; a success
\* lowers the count, and a request that was never made leaves it.
LEMMA EndLate ==
  ASSUME Inv, Apart, LateFailuresBounded,
         NEW c \in Callers, Respond(c) \/ Fail(c) \/ Drop(c)
  PROVE  LateFailuresBounded'
<1>1. InPlace /\ using' = [using EXCEPT ![c] = Idle] /\ using[c] # Idle
  BY CallerStep DEF Respond, Fail, Drop
<1>2. /\ using \in [Callers -> ProxyURL \cup {Idle, Direct}] /\ PoolTypeOK
      /\ \A i \in DOMAIN proxies : proxies[i] \in Proxy /\ proxies[i].url \in ProxyURL
  BY ProxiesTyped DEF Inv, TypeOK
<1>3. SUFFICES ASSUME NEW i \in DOMAIN proxies, NEW u, u = proxies[i].url
               PROVE  proxies'[i].failures + Cardinality(Users(u)')
                        <= proxies[i].failures + Cardinality(Users(u))
  BY <1>1, BoundKept
<1>4. u \in ProxyURL /\ u # Idle /\ u # Direct
  BY <1>2, <1>3, FetchAssumption
<1>5. /\ proxies[i].failures \in Nat /\ Cardinality(Users(u)) \in Nat
      /\ DOMAIN proxies' = DOMAIN proxies /\ proxies'[i] \in Proxy
      /\ proxies'[i].failures \in Nat
  <2>1. DOMAIN proxies' = DOMAIN proxies
    BY <1>1, <1>2, LenProperties DEF PoolTypeOK, InPlace
  <2>2. proxies'[i] \in Proxy
    BY <1>1, <2>1, ElementOfSeq, LenProperties DEF InPlace, PoolTypeOK
  <2> QED
    BY <1>2, <2>1, <2>2, UsersCounted DEF Proxy
<1>6. CASE using[c] = u
  <2>1. Cardinality(Users(u)') + 1 = Cardinality(Users(u))
    BY <1>1, <1>4, <1>6, OneUserLess
  <2>2. Find(u) = i
    BY <1>2, <1>3, FindsIt DEF Apart
  <2>3. proxies'[i].failures <= proxies[i].failures + 1
    <3>1. CASE Drop(c)
      BY <1>5, <3>1 DEF Drop
    <3>2. CASE Respond(c)
      <4>1. MarkSuccess(u)
        BY <1>4, <1>6, <3>2 DEF Respond
      <4>2. proxies'[i] = [proxies[i] EXCEPT !.failures = IF @ > 0 THEN @ - 1 ELSE 0]
        BY <2>2, <4>1 DEF MarkSuccess
      <4> QED
        BY <1>2, <1>5, <4>2 DEF Proxy
    <3>3. CASE Fail(c)
      <4>1. MarkFailure(u)
        BY <1>4, <1>6, <3>3 DEF Fail
      <4>2. proxies'[i] = IF proxies[i].failures + 1 >= MaxFailures
                            THEN Disabled(Failed(proxies[i])) ELSE Failed(proxies[i])
        BY <2>2, <4>1 DEF MarkFailure
      <4>3. Failed(proxies[i]).failures = proxies[i].failures + 1
        BY <1>2 DEF Failed, Proxy
      <4>4. Disabled(Failed(proxies[i])).failures = proxies[i].failures + 1
        BY <1>2 DEF Failed, Disabled, Proxy
      <4> QED
        BY <1>5, <4>2, <4>3, <4>4
    <3> QED
      BY <3>1, <3>2, <3>3
  <2>4. Cardinality(Users(u)') \in Nat
    <3>1. (\A v : IsFiniteSet(Users(v)) /\ Cardinality(Users(v)) \in Nat
                   /\ Cardinality(Users(v)) <= Cardinality(Callers))'
      BY UsersCounted, PTL
    <3> QED
      BY <3>1
  <2> QED
    BY <1>5, <2>1, <2>3, <2>4
<1>7. CASE using[c] # u
  <2>1. Users(u)' = Users(u)
    BY <1>1, <1>4, <1>7, OneUserLess
  <2>2. proxies'[i].failures = proxies[i].failures
    <3>1. CASE using[c] \notin ProxyURL
      <4>1. using[c] = Direct
        BY <1>1, <1>2, <3>1
      <4> QED
        BY <4>1 DEF Respond, Fail, Drop, pool
    <3>2. CASE using[c] \in ProxyURL
      <4>1. PICK j \in DOMAIN proxies : proxies[j].url = using[c]
        BY <3>2 DEF Apart, Known
      <4>2. Find(using[c]) = j /\ j # i
        BY <1>2, <1>3, <1>7, <4>1, FindsIt DEF Apart
      <4>3. using[c] # Direct
        BY <3>2, FetchAssumption
      <4> QED
        BY <4>2, <4>3 DEF Respond, Fail, Drop, MarkSuccess, MarkFailure
    <3> QED
      BY <3>1, <3>2
  <2> QED
    BY <1>5, <2>1, <2>2
<1> QED
  BY <1>6, <1>7

\* New proxies have no failures.
LEMMA LoadLate ==
  ASSUME Inv, LateFailuresBounded, Load
  PROVE  LateFailuresBounded'
<1>1. /\ PoolTypeOK /\ Head(loads) \in Seq(ProxyURL \cup {BadURL}) /\ Add(Head(loads))
      /\ UNCHANGED using
  BY DEF Inv, TypeOK, Load
<1>2. SUFFICES ASSUME NEW i \in DOMAIN proxies', NEW u, u = proxies'[i].url
               PROVE  proxies'[i].failures + Cardinality(Users(u))
                        < MaxFailures + Cardinality(Callers)
  BY <1>1 DEF LateFailuresBounded, Users
<1>3. \/ i \in DOMAIN proxies /\ proxies'[i] = proxies[i]
      \/ proxies'[i].failures = 0
  <2>1. \A r : Fresh(r).failures = 0
    BY DEF Fresh
  <2> QED
    BY <1>1, <2>1, AddedLines
<1>4. CASE i \in DOMAIN proxies /\ proxies'[i] = proxies[i]
  BY <1>2, <1>4 DEF LateFailuresBounded, Users
<1>5. CASE proxies'[i].failures = 0
  BY <1>5, UsersCounted, PoolAssumption
<1> QED
  BY <1>3, <1>4, <1>5

\* Every step keeps the bound.
LEMMA LateStep == Inv /\ Apart /\ LateFailuresBounded /\ [NextStep]_vars => LateFailuresBounded'
<1> SUFFICES ASSUME Inv, Apart, LateFailuresBounded, [NextStep]_vars
             PROVE  LateFailuresBounded'
  OBVIOUS
<1>1. CASE UNCHANGED vars
  BY <1>1 DEF vars, LateFailuresBounded
<1>2. CASE Load
  BY <1>2, LoadLate
<1>3. CASE Pass
  <2>1. UNCHANGED using /\ InPlace
    BY <1>3, CallerStep DEF Pass
  <2>2. ASSUME NEW i \in DOMAIN proxies
        PROVE  proxies'[i].failures = proxies[i].failures /\ proxies[i].failures \in Nat
    <3>1. proxies[i] \in Proxy
      BY ElementOfSeq, LenProperties DEF Inv, TypeOK, PoolTypeOK
    <3>2. proxies'[i] = [proxies[i] EXCEPT !.left = IF @ >= 0 THEN @ - 1 ELSE @]
      BY <1>3 DEF Pass, Tick
    <3> QED
      BY <3>1, <3>2 DEF Proxy
  <2>3. \A u : Users(u)' = Users(u) /\ Cardinality(Users(u)) \in Nat
    BY <2>1, UsersCounted DEF Users
  <2>4. \A i \in DOMAIN proxies : \A u : u = proxies[i].url =>
          proxies'[i].failures + Cardinality(Users(u)')
            <= proxies[i].failures + Cardinality(Users(u))
    BY <2>2, <2>3
  <2> QED
    BY <2>1, <2>4, BoundKept
<1>4. ASSUME NEW c \in Callers, Request(c) PROVE LateFailuresBounded'
  BY <1>4, RequestLate
<1>5. ASSUME NEW c \in Callers, Respond(c) \/ Fail(c) \/ Drop(c) PROVE LateFailuresBounded'
  BY <1>5, EndLate
<1> QED
  BY <1>1, <1>2, <1>3, <1>4, <1>5 DEF NextStep

\* As long as no URL is accepted twice, a proxy's failures exceed the maximum by
\* no more than the requests that were under way when it was disabled.
THEOREM LateBounded ==
  ASSUME NamedOnce(Loads)
  PROVE  Spec => []LateFailuresBounded
<1>1. Init => Apart /\ LateFailuresBounded
  <2> SUFFICES ASSUME Init PROVE Apart /\ LateFailuresBounded
    OBVIOUS
  <2>1. proxies = <<>> /\ loads = Loads /\ using = [c \in Callers |-> Idle]
    BY DEF Init, PoolInit
  <2>2. DOMAIN proxies = {}
    BY <2>1
  <2>3. Known
    BY <2>1, FetchAssumption DEF Known
  <2> QED
    BY <2>1, <2>2, <2>3 DEF Apart, Unique, StillNew, LateFailuresBounded
<1> QED
  BY <1>1, ApartStep, LateStep, Invariance, PTL DEF Spec
=============================================================================
