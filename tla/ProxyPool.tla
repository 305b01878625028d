----------------------------- MODULE ProxyPool -----------------------------
(***************************************************************************)
(* The proxy pool (pkg/proxy/pool.go): a list of proxies, a cursor that    *)
(* goes round it, a count of failures per proxy and a cooldown.  Every     *)
(* method holds the pool's mutex from its first line to its last, so each  *)
(* one is one step.                                                        *)
(*                                                                         *)
(* Time is kept per proxy: left is DisabledUntil minus now in ticks, and   *)
(* -1 as soon as now is after DisabledUntil.                               *)
(***************************************************************************)
EXTENDS Integers, Sequences, FiniteSetsExt

CONSTANTS
  ProxyURL,    \* the proxy URLs, by their String()
  BadURL,      \* a line that does not parse or has another scheme
  MaxFailures, \* Config.MaxFailures, after NewPool's default
  Cooldown     \* Config.Cooldown in ticks, after NewPool's default

ASSUME PoolAssumption ==
  MaxFailures \in Nat \ {0} /\ Cooldown \in Nat \ {0} /\ BadURL \notin ProxyURL

VARIABLES
  proxies,      \* the list
  currentIndex  \* the cursor, from 0

pool == <<proxies, currentIndex>>

Proxy == [url : ProxyURL, failures : Nat, disabled : BOOLEAN, left : -1..Cooldown]

PoolTypeOK ==
  /\ proxies \in Seq(Proxy)
  /\ currentIndex \in Nat
  /\ currentIndex = 0 \/ currentIndex < Len(proxies)

PoolInit == proxies = <<>> /\ currentIndex = 0

Fresh(u) == [url |-> u, failures |-> 0, disabled |-> FALSE, left |-> -1]

\* Add stops at the first line it rejects and keeps the n before it.
Add(raws) ==
  /\ \E n \in 0..Len(raws) :
       /\ \A i \in 1..n : raws[i] # BadURL
       /\ n < Len(raws) => raws[n + 1] = BadURL
       /\ proxies' = proxies \o [i \in 1..n |-> Fresh(raws[i])]
  /\ UNCHANGED currentIndex

\* Mutant: nothing ever revives a proxy.
EligibleOnce(i) == ~proxies[i].disabled

\* now.After(DisabledUntil) revives a proxy in the step that looks at it.
Eligible(i) == proxies[i].disabled => proxies[i].left < 0

\* The proxy Next looks at after having passed over k others.
Turn(k) == ((currentIndex + k) % Len(proxies)) + 1

Picks(i) ==
  \E k \in 0..(Len(proxies) - 1) :
    /\ i = Turn(k) /\ Eligible(i)
    /\ \A l \in 0..(k - 1) : ~Eligible(Turn(l))

Revived(i) == [proxies EXCEPT
  ![i].failures = IF proxies[i].disabled THEN 0 ELSE @, ![i].disabled = FALSE]

\* Mutants: the cursor runs off the list; the cursor stays at the proxy that
\* was picked; a revived proxy keeps its failures.
NextOffTheList(i) == Picks(i) /\ proxies' = Revived(i) /\ currentIndex' = i
NextSticks(i) == Picks(i) /\ proxies' = Revived(i) /\ currentIndex' = i - 1
NextKeepsFailures(i) ==
  /\ Picks(i)
  /\ proxies' = [proxies EXCEPT ![i].disabled = FALSE]
  /\ currentIndex' = i % Len(proxies)

\* Next: the first eligible proxy from the cursor on, revived if need be, and
\* the cursor behind it.
Next(i) ==
  /\ Picks(i)
  /\ proxies' = Revived(i)
  /\ currentIndex' = i % Len(proxies)

\* Next returns nil after a full circle, with the cursor where it was.
NextIsNil == (\A i \in DOMAIN proxies : ~Eligible(i)) /\ UNCHANGED pool

\* findProxy: the first proxy with this URL.
Find(u) == Min({i \in DOMAIN proxies : proxies[i].url = u})

\* Mutant: a success enables the proxy.
MarkSuccessEnables(u) ==
  /\ proxies' = [proxies EXCEPT ![Find(u)].failures = IF @ > 0 THEN @ - 1 ELSE 0,
                                ![Find(u)].disabled = FALSE]
  /\ UNCHANGED currentIndex

MarkSuccess(u) ==
  /\ proxies' = [proxies EXCEPT ![Find(u)].failures = IF @ > 0 THEN @ - 1 ELSE 0]
  /\ UNCHANGED currentIndex

Failed(p) == [p EXCEPT !.failures = @ + 1]
Disabled(p) == [p EXCEPT !.disabled = TRUE, !.left = Cooldown]

\* Mutant: a proxy is disabled when its failures exceed the maximum.
MarkFailureLater(u) ==
  /\ proxies' = [proxies EXCEPT ![Find(u)] =
       IF @.failures + 1 > MaxFailures THEN Disabled(Failed(@)) ELSE Failed(@)]
  /\ UNCHANGED currentIndex

MarkFailure(u) ==
  /\ proxies' = [proxies EXCEPT ![Find(u)] =
       IF @.failures + 1 >= MaxFailures THEN Disabled(Failed(@)) ELSE Failed(@)]
  /\ UNCHANGED currentIndex

\* A tick of the clock.
Tick ==
  /\ \E i \in DOMAIN proxies : proxies[i].left >= 0
  /\ proxies' = [i \in DOMAIN proxies |->
       [proxies[i] EXCEPT !.left = IF @ >= 0 THEN @ - 1 ELSE @]]
  /\ UNCHANGED currentIndex
=============================================================================
