---------------------------- MODULE ProxiedFetch ----------------------------
(***************************************************************************)
(* Fetcher.Fetch (internal/scraper/fetcher.go) as the client of the pool:  *)
(* several goroutines ask it for a proxy, make their request through it    *)
(* and report how it went, while other proxies are handed out, disabled,   *)
(* cool down and come back.  The pool is filled by a sequence of Add calls *)
(* that may come before, between or during the requests.                   *)
(***************************************************************************)
EXTENDS ProxyPool

CONSTANTS
  Callers, \* the goroutines inside Fetch
  Loads,   \* the argument lists of the calls of Add, in order
  Idle,    \* a caller outside Fetch
  Direct   \* a caller whose request goes without a proxy

ASSUME FetchAssumption ==
  /\ IsFiniteSet(Callers) /\ Idle # Direct /\ {Idle, Direct} \cap ProxyURL = {}
  /\ Loads \in Seq(Seq(ProxyURL \cup {BadURL}))

VARIABLES
  loads,      \* the calls of Add that are still to come
  using,      \* what each caller's request goes through
  overlooked  \* history: how often in a row Next passed over a proxy it could
              \* have given

vars == <<proxies, currentIndex, loads, using, overlooked>>

TypeOK ==
  /\ PoolTypeOK
  /\ loads \in Seq(Seq(ProxyURL \cup {BadURL}))
  /\ using \in [Callers -> ProxyURL \cup {Idle, Direct}]
  /\ overlooked \in [DOMAIN proxies -> Nat]

Init ==
  /\ PoolInit
  /\ loads = Loads
  /\ using = [c \in Callers |-> Idle]
  /\ overlooked = <<>>

Load ==
  /\ loads # <<>>
  /\ Add(Head(loads))
  /\ loads' = Tail(loads)
  /\ overlooked' = [i \in DOMAIN proxies' |-> IF i \in DOMAIN overlooked THEN overlooked[i] ELSE 0]
  /\ UNCHANGED using

Request(c) ==
  /\ using[c] = Idle
  /\ \/ \E i \in DOMAIN proxies :
          /\ Next(i)
          /\ using' = [using EXCEPT ![c] = proxies[i].url]
          /\ overlooked' = [j \in DOMAIN proxies |->
               IF j # i /\ Eligible(j) THEN overlooked[j] + 1 ELSE 0]
     \/ /\ NextIsNil
        /\ using' = [using EXCEPT ![c] = Direct]
        /\ UNCHANGED overlooked
  /\ UNCHANGED loads

\* The request got a response: the proxy did well, whatever becomes of the body.
Respond(c) ==
  /\ using[c] # Idle
  /\ IF using[c] = Direct THEN UNCHANGED pool ELSE MarkSuccess(using[c])
  /\ using' = [using EXCEPT ![c] = Idle]
  /\ UNCHANGED <<loads, overlooked>>

\* The request got none, be it the fault of the proxy, of the target, of the
\* redirect policy or of a cancelled context.
Fail(c) ==
  /\ using[c] # Idle
  /\ IF using[c] = Direct THEN UNCHANGED pool ELSE MarkFailure(using[c])
  /\ using' = [using EXCEPT ![c] = Idle]
  /\ UNCHANGED <<loads, overlooked>>

\* The request could not even be made: the pool hears nothing of it.
Drop(c) ==
  /\ using[c] # Idle
  /\ using' = [using EXCEPT ![c] = Idle]
  /\ UNCHANGED <<proxies, currentIndex, loads, overlooked>>

Pass == Tick /\ UNCHANGED <<loads, using, overlooked>>

NextStep == Load \/ Pass \/ \E c \in Callers : Request(c) \/ Respond(c) \/ Fail(c) \/ Drop(c)

(***************************************************************************)
(* Time passes, and a request ends within the client's timeout.  That      *)
(* there is a next request is true as long as a crawl has pages left; what *)
(* is said of the future below is said of such a crawl.                    *)
(***************************************************************************)
Spec == Init /\ [][NextStep]_vars
FairSpec ==
  /\ Spec
  /\ WF_vars(Pass)
  /\ \A c \in Callers : WF_vars(Request(c)) /\ WF_vars(Respond(c) \/ Fail(c) \/ Drop(c))
-----------------------------------------------------------------------------
\* A proxy with as many failures as the maximum is never handed out without a
\* cooldown first, however failures, successes and revivals interleave
\* (pool.go:126-129, 159-161, 180-184).
EnabledBelowLimit ==
  \A i \in DOMAIN proxies : ~proxies[i].disabled => proxies[i].failures < MaxFailures

\* Failures that come in late, for a proxy that is disabled already, are at
\* most those of the requests that were under way (pool.go:180-184).
LateFailuresBounded ==
  \A i \in DOMAIN proxies :
    proxies[i].failures + Cardinality({c \in Callers : using[c] = proxies[i].url})
      < MaxFailures + Cardinality(Callers)

\* A proxy that could be given is given before every other one had its turn
\* (pool.go:117-140).
NobodyOverlooked == \A i \in DOMAIN proxies : overlooked[i] < Len(proxies)

\* A disabled proxy is enabled again by nothing but the end of its cooldown,
\* in particular not by a success that comes in late (pool.go:126, 157-161).
CooldownServed ==
  [][\A i \in DOMAIN proxies :
       proxies[i].disabled /\ ~proxies'[i].disabled => proxies[i].left < 0]_vars

\* A disabled proxy comes back (pool.go:126-129).
ComesBack ==
  \A u \in ProxyURL :
    (\E i \in DOMAIN proxies : proxies[i].url = u /\ proxies[i].disabled)
      ~> (\E i \in DOMAIN proxies : proxies[i].url = u /\ ~proxies[i].disabled)

\* "Next returns the next healthy proxy URL": a URL that the pool has disabled
\* is not handed out while it cools down (pool.go:106-107).
OnlyHealthyHandedOut ==
  [][\A c \in Callers : using[c] = Idle /\ using'[c] \in ProxyURL =>
       \A i \in DOMAIN proxies : proxies[i].url = using'[c] => Eligible(i)]_vars
=============================================================================
