--------------------------- MODULE RobotsAuditor ---------------------------
(***************************************************************************)
(* RobotsTxtAuditor (internal/scraper/robots.go): a cache of robots.txt by *)
(* host behind a read-write mutex.  A caller looks under the read lock; on *)
(* a miss it takes the write lock, looks again and fetches with the lock   *)
(* held, with MaxRedirects of the shared fetcher set aside meanwhile.  The *)
(* fetch may have to pass the fetcher's limiter first (fetcher.go:107), as *)
(* every other fetch has.                                                  *)
(*                                                                         *)
(* A host's entry is "rules" when its robots.txt was parsed and "open" when*)
(* the code stores nil: whatever goes wrong, everything is allowed.        *)
(***************************************************************************)
EXTENDS RateLimiter, FiniteSets

CONSTANTS
  Host,    \* the scheme and host parts of the URLs
  Served,  \* Served[h]: what a fetch of h/robots.txt can lead to
  None     \* no caller, and no host

ASSUME AuditorAssumption ==
  /\ Served \in [Host -> (SUBSET {"rules", "open"}) \ {{}}]
  /\ None \notin Callers \cup Host

VARIABLES
  limited,   \* has the fetcher a limiter with a rate?
  cache,     \* the cached entries, "absent" for a host that has none
  writer,    \* who holds the write lock
  redirects, \* the fetcher's MaxRedirects: "own", or "robots" while it is set to 5
  at,        \* where each caller is in getOrFetch
  host,      \* the host it asks about while it is there
  fetches,   \* history: the fetches of each robots.txt
  told       \* history: what the callers were told about each host

audit == <<limited, cache, writer, redirects, at, host, fetches, told>>
auditorVars == <<vars, audit>>

AuditorTypeOK ==
  /\ TypeOK
  /\ limited \in BOOLEAN
  /\ cache \in [Host -> {"absent", "rules", "open"}]
  /\ writer \in Callers \cup {None}
  /\ redirects \in {"own", "robots"}
  /\ at \in [Callers -> {"idle", "look", "lock", "recheck", "fetch", "failed"}]
  /\ host \in [Callers -> Host \cup {None}]
  /\ \A c \in Callers : host[c] = None <=> at[c] = "idle"
  /\ fetches \in [Host -> Nat]
  /\ told \in [Host -> SUBSET {"rules", "open"}]

AuditorInit ==
  /\ Init
  /\ limited \in BOOLEAN
  /\ cache = [h \in Host |-> "absent"]
  /\ writer = None
  /\ redirects = "own"
  /\ at = [c \in Callers |-> "idle"]
  /\ host = [c \in Callers |-> None]
  /\ fetches = [h \in Host |-> 0]
  /\ told = [h \in Host |-> {}]

Go(c, label) == at' = [at EXCEPT ![c] = label]
Answer(c, entry) ==
  /\ told' = [told EXCEPT ![host[c]] = @ \cup {entry}]
  /\ host' = [host EXCEPT ![c] = None]
  /\ Go(c, "idle")
-----------------------------------------------------------------------------
(* The cache. *)

\* IsAllowed or SitemapExtracts is called about a URL of h.
Ask(c, h) ==
  /\ at[c] = "idle" /\ pc[c] = "out"
  /\ host' = [host EXCEPT ![c] = h]
  /\ Go(c, "look")
  /\ UNCHANGED <<vars, limited, cache, writer, redirects, fetches, told>>

\* Mutant: the look takes a host that was never asked about for one whose
\* entry is nil.
LookTakesAbsent(c) ==
  /\ at[c] = "look" /\ writer = None
  /\ Answer(c, cache[host[c]])
  /\ UNCHANGED <<vars, limited, cache, writer, redirects, fetches>>

\* The look under the read lock, which nobody gets while the write lock is held.
Look(c) ==
  /\ at[c] = "look" /\ writer = None
  /\ IF cache[host[c]] = "absent"
       THEN Go(c, "lock") /\ UNCHANGED <<host, told>>
       ELSE Answer(c, cache[host[c]])
  /\ UNCHANGED <<vars, limited, cache, writer, redirects, fetches>>

Lock(c) ==
  /\ at[c] = "lock" /\ writer = None
  /\ writer' = c
  /\ Go(c, "recheck")
  /\ UNCHANGED <<vars, limited, cache, redirects, host, fetches, told>>

\* Fetch is called, and waits for the limiter if there is one.
StartFetch(c) ==
  /\ redirects' = "robots"
  /\ Go(c, "fetch")
  /\ IF limited THEN Wait(c) ELSE UNCHANGED vars
  /\ UNCHANGED <<limited, cache, writer, host, fetches, told>>

\* Mutant: the cache is not looked at again under the write lock.
FetchAnyway(c) == at[c] = "recheck" /\ StartFetch(c)

\* Mutant: the early return under the write lock forgets to unlock.
RecheckKeepsLock(c) ==
  /\ at[c] = "recheck"
  /\ \/ cache[host[c]] = "absent" /\ StartFetch(c)
     \/ /\ cache[host[c]] # "absent"
        /\ Answer(c, cache[host[c]])
        /\ UNCHANGED <<vars, limited, cache, writer, redirects, fetches>>

\* The second look, under the write lock.
Recheck(c) ==
  /\ at[c] = "recheck"
  /\ \/ cache[host[c]] = "absent" /\ StartFetch(c)
     \/ /\ cache[host[c]] # "absent"
        /\ Answer(c, cache[host[c]])
        /\ writer' = None
        /\ UNCHANGED <<vars, limited, cache, redirects, fetches>>

\* What comes of a fetch.  An error, a status of 400 or more and a parse error
\* are all cached as nil; under a cancelled context the fetch can fail whatever
\* the host serves, and it fails when the limiter's Wait does.
Entries(c) ==
  CASE at[c] = "failed" -> {"open"}
    [] cancelled -> Served[host[c]] \cup {"open"}
    [] OTHER -> Served[host[c]]

\* Mutant: a robots.txt that cannot be had is not cached.
FetchCachesRules(c) ==
  /\ at[c] \in {"fetch", "failed"} /\ pc[c] = "out"
  /\ \E entry \in Entries(c) :
       /\ cache' = IF entry = "rules" THEN [cache EXCEPT ![host[c]] = entry] ELSE cache
       /\ Answer(c, entry)
  /\ fetches' = [fetches EXCEPT ![host[c]] = @ + 1]
  /\ redirects' = "own"
  /\ writer' = None
  /\ UNCHANGED <<vars, limited>>

\* The fetch ends, is parsed and cached, and the lock is released.
Fetch(c) ==
  /\ at[c] \in {"fetch", "failed"} /\ pc[c] = "out"
  /\ \E entry \in Entries(c) :
       /\ cache' = [cache EXCEPT ![host[c]] = entry]
       /\ Answer(c, entry)
  /\ fetches' = [fetches EXCEPT ![host[c]] = @ + 1]
  /\ redirects' = "own"
  /\ writer' = None
  /\ UNCHANGED <<vars, limited>>
-----------------------------------------------------------------------------
(* The fetcher's limiter. *)

\* Fetch is called for a page.
FetchPage(c) == limited /\ at[c] = "idle" /\ Wait(c) /\ UNCHANGED audit

TakeTick(c) == Take(c) /\ UNCHANGED audit
WakeUp(c) == Wake(c) /\ UNCHANGED audit

\* Wait returns an error, and with it the fetch.
FailToWait(c) ==
  /\ Abandon(c)
  /\ IF at[c] = "fetch" THEN Go(c, "failed") ELSE UNCHANGED at
  /\ UNCHANGED <<limited, cache, writer, redirects, host, fetches, told>>

\* Time passes, the limiter is stopped, the context is cancelled.
Surroundings ==
  /\ \/ limited /\ Elapse
     \/ limited /\ Stop
     \/ Cancel
  /\ UNCHANGED audit
-----------------------------------------------------------------------------
AuditorNext ==
  \/ Surroundings
  \/ \E c \in Callers :
       \/ \E h \in Host : Ask(c, h)
       \/ Look(c) \/ Lock(c) \/ Recheck(c) \/ Fetch(c)
       \/ FetchPage(c) \/ TakeTick(c) \/ WakeUp(c) \/ FailToWait(c)

(***************************************************************************)
(* A fetch ends within the client's timeout.  Go's RWMutex starves neither *)
(* readers nor writers, hence the strong fairness of the two lock steps.   *)
(* The limiter's fairness is that of RateLimiter.                          *)
(***************************************************************************)
AuditorSpec == AuditorInit /\ [][AuditorNext]_auditorVars
AuditorFairSpec ==
  /\ AuditorSpec
  /\ WF_auditorVars(limited /\ Elapse /\ UNCHANGED audit)
  /\ \A c \in Callers :
       /\ SF_auditorVars(Look(c) \/ Lock(c) \/ TakeTick(c))
       /\ WF_auditorVars(Recheck(c) \/ Fetch(c) \/ WakeUp(c) \/ FailToWait(c))
-----------------------------------------------------------------------------
\* However many callers miss at once, a robots.txt is fetched once, and at
\* most one caller at a time fetches any (robots.go:57-72).
SingleFlight ==
  /\ \A h \in Host : fetches[h] <= 1
  /\ Cardinality({c \in Callers : at[c] \in {"fetch", "failed"}}) <= 1

\* Everybody who asks about a host is told the same, the caller whose fetch
\* failed included (robots.go:44-51, 83-105).
AnswersAgree == \A h \in Host : Cardinality(told[h]) <= 1

\* Whoever finds the fetcher's configuration changed is the one who changed
\* it and still holds the lock (robots.go:76-81).
RedirectsRestored ==
  redirects = "robots" <=> \E c \in Callers : writer = c /\ at[c] \in {"fetch", "failed"}

\* Every question is answered: no lock is kept on any of the ways out.  Only a
\* limiter that was stopped under the caller that fetches, or before, and a
\* context that nobody cancels can leave it, and all others, without an answer
\* (robots.go:66-105, fetcher.go:107-117).
EveryAskAnswered ==
  \A c \in Callers : at[c] # "idle" ~> at[c] = "idle" \/ (limited /\ stopped /\ ~cancelled)
=============================================================================
