------------------------ MODULE RobotsAuditorProofs ------------------------
(***************************************************************************)
(* For any number of callers and hosts: the write lock excludes, a         *)
(* robots.txt is fetched once and everybody is told the same about it; and *)
(* whatever the auditor makes of the limiter, the limiter keeps the rate.  *)
(***************************************************************************)
EXTENDS RobotsAuditor, RateLimiterProofs

\* The write lock is held by whoever is past it, and by nobody else.
Locked == \A c \in Callers : writer = c <=> at[c] \in {"recheck", "fetch", "failed"}

\* The fetcher's configuration is changed while somebody fetches.
Borrowed == redirects = "robots" <=> \E c \in Callers : at[c] \in {"fetch", "failed"}

\* A caller that fetches found no entry, and nobody has made one since.
Missing == \A c \in Callers : at[c] \in {"fetch", "failed"} => cache[host[c]] = "absent"

\* A host without an entry was never fetched, and nobody was told about it;
\* one that has an entry was fetched once, and everybody was told the entry.
Cached ==
  \A h \in Host :
    /\ cache[h] = "absent" => fetches[h] = 0 /\ told[h] = {}
    /\ cache[h] # "absent" => fetches[h] = 1 /\ told[h] \subseteq {cache[h]}

AuditorInv == AuditorTypeOK /\ Locked /\ Borrowed /\ Missing /\ Cached

\* Every initial state satisfies the invariant.
LEMMA AuditorInvInit == AuditorInit => AuditorInv
<1> SUFFICES ASSUME AuditorInit PROVE AuditorInv
  OBVIOUS
<1>1. TypeOK
  BY InitTyped DEF AuditorInit
<1>2. told \in [Host -> SUBSET {"rules", "open"}]
  BY DEF AuditorInit
<1>3. AuditorTypeOK
  BY <1>1, <1>2, AuditorAssumption DEF AuditorInit, AuditorTypeOK
<1>4. Locked /\ Borrowed /\ Missing
  BY AuditorAssumption DEF AuditorInit, Locked, Borrowed, Missing
<1>5. Cached
  BY DEF AuditorInit, Cached
<1> QED
  BY <1>3, <1>4, <1>5 DEF AuditorInv

\* A step of the auditor is a step of the limiter or leaves it as it is.
LEMMA LimiterStep == [AuditorNext]_auditorVars => [Next]_vars
<1> SUFFICES ASSUME [AuditorNext]_auditorVars PROVE [Next]_vars
  OBVIOUS
<1>1. CASE Surroundings
  BY <1>1 DEF Surroundings, Next
<1>2. ASSUME NEW c \in Callers, NEW h \in Host, Ask(c, h) PROVE [Next]_vars
  BY <1>2 DEF Ask
<1>3. ASSUME NEW c \in Callers, Look(c) \/ Lock(c) \/ Fetch(c) PROVE [Next]_vars
  BY <1>3 DEF Look, Lock, Fetch
<1>4. ASSUME NEW c \in Callers, Recheck(c) PROVE [Next]_vars
  BY <1>4 DEF Recheck, StartFetch, Next
<1>5. ASSUME NEW c \in Callers, FetchPage(c) \/ TakeTick(c) \/ WakeUp(c) \/ FailToWait(c)
      PROVE [Next]_vars
  BY <1>5 DEF FetchPage, TakeTick, WakeUp, FailToWait, Next
<1>6. CASE UNCHANGED auditorVars
  BY <1>6 DEF auditorVars
<1> QED
  BY <1>1, <1>2, <1>3, <1>4, <1>5, <1>6 DEF AuditorNext

\* A step that leaves the auditor's variables alone keeps its invariant.
LEMMA AuditLeft == AuditorInv /\ TypeOK' /\ UNCHANGED audit => AuditorInv'
BY DEF audit, AuditorInv, AuditorTypeOK, Locked, Borrowed, Missing, Cached

\* Every step preserves it.
LEMMA AuditorInvStep == AuditorInv /\ [AuditorNext]_auditorVars => AuditorInv'
<1> SUFFICES ASSUME AuditorInv, [AuditorNext]_auditorVars PROVE AuditorInv'
  OBVIOUS
<1>1. TypeOK'
  BY StepTyped, LimiterStep DEF AuditorInv, AuditorTypeOK
<1>2. CASE Surroundings
  BY <1>1, <1>2, AuditLeft DEF Surroundings
<1>3. ASSUME NEW c \in Callers, FetchPage(c) \/ TakeTick(c) \/ WakeUp(c) PROVE AuditorInv'
  BY <1>1, <1>3, AuditLeft DEF FetchPage, TakeTick, WakeUp
<1>4. CASE UNCHANGED auditorVars
  BY <1>1, <1>4, AuditLeft DEF auditorVars
<1> USE AuditorAssumption DEF AuditorInv, AuditorTypeOK, Locked, Borrowed, Missing, Cached
<1>5. ASSUME NEW c \in Callers, NEW h \in Host, Ask(c, h) PROVE AuditorInv'
  BY <1>1, <1>5 DEF Ask, Go
<1>6. ASSUME NEW c \in Callers, Look(c) PROVE AuditorInv'
  BY <1>1, <1>6 DEF Look, Go, Answer
<1>7. ASSUME NEW c \in Callers, Lock(c) PROVE AuditorInv'
  BY <1>1, <1>7 DEF Lock, Go
<1>8. ASSUME NEW c \in Callers, Recheck(c) PROVE AuditorInv'
  BY <1>1, <1>8 DEF Recheck, StartFetch, Go, Answer
<1>9. ASSUME NEW c \in Callers, Fetch(c) PROVE AuditorInv'
  BY <1>1, <1>9 DEF Fetch, Entries, Go, Answer
<1>10. ASSUME NEW c \in Callers, FailToWait(c) PROVE AuditorInv'
  BY <1>1, <1>10 DEF FailToWait, Go
<1> QED
  BY <1>2, <1>3, <1>4, <1>5, <1>6, <1>7, <1>8, <1>9, <1>10 DEF AuditorNext

\* The inductive invariant holds of every behaviour.
THEOREM Invariance == AuditorSpec => []AuditorInv
BY AuditorInvInit, AuditorInvStep, PTL DEF AuditorSpec

\* The auditor's variables keep their types; in particular nobody is ever told
\* "absent", however the look and the fetch interleave.
THEOREM AuditorTyped == AuditorSpec => []AuditorTypeOK
<1>1. AuditorInv => AuditorTypeOK
  BY DEF AuditorInv
<1> QED
  BY <1>1, Invariance, PTL

\* A robots.txt is fetched at most once, and by one caller at a time.
THEOREM FetchedOnce == AuditorSpec => []SingleFlight
<1>1. AuditorInv => SingleFlight
  <2> SUFFICES ASSUME AuditorInv PROVE SingleFlight
    OBVIOUS
  <2> DEFINE fetching == {c \in Callers : at[c] \in {"fetch", "failed"}}
  <2>1. \A h \in Host : fetches[h] <= 1
    BY DEF AuditorInv, AuditorTypeOK, Cached
  <2>2. fetching \subseteq {writer}
    BY DEF AuditorInv, Locked
  <2>3. Cardinality(fetching) <= Cardinality({writer})
    BY <2>2, FS_Singleton, FS_Subset
  <2> QED
    BY <2>1, <2>3, FS_Singleton DEF SingleFlight
<1> QED
  BY <1>1, Invariance, PTL

\* Everybody is told the same about a host.
THEOREM AllAgree == AuditorSpec => []AnswersAgree
<1>1. AuditorInv => AnswersAgree
  <2> SUFFICES ASSUME AuditorInv, NEW h \in Host PROVE Cardinality(told[h]) <= 1
    BY DEF AnswersAgree
  <2>1. told[h] \subseteq {cache[h]}
    BY DEF AuditorInv, Cached
  <2>2. Cardinality(told[h]) <= Cardinality({cache[h]})
    BY <2>1, FS_Singleton, FS_Subset
  <2> QED
    BY <2>2, FS_Singleton
<1> QED
  BY <1>1, Invariance, PTL

\* Whoever finds MaxRedirects changed is the caller that changed it.
THEOREM Restored == AuditorSpec => []RedirectsRestored
<1>1. AuditorInv => RedirectsRestored
  BY DEF AuditorInv, AuditorTypeOK, Locked, Borrowed, RedirectsRestored
<1> QED
  BY <1>1, Invariance, PTL

\* The limiter behaves under the auditor and the other fetches as it does alone.
THEOREM LimiterAlone == AuditorSpec => Spec
<1>1. AuditorInit => Init
  BY DEF AuditorInit
<1> QED
  BY <1>1, LimiterStep, PTL DEF AuditorSpec, Spec

\* So the requests for robots.txt and for pages together keep the rate.
THEOREM RateKeptForAll == AuditorSpec => []RateBounded
BY LimiterAlone, RateKept
=============================================================================
