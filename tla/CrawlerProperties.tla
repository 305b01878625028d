------------------------- MODULE CrawlerProperties -------------------------
(***************************************************************************)
(* What one call of Crawler.Run must and must not do.                      *)
(***************************************************************************)
EXTENDS Crawler

\* The pieces of work that are not finished: the jobs in the channel, the
\* jobs in process and the jobs somebody is about to send.
SeedWork == CASE main = "seed" -> 1 [] main = "seedSend" -> 2 [] OTHER -> 0
OpenWork == SeedWork + Len(queue) + Cardinality(Busy) + Cardinality(Sending)

Stuck ==
  /\ ~cancelled /\ ~Room
  /\ main = "seedSend" \/ Sending = Workers

-----------------------------------------------------------------------------
(* Safety. *)

\* Once the workers run, the WaitGroup counts exactly the jobs that are in
\* the channel, in process or about to be sent, so done closes at the last of
\* them and never before (crawler.go:103-130, 200, 204).
JobAccounting ==
  /\ waiter # "off" => wg = OpenWork
  /\ waiter = "closed" => wg = 0

\* The gap between shouldVisit and markVisited lets several workers take the
\* same link, but one goroutine never makes two jobs for a page, and a page
\* that was a seed is never made a job again (crawler.go:93-98, 198-199).
OneJobPerWorker ==
  \A p \in Page :
    /\ \A a \in Workers \cup {Main} : made[a][p] <= 1
    /\ made[Main][p] > 0 => \A w \in Workers : made[w][p] = 0

\* Within[n] holds the in-scope pages that are at most n links away from a
\* seed; a page out of scope is never one of them.
PagesOf(us) == {Norm[us[i]] : i \in DOMAIN us} \cap InScope
Within[n \in 0..MaxDepth] ==
  IF n = 0 THEN {p \in InScope : made[Main][p] > 0}
  ELSE Within[n - 1] \cup UNION {PagesOf(Links[p]) : p \in Within[n - 1]}

JobsAtHand == {queue[i] : i \in DOMAIN queue} \cup {job[w] : w \in Busy}

\* The depth of a job is never more than MaxDepth, and the page it is for can
\* be reached over so many links: the crawl does not overshoot and never
\* leaves the scope (crawler.go:185, 198, 202).
DepthSound ==
  \A j \in JobsAtHand : j.depth <= MaxDepth /\ Norm[j.url] \in Within[j.depth]

\* Every page in the visited map that has no answer yet is still on its way,
\* unless the crawl was cancelled: a page that is marked is not forgotten
\* (crawler.go:95-96, 199-205).
OnItsWay(p) ==
  \/ main = "seedSend" /\ p = Norm[Head(seeds)]
  \/ \E i \in DOMAIN queue : p = Norm[queue[i].url]
  \/ \E w \in Workers : \/ pc[w] \in {"robots", "limit", "fetch"} /\ p = MyPage(w)
                        \/ pc[w] = "send" /\ p = Norm[Link(w)]
NoPageForgotten ==
  ~cancelled => \A p \in visited : p \in Answered \/ OnItsWay(p)

\* A nil error means what the comments say of it: the channel is empty, no
\* worker has a job, and the links of every page that was to be expanded are
\* in the visited map (crawler.go:103-108, 135-139).
NilMeansDone ==
  main = "ok" =>
    /\ queue = <<>> /\ Busy = {}
    /\ \A r \in answers : Expands(r.depth, r.outcome) =>
         PagesOf(Links[r.page]) \subseteq visited
-----------------------------------------------------------------------------
(* What a step may not do. *)

\* The WaitGroup's counter does not leave zero again once the waiter may be
\* waiting for it: Go panics at, or loses, an Add that races Wait at zero
\* (crawler.go:109, 127-130, 200).
WaitGroupNotRevived == [][waiter # "off" /\ wg = 0 => wg' = 0]_vars

\* After Run returned nil no goroutine of it fetches, saves, counts or marks
\* anything: the caller may close the backend (crawler.go:135-139).
QuietAfterNil ==
  [][main = "ok" => UNCHANGED <<queue, visited, wg, made, answers>>]_vars

\* Run implements the promise.
Promise == INSTANCE CrawlPromise WITH
  open <- OpenWork, found <- visited, answered <- Answered,
  outcome <- IF Returned THEN main ELSE "none"
Promised == Promise!Spec
-----------------------------------------------------------------------------
(* Liveness. *)

\* A call that is not cancelled returns, or ends up with a full channel and
\* everybody trying to send into it (crawler.go:96, 201-205).
ReturnsUnlessStuck == <>(Returned \/ cancelled) \/ <>[]Stuck

\* Every call returns, be it because it was cancelled: the WaitGroup lets Run
\* know "when the crawl is truly idle/done" (crawler.go:103-108).
EveryCrawlReturns == <>(Returned \/ cancelled)

\* Cancelling the context makes Run return and every worker exit, wherever
\* they were, unless Run is still sending its seeds (crawler.go:96, 115, 133,
\* 157, 203).
CancelReleasesAll ==
  cancelled ~> \/ Returned /\ \A w \in Workers : pc[w] \in {"off", "exited"}
               \/ main = "seedSend" /\ ~Room
-----------------------------------------------------------------------------
(* One page at a time. *)

\* No two workers have a job, and every page with links to follow was read.
OneAtATime == \A v, w \in Busy : v = w
AllRead == \A r \in answers : PagesOf(Links[r.page]) = {} \/ r.outcome = "html"
Undisturbed == OneAtATime /\ AllRead

\* The depth of a job is the distance of its page from the seeds.
BreadthFirst ==
  ~cancelled =>
    \A j \in JobsAtHand : \A n \in 0..(j.depth - 1) : Norm[j.url] \notin Within[n]

\* A crawl that is always undisturbed, as it is with a single worker and a web
\* it can read, is breadth first (crawler.go:18, 82, 202).
BreadthFirstAlone == []Undisturbed => []BreadthFirst

\* A crawl that returns nil answered every page within MaxDepth links of a
\* seed (README.md:11, crawler.go:82).
FullCoverage ==
  main = "ok" /\ ~cancelled => Answered = Within[MaxDepth]

\* With a single worker and a web it can read it does (crawler.go:82, 185, 198-202).
FullCoverageAlone == []Undisturbed => []FullCoverage
=============================================================================
