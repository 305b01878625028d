------------------------------ MODULE Crawler ------------------------------
(***************************************************************************)
(* One call of Crawler.Run (internal/scraper/crawler.go): the goroutine    *)
(* that called Run seeds a bounded channel, starts the workers and waits   *)
(* for either the cancellation of the context or the WaitGroup jobsWg; a   *)
(* waiter goroutine turns "jobsWg is zero" into the closing of a channel;  *)
(* every worker takes jobs, processes them and sends the links it finds    *)
(* back into the channel it takes from.                                    *)
(*                                                                         *)
(* Every goroutine has a program counter whose values are the places where *)
(* the others can get in between: channel operations, selects, and the gap *)
(* between reading the visited map and writing it.  A URL is an element of *)
(* URL, and Norm maps it to its page, the URL without its fragment; the    *)
(* web a crawl meets is the constant functions Links, Response and Verdict.*)
(***************************************************************************)
EXTENDS Naturals, Sequences, FiniteSets

CONSTANTS
  Workers,       \* the worker goroutines, CrawlConfig.Concurrency of them
  URL,           \* the URLs that can be given as seeds or found in pages
  Norm,          \* Norm[u]: u without its fragment
  InScope,       \* pages with an http(s) scheme and a host under Domains
  SeedLists,     \* the lists of seed URLs Run may be called with
  Links,         \* Links[p]: the URLs of the anchors of page p, in order
  Response,      \* Response[p]: the outcomes a fetch of page p can have
  Verdict,       \* Verdict[p]: what robots.txt can say of page p
  RespectRobots, \* CrawlConfig.RespectRobots
  MaxDepth,      \* CrawlConfig.MaxDepth
  QueueSize,     \* the capacity of the channel
  Main,          \* the goroutine that called Run
  NoJob          \* what a worker that has no job holds

Page == {Norm[u] : u \in URL}
Outcome == {"html", "other", "error"}
Job == [url : URL, depth : Nat]

ASSUME WorkersAssumption ==
  IsFiniteSet(Workers) /\ Workers # {} /\ Main \notin Workers /\ NoJob \notin Job

ASSUME WebAssumption ==
  /\ Norm \in [URL -> URL]
  /\ \A u \in URL : Norm[Norm[u]] = Norm[u]
  /\ InScope \subseteq Page
  /\ SeedLists \subseteq Seq(URL)
  /\ Links \in [Page -> Seq(URL)]
  /\ Response \in [Page -> SUBSET Outcome]
  /\ Verdict \in [Page -> SUBSET {"allow", "deny"}]

ASSUME ConfigAssumption ==
  RespectRobots \in BOOLEAN /\ MaxDepth \in Nat /\ QueueSize \in Nat \ {0}

VARIABLES
  main,      \* program counter of the goroutine that called Run
  seeds,     \* the seeds it has not dealt with yet
  queue,     \* the jobs in the channel
  visited,   \* the visited map
  wg,        \* the counter of jobsWg
  waiter,    \* program counter of the waiter goroutine
  cancelled, \* has the context been cancelled?
  pc,        \* program counter of each worker
  job,       \* the job each worker is processing
  todo,      \* the links of its page each worker has not dealt with yet
  made,      \* history: made[a][p] jobs were made for page p by goroutine a
  answers    \* history: the results handed to Save, and robots.txt refusals

seeding   == <<main, seeds>>
local     == <<pc, job, todo>>
history   == <<made, answers>>
vars      == <<main, seeds, queue, visited, wg, waiter, cancelled,
               pc, job, todo, made, answers>>

Answer == [page : Page, depth : Nat, outcome : Outcome \cup {"denied"}]

Busy      == {w \in Workers : pc[w] \notin {"off", "idle", "exited"}}
Sending   == {w \in Workers : pc[w] = "send"}
Answered  == {r.page : r \in answers}
Returned  == main \in {"ok", "cancelled"}

TypeOK ==
  /\ main \in {"seed", "seedSend", "wait", "ok", "cancelled"}
  /\ seeds \in Seq(URL)
  /\ queue \in Seq(Job)
  /\ visited \in SUBSET Page
  /\ wg \in Nat
  /\ waiter \in {"off", "waiting", "closed"}
  /\ cancelled \in BOOLEAN
  /\ pc \in [Workers -> {"off", "idle", "robots", "limit", "fetch",
                         "scan", "mark", "send", "finish", "exited"}]
  /\ job \in [Workers -> Job \cup {NoJob}]
  /\ todo \in [Workers -> Seq(URL)]
  /\ made \in [Workers \cup {Main} -> [Page -> Nat]]
  /\ answers \in SUBSET Answer

Init ==
  /\ main = "seed"
  /\ seeds \in SeedLists
  /\ queue = <<>>
  /\ visited = {}
  /\ wg = 0
  /\ waiter = "off"
  /\ cancelled = FALSE
  /\ pc = [w \in Workers |-> "off"]
  /\ job = [w \in Workers |-> NoJob]
  /\ todo = [w \in Workers |-> <<>>]
  /\ made = [a \in Workers \cup {Main} |-> [p \in Page |-> 0]]
  /\ answers = {}

(***************************************************************************)
(* The visited map.  shouldVisit reads it under a read lock, markVisited   *)
(* writes it under the write lock; no lock is held from one to the other.  *)
(***************************************************************************)

\* Mutant: the URL is looked up as it was written, fragment and all.
ShouldVisitRaw(u) == u \notin visited /\ Norm[u] \in InScope

ShouldVisit(u) == Norm[u] \notin visited /\ Norm[u] \in InScope

Claim(a, u) ==
  /\ visited' = visited \cup {Norm[u]}
  /\ made' = [made EXCEPT ![a][Norm[u]] = @ + 1]

Room == Len(queue) < QueueSize
-----------------------------------------------------------------------------
(* The goroutine that called Run. *)

\* A seed that is a duplicate, out of scope or not http(s) is dropped.
SkipSeed ==
  /\ main = "seed" /\ seeds # <<>>
  /\ ~ShouldVisit(Head(seeds))
  /\ seeds' = Tail(seeds)
  /\ UNCHANGED <<main, queue, visited, wg, waiter, cancelled, local, history>>

MarkSeed ==
  /\ main = "seed" /\ seeds # <<>>
  /\ ShouldVisit(Head(seeds))
  /\ Claim(Main, Head(seeds))
  /\ main' = "seedSend"
  /\ UNCHANGED <<seeds, queue, wg, waiter, cancelled, local, answers>>

\* A plain send: nothing takes from the channel yet, and the context is not
\* looked at.
SendSeed ==
  /\ main = "seedSend"
  /\ Room
  /\ queue' = Append(queue, [url |-> Head(seeds), depth |-> 0])
  /\ seeds' = Tail(seeds)
  /\ main' = "seed"
  /\ UNCHANGED <<visited, wg, waiter, cancelled, local, history>>

\* Mutant: jobsWg.Add(len(queue)) is forgotten.
SpawnWithoutAdd ==
  /\ main = "seed" /\ seeds = <<>>
  /\ pc' = [w \in Workers |-> "idle"]
  /\ waiter' = "waiting"
  /\ main' = "wait"
  /\ UNCHANGED <<seeds, queue, visited, wg, cancelled, job, todo, history>>

\* All seeds are in: the WaitGroup takes the length of the channel, then the
\* workers and the waiter start.
Spawn ==
  /\ main = "seed" /\ seeds = <<>>
  /\ wg' = wg + Len(queue)
  /\ pc' = [w \in Workers |-> "idle"]
  /\ waiter' = "waiting"
  /\ main' = "wait"
  /\ UNCHANGED <<seeds, queue, visited, cancelled, job, todo, history>>

\* The final select.  With both channels ready Go picks one at random.
ReturnOk ==
  /\ main = "wait" /\ waiter = "closed"
  /\ main' = "ok"
  /\ UNCHANGED <<seeds, queue, visited, wg, waiter, cancelled, local, history>>

ReturnCancelled ==
  /\ main = "wait" /\ cancelled
  /\ main' = "cancelled"
  /\ UNCHANGED <<seeds, queue, visited, wg, waiter, cancelled, local, history>>

\* Mutant: done is closed as soon as the channel is empty.
CloseWhenDrained ==
  /\ waiter = "waiting" /\ queue = <<>>
  /\ waiter' = "closed"
  /\ UNCHANGED <<seeding, queue, visited, wg, cancelled, local, history>>

\* jobsWg.Wait returns and done is closed.
CloseDone ==
  /\ waiter = "waiting" /\ wg = 0
  /\ waiter' = "closed"
  /\ UNCHANGED <<seeding, queue, visited, wg, cancelled, local, history>>

\* The caller cancels the context, at any time or never.
Cancel ==
  /\ ~cancelled
  /\ cancelled' = TRUE
  /\ UNCHANGED <<seeding, queue, visited, wg, waiter, local, history>>
-----------------------------------------------------------------------------
(* A worker. *)

Goto(w, label) == pc' = [pc EXCEPT ![w] = label]

\* A step that changes nothing but where the worker is.
Moves(w, from, to) ==
  /\ pc[w] = from
  /\ Goto(w, to)
  /\ UNCHANGED <<seeding, queue, visited, wg, waiter, cancelled, job, todo, history>>

Take(w) ==
  /\ pc[w] = "idle" /\ queue # <<>>
  /\ job' = [job EXCEPT ![w] = Head(queue)]
  /\ queue' = Tail(queue)
  /\ Goto(w, IF RespectRobots THEN "robots" ELSE "limit")
  /\ UNCHANGED <<seeding, visited, wg, waiter, cancelled, todo, history>>

Exit(w) == cancelled /\ Moves(w, "idle", "exited")

MyPage(w) == Norm[job[w].url]
Note(w, outcome) ==
  answers' = answers \cup {[page |-> MyPage(w), depth |-> job[w].depth, outcome |-> outcome]}

\* A robots.txt that cannot be had allows everything, and under a cancelled
\* context it cannot be had.
Allowed(w) ==
  /\ Moves(w, "robots", "limit")
  /\ cancelled \/ "allow" \in Verdict[MyPage(w)]

\* Mutant: a refused job goes back to the select without jobsWg.Done.
DeniedWithoutDone(w) ==
  /\ pc[w] = "robots"
  /\ "deny" \in Verdict[MyPage(w)]
  /\ Note(w, "denied")
  /\ Goto(w, "idle")
  /\ UNCHANGED <<seeding, queue, visited, wg, waiter, cancelled, job, todo, made>>

Denied(w) ==
  /\ pc[w] = "robots"
  /\ "deny" \in Verdict[MyPage(w)]
  /\ Note(w, "denied")
  /\ Goto(w, "finish")
  /\ UNCHANGED <<seeding, queue, visited, wg, waiter, cancelled, job, todo, made>>

LimiterPasses(w) == Moves(w, "limit", "fetch")

\* Mutant: the limiter refuses instead of waiting.
LimiterRefuses(w) == Moves(w, "limit", "finish")

LimiterFails(w) == cancelled /\ Moves(w, "limit", "finish")

Outcomes(p) == Response[p] \cup (IF cancelled THEN {"error"} ELSE {})

\* Mutants: the comparison with MaxDepth is off by one, either way.
ExpandsTooDeep(depth, outcome) == depth <= MaxDepth /\ outcome = "html"
ExpandsTooLittle(depth, outcome) == depth + 1 < MaxDepth /\ outcome = "html"

Expands(depth, outcome) == depth < MaxDepth /\ outcome = "html"

\* Fetch, Save (whose error is only logged), the metrics and the decision
\* whether to extract links: the crawl's shared state is not touched between.
Fetch(w) ==
  /\ pc[w] = "fetch"
  /\ \E outcome \in Outcomes(MyPage(w)) :
       /\ Note(w, outcome)
       /\ IF Expands(job[w].depth, outcome)
            THEN /\ todo' = [todo EXCEPT ![w] = Links[MyPage(w)]]
                 /\ Goto(w, "scan")
            ELSE Goto(w, "finish") /\ UNCHANGED todo
  /\ UNCHANGED <<seeding, queue, visited, wg, waiter, cancelled, job, made>>

Link(w) == Head(todo[w])
DropLink(w) == todo' = [todo EXCEPT ![w] = Tail(@)]

\* shouldVisit for the next link: keep it, drop it, or there is none left.
KeepLink(w) ==
  /\ Moves(w, "scan", "mark")
  /\ todo[w] # <<>> /\ ShouldVisit(Link(w))

SkipLink(w) ==
  /\ pc[w] = "scan" /\ todo[w] # <<>>
  /\ ~ShouldVisit(Link(w))
  /\ DropLink(w)
  /\ UNCHANGED <<seeding, queue, visited, wg, waiter, cancelled, pc, job, history>>

LinksDone(w) == todo[w] = <<>> /\ Moves(w, "scan", "finish")

\* Mutant: wg.Add(1) is forgotten.
MarkLinkWithoutAdd(w) ==
  /\ pc[w] = "mark"
  /\ Claim(w, Link(w))
  /\ Goto(w, "send")
  /\ UNCHANGED <<seeding, queue, wg, waiter, cancelled, job, todo, answers>>

\* markVisited and wg.Add(1), whatever other workers did since shouldVisit.
MarkLink(w) ==
  /\ pc[w] = "mark"
  /\ Claim(w, Link(w))
  /\ wg' = wg + 1
  /\ Goto(w, "send")
  /\ UNCHANGED <<seeding, queue, waiter, cancelled, job, todo, answers>>

\* Mutant: the select has a default and drops the job when the channel is full.
SendLinkOrDrop(w) ==
  /\ pc[w] = "send"
  /\ queue' = IF Room THEN Append(queue, [url |-> Link(w), depth |-> job[w].depth + 1])
                      ELSE queue
  /\ DropLink(w)
  /\ Goto(w, "scan")
  /\ UNCHANGED <<seeding, visited, wg, waiter, cancelled, job, history>>

\* Mutant: the newest job is taken first.
SendLinkInFront(w) ==
  /\ pc[w] = "send"
  /\ Room
  /\ queue' = <<[url |-> Link(w), depth |-> job[w].depth + 1]>> \o queue
  /\ DropLink(w)
  /\ Goto(w, "scan")
  /\ UNCHANGED <<seeding, visited, wg, waiter, cancelled, job, history>>

SendLink(w) ==
  /\ pc[w] = "send"
  /\ Room
  /\ queue' = Append(queue, [url |-> Link(w), depth |-> job[w].depth + 1])
  /\ DropLink(w)
  /\ Goto(w, "scan")
  /\ UNCHANGED <<seeding, visited, wg, waiter, cancelled, job, history>>

\* Mutant: the job that is given up stays counted.
GiveUpWithoutDone(w) ==
  /\ pc[w] = "send" /\ cancelled
  /\ DropLink(w)
  /\ Goto(w, "scan")
  /\ UNCHANGED <<seeding, queue, visited, wg, waiter, cancelled, job, history>>

\* Mutant: the send does not look at the context.
NeverGiveUp(w) == FALSE

GiveUp(w) ==
  /\ pc[w] = "send" /\ cancelled
  /\ wg' = wg - 1
  /\ DropLink(w)
  /\ Goto(w, "scan")
  /\ UNCHANGED <<seeding, queue, visited, waiter, cancelled, job, history>>

\* processJob has returned: jobsWg.Done, and back to the select.
Done(w) ==
  /\ pc[w] = "finish"
  /\ wg' = wg - 1
  /\ job' = [job EXCEPT ![w] = NoJob]
  /\ Goto(w, "idle")
  /\ UNCHANGED <<seeding, queue, visited, waiter, cancelled, todo, history>>
-----------------------------------------------------------------------------
RunStep == SkipSeed \/ MarkSeed \/ SendSeed \/ Spawn \/ ReturnOk \/ ReturnCancelled

WorkerStep(w) ==
  \/ Take(w) \/ Exit(w)
  \/ Allowed(w) \/ Denied(w) \/ LimiterPasses(w) \/ LimiterFails(w) \/ Fetch(w)
  \/ KeepLink(w) \/ SkipLink(w) \/ LinksDone(w)
  \/ MarkLink(w) \/ SendLink(w) \/ GiveUp(w) \/ Done(w)

Next == RunStep \/ CloseDone \/ Cancel \/ \E w \in Workers : WorkerStep(w)

(***************************************************************************)
(* Go runs every goroutine that can run, a fetch ends within the client's  *)
(* timeout and the ticker ticks, so every goroutine is weakly fair.        *)
(* Nothing obliges the caller to cancel.                                   *)
(***************************************************************************)
Fairness ==
  /\ WF_vars(RunStep)
  /\ WF_vars(CloseDone)
  /\ \A w \in Workers : WF_vars(WorkerStep(w))

Spec == Init /\ [][Next]_vars
FairSpec == Spec /\ Fairness
=============================================================================
