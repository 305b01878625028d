# burr in TLA+

burr (`github.com/FranksOps/burr`) is a Go library for crawling the web: a
crawler with concurrent workers, a fetcher that rotates proxies and
User-Agents, a rate limiter, a robots.txt auditor, and four backends that keep
the results. This directory holds TLA+ modules of its stateful parts, TLC
configurations that check them on small instances, and TLAPS proofs of the
theorems that hold for every instance. Source paths below are relative to the
repository; line numbers are those of the commit the modules were written from.

Every module is checked with `tlc -config X.cfg M`, every proof module with
`tlapm M.tla`. `PROJECT.json` lists components, runs, hazards, theorems, and,
under `map`, the source lines each definition stands for.

## 1. Inventory

### Parts that keep state

**Crawler** (`internal/scraper/crawler.go`). State: the visited map behind a
read-write mutex; per call of `Run` a bounded channel of jobs, a WaitGroup
counting unfinished jobs, a `done` channel, and the context. Operations: `Run`
(seeding, starting workers and the waiter, the final select), `processJob`,
`shouldVisit`, `markVisited`, `extractLinks`. It calls the auditor, the limiter,
the fetcher, a storage backend's `Save` and the metrics. Hard: the workers are
producers *and* consumers of one bounded channel; the test and the write of the
visited map are two critical sections; termination is detected by counting; a
cancellation may come anywhere. Correct when: the count is exact, no page in
the map is lost, nil means nothing is left to do and nobody still works, depth
and scope are kept, every call returns.

**Robots.txt auditor** (`internal/scraper/robots.go`). State: a cache by host
behind a read-write mutex, and, borrowed, `MaxRedirects` of the shared fetcher.
Operations: `IsAllowed`, `SitemapExtracts`, `getOrFetch`. Hard: double-checked
locking with a network fetch under the write lock and five ways out; failures
are cached. Correct when: a host is fetched once, everybody gets the same
answer, no lock or configuration is left behind.

**Rate limiter** (`pkg/ratelimit/ratelimit.go`). State: a ticker whose channel
holds one tick. Operations: `Wait`, `Stop`. Hard: callers compete for ticks, a
tick is kept while nobody waits, jitter moves passes together, `Stop` does not
wake anybody. Correct when: the rate over any stretch of time is bounded, no
caller is left behind, a cancelled one always gets away.

**Proxy pool** (`pkg/proxy/pool.go`) and **fetcher**
(`internal/scraper/fetcher.go`, `pkg/httpclient/client.go`). State: the list of
proxies with failure counts and cooldowns, and a cursor. Operations: `Add`,
`LoadFile`, `Next`, `MarkSuccess`, `MarkFailure`; the fetcher takes a proxy
before each request and reports afterwards. Hard: between the two, others take,
report, disable and revive the same proxy; duplicates; time. Correct when: a
proxy at its limit is not handed out before its cooldown is over, none is
starved, a disabled one comes back.

**File storage** (`internal/storage/csvbackend/csv.go`, `jsonbackend/json.go`,
`storage.go`). State: a file of lines. Operations: `New`, `Save`, `Query`,
`Close`. Hard: a write cut short by an error or the end of the process, and what
is appended behind it; paging while others save. Correct when: what `Save`
acknowledged is found by `Query`, after restarts too.

**SQL storage** (`sqlite`, `postgres`). State: the rows of a table. The same
operations; `Query` builds its statement from the `Filter`. Hard: a statement
whose answer is lost, and the statements the databases do not both accept.
Correct when: all four backends page alike.

**Metrics** (`internal/metrics/metrics.go`). State: counters of the process, by
status, detection and source. `RecordScrape` adds a result to them, whether or
not it was saved. Correct when: they agree with a report on the results.

**User-Agent pool**: one atomic counter.

### Parts that compute

**Sitemap fetcher** (`internal/scraper/sitemap.go`): a recursion through
sitemaps and indexes, each tried first as the one and then as the other. Hard:
documents that break off, nested ones that fail, cycles, a cancellation.
**Challenge detection** (`internal/bypass/detection.go`): four detectors in a
fixed order, run on every response. **Term analyzer**
(`internal/analyzer/matcher.go`): the same search written twice. **Report**
(`internal/report/report.go`): a fold over the results of a query. **TLS
fingerprints**, and two stubs (pipeline, SERP).

### How they interact

    Run ──> queue ──> worker ─┬─> RobotsTxtAuditor ──> Fetcher
      ^                       ├─> Limiter.Wait
      └── jobsWg / done <──   ├─> Fetcher.Fetch ──> proxy.Pool.Next / MarkX
                              ├─> Backend.Save, metrics.RecordScrape
                              └─> extractLinks ──> visited map ──> queue

All calls are synchronous; workers meet in the channel, the visited map, the
WaitGroup, the auditor's lock, the limiter's ticker, the pool's mutex, the
backend and the counters. A caller reads a sitemap for its seeds, calls `Run`
once or more, closes the backend and reports. The 40 hazards of `PROJECT.json`
are the places where this can go wrong; the properties below are aimed at them,
and where none is, the hazard has a note that says why.

## 2. Plan

| step | module | what | state |
|---|---|---|---|
| 1 | `Crawler`, `CrawlPromise`, `CrawlerProperties`, `CrawlerProofs` | one call of `Run`; what it promises; proofs | proved |
| 2 | `ProxyPool`, `ProxiedFetch`, `ProxiedFetchProofs` | the pool, and the fetcher as its client | proved |
| 3 | `RateLimiter`, `RateLimiterProofs` | ticker, jitter, `Stop` | proved |
| 4 | `RobotsAuditor`, `RobotsAuditorProofs` | the cache and its lock, above the limiter | proved |
| 5 | `Store`, `StoreProofs` | the four backends, crashes, lost answers, paging | proved |
| 6 | `Detection`, `Report`, `Analyzer`, `AnalysisProofs` | the pure algorithms: detection, report and counters, both matchers | report, counters and matchers proved, with step 8; detection is a part of its steps |
| 7 | `Sitemap` | the recursion over a web of sitemaps | proved in step 8 |
| 8 | `Session`, `SessionProofs` | what a caller does with all of these: seeds from a sitemap, several `Run`s on one `Crawler`, results, redirects, `Save`, counters, `Close` | proved |

"Proved" is said of the safety properties, all but one; that one and liveness are
model-checked. `Counting` holds what the proofs of steps 1, 5, 6 and 8 need of
induction.

`ProxiedFetch` extends `ProxyPool` (the client's state on top of the pool's), and
`RobotsAuditor` extends `RateLimiter` (the auditor's fetch waits for it).
`CrawlerProperties` extends `Crawler` and instantiates `CrawlPromise`, the
abstract specification, with a refinement mapping. `Session` extends `Sitemap`,
`Detection`, `Report` and `Analyzer` and uses them on one state. It models a
`Run` in coarser steps than `Crawler`, and it shows of several `Run`s what
`Crawler` cannot.

## 3. The modules and the code

### Crawler

Every goroutine of a `Run` has a program counter; its values are the places
where others can get in between.

| code (`internal/scraper/crawler.go`) | model |
|---|---|
| the seed loop, 93-98 | `SkipSeed`, `MarkSeed`, `SendSeed` (`main = "seed"`, `"seedSend"`) |
| `jobsWg.Add(len(queue))` and the `go` statements, 108-130 | `Spawn`; the counter is `wg` |
| `jobsWg.Wait(); close(done)`, 127-130 | `CloseDone` (`waiter`) |
| the final select, 132-139 | `ReturnOk`, `ReturnCancelled` |
| a worker's select, 113-121 | `Take`, `Exit` |
| `processJob` | `Allowed`, `Denied`, `LimiterPasses`, `LimiterFails`, `Fetch`, then per link `KeepLink`/`SkipLink`, `MarkLink`, `SendLink`/`GiveUp`, and `LinksDone` |
| `jobsWg.Done()` | `Done` |
| `shouldVisit`, `markVisited` | `ShouldVisit`, `Claim`, in different steps |

`Fetch` is one step although the code does much between the request and the
decision to expand: nothing of the crawl's shared state is touched there. A URL
is an abstract value, `Norm` removes its fragment, `InScope` is the scheme and
domain test, `Links`, `Response` and `Verdict` are the web as the crawl may meet
it; `extractLinks` and the robots.txt library are abstracted into them. That a
page is not HTML, has no body or was not fetched is an outcome. The channel's
first-in first-out order is kept; that a send and a receive may meet without
the buffer makes no difference to what the others see. `made` and `answers` are
history variables.

`CrawlPromise` says what a caller may rely on, with no channel, worker or
WaitGroup: work breeds work, and nil is returned only when no work is open and,
unless the context was cancelled, every page found has been answered.
`CrawlerProperties!Promise` maps `open` to the jobs in channel, process and
transit, which is *not* the WaitGroup: that the two agree is `JobAccounting`.

### ProxyPool and ProxiedFetch

Every method of the pool holds its mutex throughout and is one operator; the
actions of `ProxiedFetch` are the calls made by `Fetch`: `Request` takes a
proxy (or none, and goes direct), `Respond` and `Fail` report, `Drop` is a
request that cannot even be built (`fetcher.go:145-150`), which reports nothing.
`Load` makes the calls of `Add`, between requests or during them. Time is kept
per proxy as what is left of its cooldown: only the comparison with now is ever
made. `Successes` and `LastUsed` are written and never read, and are left out.

### RateLimiter

Time is discrete, `Interval` units between two ticks. `Take` is the receive,
with a sleep of 1 to `Jitter` units or none; `Wake` ends a sleep, `Abandon` is
both selects' other branch. A limiter without a rate returns at once and keeps
no state. One idealisation: a sleeper whose time is up passes before time goes
on (a real one may be scheduled later, which adds to the delay of a pass and
hence to `Jitter` in the bound below). `RateBounded` has room for two intervals:
the kept tick and the next one can let two operations follow each other at once,
so an interval between any two is not claimed.

### RobotsAuditor

The steps are the look under the read lock, the taking of the write lock, the
second look with the start of the fetch, and the end of the fetch with
everything up to the unlock. The read lock is held within one step, so it shows
only as the guard `writer = None`. An entry is `"rules"` or `"open"` (the code
stores nil); which paths rules allow is the library's. Every caller shares the
context, as the crawler's workers do.

The fetcher may have a limiter (`limited`), and then a fetch waits for it
(`fetcher.go:106-117`) while the caller holds the write lock: the module stands
on `RateLimiter`, whose callers fetch a page (`FetchPage`) or are in the auditor.
`TakeTick` and `WakeUp` are the limiter's steps, `FailToWait` its error, which
the auditor caches as `"open"` like any other.

### Store

One module for the four backends. A result is the number of its creation; of a
line is kept what it reads as: how many fields (none if it cannot be read),
whose row it is, and whether its line end was written. `Save` writes all of a
line, nothing, all but its end, or part of it (`Extent`); the latter two also
happen when the process dies (`Crash`). The next line is then written right
behind, and the two are one (`Joined`): of CSV rows the fields add up but for the
one they share, JSON objects do not parse. The CSV header is a line like the
others: it can be cut short in `New`, which fails or dies, and the next `New`
finds a file that is not empty and writes none (`OpenCSV`). `FailsCSV` is the
`csv.Reader` with `FieldsPerRecord` 0, which compares every row with the first;
the code's own test after it has work only when the first row is short and so
all are (`RowsCSV`).
A table keeps what was inserted and is never torn: an INSERT takes effect or not,
and it may although its caller is told an error (`WriteSQL`). `Open` is `New` on
what there is, `Order` the `ORDER BY` or the reversal, `Page` the arithmetic of
offset and limit, `Refused` the statement with an `OFFSET` alone, which SQLite
does not parse, and `Begin`/`Read` a reader that pages.

### Sitemap

`FetchSitemap` calls itself, so a state has the stack of its calls: which
document each is for, what it has still to do and what it has so far. A document
is data, what `Parse` and `ParseIndex` of the library deliver before they end or
fail; a document that cannot be fetched, or has a status of 400 or more, is down.
`ReadAs` is the code's decision between list, index and failure, with its corner
that a document which broke off counts as an index if entries were read. A
nested call that fails costs only itself. `MaxNesting` bounds the stack where
an index leads back to itself, which nothing in the code does.

### Detection, Report, Analyzer

`Detection` has each detector as the statuses it acts on and the sets of signs
it looks for, and `Analyze` as the first that matches. `Report` has
`GenerateSummary` over a bag of results, and `RecordScrape` over the counters, a
bag of label values, of which the status is text; every figure is a `SumOf`
copies. `Analyzer` has both versions of the search over an alphabet
of four characters, which is what case folding, the end of a sentence and white
space can tell apart, and beside them what a match is to report, stated without
the code's loops: the most occurrences that do not overlap, and for each the
sentence around it. The splitting goes through the text as the code does, with
where the next sentence starts and the sentences before that place.

### Session

| code | model |
|---|---|
| a caller's use of the package | `ReadSitemap`, `NewCrawler`, `Start`, `Cancel`, `Close`; `Search` for the analyzer |
| `Run`, `crawler.go:83-140` | `Start` (seeds and workers), `ReturnNil`, `ReturnCancelled`, both with the deferred `limiter.Stop` |
| a worker's select, 113-121 | `Take`, `Exit` |
| `limiter.Wait`, 157 | `Pass`, `PassFails`: without a rate it returns at once, after `Stop` it never does |
| `Fetcher.Fetch`, 162 | `Fetched` with `Ends` (redirects, `client.go:38-49`) and `ResultOf` (`fetcher.go:167-196`, detection included) |
| `Save`, 169-173 | `Save`: an error is only logged |
| `RecordScrape`, 175-182, and the decision to expand, 184-195 | `Record`, `Expands` |
| `extractLinks` and `shouldVisit`, 196-198 | `LinksOf`, `Scan` |
| `markVisited` and the sends, 199-205 | `Mark`, `MarkCut` |

The workers of a cancelled `Run` stay where they are when it returns and go on
beside the next one; they share the visited map, the limiter, the backend and
the counters with it. robots.txt, the bounded channel and the WaitGroup are left
to `Crawler`: here `Run` returns nil when its channel is empty and no worker has
a job, which is what `Crawler` shows of it (`NilMeansDone`). The links of a page
are marked in one step, since the gap between test and mark is `Crawler`'s
subject too. `Record` is one step, while `RecordScrape` changes one counter after
the other (`metrics.go:57-69`): `BooksBalance` is about the counters between two
of its calls. A request whose context is cancelled gets no response. The text of
a body is what the properties tell apart: whose anchors it has, its signs, its
length and whether it could be read to the end.

## 4. What is checked

| run | instance | shows |
|---|---|---|
| `crawl_concurrent` | 2 workers, channel of 2, MaxDepth 2, eight pages (one out of scope, one too deep) and two fragments, four seed lists (one with duplicates and a page out of scope, one longer than the channel, one empty, one page with more links than the channel has room for), robots.txt and a fetch in doubt, cancellation at any time | the accounting (`JobAccounting`, `WaitGroupNotRevived`), the cost of the gap between test and mark (`OneJobPerWorker`), `DepthSound`, `NoPageForgotten`, `NilMeansDone`, `QuietAfterNil`, the refinement `Promised`, `ReturnsUnlessStuck`, `CancelReleasesAll`; and that a crawl in which no two workers ever have a job at once, as with a single one, is breadth first and covers what MaxDepth promises (`BreadthFirstAlone`, `FullCoverageAlone`) |
| `crawl_depth` | 2 workers, room for every job, a web with a shortcut | **finding**: `FullCoverage` fails |
| `crawl_stuck` | 2 workers, channel of 2, one seed | **finding**: `EveryCrawlReturns` fails |
| `proxy_pool` | 2 callers, 3 proxies in two `Add` calls, one with a bad line, limit 2, cooldown 1 | `EnabledBelowLimit`, `LateFailuresBounded`, `NobodyOverlooked`, `CooldownServed`, `ComesBack` |
| `proxy_twice` | a list that names a proxy twice | **finding**: `OnlyHealthyHandedOut` fails |
| `robots_cache` | 2 callers, 2 hosts, each served or not, a fetcher with and without a limiter, interval 4, jitter up to 3, `Stop` and cancellation at any time | `SingleFlight`, `AnswersAgree`, `EveryAskAnswered`; of the limiter under them `RateBounded`, `EveryWaitReturns` |
| `store` | all four backends, 2 writers, 4 results of which one has a long line, 2 filters, pages of 1 | `Exact`, `AckedSurvive`, what torn lines and a torn header can cost (`LossBounded`), `PagingMissesNothing`, and that every page a filter, limit and offset select is the right one, in the right order, in all backends (`PagesNewestFirst`) |
| `store_order` | 2 writers, 2 results | **finding**: `NewestFirst` fails |
| `store_malformed` | CSV, 2 writers, 2 results | **finding**: `MalformedSkipped` fails |
| `session` | 120 webs of three sitemaps, or seeds of its own; two `Run`s with two workers and one, with and without a rate, cancelled or not; two pages in scope and one out of it, with redirects within, outwards and beyond the limit, a broken body and challenges; all texts of up to four characters against all terms of up to two | the sitemap recursion (`SitemapExact`, `SitemapEnds`), counters against report (`BooksBalance`), `LateOnlyAfterCancel`, `RunReturns`, where visited pages and stored content come from (`Traced`), what both matchers count (`Matchers`), and that the optimized one lists a sentence for each occurrence (`OccurrencesListed`) |
| `session_scope` | the same | **finding**: `ScopeKept` fails |
| `session_sentences` | the same | **finding**: `PlainOccurrencesListed` fails |

What the properties of `session` say is not all that one might wish, and where
they make an exception the code has a corner a user should know: a body that
could not be read is an "error" to the counters and counts under its status in
the report (`BooksBalance`); a result can meet a closed backend after a `Run`
that was cancelled, never after nil (`LateOnlyAfterCancel`); a second `Run` with
a rate waits until it is cancelled, because the first stopped the limiter
(`RunReturns`); a cycle of indexes is read for
ever (`SitemapEnds`); and a term with white space or the end of a sentence in it
can be cut by the sentences, so that none is listed for it (`OccurrencesListed`).
`Exact` is about files in which nothing was written behind a torn line: a CSV row
mixed from two can be returned, and `LossBounded` says what that costs, not that
it cannot happen. `PagesNewestFirst` excepts the `OFFSET` SQLite refuses.

Each module's `TypeOK` is checked with its passing run. For every property of a
passing run `PROJECT.json` names a mutant, a plausible slip in the code that
makes TLC report that property; the mutated forms stand in the modules, marked
`Mutant`.

### Findings

1. **A crawl can hang** (`crawl_stuck`, `crawler.go:202`). When every worker is
   sending into the full channel nobody takes from it, and `Run` returns only
   when its context is cancelled. `ReturnsUnlessStuck` shows that this, and the
   seed loop with more seeds than room, are the only ways to hang.
2. **More workers can cover less** (`crawl_depth`, `crawler.go:198`). A page is
   marked with the depth of whoever saw it first, which with two workers need
   not be the least; what lies behind it then falls out of `MaxDepth`.
3. **A proxy listed twice escapes its cooldown** (`proxy_twice`,
   `pool.go:191`). Failures are counted on the first entry alone.
4. **"Newest first" is order of saving** (`store_order`, `csv.go:195`,
   `json.go:101`), which with several workers is not that of `CreatedAt`.
5. **A malformed row is not skipped** (`store_malformed`, `csv.go:152`). The
   reader reports it as an error first (148-150), and every query fails from then
   on: one write cut short makes the file unreadable.
6. **A redirect leaves the scope** (`session_scope`, `crawler.go:162`). The scope
   is tested on the link, and the page it redirects to is stored under its URL.
7. **The wrong sentences are reported** (`session_sentences`, `matcher.go:55`), as
   the comment there says: the n-th that matches is given as the n-th of all.

### Bounds, and why they are enough

* `crawl_concurrent`: two workers are the fewest that can race on a link, on
  the count and on the channel. Two seeds share a
  link, so two workers meet it at the same time; the channel of two fills, and
  the links of one page and the seeds can exceed it. All
  variables are finite because a page is claimed at most once per goroutine, so
  no state constraint is needed. The safety properties are also proved for
  every instance.
* `proxy_pool`: with two failures to the limit, two callers can both be under
  way with a proxy when it is disabled; three proxies let the rotation skip one.
  Failures of an entry are bounded by `LateFailuresBounded`.
* `robots_cache`: of two callers one can be in the fetch, asleep in the limiter
  under the write lock, while the other is at the look, waits for the lock or
  fetches a page. An interval of 4 and a jitter of 3 let sleepers of two intervals
  wake together, and with two callers the debt already reaches the bound of
  `RateBounded` less one. The safety properties are proved for any number.
* `store`: four results (`MaxResults`, the one named bound) allow a torn line, a
  line behind it, one behind that, and one after a restart; a header cut short
  takes the place of the first. Restarts are not
  bounded.
* `session`: two `Run`s are the fewest in which one leaves workers behind for
  the other, and two workers in the first let one be in `Save` while another
  decides the crawl is over. Three documents allow a nested cycle, a cycle at
  the root, a diamond and a document listed twice; a stack of four
  (`MaxNesting`) is deeper than any web without a cycle needs. `MaxRedirects` of
  2 allows one redirect and refuses the next. Lists of seeds longer than two
  (`MaxSeeds`), which the sitemaps can deliver, are not crawled. Four characters
  allow two sentences with white space between and a term across the cut.

Deadlock is checked but where a system may really stop: a crawl that has
returned (`crawl_*`), and a caller that is through (`session`). The other parts always have a caller that may come, and
their runs check that no state is without a next step.

### Fairness

* *Crawler*: weak fairness of the caller's goroutine, of the waiter and of each
  worker. Go runs every goroutine that can run; a fetch ends within the client's
  timeout; the limiter's wait ends (`EveryWaitReturns`); robots.txt is answered
  (`EveryAskAnswered`). Nothing obliges the caller to cancel.
* *ProxiedFetch*: time passes, a request ends, and there is a next request, as
  long as a crawl has pages left. `ComesBack` is about such a crawl.
* *RobotsAuditor*: strong fairness of the two lock steps (`sync.RWMutex` starves
  neither readers nor writers), weak fairness of the rest. Of the limiter: time
  passes, timers fire, a cancelled context is noticed; strong fairness of the
  receive, since a channel serves its receivers in order.
* *Session*: weak fairness of the sitemap recursion, of the return of `Run` and
  of each worker, for the same reasons. Nothing obliges the caller to anything.
* *Store* has safety properties only.

## 5. What is proved

With TLAPS, for every value of the constants that satisfies the `ASSUME`s of the
modules (finite non-empty sets of workers, a capacity of at least one, `Norm`
idempotent, a positive limit and cooldown, a jitter of at most the interval,
pages with finitely many anchors, status codes that are written differently and
none as "error", texts of the four kinds of character, and the types of the
rest). Three theorems say in their own statement what else they need:
`IsBreadthFirst` and `CoversAll` that no two workers ever have a job at once and
every page with links can be read, `LateBounded` that no URL is accepted twice.

**CrawlerProofs.** The inductive invariant is `TypeOK /\ Shape /\ Accounted`.
`JobAccounting` alone is not inductive: that a worker at `"send"` still has a
link, that a busy worker has a job, and that the waiter runs exactly when the
seeds are in (`Shape`) are needed to compute what a step does to the count, and
while the waiter is off the counter must be zero for `Spawn` to make it exact.
Each worker step changes the cardinality of the busy or the sending workers by
one or not at all (`CountChange`, `GotoCounts`, `BusyCounted`). From it follow

* `TypeCorrect`, `JobsAccounted`, `NeverRevived`, `QuietThen` (at zero nothing
  is open, so nobody can act: `NothingOpen`);
* `OneJobEach`, with the strengthening `Claims`: a worker at `"mark"` has made no
  job for its link, nor has `Run`;
* `NoneForgotten`, by showing that a page on its way stays so until its answer
  (`StaysOnItsWay`) and that a claimed page is on its way (`NewOnItsWay`);
* `NilIsDone`, with `Known` (every page the crawl works on is in the map) and
  `Followed` (a link of an expanded page is in the map or some worker still has
  it before it);
* `Refinement`: the initial state of `Run` is one of `CrawlPromise`, and every
  step is a step of it or a stutter (`RunPromised`, `WorkerPromised`).

Of depth, in the second part of the module, `DepthIsSound` holds for any number
of workers. Its strengthening `Reach` says of every place a page can be at (channel, job, link
in hand) how many links lead there; `Within` is a set that grows with the number
of links, which is the induction. `IsBreadthFirst` and `CoversAll` are about
crawls that are `Undisturbed` from beginning to end: no two workers have a job at
once, and pages with links can be read. A crawl with a single worker is one if
its web can be read, and one whose second worker always came too late. While it
lasts, a step is taken by the only worker with a job (`OthersRest`). The
invariant is in three parts, the later ones resting on the earlier: `Level` (the
channel is sorted by depth and holds two depths at most, the textbook invariant
of breadth-first search), `Searched` (every page nearer than a job was seen
before it) and `Shortest` (no depth exceeds the distance). `CoversAll` joins them
with `NilIsDone` and `NoneForgotten`: a page within reach is marked by induction
on its distance, and a marked page has its answer. That both hypotheses are
needed is what `crawl_depth` shows for the one, and a refused page for the other.

**Counting.** The library states induction for an operator that is passed to it,
which the installed provers cannot instantiate. The naturals being well-founded
is stated without one, and from it `Counting` derives induction as a statement
about a *set* of numbers, or of sequences, and a recursive function's equation as
one about a function. What `Within`, `Sorted`, `Filtered`, `Fresh`, `Ends` and
the recursions of `Analyzer` compute is proved with these.

**RobotsAuditorProofs.** The invariant joins `Locked` (the lock's holder is who
is past it), `Borrowed`, `Missing` (who fetches found no entry, and none was made
since) and `Cached` (an entry was fetched once and is all anybody was told).
Theorems `AuditorTyped`, `FetchedOnce`, `AllAgree`, and `Restored`
(`MaxRedirects` is put back on every way out), which no run repeats. A step of
the auditor is one of the limiter or leaves it alone (`LimiterStep`); so a
behaviour of the one is a behaviour of the other (`LimiterAlone`), and what
`RateLimiterProofs` shows of any callers holds of these (`RateKeptForAll`).

**ProxiedFetchProofs.** Every step of the pool but `Add` replaces one record
(`NextInPlace`, `SuccessInPlace`, `FailureInPlace`) or lets time pass for all
(`TickInPlace`); all of them keep `Healthy`. `AddEffect` shows what `Add` keeps
of a list. Theorems `TypeCorrect` (the cursor never leaves the list, duplicates
and rejected lines included), `BelowLimit`, `CooldownKept`.
`FairTurns` needs to know where the cursor is: a proxy that was passed over so
often, plus its distance from the cursor, is less than the length of the list
(`Patient`); `Add` lengthens the distance and the bound alike.
`LateBounded` counts failures and users of a URL together: a failure moves one
from the users to the failures, and a request adds a user only to an enabled
proxy, which is below the limit. It needs that URLs are on the list once
(`Apart`), which `NamedOnce(Loads)` gives; with a duplicate it is false, since
both entries' requests count on the first.

**RateLimiterProofs.** `RateBounded` bounds what is owed now. The strengthening
`IInv` counts with it what is about to be owed: an interval for each sleeper,
and what the ticker has ready, the kept tick and the part of the next that is
over (`Credit`). All of this stays below the bound, for the debt there is and
all sleepers, and for each `s` up to `Jitter`, where a debt of `s`, which the
time until then would pay off, stands with the sleepers that have `s` units to
go (`Bounded`). `Take` turns credit into a sleeper, `Wake` a sleeper into debt.
The set of callers may be infinite; that finitely many sleep is part of `IInv`.

**StoreProofs.** The invariant says what a file can look like: every line but the
last is ended (`Settled`), the first of a CSV file is no result (`Headed`), each
line that is a result's belongs to one a `Save` was called with (`Saved`), no two
to the same (`OneLineEach`), a line of nobody's is the header or was written
behind a torn one (`Behind`), and an acknowledged result has a whole line of its
own unless it was (`Whole`). `Tears` counts:
every acknowledged result without a line of its own has used up a torn line, one
may still be at the end of the file, and there are no more of them than writes
that were cut short. What is pending was not saved yet (`Numbered`). One lemma
says what a write does in any backend (`Puts`), and `Save` and `Crash` use it.
`AckedAreKept`, `LossIsBounded` and `CleanIsExact` follow state by state: a query
that succeeds found all rows of the length of the first, so if one row is whole
all are.
`NothingIsMissed` needs what one more row does to the list that pages are cut
from: it goes to some place of it and the others keep their order, whether the
list is filtered, turned round or sorted. Hence what a reader is still owed stays
ahead of its offset (`Ahead`): a row that is put in can only push it back. `NewestComeFirst`
shows that `Sorted` sorts and loses nothing, and counts how many newer results
stand before each place of the page.

**AnalysisProofs.** Lemmas about what is computed, for every input, in three
parts.
*Sums.* `SumOf` takes the elements in an order nobody knows. It is the number of
pairs of an element and a number up to its value (`SumCounts`), and that number
has no order: sums split over disjoint sets and grow with one element's value,
and a sum over the counters is that over the results with these labels.
*Bags.* Two bags with the same copies of everything are the same; with that,
adding a result, and taking out those that are under way, are computed.
*Texts.* Each recursion is unfolded once (`ThoseUnfold`, `SplitUnfold`) into a
function on the places of the text. `SplitIsSound` is by an invariant of these
places: what was split off, with what is left up to here, is what was there, no
sentence but the last lacks its end, and nothing in one is behind it.
`CountIsMost` is by induction from the end of the text backwards: of all sets of
places that far apart, one that takes the first occurrence is as large as any
(`MostTake`), which is why counting from the left does not count too few.
`SplitCarries` shows that each sentence with the term brings an occurrence of
its own, apart from those before it, so there are no more such sentences than
occurrences; `SearchesCountRight` puts these together for both functions.

**SessionProofs.** `TypeCorrect` needs `Typed`, which adds to `TypeOK` what a
worker has at each place, and needs of `Ends` that it gives replies, by induction
on the requests that are left. `LateIsCancelled` needs `Returned`: a `Run` that
returned nil has an empty channel and no busy worker, and stays so through later
`Run`s, so every worker that can still save belongs to the one that is running
or to one that was cancelled. `EverythingIsTraced` needs `Tracing`: whatever is
in a channel or in hand is for a visited page, and what a worker carries is the
link of a result that was had; that a reply comes from a page few enough
redirects lead to is an induction over `Ends` against `Within`.
`SitemapIsExact` has an invariant of the stack, `Consistent`: what each call has,
what it still owes by its list of nested sitemaps, and what the call above it is
to find, are together what is to be found from its document; under a cancellation
a part of it. When the outermost call returns, that is the theorem, because what
is to be found from a document is its own entries and what is to be found from
those nested in it (`FromUnfold`, `AllUnfold`), cycles included.
`BooksAreBalanced` needs `Bookkeeping`: for each label the counters have as many
as there are results with it that were saved or lost and are not under way
between `Save` and `RecordScrape` (`Balanced`), the bytes likewise; those under
way are among the saved or lost, copy by copy; and every result is `Honest`: it
says "no response" exactly when it has no status. Every label is then that of
results, whoever of several `Run`s made them, and each figure of the report is
counted in the other book (`BalancedBooks`).
`SearchesAreRight` needs only `Searched`, that what was found is what the two
functions return; the rest is `AnalysisProofs`.

### Only model-checked

* every liveness property (`ReturnsUnlessStuck`, `CancelReleasesAll`, `ComesBack`,
  `EveryAskAnswered`, `EveryWaitReturns`, `SitemapEnds`, `RunReturns`): the
  installed provers have neither fairness nor `ENABLED`;
* `OccurrencesListed`, which is checked for all texts of up to four characters: that
  an occurrence of a term without white space and sentence ends lies within one
  sentence has no proof here.

No module declares a `RECURSIVE` operator, so none is out of the prover's reach
for that.

## 6. What is not modelled

* *Formatting, parsing, logging*: URLs, HTML, XML, robots.txt, CSV, JSON and SQL
  text are abstracted to what the properties tell apart. The writers of a report
  are formatting.
* *The User-Agent pool* is one atomic counter and an index: no other state
  depends on it. *TLS fingerprints* build a transport once around a library;
  *pipeline* and *SERP* are stubs without state. *Metrics*: the HTTP server and
  the split by domain and proxy.
* *robots.txt inside a session*, and workers of one crawl competing for auditor
  and proxy pool: each is checked against arbitrary callers on its own. A proxy
  is not part of a session's results.
* *Save that fails for another reason* than a closed backend or a cancelled
  context: an I/O error is `Store`'s, where it costs what `Store` says.
* *A `Run` that is called while another is under way* on one `Crawler`: nothing
  in the repository does so.
