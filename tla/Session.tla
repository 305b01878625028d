------------------------------ MODULE Session ------------------------------
(***************************************************************************)
(* A session: a caller that gets its seeds from a sitemap, makes a         *)
(* Crawler, calls Run on it once or more, and closes the backend when it   *)
(* has returned.  The workers of a Run take a job through the limiter,     *)
(* Fetch, Save, RecordScrape and the extraction of links (processJob in    *)
(* internal/scraper/crawler.go), and those of a Run that was cancelled can *)
(* be anywhere in it when Run has returned.                                *)
(*                                                                         *)
(* Crawler models one Run in finer steps: the bounded channel, the         *)
(* WaitGroup, robots.txt and the loop over single links are left to it.    *)
(* Here the channel has room, Run returns nil when it is empty and no      *)
(* worker has a job, and the links of a page are looked up in one step and *)
(* marked in another.  CreatedAt is the number of Runs that were started.  *)
(***************************************************************************)
EXTENDS Sitemap, Detection, Report, Analyzer, Integers

CONSTANTS
  InScope,      \* pages with an http(s) scheme and a host under Domains
  SeedLists,    \* seeds the caller can have of its own
  Codes,        \* the status codes of responses, and 0
  Serves,       \* Serves[p]: the replies a request for p can get
  Anchors,      \* Anchors[p]: the hrefs in the content of p
  Resolve,      \* Resolve[p][h]: what h means in a page with the URL p
  MaxRedirects, \* FetchConfig.MaxRedirects
  MaxDepth,     \* CrawlConfig.MaxDepth
  Crew,         \* Crew[r]: the worker goroutines of the r-th Run
  MaxSeeds,     \* bound: the longest list of seeds that is crawled
  Texts,        \* the texts that are searched
  TermLists     \* the lists of terms they are searched for

Page == Entry \* a sitemap lists pages
NoPage == "none"
Run == DOMAIN Crew
Worker == UNION {Crew[r] : r \in Run}

\* status is 0 if there is no response, to is where a redirect leads, and
\* whole tells if the body could be read to its end.
Reply == [status : Codes, to : Page \cup {NoPage}, html : BOOLEAN,
          signs : SUBSET Sign, bytes : Nat, whole : BOOLEAN]
NoReply == [status |-> 0, to |-> NoPage, html |-> FALSE, signs |-> {},
            bytes |-> 0, whole |-> TRUE]

ASSUME SessionAssumption ==
  /\ NoPage \notin Page /\ InScope \subseteq Page
  /\ SeedLists \subseteq Seq(Page)
  /\ \A p \in Page : Serves[p] \subseteq Reply /\ Serves[p] # {}
  /\ \A p \in Page : IsFiniteSet(Anchors[p])
  /\ \A p, q \in Page : \A h \in Anchors[p] : Resolve[q][h] \in Page
  /\ MaxRedirects \in Int /\ MaxDepth \in Nat /\ MaxSeeds \in Nat
  /\ \A r \in Run : r = 1 \/ r - 1 \in Run
  /\ \A q, r \in Run : q # r => Crew[q] \cap Crew[r] = {}

\* Codes that differ are written differently, and none as "error" (metrics.go:62-65).
ASSUME CodesAssumption ==
  /\ 0 \in Codes /\ Codes \subseteq Nat
  /\ \A m, n \in Codes : (ToString(m) = ToString(n) => m = n) /\ ToString(m) # "error"

\* Texts and terms are made of characters.
ASSUME TextsAssumption == Texts \subseteq Seq(Char) /\ TermLists \subseteq Seq(Seq(Char))

VARIABLES
  caller,    \* what the caller is doing
  list,      \* the seeds it has
  search,    \* what it searched for, and what it was told
  rated,     \* does the crawler's limiter have a rate?
  stopped,   \* was the limiter stopped?
  open,      \* is the backend open?
  run,       \* how many Runs were started
  ended,     \* how each returned, "" if it has not
  cancelled, \* the Runs whose context was cancelled
  visited,   \* the crawler's visited map
  queue,     \* the jobs in each Run's channel
  at,        \* where each worker is
  job,       \* its job
  result,    \* what its fetch returned
  links,     \* the links of its page that passed shouldVisit
  metrics,   \* the counters of the process
  stored,    \* the results in the backend
  lost,      \* history: the results whose Save failed
  late,      \* history: the Runs a result of which met a closed backend
  given      \* history: the seeds passed to Run

caller_ == <<caller, list, search, rated>>
crawl   == <<stopped, open, run, ended, cancelled, visited, queue>>
crew    == <<at, job, result, links>>
books   == <<metrics, stored, lost, late>>
vars    == <<sitemap, caller_, crawl, crew, books, given>>

Job == [page : Page, depth : 0..MaxDepth]
Result == [url : Page, from : Page, createdAt : Run, status : Codes,
           error : {"", "no response", "body"}, source : Source, bytes : Nat, html : BOOLEAN]
Nothing == <<>> \* no job, no result, no search

RunOf(w) == CHOOSE r \in Run : w \in Crew[r]
Cut(w) == RunOf(w) \in cancelled
Busy(r) == {w \in Crew[r] : at[w] \notin {"off", "idle", "gone"}}

\* A sitemap nobody looks at any more.
Blank == [d \in Doc |-> [up |-> FALSE, entries |-> <<>>, parsed |-> FALSE,
                         nested |-> <<>>, indexed |-> FALSE]]

TypeOK ==
  /\ web \in Webs \cup {Blank} /\ calls \in Seq(Call)
  /\ answer \in Answer /\ cut \in BOOLEAN
  /\ caller \in {"sitemap", "search", "ready", "running", "over"}
  /\ list \in Seq(Page) /\ rated \in BOOLEAN /\ stopped \in BOOLEAN /\ open \in BOOLEAN
  /\ run \in {0} \cup Run /\ ended \in [Run -> {"", "nil", "cancelled"}]
  /\ cancelled \subseteq 1..run
  /\ visited \subseteq Page /\ given \subseteq Page
  /\ queue \in [Run -> Seq(Job)]
  /\ at \in [Worker -> {"off", "idle", "limit", "fetch", "save", "record", "scan", "mark", "gone"}]
  /\ job \in [Worker -> Job \cup {Nothing}]
  /\ result \in [Worker -> Result \cup {Nothing}]
  /\ links \in [Worker -> SUBSET Page]
  /\ DOMAIN stored \subseteq Result /\ DOMAIN lost \subseteq Result
  /\ late \subseteq Run
  /\ \A w \in Worker : at[w] \in {"save", "record", "scan", "mark"} => result[w] # Nothing

Init ==
  /\ \/ caller = "sitemap" /\ SitemapInit
     \/ caller = "search" /\ web = Blank /\ calls = <<>> /\ answer = Error /\ cut = FALSE
  /\ list = <<>> /\ search = Nothing /\ rated = FALSE
  /\ stopped = FALSE /\ open = TRUE /\ run = 0 /\ cancelled = {}
  /\ ended = [r \in Run |-> ""]
  /\ visited = {} /\ given = {}
  /\ queue = [r \in Run |-> <<>>]
  /\ at = [w \in Worker |-> "off"]
  /\ job = [w \in Worker |-> Nothing]
  /\ result = [w \in Worker |-> Nothing]
  /\ links = [w \in Worker |-> {}]
  /\ metrics = NoMetrics /\ stored = EmptyBag /\ lost = EmptyBag /\ late = {}
-----------------------------------------------------------------------------
(* The caller. *)

\* Another program than the crawl: it searches a text it has.
Search ==
  /\ caller = "search"
  /\ \E text \in Texts, terms \in TermLists :
       search' = [text |-> text, terms |-> terms, plain |-> FindTermMatches(text, terms),
                  fast |-> FindTermMatchesOptimized(text, terms)]
  /\ caller' = "over"
  /\ UNCHANGED <<sitemap, list, rated, crawl, crew, books, given>>

ReadSitemap ==
  /\ FetchSitemap \/ CutSitemap
  /\ UNCHANGED <<caller_, crawl, crew, books, given>>

\* FetchSitemap has returned, the caller makes its Crawler and forgets the rest.
NewCrawler ==
  /\ caller = "sitemap" /\ calls = <<>>
  /\ IF answer.ok THEN list' = answer.urls ELSE list' \in SeedLists
  /\ rated' \in BOOLEAN
  /\ web' = Blank /\ answer' = Error /\ cut' = FALSE
  /\ caller' = "ready"
  /\ UNCHANGED <<calls, search, crawl, crew, books, given>>

\* The seeds that pass shouldVisit, each of which is marked before the next one
\* is looked at.
Fresh(seeds) ==
  LET upTo[n \in 0..Len(seeds)] ==
        IF n = 0 THEN <<>>
        ELSE IF seeds[n] \in InScope \ (visited \cup ToSet(upTo[n - 1]))
          THEN Append(upTo[n - 1], seeds[n]) ELSE upTo[n - 1]
  IN  upTo[Len(seeds)]

\* Run is called, with the list the caller has or, again, with another one.
Start ==
  /\ caller = "ready" /\ run + 1 \in Run
  /\ \E seeds \in IF run = 0 THEN {list} ELSE SeedLists :
       /\ Len(seeds) <= MaxSeeds
       /\ visited' = visited \cup ToSet(Fresh(seeds))
       /\ queue' = [queue EXCEPT ![run + 1] =
            [i \in DOMAIN Fresh(seeds) |-> [page |-> Fresh(seeds)[i], depth |-> 0]]]
       /\ given' = given \cup ToSet(seeds)
  /\ list' = <<>>
  /\ run' = run + 1
  /\ at' = [w \in Worker |-> IF w \in Crew[run + 1] THEN "idle" ELSE at[w]]
  /\ caller' = "running"
  /\ UNCHANGED <<sitemap, search, rated, stopped, open, ended, cancelled, job, result, links, books>>

Return(how) ==
  /\ ended' = [ended EXCEPT ![run] = how]
  /\ stopped' = TRUE
  /\ caller' = "ready"
  /\ UNCHANGED <<sitemap, list, search, rated, open, run, cancelled, visited, queue, crew, books, given>>

\* Mutant: done is closed when the channel is empty.
ReturnNilDrained == caller = "running" /\ queue[run] = <<>> /\ Return("nil")

\* Run returns and stops the limiter.  The workers stay.
ReturnNil == caller = "running" /\ queue[run] = <<>> /\ Busy(run) = {} /\ Return("nil")

ReturnCancelled == caller = "running" /\ run \in cancelled /\ Return("cancelled")

\* The context of a Run is cancelled while it runs; later that would only let
\* its idle workers leave.
Cancel ==
  /\ caller = "running" /\ run \notin cancelled
  /\ cancelled' = cancelled \cup {run}
  /\ UNCHANGED <<sitemap, caller_, stopped, open, run, ended, visited, queue, crew, books, given>>

Close ==
  /\ caller = "ready" /\ run > 0
  /\ open' = FALSE /\ caller' = "over"
  /\ UNCHANGED <<sitemap, list, search, rated, stopped, run, ended, cancelled, visited, queue, crew, books, given>>
-----------------------------------------------------------------------------
(* A worker. *)

Goto(w, label) == at' = [at EXCEPT ![w] = label]
Others == <<sitemap, caller_, stopped, open, run, ended, cancelled, given>>

Take(w) ==
  /\ at[w] = "idle" /\ queue[RunOf(w)] # <<>>
  /\ job' = [job EXCEPT ![w] = Head(queue[RunOf(w)])]
  /\ queue' = [queue EXCEPT ![RunOf(w)] = Tail(@)]
  /\ Goto(w, "limit")
  /\ UNCHANGED <<Others, visited, result, links, books>>

Exit(w) ==
  /\ at[w] = "idle" /\ Cut(w)
  /\ Goto(w, "gone")
  /\ UNCHANGED <<Others, visited, queue, job, result, links, books>>

\* The job is done.
Done(w) ==
  /\ Goto(w, "idle")
  /\ job' = [job EXCEPT ![w] = Nothing]
  /\ result' = [result EXCEPT ![w] = Nothing]
  /\ links' = [links EXCEPT ![w] = {}]

\* Mutant: a limiter without a rate waits for its ticker.
PassTicks(w) ==
  /\ at[w] = "limit" /\ ~stopped
  /\ Goto(w, "fetch")
  /\ UNCHANGED <<Others, visited, queue, job, result, links, books>>

\* Without a rate Wait returns at once; a ticker that is stopped never ticks.
Pass(w) ==
  /\ at[w] = "limit" /\ (rated => ~stopped)
  /\ Goto(w, "fetch")
  /\ UNCHANGED <<Others, visited, queue, job, result, links, books>>

PassFails(w) ==
  /\ at[w] = "limit" /\ rated /\ Cut(w)
  /\ Done(w)
  /\ UNCHANGED <<Others, visited, queue, books>>

\* The replies to a request for p that send the client elsewhere; with a
\* negative MaxRedirects the redirect itself is taken for the reply.
Redirects(p) == {r \in Serves[p] : r.to # NoPage /\ MaxRedirects >= 0}

\* How the n-th request of a fetch, for p, can end: with a reply for some page.
\* CheckRedirect is asked with n requests made, and refuses at MaxRedirects.
MostRequests == IF MaxRedirects > 1 THEN MaxRedirects ELSE 1
Ends[n \in 1..MostRequests] ==
  [p \in Page |->
     {[from |-> p, reply |-> r] : r \in Serves[p] \ Redirects(p)}
     \cup UNION {IF n >= MaxRedirects THEN {[from |-> p, reply |-> NoReply]}
                 ELSE Ends[n + 1][r.to] : r \in Redirects(p)}]

\* The URL stays the one that was asked for.
ResultOf(p, end) ==
  LET r == end.reply
  IN  [url |-> p, from |-> end.from, createdAt |-> run, status |-> r.status,
       error |-> IF r.status = 0 THEN "no response" ELSE IF r.whole THEN "" ELSE "body",
       source |-> Analyze(r.status, r.signs, DefaultDetectors),
       bytes |-> r.bytes, html |-> r.html]

\* Mutant: a fetch that gets no response returns no result.
FetchedNil(w) ==
  /\ at[w] = "fetch"
  /\ \E end \in Ends[1][job[w].page] :
       result' = [result EXCEPT ![w] = IF end.reply.status = 0 THEN Nothing
                                      ELSE ResultOf(job[w].page, end)]
  /\ Goto(w, "save")
  /\ UNCHANGED <<Others, visited, queue, job, links, books>>

\* A fetch under a cancelled context gets no response.
Fetched(w) ==
  /\ at[w] = "fetch"
  /\ LET p == job[w].page
     IN  \E end \in IF Cut(w) THEN {[from |-> p, reply |-> NoReply]} ELSE Ends[1][p] :
           result' = [result EXCEPT ![w] = ResultOf(p, end)]
  /\ Goto(w, "save")
  /\ UNCHANGED <<Others, visited, queue, job, links, books>>

\* Save, whose error is only logged.  A closed backend refuses, and some
\* backends look at the context.
Save(w) ==
  /\ at[w] = "save"
  /\ \/ open /\ stored' = OneMore(stored, result[w]) /\ UNCHANGED <<lost, late>>
     \/ /\ ~open \/ Cut(w)
        /\ lost' = OneMore(lost, result[w])
        /\ late' = IF open THEN late ELSE late \cup {RunOf(w)}
        /\ UNCHANGED stored
  /\ Goto(w, "record")
  /\ UNCHANGED <<Others, visited, queue, job, result, links, metrics>>

\* Mutant: what could be read of a body is searched for links.
ExpandsPartly(j, res) == j.depth < MaxDepth /\ res.status # 0 /\ res.html

Expands(j, res) == j.depth < MaxDepth /\ res.error = "" /\ res.html

\* RecordScrape, with all its counters, in one step.
Record(w) ==
  /\ at[w] = "record"
  /\ metrics' = RecordScrape(metrics, result[w])
  /\ IF Expands(job[w], result[w])
       THEN Goto(w, "scan") /\ UNCHANGED <<job, result, links>>
       ELSE Done(w)
  /\ UNCHANGED <<Others, visited, queue, stored, lost, late>>

\* extractLinks resolves the anchors of the content that came against the URL
\* that was asked for.
LinksOf(res) == {Resolve[res.url][h] : h \in Anchors[res.from]}

Scan(w) ==
  /\ at[w] = "scan"
  /\ links' = [links EXCEPT ![w] = (LinksOf(result[w]) \cap InScope) \ visited]
  /\ Goto(w, "mark")
  /\ UNCHANGED <<Others, visited, queue, job, result, books>>

Mark(w) ==
  /\ at[w] = "mark"
  /\ visited' = visited \cup links[w]
  /\ queue' = [queue EXCEPT ![RunOf(w)] =
       @ \o SetToSeq({[page |-> p, depth |-> job[w].depth + 1] : p \in links[w]})]
  /\ Done(w)
  /\ UNCHANGED <<Others, books>>

\* The send of a link gives up when the context is cancelled.
MarkCut(w) ==
  /\ at[w] = "mark" /\ Cut(w)
  /\ visited' = visited \cup links[w]
  /\ Done(w)
  /\ UNCHANGED <<Others, queue, books>>

Step(w) ==
  \/ Take(w) \/ Exit(w) \/ Pass(w) \/ PassFails(w) \/ Fetched(w) \/ Save(w)
  \/ Record(w) \/ Scan(w) \/ Mark(w) \/ MarkCut(w)
Ending == ReturnNil \/ ReturnCancelled
Next ==
  \/ Search \/ ReadSitemap \/ NewCrawler \/ Start \/ Ending \/ Cancel \/ Close
  \/ \E w \in Worker : Step(w)

(***************************************************************************)
(* Every fetch ends within the client's timeout and Go runs whoever can    *)
(* run.  Nothing obliges the caller to anything.                           *)
(***************************************************************************)
Spec == Init /\ [][Next]_vars
FairSpec ==
  /\ Spec
  /\ WF_vars(FetchSitemap /\ UNCHANGED <<caller_, crawl, crew, books, given>>)
  /\ WF_vars(Ending)
  /\ \A w \in Worker : WF_vars(Step(w))
-----------------------------------------------------------------------------
\* The results that were recorded: those Save was called with, but for the ones
\* whose workers are to record them next.
UnderWay ==
  LET recording == {w \in Worker : at[w] = "record"}
  IN  [r \in {result[w] : w \in recording} |-> Cardinality({w \in recording : result[w] = r})]
Recorded == (stored (+) lost) (-) UnderWay

\* The books balance: between two calls of RecordScrape, which changes one
\* counter after the other, the counters say of the results that were recorded
\* what a report on them says, errors, detections and bytes alike, a result
\* whose Save failed included.  Only a response whose body could not be
\* read counts differently, as "error" there and under its status here
\* (crawler.go:169-182, metrics.go:57-69, report.go:40-60).
BooksBalance ==
  LET report == GenerateSummary(Recorded)
      counted(Kind(_)) == Number(metrics.requests, Kind)
      broken(code) == Number(Recorded, LAMBDA r : r.error = "body" /\ r.status = code)
  IN  /\ report.TotalRequests = counted(LAMBDA l : TRUE)
      /\ report.TotalErrors = counted(LAMBDA l : l.status = "error")
      /\ report.TotalDetections = counted(LAMBDA l : l.detected)
      /\ \A source \in DOMAIN report.DetectionsBySrc :
           report.DetectionsBySrc[source] = counted(LAMBDA l : l.source = source)
      /\ \A s \in DOMAIN report.StatusCodes :
           report.StatusCodes[s] = counted(LAMBDA l : l.status = ToString(s)) + broken(s)
      /\ report.TotalBytes = metrics.bytes

\* A result that meets a closed backend is one of a Run that returned its
\* context's error: a caller that closes the backend after nil loses nothing,
\* and nothing of the Runs before (crawler.go:132-139, 169-173).
LateOnlyAfterCancel == \A r \in late : ended[r] = "cancelled"

\* Every Run returns, unless an earlier one stopped the limiter both have,
\* there is a rate, and nobody cancels (crawler.go:84, 157;
\* ratelimit.go:53-61, 81-85).
RunReturns ==
  caller = "running" ~> caller # "running" \/ (rated /\ stopped /\ run \notin cancelled)

\* The pages that few enough redirects lead to from p.
Within(p) ==
  LET to[n \in 0..(MostRequests - 1)] ==
        IF n = 0 THEN {p}
        ELSE to[n - 1] \cup UNION {{r.to : r \in Serves[q]} \ {NoPage} : q \in to[n - 1]}
  IN  to[MostRequests - 1]

\* Every page in the visited map is in scope, and is a seed or a link in a page
\* whose whole body was read without an error; what is kept under its URL is
\* its own content or that of a page few enough redirects lead to
\* (crawler.go:94, 185-200; fetcher.go:167-191; client.go:38-49).
Traced ==
  LET had == DOMAIN stored \cup DOMAIN lost
  IN  /\ \A p \in visited :
           p \in InScope /\ (p \in given \/ \E r \in had : r.error = "" /\ r.html /\ p \in LinksOf(r))
      /\ \A r \in had : r.url \in visited /\ r.from \in Within(r.url)

\* "In-scope domains, ensures we don't crawl the whole internet": what is stored
\* without an error is the content of a page in scope (crawler.go:23).
ScopeKept == \A r \in DOMAIN stored : r.error = "" => r.from \in InScope

\* Whatever a text is searched for: its sentences are the text, cut where one
\* ends, and both functions count of each term the most occurrences that do not
\* overlap and list no more sentences (matcher.go:44-66, 94-117, 126-205).
Matchers ==
  search # Nothing =>
    /\ SentencesSound(search.text)
    /\ \A match \in ToSet(search.plain) \cup ToSet(search.fast) :
         CountedRight(search.text, match)

\* The optimized function finds every term that occurs and lists a sentence for
\* each occurrence: none is lost between the count, which is made over the text,
\* and the sentences, which are searched one by one (matcher.go:94-117).
OccurrencesListed ==
  search # Nothing =>
    /\ \A match \in ToSet(search.fast) : Surrounded(match)
    /\ \A term \in ToSet(search.terms) \ {<<>>} :
         HasTerm(ToLower(search.text), ToLower(term)) =>
           \E match \in ToSet(search.fast) : match.term = term

\* "For each occurrence, the surrounding sentence is extracted", by the function
\* this is said of (matcher.go:17-19, 50-57).
PlainOccurrencesListed ==
  search # Nothing => \A match \in ToSet(search.plain) : Surrounded(match)
=============================================================================
