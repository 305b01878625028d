--------------------------- MODULE SessionProofs ---------------------------
(***************************************************************************)
(* What a session keeps, for any sitemaps, any site and any number of Runs *)
(* and workers.                                                            *)
(***************************************************************************)
EXTENDS Session, AnalysisProofs

(* What the operators return that the steps are built from. *)

\* The source of a detection is one that a detector names, or none.
LEMMA Analyzed ==
  ASSUME NEW status, NEW signs
  PROVE  Analyze(status, signs, DefaultDetectors) \in Source
<1> DEFINE D == DefaultDetectors
           hits == {i \in DOMAIN D : status \in D[i].on /\
                                       \E needed \in D[i].signs : needed \subseteq signs}
<1>1. DOMAIN D \subseteq Nat
  BY DEF DefaultDetectors
<1> HIDE DEF D
<1>2. CASE hits = {}
  BY <1>2 DEF Analyze, Source, D
<1>3. CASE hits # {}
  <2>1. hits \subseteq Nat /\ hits \subseteq DOMAIN D
    BY <1>1
  <2>2. Analyze(status, signs, D) = D[CHOOSE i \in hits : \A j \in hits : i <= j].source
    BY <1>3 DEF Analyze
  <2> HIDE DEF hits
  <2>3. \E i \in hits : \A j \in hits : ~(j < i)
    BY <1>3, <2>1, LeastNumber
  <2>4. \E i \in hits : \A j \in hits : i <= j
    BY <2>1, <2>3
  <2>5. (CHOOSE i \in hits : \A j \in hits : i <= j) \in DOMAIN D
    BY <2>1, <2>4
  <2> QED
    BY <2>2, <2>5 DEF Source, D
<1> QED
  BY <1>2, <1>3

\* A seed joins the ones before it.
Joined(kept, p) == IF p \in InScope \ (visited \cup ToSet(kept)) THEN Append(kept, p) ELSE kept

\* The seeds that are queued are in scope and among those that were given.
LEMMA FreshOnes ==
  ASSUME NEW seeds \in Seq(Page)
  PROVE  Fresh(seeds) \in Seq(InScope \cap ToSet(seeds))
<1> DEFINE N == Len(seeds)
           S == Seq(InScope \cap ToSet(seeds))
           step == [n \in 1..N |-> [s \in S |-> Joined(s, seeds[n])]]
<1>1. N \in Nat /\ \A n \in 1..N : seeds[n] \in ToSet(seeds)
  BY LenProperties DEF ToSet
<1>2. \A n \in 1..N : \A s \in S :
        step[n][s] = Joined(s, seeds[n]) /\ step[n][s] \in S
  BY <1>1 DEF Joined
<1>3. step \in [1..N -> [S -> S]]
  BY <1>2
<1>4. N \in Nat
  BY <1>1
<1>5. <<>> \in S
  OBVIOUS
<1> HIDE DEF step, N, S
<1>6. PICK g \in [0..N -> S] : g[0] = <<>> /\ \A n \in 1..N : g[n] = step[n][g[n - 1]]
  <2> DEFINE none == <<>>
  <2>1. none \in S
    BY <1>5
  <2> HIDE DEF none
  <2>2. Recurs(S, none, N, step)
    BY <1>3, <1>4, <2>1, Recurring
  <2> QED
    BY <2>2 DEF Recurs, none
<1>7. \A n \in 1..N : g[n - 1] \in S /\ n \in 0..N /\ n # 0
  BY <1>1, <1>6
<1> DEFINE Recursive(f) == f = [n \in 0..N |->
             IF n = 0 THEN <<>>
             ELSE Joined(f[n - 1], seeds[n])]
<1>8. Recursive(g)
  <2> DEFINE h == [n \in 0..N |-> IF n = 0 THEN <<>> ELSE Joined(g[n - 1], seeds[n])]
  <2>1. ASSUME NEW n \in 0..N PROVE g[n] = h[n]
    <3>1. CASE n = 0
      BY <1>6, <3>1
    <3>2. CASE n # 0
      <4>1. n \in 1..N
        BY <1>1, <3>2
      <4>2. g[n] = step[n][g[n - 1]] /\ g[n - 1] \in S
        BY <1>6, <1>7, <4>1
      <4> QED
        BY <1>2, <3>2, <4>1, <4>2
    <3> QED
      BY <3>1, <3>2
  <2> QED
    BY <1>6, <2>1
<1> DEFINE f == CHOOSE f : Recursive(f)
<1>9. Recursive(f)
  BY <1>8
<1>10. Fresh(seeds) = f[N]
  BY DEF Fresh, Joined, N
<1> HIDE DEF f
<1>11. f[0] = <<>> /\ \A n \in 1..N : f[n] = Joined(f[n - 1], seeds[n])
  <2>1. 0 \in 0..N /\ \A n \in 1..N : n \in 0..N /\ n # 0
    BY <1>1
  <2> QED
    BY <1>9, <2>1
<1> DEFINE Good == {n \in 0..N : f[n] \in S}
<1>12. 0 \in Good
  BY <1>1, <1>5, <1>11
<1>13. ASSUME NEW n \in 0..N, n \in Good, n < N PROVE n + 1 \in Good
  <2>1. n + 1 \in 1..N /\ n + 1 \in 0..N /\ (n + 1) - 1 = n /\ f[n] \in S
    BY <1>1, <1>13
  <2>2. f[n + 1] = Joined(f[n], seeds[n + 1])
    BY <1>11, <2>1
  <2>3. step[n + 1][f[n]] = Joined(f[n], seeds[n + 1]) /\ step[n + 1][f[n]] \in S
    BY <1>2, <2>1
  <2> QED
    BY <2>1, <2>2, <2>3
<1> HIDE DEF Good
<1>14. 0..N \subseteq Good
  BY <1>1, <1>12, <1>13, Induction
<1>15. N \in 0..N
  BY <1>1
<1> QED
  BY <1>10, <1>14, <1>15 DEF Good, S

\* A finite set as a sequence has no other elements.
LEMMA Listed ==
  ASSUME NEW T, IsFiniteSet(T)
  PROVE  SetToSeq(T) \in Seq(T)
<1> DEFINE n == Cardinality(T)
           Good(f) == f \in [1..n -> T] /\ IsInjective(f)
<1>1. n \in Nat
  BY FS_CardinalityType
<1>2. \E f : Good(f)
  <2>1. ExistsBijection(1..n, T)
    BY FS_CardinalityType
  <2> QED
    BY <2>1 DEF ExistsBijection, Bijection, Injection, IsInjective
<1>3. SetToSeq(T) = CHOOSE f : Good(f)
  BY DEF SetToSeq
<1> DEFINE s == SetToSeq(T)
<1>4. Good(s)
  BY <1>2, <1>3
<1> HIDE DEF s
<1>5. s \in Seq(T)
  BY <1>1, <1>4
<1> QED
  BY <1>5 DEF s

(* How a fetch can end. *)

Outcome == [from : Page, reply : Reply]

\* What the n-th request can lead to when g is what the next one can.
Stage(n, g) ==
  [p \in Page |->
     {[from |-> p, reply |-> r] : r \in Serves[p] \ Redirects(p)}
     \cup UNION {IF n >= MaxRedirects THEN {[from |-> p, reply |-> NoReply]}
                 ELSE g[r.to] : r \in Redirects(p)}]

\* A request for a page ends with a reply for a page.
LEMMA StageTyped ==
  ASSUME NEW n, NEW g \in [Page -> SUBSET Outcome]
  PROVE  Stage(n, g) \in [Page -> SUBSET Outcome]
<1> SUFFICES ASSUME NEW p \in Page PROVE Stage(n, g)[p] \subseteq Outcome
  BY DEF Stage
<1>1. Serves[p] \subseteq Reply /\ NoReply \in Reply
  BY SessionAssumption, CodesAssumption DEF Reply, NoReply
<1>2. \A r \in Redirects(p) : r.to \in Page
  BY <1>1 DEF Redirects, Reply
<1>3. {[from |-> p, reply |-> r] : r \in Serves[p] \ Redirects(p)} \subseteq Outcome
  BY <1>1 DEF Outcome
<1>4. \A r \in Redirects(p) :
        (IF n >= MaxRedirects THEN {[from |-> p, reply |-> NoReply]} ELSE g[r.to]) \subseteq Outcome
  BY <1>1, <1>2 DEF Outcome
<1>5. UNION {IF n >= MaxRedirects THEN {[from |-> p, reply |-> NoReply]} ELSE g[r.to] :
               r \in Redirects(p)} \subseteq Outcome
  BY <1>4
<1> QED
  BY <1>3, <1>5 DEF Stage

\* The number of requests is enough for the last to be refused.
LEMMA Requests ==
  /\ MostRequests \in Nat \ {0} /\ MaxRedirects \in Int
  /\ MostRequests >= MaxRedirects
BY SessionAssumption DEF MostRequests

\* Ends is what its recursion says.
LEMMA EndsUnfold ==
  \A n \in 1..MostRequests : /\ Ends[n] = Stage(n, Ends[n + 1])
                             /\ Ends[n] \in [Page -> SUBSET Outcome]
<1> DEFINE K == MostRequests
           S == [Page -> SUBSET Outcome]
           none == [p \in Page |-> {}]
           step == [m \in 1..K |-> [g \in S |-> Stage(K - m, g)]]
<1>1. K \in Nat \ {0} /\ K >= MaxRedirects /\ MaxRedirects \in Int
  BY Requests
<1>2. \A m \in 1..K : \A g \in S : step[m][g] = Stage(K - m, g) /\ step[m][g] \in S
  BY StageTyped
<1>3. step \in [1..K -> [S -> S]]
  BY <1>2
<1>4. K \in Nat
  BY <1>1
<1>5. Stage(K, none) \in S
  <2>1. none \in S
    OBVIOUS
  <2> HIDE DEF none
  <2> QED
    BY <2>1, StageTyped
<1> HIDE DEF step, K, none
<1>6. PICK f \in [0..K -> S] : f[0] = Stage(K, none) /\ \A m \in 1..K : f[m] = step[m][f[m - 1]]
  <2> HIDE DEF S
  <2> QED
    BY <1>3, <1>4, <1>5, Recursion
<1> DEFINE e == [n \in 1..K |-> f[K - n]]
           Recursive(E) == E = [n \in 1..K |->
             [p \in Page |->
                {[from |-> p, reply |-> r] : r \in Serves[p] \ Redirects(p)}
                \cup UNION {IF n >= MaxRedirects THEN {[from |-> p, reply |-> NoReply]}
                            ELSE E[n + 1][r.to] : r \in Redirects(p)}]]
<1>7. \A n \in 1..K : e[n] = Stage(n, e[n + 1])
  <2> SUFFICES ASSUME NEW n \in 1..K PROVE e[n] = Stage(n, e[n + 1])
    OBVIOUS
  <2>1. CASE n = K
    <3>1. n >= MaxRedirects /\ K - n = 0
      BY <1>1, <2>1
    <3>2. e[n] = Stage(n, none)
      BY <1>6, <2>1, <3>1
    <3>3. Stage(n, none) = Stage(n, e[n + 1])
      BY <3>1 DEF Stage
    <3> QED
      BY <3>2, <3>3
  <2>2. CASE n # K
    <3>1. n + 1 \in 1..K /\ K - n \in 1..K /\ (K - n) - 1 = K - (n + 1) /\ K - (K - n) = n
          /\ (K - n) - 1 \in 0..K
      BY <1>1, <2>2
    <3>2. f[(K - n) - 1] \in S
      BY <1>6, <3>1
    <3>3. e[n] = step[K - n][f[(K - n) - 1]] /\ e[n + 1] = f[(K - n) - 1]
      BY <1>6, <3>1
    <3>4. step[K - n][f[(K - n) - 1]] = Stage(K - (K - n), f[(K - n) - 1])
      BY <1>2, <3>1, <3>2
    <3> QED
      BY <3>1, <3>3, <3>4
  <2> QED
    BY <2>1, <2>2
<1>8. Recursive(e)
  <2> HIDE DEF e
  <2>1. e = [n \in 1..K |-> Stage(n, e[n + 1])]
    <3>1. e = [n \in 1..K |-> e[n]]
      BY DEF e
    <3> QED
      BY <1>7, <3>1
  <2> QED
    BY <2>1 DEF Stage
<1>9. Ends = CHOOSE E : Recursive(E)
  BY DEF Ends, K
<1>10. Recursive(Ends)
  <2>1. \E E : Recursive(E)
    BY <1>8
  <2> HIDE DEF Recursive
  <2> QED
    BY <1>9, <2>1
<1>11. \A n \in 1..K : Ends[n] = Stage(n, Ends[n + 1])
  BY <1>10 DEF Stage
<1> DEFINE Good == {m \in 0..K : m = K \/ Ends[K - m] \in S}
<1>12. 0 \in Good
  <2>1. K \in 1..K /\ K >= MaxRedirects /\ 0 \in 0..K /\ K - 0 = K
    BY <1>1
  <2>2. Ends[K] = Stage(K, Ends[K + 1])
    BY <1>11, <2>1
  <2>3. Stage(K, Ends[K + 1]) = Stage(K, none)
    BY <2>1 DEF Stage
  <2> QED
    BY <1>5, <2>1, <2>2, <2>3
<1>13. ASSUME NEW m \in 0..K, m \in Good, m < K PROVE m + 1 \in Good
  <2>1. m + 1 \in 0..K
    BY <1>1, <1>13
  <2>2. CASE m + 1 = K
    BY <2>1, <2>2
  <2>3. CASE m + 1 # K
    <3>1. K - (m + 1) \in 1..K /\ (K - (m + 1)) + 1 = K - m /\ m # K
      BY <1>1, <1>13, <2>3
    <3>2. Ends[K - m] \in S
      BY <1>13, <3>1
    <3>3. Ends[K - (m + 1)] = Stage(K - (m + 1), Ends[K - m])
      BY <1>11, <3>1
    <3>4. Ends[K - (m + 1)] \in S
      BY <3>2, <3>3, StageTyped
    <3> QED
      BY <2>1, <3>4
  <2> QED
    BY <2>2, <2>3
<1> HIDE DEF Good
<1>14. 0..K \subseteq Good
  BY <1>4, <1>12, <1>13, Induction
<1>15. \A n \in 1..K : Ends[n] \in S
  <2> SUFFICES ASSUME NEW n \in 1..K PROVE Ends[n] \in S
    OBVIOUS
  <2>1. K - n \in 0..K /\ K - n # K /\ K - (K - n) = n
    BY <1>1
  <2> QED
    BY <1>14, <2>1 DEF Good
<1> QED
  BY <1>11, <1>15 DEF K
-----------------------------------------------------------------------------
(* The types of the sitemap fetcher's variables. *)

SitemapTyped ==
  /\ web \in Webs \cup {Blank} /\ calls \in Seq(Call)
  /\ answer \in Answer /\ cut \in BOOLEAN

\* The innermost call.
LEMMA TopCall ==
  ASSUME calls \in Seq(Call), calls # <<>>
  PROVE  /\ Len(calls) \in Nat \ {0} /\ DOMAIN calls = 1..Len(calls)
         /\ Innermost = calls[Len(calls)] /\ Innermost \in Call
<1>1. Len(calls) \in Nat \ {0} /\ DOMAIN calls = 1..Len(calls)
  OBVIOUS
<1>2. Len(calls) \in 1..Len(calls)
  BY <1>1
<1> QED
  BY <1>1, <1>2, ElementOfSeq DEF Innermost, Last

\* The calls without the innermost.
LEMMA OuterCalls ==
  ASSUME calls \in Seq(Call), calls # <<>>
  PROVE  /\ Front(calls) \in Seq(Call) /\ Len(Front(calls)) = Len(calls) - 1
         /\ \A i \in 1..(Len(calls) - 1) : Front(calls)[i] = calls[i]
         /\ Front(calls) # <<>> => Len(calls) - 1 \in 1..(Len(calls) - 1)
<1> DEFINE n == Len(calls)
<1>1. n \in Nat \ {0} /\ DOMAIN calls = 1..n
  BY TopCall
<1> HIDE DEF n
<1>2. \A i \in 1..(n - 1) : i \in 1..n
  BY <1>1
<1>3. \A i \in 1..(n - 1) : calls[i] \in Call
  BY <1>1, <1>2, ElementOfSeq DEF n
<1>4. Front(calls) = [i \in 1..(n - 1) |-> calls[i]]
  BY <1>1 DEF Front, n
<1>5. n - 1 \in Nat
  BY <1>1
<1>6. Front(calls) \in Seq(Call) /\ Len(Front(calls)) = n - 1
      /\ \A i \in 1..(n - 1) : Front(calls)[i] = calls[i]
  BY <1>3, <1>4, <1>5
<1>7. Front(calls) # <<>> => n - 1 # 0
  BY <1>6
<1> HIDE DEF n
<1>8. ASSUME NEW k \in Nat, k # 0 PROVE k \in 1..k
  BY <1>8
<1>9. n - 1 # 0 => n - 1 \in 1..(n - 1)
  BY <1>5, <1>8
<1> QED
  BY <1>6, <1>7, <1>9 DEF n

\* What a document can contain.
LEMMA Contents ==
  ASSUME web \in Webs \cup {Blank}, NEW d \in Doc
  PROVE  web[d] \in Content
<1>1. Blank \in [Doc -> Content]
  BY DEF Blank, Content
<1> QED
  BY <1>1, SitemapAssumption

\* A call returns.
LEMMA ReturnsTyped ==
  ASSUME SitemapTyped, calls # <<>>, NEW r \in Answer, Returns(r)
  PROVE  SitemapTyped'
<1> DEFINE rest == Front(calls)
           n == Len(calls)
<1>1. /\ rest \in Seq(Call) /\ Len(rest) = n - 1
      /\ rest # <<>> => n - 1 \in 1..(n - 1)
      /\ calls' = IF rest = <<>> THEN <<>>
                  ELSE [rest EXCEPT ![Len(rest)].urls = @ \o r.urls]
      /\ answer' = IF rest = <<>> THEN r ELSE answer
      /\ UNCHANGED <<web, cut>>
  BY OuterCalls DEF SitemapTyped, Returns
<1> HIDE DEF rest, n
<1>2. ASSUME rest # <<>> PROVE calls' \in Seq(Call)
  <2> DEFINE c == [rest[n - 1] EXCEPT !.urls = @ \o r.urls]
  <2>1. n - 1 \in 1..Len(rest)
    BY <1>1, <1>2
  <2>2. rest[n - 1] \in Call /\ r.urls \in Seq(Entry)
    BY <1>1, <2>1, ElementOfSeq DEF Answer
  <2>3. rest[n - 1].urls \o r.urls \in Seq(Entry)
    BY <2>2, ConcatProperties DEF Call
  <2>4. c \in Call
    BY <2>2, <2>3 DEF Call
  <2>5. calls' = [rest EXCEPT ![n - 1] = c]
    BY <1>1, <1>2
  <2> HIDE DEF c
  <2> QED
    BY <1>1, <2>1, <2>4, <2>5, ExceptSeq
<1>3. calls' \in Seq(Call)
  BY <1>1, <1>2
<1>4. answer' \in Answer
  BY <1>1 DEF SitemapTyped
<1> QED
  BY <1>1, <1>3, <1>4 DEF SitemapTyped

\* The fetcher keeps its types.
LEMMA FetchSitemapTyped ==
  ASSUME SitemapTyped, FetchSitemap \/ CutSitemap
  PROVE  SitemapTyped'
<1> DEFINE n == Len(calls)
           c == web[Innermost.doc]
<1>1. calls # <<>>
  <2>1. Fetching => calls # <<>>
    BY DEF Fetching
  <2> QED
    BY <2>1 DEF FetchSitemap, CutSitemap, Fetch, FetchCut, Nest, End
<1>2. /\ n \in Nat \ {0} /\ DOMAIN calls = 1..n
      /\ Innermost = calls[n] /\ Innermost \in Call /\ n \in 1..n
  BY <1>1, TopCall DEF SitemapTyped
<1>3. c \in Content
  BY <1>2, Contents DEF SitemapTyped, Call
<1> HIDE DEF n, c
<1>4. /\ Error \in Answer /\ Ok(c.entries) \in Answer /\ Ok(Innermost.urls) \in Answer
  BY <1>2, <1>3 DEF Error, Ok, Answer, Content, Call
<1>5. ASSUME NEW x \in Call PROVE [calls EXCEPT ![n] = x] \in Seq(Call)
  BY <1>2, <1>5, ExceptSeq DEF SitemapTyped, n
<1>6. CASE Fetch
  <2>1. CASE Returns(Error) \/ Returns(Ok(c.entries))
    BY <1>1, <1>4, <2>1, ReturnsTyped
  <2>2. CASE /\ calls' = [calls EXCEPT ![Len(calls)] =
                      [@ EXCEPT !.at = "nested", !.todo = c.nested, !.urls = c.entries]]
             /\ UNCHANGED <<web, answer, cut>>
    <3> DEFINE x == [calls[n] EXCEPT !.at = "nested", !.todo = c.nested, !.urls = c.entries]
    <3>1. x \in Call
      BY <1>2, <1>3 DEF Call, Content
    <3>2. calls' = [calls EXCEPT ![n] = x]
      BY <2>2 DEF n
    <3> HIDE DEF x
    <3>3. calls' \in Seq(Call)
      BY <1>5, <3>1, <3>2
    <3> QED
      BY <2>2, <3>3 DEF SitemapTyped
  <2> QED
    BY <1>6, <2>1, <2>2 DEF Fetch, c
<1>7. CASE FetchCut
  <2>1. Returns(Error)
    BY <1>7 DEF FetchCut
  <2> QED
    BY <1>1, <1>4, <2>1, ReturnsTyped
<1>8. CASE Nest
  <2> DEFINE x == [calls[n] EXCEPT !.todo = Tail(@)]
             y == CallOf(Head(Innermost.todo))
  <2>1. Innermost.todo \in Seq(Doc) /\ Innermost.todo # <<>>
    BY <1>2, <1>8 DEF Nest, Call
  <2>2. Head(Innermost.todo) \in Doc /\ Tail(Innermost.todo) \in Seq(Doc)
    BY <2>1, HeadTailProperties
  <2>3. x \in Call
    <3>1. ASSUME NEW call \in Call, NEW t \in Seq(Doc) PROVE [call EXCEPT !.todo = t] \in Call
      BY DEF Call
    <3>2. Tail(calls[n].todo) \in Seq(Doc) /\ calls[n] \in Call
      BY <1>2, <2>2
    <3> QED
      BY <3>1, <3>2
  <2>4. y \in Call
    BY <2>2 DEF Call, CallOf
  <2>5. calls' = Append([calls EXCEPT ![n] = x], y) /\ UNCHANGED <<web, answer, cut>>
    BY <1>8 DEF Nest, n
  <2> HIDE DEF x, y
  <2>6. calls' \in Seq(Call)
    BY <1>5, <2>3, <2>4, <2>5, AppendProperties
  <2> QED
    BY <2>5, <2>6 DEF SitemapTyped
<1>9. CASE End
  <2>1. Returns(Ok(Innermost.urls))
    BY <1>9 DEF End
  <2> QED
    BY <1>1, <1>4, <2>1, ReturnsTyped
<1>10. CASE CutSitemap
  BY <1>10 DEF CutSitemap, SitemapTyped
<1> QED
  BY <1>6, <1>7, <1>8, <1>9, <1>10 DEF FetchSitemap
-----------------------------------------------------------------------------
(* The types of the session's variables. *)

CallerTyped ==
  /\ caller \in {"sitemap", "search", "ready", "running", "over"}
  /\ list \in Seq(Page) /\ rated \in BOOLEAN
  /\ caller = "running" => run \in 1..run

CrawlTyped ==
  /\ stopped \in BOOLEAN /\ open \in BOOLEAN
  /\ run \in Nat /\ 1..run \subseteq Run
  /\ ended \in [Run -> {"", "nil", "cancelled"}]
  /\ cancelled \subseteq 1..run
  /\ visited \subseteq InScope /\ given \subseteq Page
  /\ queue \in [Run -> Seq(Job)]

Place == {"off", "idle", "limit", "fetch", "save", "record", "scan", "mark", "gone"}
HasJob == Place \ {"off", "idle", "gone"}
HasResult == {"save", "record", "scan", "mark"}

CrewTyped ==
  /\ at \in [Worker -> Place]
  /\ job \in [Worker -> Job \cup {Nothing}]
  /\ result \in [Worker -> Result \cup {Nothing}]
  /\ links \in [Worker -> SUBSET InScope]

\* What is known of a worker by the place it is at.
WorkerTyped(w) ==
  /\ at[w] # "off" => RunOf(w) \in 1..run
  /\ at[w] \in HasJob => job[w] \in Job
  /\ at[w] \in HasResult => result[w] \in Result
  /\ at[w] \in {"scan", "mark"} => job[w].depth < MaxDepth
  /\ IsFiniteSet(links[w])

BooksTyped ==
  /\ DOMAIN stored \subseteq Result /\ DOMAIN lost \subseteq Result
  /\ late \subseteq Run

Typed ==
  /\ SitemapTyped /\ CallerTyped /\ CrawlTyped /\ CrewTyped /\ BooksTyped
  /\ \A w \in Worker : WorkerTyped(w)

\* A worker belongs to one Run.
LEMMA OwnRun ==
  /\ \A w \in Worker : RunOf(w) \in Run /\ w \in Crew[RunOf(w)]
  /\ \A r \in Run : \A w \in Crew[r] : w \in Worker /\ RunOf(w) = r
<1>1. \A r \in Run : \A w \in Crew[r] : w \in Worker
  BY DEF Worker
<1>2. ASSUME NEW w \in Worker PROVE RunOf(w) \in Run /\ w \in Crew[RunOf(w)]
  <2>1. \E r \in Run : w \in Crew[r]
    BY <1>2 DEF Worker
  <2> QED
    BY <2>1 DEF RunOf
<1>3. ASSUME NEW r \in Run, NEW w \in Crew[r] PROVE RunOf(w) = r
  <2>1. RunOf(w) \in Run /\ w \in Crew[RunOf(w)]
    BY <1>1, <1>2, <1>3
  <2>2. RunOf(w) # r => Crew[RunOf(w)] \cap Crew[r] = {}
    BY <2>1, SessionAssumption
  <2> QED
    BY <1>3, <2>1, <2>2
<1> QED
  BY <1>1, <1>2, <1>3

\* A result is something.
LEMMA ResultIsSomething ==
  ASSUME NEW r \in Result
  PROVE  r # Nothing
<1>1. r # <<>>
  <2>1. "url" \in DOMAIN r
    BY DEF Result
  <2>2. DOMAIN <<>> = {}
    OBVIOUS
  <2> QED
    BY <2>1, <2>2
<1> QED
  BY <1>1 DEF Nothing

\* What is in a bag with one more.
LEMMA OneMoreIn ==
  ASSUME NEW B, NEW x
  PROVE  DOMAIN OneMore(B, x) = DOMAIN B \cup {x}
BY DEF OneMore, (+), SetToBag

\* The values of a function on a finite set are finitely many.
LEMMA FiniteImage ==
  ASSUME NEW S, IsFiniteSet(S), NEW f
  PROVE  IsFiniteSet({f[x] : x \in S})
<1> DEFINE T == {f[x] : x \in S}
           g == [x \in S |-> f[x]]
<1>1. g \in Surjection(S, T)
  BY DEF Surjection
<1> QED
  BY <1>1, FS_Surjection

\* A sequence has elements of the set it is over.
LEMMA Elements ==
  ASSUME NEW T, NEW s \in Seq(T)
  PROVE  ToSet(s) \subseteq T
BY ElementOfSeq DEF ToSet

\* What a fetch returns is a result.
LEMMA ResultOfTyped ==
  ASSUME NEW p \in Page, NEW end \in Outcome, run \in Run
  PROVE  ResultOf(p, end) \in Result
<1> DEFINE r == end.reply
<1>1. r \in Reply /\ end.from \in Page
  BY DEF Outcome
<1>2. r.status \in Codes /\ r.bytes \in Nat /\ r.html \in BOOLEAN
  BY <1>1 DEF Reply
<1>3. Analyze(r.status, r.signs, DefaultDetectors) \in Source
  BY Analyzed
<1> HIDE DEF r
<1> DEFINE e == IF r.status = 0 THEN "no response" ELSE IF r.whole THEN "" ELSE "body"
           a == Analyze(r.status, r.signs, DefaultDetectors)
<1>4. e \in {"", "no response", "body"}
  OBVIOUS
<1>5. ResultOf(p, end) = [url |-> p, from |-> end.from, createdAt |-> run, status |-> r.status,
                          error |-> e, source |-> a, bytes |-> r.bytes, html |-> r.html]
  BY DEF ResultOf, r
<1> HIDE DEF e, a
<1>6. a \in Source
  BY <1>3 DEF a
<1>7. ASSUME NEW q \in Page, NEW t \in Run, NEW s \in Codes, NEW x \in {"", "no response", "body"},
             NEW y \in Source, NEW b \in Nat, NEW h \in BOOLEAN
      PROVE [url |-> p, from |-> q, createdAt |-> t, status |-> s,
             error |-> x, source |-> y, bytes |-> b, html |-> h] \in Result
  BY DEF Result
<1>8. end.from \in Page
  BY <1>1
<1> HIDE DEF Result
<1>9. [url |-> p, from |-> end.from, createdAt |-> run, status |-> r.status,
       error |-> e, source |-> a, bytes |-> r.bytes, html |-> r.html] \in Result
  <2>1. r.status \in Codes /\ r.bytes \in Nat /\ run \in Run /\ e \in {"", "no response", "body"}
    BY <1>2, <1>4 DEF e
  <2>2. r.html \in BOOLEAN
    BY <1>2
  <2> QED
    BY <1>6, <1>7, <1>8, <2>1, <2>2, Zenon
<1> QED
  BY <1>5, <1>9

\* The session starts with the right types.
LEMMA InitTyped == Init => Typed
<1> SUFFICES ASSUME Init PROVE Typed
  OBVIOUS
<1>1. CallOf(Root) \in Call /\ Error \in Answer
  BY SitemapAssumption DEF CallOf, Call, Error, Answer
<1>2. <<CallOf(Root)>> \in Seq(Call) /\ <<>> \in Seq(Call)
  BY <1>1
<1>3. SitemapTyped
  BY <1>1, <1>2 DEF Init, SitemapInit, SitemapTyped
<1>4. CallerTyped
  <2>1. <<>> \in Seq(Page)
    OBVIOUS
  <2>2. caller \in {"sitemap", "search"}
    BY DEF Init
  <2>3. list = <<>> /\ rated = FALSE
    BY DEF Init
  <2> QED
    BY <2>1, <2>2, <2>3 DEF CallerTyped
<1>5. CrawlTyped
  <2>1. /\ stopped = FALSE /\ open = TRUE /\ run = 0 /\ cancelled = {}
        /\ ended = [r \in Run |-> ""]
        /\ visited = {} /\ given = {}
        /\ queue = [r \in Run |-> <<>>]
    BY DEF Init
  <2>2. 1..0 = {} /\ 0 \in Nat
    OBVIOUS
  <2>3. [r \in Run |-> <<>>] \in [Run -> Seq(Job)]
    OBVIOUS
  <2>4. run \in Nat /\ 1..run \subseteq Run /\ cancelled \subseteq 1..run
    BY <2>1, <2>2
  <2>5. ended \in [Run -> {"", "nil", "cancelled"}]
    BY <2>1
  <2> QED
    BY <2>1, <2>3, <2>4, <2>5 DEF CrawlTyped
<1>6. CrewTyped
  BY DEF Init, CrewTyped, Place
<1>7. BooksTyped
  BY DEF Init, BooksTyped, EmptyBag, SetToBag
<1>8. \A w \in Worker : WorkerTyped(w)
  BY FS_EmptySet DEF Init, WorkerTyped, HasJob, HasResult
<1> QED
  BY <1>3, <1>4, <1>5, <1>6, <1>7, <1>8 DEF Typed

\* Nobody but the workers does anything.
LEMMA OthersTyped ==
  ASSUME Typed, UNCHANGED Others
  PROVE  /\ SitemapTyped' /\ CallerTyped'
         /\ visited' \subseteq InScope /\ queue' \in [Run -> Seq(Job)] => CrawlTyped'
<1>1. UNCHANGED <<web, calls, answer, cut>> /\ UNCHANGED <<caller, list, rated>>
      /\ UNCHANGED <<stopped, open, run, ended, cancelled, given>>
  BY DEF Others, sitemap, caller_
<1>2. SitemapTyped'
  BY <1>1 DEF Typed, SitemapTyped
<1>3. CallerTyped'
  BY <1>1 DEF Typed, CallerTyped
<1>4. visited' \subseteq InScope /\ queue' \in [Run -> Seq(Job)] => CrawlTyped'
  BY <1>1 DEF Typed, CrawlTyped
<1> QED
  BY <1>2, <1>3, <1>4

\* A worker goes to a place with a job, a result and links.
LEMMA Moved ==
  ASSUME Typed, NEW w \in Worker, UNCHANGED Others, at[w] # "off",
         visited' \subseteq InScope, queue' \in [Run -> Seq(Job)], BooksTyped',
         NEW a \in Place, NEW j, NEW r, NEW k \in SUBSET InScope,
         at' = [at EXCEPT ![w] = a], job' = [job EXCEPT ![w] = j],
         result' = [result EXCEPT ![w] = r], links' = [links EXCEPT ![w] = k],
         j \in Job \/ (j = Nothing /\ a \notin HasJob),
         r \in Result \/ (r = Nothing /\ a \notin HasResult),
         a \in {"scan", "mark"} => j.depth < MaxDepth,
         IsFiniteSet(k)
  PROVE  Typed'
<1>1. SitemapTyped' /\ CallerTyped' /\ CrawlTyped' /\ run' = run
  BY OthersTyped DEF Others
<1>2. CrewTyped
  BY DEF Typed
<1>3. CrewTyped'
  BY <1>2 DEF CrewTyped
<1>4. ASSUME NEW v \in Worker PROVE WorkerTyped(v)'
  <2>1. WorkerTyped(v)
    BY DEF Typed
  <2>2. CASE v = w
    <3>1. at'[v] = a /\ job'[v] = j /\ result'[v] = r /\ links'[v] = k
      BY <1>2, <2>2 DEF CrewTyped
    <3>2. RunOf(v) \in 1..run
      BY <2>1, <2>2 DEF WorkerTyped
    <3> QED
      BY <1>1, <3>1, <3>2 DEF WorkerTyped, RunOf
  <2>3. CASE v # w
    <3>1. at'[v] = at[v] /\ job'[v] = job[v] /\ result'[v] = result[v] /\ links'[v] = links[v]
      BY <1>2, <2>3 DEF CrewTyped
    <3> QED
      BY <1>1, <2>1, <3>1 DEF WorkerTyped, RunOf
  <2> QED
    BY <2>2, <2>3
<1> QED
  BY <1>1, <1>3, <1>4 DEF Typed

\* What a worker that does nothing about it keeps.
LEMMA Kept ==
  ASSUME Typed, NEW w \in Worker
  PROVE  /\ at = [at EXCEPT ![w] = at[w]] /\ job = [job EXCEPT ![w] = job[w]]
         /\ result = [result EXCEPT ![w] = result[w]] /\ links = [links EXCEPT ![w] = links[w]]
         /\ at[w] \in Place /\ links[w] \in SUBSET InScope
         /\ job[w] \in Job \/ (job[w] = Nothing /\ at[w] \notin HasJob)
         /\ result[w] \in Result \/ (result[w] = Nothing /\ at[w] \notin HasResult)
         /\ at[w] # "off" => RunOf(w) \in Run /\ queue[RunOf(w)] \in Seq(Job) /\ run \in Run
         /\ queue \in [Run -> Seq(Job)] /\ visited \subseteq InScope
<1>1. CrewTyped /\ CrawlTyped /\ WorkerTyped(w)
  BY DEF Typed
<1>2. RunOf(w) \in Run
  BY OwnRun
<1>3. /\ at = [at EXCEPT ![w] = at[w]] /\ job = [job EXCEPT ![w] = job[w]]
      /\ result = [result EXCEPT ![w] = result[w]] /\ links = [links EXCEPT ![w] = links[w]]
      /\ at[w] \in Place /\ links[w] \in SUBSET InScope
  BY <1>1 DEF CrewTyped
<1>4. /\ job[w] \in Job \/ (job[w] = Nothing /\ at[w] \notin HasJob)
      /\ result[w] \in Result \/ (result[w] = Nothing /\ at[w] \notin HasResult)
  BY <1>1 DEF CrewTyped, WorkerTyped
<1>5. at[w] # "off" => run \in Run
  <2>1. run \in Nat /\ 1..run \subseteq Run /\ (at[w] # "off" => RunOf(w) \in 1..run)
    BY <1>1 DEF CrawlTyped, WorkerTyped
  <2>2. at[w] # "off" => run \in 1..run
    BY <2>1
  <2> QED
    BY <2>1, <2>2
<1>6. queue \in [Run -> Seq(Job)] /\ visited \subseteq InScope
  BY <1>1 DEF CrawlTyped
<1> QED
  BY <1>2, <1>3, <1>4, <1>5, <1>6

\* The books of a worker that does not write into them.
LEMMA BooksKept ==
  ASSUME Typed, UNCHANGED <<stored, lost, late>>
  PROVE  BooksTyped'
BY DEF Typed, BooksTyped

\* A worker takes a job.
LEMMA TakeTyped ==
  ASSUME Typed, NEW w \in Worker, Take(w)
  PROVE  Typed'
<1> DEFINE q == queue[RunOf(w)]
<1>1. /\ at[w] = "idle" /\ q # <<>>
      /\ job' = [job EXCEPT ![w] = Head(q)]
      /\ queue' = [queue EXCEPT ![RunOf(w)] = Tail(q)]
      /\ at' = [at EXCEPT ![w] = "limit"]
      /\ UNCHANGED <<visited, result, links>> /\ UNCHANGED Others
      /\ UNCHANGED <<stored, lost, late>>
  BY DEF Take, Goto, books
<1>2. q \in Seq(Job) /\ RunOf(w) \in Run /\ queue \in [Run -> Seq(Job)]
  BY <1>1, Kept
<1> HIDE DEF q
<1>3. Head(q) \in Job /\ Tail(q) \in Seq(Job)
  BY <1>1, <1>2, HeadTailProperties
<1>4. queue' \in [Run -> Seq(Job)] /\ visited' \subseteq InScope
  BY <1>1, <1>2, <1>3, Kept
<1>5. BooksTyped'
  BY <1>1, BooksKept
<1>6. /\ result' = [result EXCEPT ![w] = result[w]]
      /\ result[w] \in Result \/ (result[w] = Nothing /\ "limit" \notin HasResult)
      /\ links' = [links EXCEPT ![w] = links[w]] /\ links[w] \in SUBSET InScope
      /\ IsFiniteSet(links[w])
  BY <1>1, Kept DEF HasResult, Typed, WorkerTyped
<1>7. "limit" \in Place
  BY DEF Place
<1> QED
  BY <1>1, <1>3, <1>4, <1>5, <1>6, <1>7, Moved

\* A worker leaves its place and keeps what it has.
LEMMA GoesOn ==
  ASSUME Typed, NEW w \in Worker, NEW a \in Place, at[w] # "off",
         Goto(w, a), UNCHANGED Others, UNCHANGED <<visited, queue, job, result, links>>,
         UNCHANGED <<stored, lost, late>>,
         a \in HasJob => at[w] \in HasJob,
         a \in HasResult => at[w] \in HasResult,
         a \notin {"scan", "mark"}
  PROVE  Typed'
<1>1. BooksTyped'
  BY BooksKept
<1>2. visited' \subseteq InScope /\ queue' \in [Run -> Seq(Job)]
  BY Kept
<1>3. /\ at' = [at EXCEPT ![w] = a] /\ job' = [job EXCEPT ![w] = job[w]]
      /\ result' = [result EXCEPT ![w] = result[w]] /\ links' = [links EXCEPT ![w] = links[w]]
      /\ links[w] \in SUBSET InScope
  BY Kept DEF Goto
<1>4. /\ job[w] \in Job \/ (job[w] = Nothing /\ a \notin HasJob)
      /\ result[w] \in Result \/ (result[w] = Nothing /\ a \notin HasResult)
  BY Kept
<1>5. IsFiniteSet(links[w])
  BY DEF Typed, WorkerTyped
<1> DEFINE j == job[w]
           r == result[w]
           k == links[w]
<1>6. /\ job' = [job EXCEPT ![w] = j] /\ result' = [result EXCEPT ![w] = r]
      /\ links' = [links EXCEPT ![w] = k] /\ k \in SUBSET InScope /\ IsFiniteSet(k)
      /\ j \in Job \/ (j = Nothing /\ a \notin HasJob)
      /\ r \in Result \/ (r = Nothing /\ a \notin HasResult)
  BY <1>3, <1>4, <1>5
<1>7. at' = [at EXCEPT ![w] = a]
  BY <1>3
<1> HIDE DEF j, r, k
<1> QED
  BY <1>1, <1>2, <1>6, <1>7, Moved

\* A worker is done with its job.
LEMMA DoneTyped ==
  ASSUME Typed, NEW w \in Worker, at[w] # "off", Done(w), UNCHANGED Others,
         visited' \subseteq InScope, queue' \in [Run -> Seq(Job)], UNCHANGED <<stored, lost, late>>
  PROVE  Typed'
<1>1. BooksTyped'
  BY BooksKept
<1>2. /\ at' = [at EXCEPT ![w] = "idle"] /\ job' = [job EXCEPT ![w] = Nothing]
      /\ result' = [result EXCEPT ![w] = Nothing] /\ links' = [links EXCEPT ![w] = {}]
  BY DEF Done, Goto
<1>3. "idle" \in Place /\ "idle" \notin HasJob /\ "idle" \notin HasResult
  BY DEF Place, HasJob, HasResult
<1>4. IsFiniteSet({}) /\ {} \in SUBSET InScope /\ "idle" \notin {"scan", "mark"}
  BY FS_EmptySet
<1> QED
  BY <1>1, <1>2, <1>3, <1>4, Moved

\* A fetch returns.
LEMMA FetchedTyped ==
  ASSUME Typed, NEW w \in Worker, Fetched(w)
  PROVE  Typed'
<1> DEFINE p == job[w].page
<1>1. /\ at[w] = "fetch" /\ at' = [at EXCEPT ![w] = "save"]
      /\ UNCHANGED Others /\ UNCHANGED <<visited, queue, job, links>>
      /\ UNCHANGED <<stored, lost, late>>
  BY DEF Fetched, Goto, books
<1>2. PICK end \in IF Cut(w) THEN {[from |-> p, reply |-> NoReply]} ELSE Ends[1][p] :
        result' = [result EXCEPT ![w] = ResultOf(p, end)]
  BY DEF Fetched
<1>3. job[w] \in Job /\ run \in Run
  BY <1>1, Kept DEF HasJob, Place
<1>4. p \in Page
  BY <1>3 DEF Job
<1>5. end \in Outcome
  <2>1. [from |-> p, reply |-> NoReply] \in Outcome
    BY <1>4, CodesAssumption DEF Outcome, NoReply, Reply
  <2>2. Ends[1] \in [Page -> SUBSET Outcome]
    <3>1. 1 \in 1..MostRequests
      BY Requests
    <3> QED
      BY <3>1, EndsUnfold
  <2> QED
    BY <1>2, <1>4, <2>1, <2>2
<1> HIDE DEF p
<1>6. ResultOf(p, end) \in Result
  BY <1>3, <1>4, <1>5, ResultOfTyped
<1>7. BooksTyped'
  BY <1>1, BooksKept
<1>8. visited' \subseteq InScope /\ queue' \in [Run -> Seq(Job)]
  BY <1>1, Kept
<1>9. /\ job' = [job EXCEPT ![w] = job[w]]
      /\ links' = [links EXCEPT ![w] = links[w]] /\ links[w] \in SUBSET InScope
  BY <1>1, Kept
<1>10. "save" \in Place /\ "save" \notin {"scan", "mark"} /\ IsFiniteSet(links[w])
  BY DEF Place, Typed, WorkerTyped
<1> QED
  BY <1>1, <1>2, <1>3, <1>6, <1>7, <1>8, <1>9, <1>10, Moved

\* A result is saved, or its Save fails.
LEMMA SaveTyped ==
  ASSUME Typed, NEW w \in Worker, Save(w)
  PROVE  Typed'
<1>1. /\ at[w] = "save" /\ at' = [at EXCEPT ![w] = "record"]
      /\ UNCHANGED Others /\ UNCHANGED <<visited, queue, job, result, links>>
  BY DEF Save, Goto
<1>2. result[w] \in Result /\ job[w] \in Job /\ RunOf(w) \in Run
  BY <1>1, Kept DEF HasJob, HasResult, Place
<1>3. BooksTyped'
  <2>1. BooksTyped
    BY DEF Typed
  <2>2. /\ stored' = stored \/ stored' = OneMore(stored, result[w])
        /\ lost' = lost \/ lost' = OneMore(lost, result[w])
        /\ late' \subseteq late \cup {RunOf(w)}
    BY DEF Save
  <2>3. DOMAIN OneMore(stored, result[w]) = DOMAIN stored \cup {result[w]}
        /\ DOMAIN OneMore(lost, result[w]) = DOMAIN lost \cup {result[w]}
    BY OneMoreIn
  <2> QED
    BY <1>2, <2>1, <2>2, <2>3 DEF BooksTyped
<1>4. visited' \subseteq InScope /\ queue' \in [Run -> Seq(Job)]
  BY <1>1, Kept
<1>5. /\ job' = [job EXCEPT ![w] = job[w]] /\ result' = [result EXCEPT ![w] = result[w]]
      /\ links' = [links EXCEPT ![w] = links[w]] /\ links[w] \in SUBSET InScope
  BY <1>1, Kept
<1>6. "record" \in Place /\ "record" \notin {"scan", "mark"} /\ IsFiniteSet(links[w])
  BY DEF Place, Typed, WorkerTyped
<1> DEFINE j == job[w]
           r == result[w]
           k == links[w]
<1>7. /\ job' = [job EXCEPT ![w] = j] /\ result' = [result EXCEPT ![w] = r]
      /\ links' = [links EXCEPT ![w] = k] /\ k \in SUBSET InScope /\ IsFiniteSet(k)
      /\ j \in Job /\ r \in Result
  BY <1>2, <1>5, <1>6
<1>8. at[w] # "off" /\ at' = [at EXCEPT ![w] = "record"] /\ UNCHANGED Others
  BY <1>1
<1> HIDE DEF j, r, k
<1> QED
  BY <1>3, <1>4, <1>6, <1>7, <1>8, Moved

\* A result is counted.
LEMMA RecordTyped ==
  ASSUME Typed, NEW w \in Worker, Record(w)
  PROVE  Typed'
<1>1. /\ at[w] = "record" /\ UNCHANGED Others /\ UNCHANGED <<visited, queue>>
      /\ UNCHANGED <<stored, lost, late>>
  BY DEF Record
<1>2. visited' \subseteq InScope /\ queue' \in [Run -> Seq(Job)]
  BY <1>1, Kept
<1>3. CASE Expands(job[w], result[w])
  <2>1. at' = [at EXCEPT ![w] = "scan"] /\ UNCHANGED <<job, result, links>>
    BY <1>3 DEF Record, Goto
  <2>2. job[w] \in Job /\ result[w] \in Result
    BY <1>1, Kept DEF HasJob, HasResult, Place
  <2>3. job[w].depth < MaxDepth
    BY <1>3 DEF Expands
  <2>4. /\ job' = [job EXCEPT ![w] = job[w]] /\ result' = [result EXCEPT ![w] = result[w]]
        /\ links' = [links EXCEPT ![w] = links[w]] /\ links[w] \in SUBSET InScope
    BY <2>1, Kept
  <2>5. "scan" \in Place /\ IsFiniteSet(links[w]) /\ BooksTyped'
    BY <1>1, BooksKept DEF Place, Typed, WorkerTyped
  <2> QED
    BY <1>1, <1>2, <2>1, <2>2, <2>3, <2>4, <2>5, Moved
<1>4. CASE ~Expands(job[w], result[w])
  <2>1. Done(w)
    BY <1>4 DEF Record
  <2> QED
    BY <1>1, <1>2, <2>1, DoneTyped
<1> QED
  BY <1>3, <1>4

\* The links of a page are looked up.
LEMMA ScanTyped ==
  ASSUME Typed, NEW w \in Worker, Scan(w)
  PROVE  Typed'
<1> DEFINE k == (LinksOf(result[w]) \cap InScope) \ visited
<1>1. /\ at[w] = "scan" /\ at' = [at EXCEPT ![w] = "mark"] /\ links' = [links EXCEPT ![w] = k]
      /\ UNCHANGED Others /\ UNCHANGED <<visited, queue, job, result>>
      /\ UNCHANGED <<stored, lost, late>>
  BY DEF Scan, Goto, books
<1>2. result[w] \in Result /\ job[w] \in Job
  BY <1>1, Kept DEF HasJob, HasResult, Place
<1>3. IsFiniteSet(k)
  <2>1. result[w].from \in Page
    BY <1>2 DEF Result
  <2>2. IsFiniteSet(Anchors[result[w].from])
    BY <2>1, SessionAssumption
  <2>3. IsFiniteSet(LinksOf(result[w]))
    BY <2>2, FiniteImage DEF LinksOf
  <2> QED
    BY <2>3, FS_Subset
<1>4. visited' \subseteq InScope /\ queue' \in [Run -> Seq(Job)]
  BY <1>1, Kept
<1>5. job' = [job EXCEPT ![w] = job[w]] /\ result' = [result EXCEPT ![w] = result[w]]
  BY <1>1, Kept
<1>6. job[w].depth < MaxDepth
  BY <1>1 DEF Typed, WorkerTyped
<1>7. "mark" \in Place /\ k \in SUBSET InScope /\ BooksTyped'
  BY <1>1, BooksKept DEF Place
<1> HIDE DEF k
<1> QED
  BY <1>1, <1>2, <1>3, <1>4, <1>5, <1>6, <1>7, Moved

\* The links of a page are marked, and queued.
LEMMA MarkTyped ==
  ASSUME Typed, NEW w \in Worker, Mark(w)
  PROVE  Typed'
<1> DEFINE T == {[page |-> p, depth |-> job[w].depth + 1] : p \in links[w]}
           q == queue[RunOf(w)]
<1>1. /\ at[w] = "mark" /\ visited' = visited \cup links[w]
      /\ queue' = [queue EXCEPT ![RunOf(w)] = q \o SetToSeq(T)]
      /\ Done(w) /\ UNCHANGED Others /\ UNCHANGED <<stored, lost, late>>
  BY DEF Mark, books
<1>2. q \in Seq(Job) /\ RunOf(w) \in Run /\ queue \in [Run -> Seq(Job)] /\ visited \subseteq InScope
  BY <1>1, Kept
<1>3. job[w] \in Job /\ links[w] \in SUBSET InScope
  BY <1>1, Kept DEF HasJob, Place
<1>4. job[w].depth < MaxDepth /\ IsFiniteSet(links[w])
  BY <1>1 DEF Typed, WorkerTyped
<1>5. T \subseteq Job
  <2>1. job[w].depth + 1 \in 0..MaxDepth
    BY <1>3, <1>4, SessionAssumption DEF Job
  <2>2. links[w] \subseteq Page
    BY <1>3, SessionAssumption
  <2> QED
    BY <2>1, <2>2 DEF Job
<1>6. IsFiniteSet(T)
  <2> DEFINE f == [p \in links[w] |-> [page |-> p, depth |-> job[w].depth + 1]]
  <2>1. T = {f[p] : p \in links[w]}
    OBVIOUS
  <2> HIDE DEF f, T
  <2> QED
    BY <1>4, <2>1, FiniteImage
<1> HIDE DEF T, q
<1>7. SetToSeq(T) \in Seq(Job)
  <2>1. SetToSeq(T) \in Seq(T)
    BY <1>6, Listed
  <2> QED
    BY <1>5, <2>1
<1>8. queue' \in [Run -> Seq(Job)]
  BY <1>1, <1>2, <1>7, ConcatProperties
<1>9. visited' \subseteq InScope
  BY <1>1, <1>2, <1>3
<1> QED
  BY <1>1, <1>8, <1>9, DoneTyped

\* A worker keeps the types.
LEMMA StepTyped ==
  ASSUME Typed, NEW w \in Worker, Step(w)
  PROVE  Typed'
<1>1. CASE Take(w)
  BY <1>1, TakeTyped
<1>2. CASE Exit(w)
  <2>1. /\ at[w] = "idle" /\ Goto(w, "gone") /\ UNCHANGED Others
        /\ UNCHANGED <<visited, queue, job, result, links>> /\ UNCHANGED <<stored, lost, late>>
    BY <1>2 DEF Exit, books
  <2>2. "gone" \in Place /\ "gone" \notin HasJob /\ "gone" \notin HasResult
        /\ "gone" \notin {"scan", "mark"}
    BY DEF Place, HasJob, HasResult
  <2> QED
    BY <2>1, <2>2, GoesOn
<1>3. CASE Pass(w)
  <2>1. /\ at[w] = "limit" /\ Goto(w, "fetch") /\ UNCHANGED Others
        /\ UNCHANGED <<visited, queue, job, result, links>> /\ UNCHANGED <<stored, lost, late>>
    BY <1>3 DEF Pass, books
  <2>2. "fetch" \in Place /\ "limit" \in HasJob /\ "fetch" \notin HasResult
        /\ "fetch" \notin {"scan", "mark"}
    BY DEF Place, HasJob, HasResult
  <2> QED
    BY <2>1, <2>2, GoesOn
<1>4. CASE PassFails(w)
  <2>1. /\ at[w] = "limit" /\ Done(w) /\ UNCHANGED Others
        /\ UNCHANGED <<visited, queue>> /\ UNCHANGED <<stored, lost, late>>
    BY <1>4 DEF PassFails, books
  <2>2. visited' \subseteq InScope /\ queue' \in [Run -> Seq(Job)]
    BY <2>1, Kept
  <2> QED
    BY <2>1, <2>2, DoneTyped
<1>5. CASE Fetched(w)
  BY <1>5, FetchedTyped
<1>6. CASE Save(w)
  BY <1>6, SaveTyped
<1>7. CASE Record(w)
  BY <1>7, RecordTyped
<1>8. CASE Scan(w)
  BY <1>8, ScanTyped
<1>9. CASE Mark(w)
  BY <1>9, MarkTyped
<1>10. CASE MarkCut(w)
  <2>1. /\ at[w] = "mark" /\ visited' = visited \cup links[w] /\ Done(w) /\ UNCHANGED Others
        /\ UNCHANGED queue /\ UNCHANGED <<stored, lost, late>>
    BY <1>10 DEF MarkCut, books
  <2>2. visited' \subseteq InScope /\ queue' \in [Run -> Seq(Job)]
    BY <2>1, Kept
  <2> QED
    BY <2>1, <2>2, DoneTyped
<1> QED
  BY <1>1, <1>2, <1>3, <1>4, <1>5, <1>6, <1>7, <1>8, <1>9, <1>10 DEF Step

\* What the crew has stays typed while it and the Runs do not change.
LEMMA CrewStays ==
  ASSUME Typed, UNCHANGED crew, UNCHANGED run
  PROVE  CrewTyped' /\ \A w \in Worker : WorkerTyped(w)'
<1>1. UNCHANGED <<at, job, result, links>>
  BY DEF crew
<1>2. CrewTyped'
  BY <1>1 DEF Typed, CrewTyped
<1>3. ASSUME NEW w \in Worker PROVE WorkerTyped(w)'
  <2>1. WorkerTyped(w)
    BY DEF Typed
  <2> QED
    BY <1>1, <2>1 DEF WorkerTyped, RunOf
<1> QED
  BY <1>2, <1>3

\* The caller makes its crawler.
LEMMA NewCrawlerTyped ==
  ASSUME Typed, NewCrawler
  PROVE  Typed'
<1>1. /\ list' = answer.urls \/ list' \in SeedLists
      /\ rated' \in BOOLEAN /\ web' = Blank /\ answer' = Error /\ cut' = FALSE
      /\ caller' = "ready" /\ UNCHANGED calls
      /\ UNCHANGED crawl /\ UNCHANGED crew /\ UNCHANGED books /\ UNCHANGED given
  BY DEF NewCrawler
<1>2. UNCHANGED <<stopped, open, run, ended, cancelled, visited, queue, given>>
      /\ UNCHANGED <<stored, lost, late>>
  BY <1>1 DEF crawl, books
<1>3. answer.urls \in Seq(Page) /\ calls \in Seq(Call)
  BY DEF Typed, SitemapTyped, Answer, Page
<1>4. CallerTyped'
  BY <1>1, <1>3, SessionAssumption DEF CallerTyped
<1>5. SitemapTyped'
  <2>1. Error \in Answer
    BY DEF Error, Answer
  <2> QED
    BY <1>1, <1>3, <2>1 DEF SitemapTyped
<1>6. CrawlTyped'
  BY <1>2 DEF Typed, CrawlTyped
<1>7. BooksTyped'
  BY <1>2, BooksKept
<1> QED
  BY <1>1, <1>2, <1>4, <1>5, <1>6, <1>7, CrewStays DEF Typed

\* A Run starts.
LEMMA StartTyped ==
  ASSUME Typed, Start
  PROVE  Typed'
<1>1. /\ run + 1 \in Run /\ run' = run + 1
      /\ at' = [w \in Worker |-> IF w \in Crew[run + 1] THEN "idle" ELSE at[w]]
      /\ caller' = "running" /\ list' = <<>>
      /\ UNCHANGED <<stopped, open, ended, cancelled, job, result, links>>
      /\ UNCHANGED sitemap /\ UNCHANGED rated /\ UNCHANGED books
  BY DEF Start
<1>2. PICK seeds \in IF run = 0 THEN {list} ELSE SeedLists :
        /\ visited' = visited \cup ToSet(Fresh(seeds))
        /\ queue' = [queue EXCEPT ![run + 1] =
             [i \in DOMAIN Fresh(seeds) |-> [page |-> Fresh(seeds)[i], depth |-> 0]]]
        /\ given' = given \cup ToSet(seeds)
  BY DEF Start
<1>3. CallerTyped /\ CrawlTyped /\ CrewTyped /\ SitemapTyped
  BY DEF Typed
<1>4. seeds \in Seq(Page)
  BY <1>2, <1>3, SessionAssumption DEF CallerTyped
<1> DEFINE s == Fresh(seeds)
           q == [i \in DOMAIN s |-> [page |-> s[i], depth |-> 0]]
<1>5. s \in Seq(InScope) /\ ToSet(seeds) \subseteq Page
  <2>1. s \in Seq(InScope \cap ToSet(seeds))
    BY <1>4, FreshOnes
  <2>2. \A T : s \in Seq(InScope \cap T) => s \in Seq(InScope)
    OBVIOUS
  <2> QED
    BY <1>4, <2>1, <2>2, Elements
<1>6. visited' = visited \cup ToSet(s) /\ queue' = [queue EXCEPT ![run + 1] = q]
  BY <1>2
<1> HIDE DEF s
<1>7. ToSet(s) \subseteq InScope
  BY <1>5, Elements
<1>8. q \in Seq(Job)
  <2>1. DOMAIN s = 1..Len(s) /\ Len(s) \in Nat /\ \A i \in 1..Len(s) : s[i] \in InScope
    BY <1>5, LenProperties, ElementOfSeq
  <2>2. 0 \in 0..MaxDepth /\ InScope \subseteq Page
    BY SessionAssumption
  <2>3. \A i \in 1..Len(s) : [page |-> s[i], depth |-> 0] \in Job
    BY <2>1, <2>2 DEF Job
  <2> QED
    BY <2>1, <2>3
<1> HIDE DEF q
<1>9. run \in Nat /\ run + 1 \in Nat /\ 1..(run + 1) \subseteq Run /\ cancelled \subseteq 1..(run + 1)
      /\ 1..run \subseteq 1..(run + 1) /\ run + 1 \in 1..(run + 1)
  <2>1. run \in Nat /\ 1..run \subseteq Run /\ cancelled \subseteq 1..run
    BY <1>3 DEF CrawlTyped
  <2>2. 1..(run + 1) = (1..run) \cup {run + 1} /\ run + 1 \in Nat
    BY <2>1
  <2> QED
    BY <1>1, <2>1, <2>2
<1>10. CrawlTyped'
  <2>1. queue' \in [Run -> Seq(Job)] /\ visited' \subseteq InScope /\ given' \subseteq Page
    BY <1>2, <1>3, <1>5, <1>6, <1>7, <1>8 DEF CrawlTyped
  <2>2. /\ stopped' \in BOOLEAN /\ open' \in BOOLEAN
        /\ ended' \in [Run -> {"", "nil", "cancelled"}]
    BY <1>1, <1>3 DEF CrawlTyped
  <2> QED
    BY <1>1, <1>9, <2>1, <2>2 DEF CrawlTyped
<1>11. SitemapTyped' /\ CallerTyped'
  BY <1>1, <1>3, <1>9 DEF sitemap, SitemapTyped, CallerTyped
<1>12. CrewTyped'
  BY <1>1, <1>3 DEF CrewTyped, Place
<1>13. ASSUME NEW w \in Worker PROVE WorkerTyped(w)'
  <2>1. WorkerTyped(w)
    BY DEF Typed
  <2>2. CASE w \in Crew[run + 1]
    <3>1. RunOf(w) = run + 1 /\ at'[w] = "idle"
      BY <1>1, <2>2, OwnRun
    <3>2. IsFiniteSet(links'[w])
      BY <1>1, <2>1 DEF WorkerTyped
    <3> QED
      BY <1>1, <1>9, <3>1, <3>2 DEF WorkerTyped, RunOf, HasJob, HasResult
  <2>3. CASE w \notin Crew[run + 1]
    <3>1. at'[w] = at[w] /\ job'[w] = job[w] /\ result'[w] = result[w] /\ links'[w] = links[w]
      BY <1>1, <2>3
    <3>2. at[w] # "off" => RunOf(w) \in 1..(run + 1)
      BY <1>9, <2>1 DEF WorkerTyped
    <3> QED
      BY <1>1, <2>1, <3>1, <3>2 DEF WorkerTyped, RunOf
  <2> QED
    BY <2>2, <2>3
<1>14. BooksTyped'
  BY <1>1, BooksKept DEF books
<1> QED
  BY <1>10, <1>11, <1>12, <1>13, <1>14 DEF Typed

\* A Run returns.
LEMMA ReturnTyped ==
  ASSUME Typed, NEW how \in {"nil", "cancelled"}, Return(how)
  PROVE  Typed'
<1>1. /\ ended' = [ended EXCEPT ![run] = how] /\ stopped' = TRUE /\ caller' = "ready"
      /\ UNCHANGED <<list, rated, open, run, cancelled, visited, queue, given>>
      /\ UNCHANGED sitemap /\ UNCHANGED crew /\ UNCHANGED books
  BY DEF Return
<1>2. SitemapTyped /\ CallerTyped /\ CrawlTyped
  BY DEF Typed
<1>3. SitemapTyped' /\ CallerTyped'
  BY <1>1, <1>2 DEF sitemap, SitemapTyped, CallerTyped
<1>4. CrawlTyped'
  <2>1. ended' \in [Run -> {"", "nil", "cancelled"}]
    BY <1>1, <1>2 DEF CrawlTyped
  <2> QED
    BY <1>1, <1>2, <2>1 DEF CrawlTyped
<1>5. BooksTyped'
  BY <1>1, BooksKept DEF books
<1> QED
  BY <1>1, <1>3, <1>4, <1>5, CrewStays DEF Typed

\* Every step keeps the types.
LEMMA NextTyped == Typed /\ [Next]_vars => Typed'
<1> SUFFICES ASSUME Typed, [Next]_vars PROVE Typed'
  OBVIOUS
<1>1. CASE Search
  <2>1. /\ caller' = "over" /\ UNCHANGED <<list, rated, given>>
        /\ UNCHANGED sitemap /\ UNCHANGED crawl /\ UNCHANGED crew /\ UNCHANGED books
    BY <1>1 DEF Search
  <2>2. SitemapTyped' /\ CallerTyped' /\ CrawlTyped' /\ BooksTyped'
    BY <2>1, BooksKept DEF Typed, sitemap, SitemapTyped, CallerTyped, crawl, CrawlTyped, books
  <2>3. UNCHANGED run
    BY <2>1 DEF crawl
  <2> QED
    BY <2>1, <2>2, <2>3, CrewStays DEF Typed
<1>2. CASE ReadSitemap
  <2>1. /\ FetchSitemap \/ CutSitemap
        /\ UNCHANGED caller_ /\ UNCHANGED crawl /\ UNCHANGED crew /\ UNCHANGED books /\ UNCHANGED given
    BY <1>2 DEF ReadSitemap
  <2>2. CallerTyped' /\ CrawlTyped' /\ BooksTyped'
    BY <2>1, BooksKept DEF Typed, caller_, CallerTyped, crawl, CrawlTyped, books
  <2>3. UNCHANGED run
    BY <2>1 DEF crawl
  <2>4. SitemapTyped'
    BY <2>1, FetchSitemapTyped DEF Typed
  <2> QED
    BY <2>1, <2>2, <2>3, <2>4, CrewStays DEF Typed
<1>3. CASE NewCrawler
  BY <1>3, NewCrawlerTyped
<1>4. CASE Start
  BY <1>4, StartTyped
<1>5. CASE Ending
  <2>1. \E how \in {"nil", "cancelled"} : Return(how)
    BY <1>5 DEF Ending, ReturnNil, ReturnCancelled
  <2> QED
    BY <2>1, ReturnTyped
<1>6. CASE Cancel
  <2>1. /\ caller = "running" /\ cancelled' = cancelled \cup {run}
        /\ UNCHANGED <<stopped, open, run, ended, visited, queue, given>>
        /\ UNCHANGED sitemap /\ UNCHANGED caller_ /\ UNCHANGED crew /\ UNCHANGED books
    BY <1>6 DEF Cancel
  <2>2. CallerTyped /\ CrawlTyped /\ run \in 1..run
    BY <2>1 DEF Typed, CallerTyped
  <2>3. CrawlTyped'
    BY <2>1, <2>2 DEF CrawlTyped
  <2>4. SitemapTyped' /\ CallerTyped' /\ BooksTyped'
    BY <2>1, BooksKept DEF Typed, sitemap, SitemapTyped, caller_, CallerTyped, books
  <2> QED
    BY <2>1, <2>3, <2>4, CrewStays DEF Typed
<1>7. CASE Close
  <2>1. /\ open' = FALSE /\ caller' = "over"
        /\ UNCHANGED <<list, rated, stopped, run, ended, cancelled, visited, queue, given>>
        /\ UNCHANGED sitemap /\ UNCHANGED crew /\ UNCHANGED books
    BY <1>7 DEF Close
  <2>2. SitemapTyped' /\ CallerTyped' /\ CrawlTyped' /\ BooksTyped'
    BY <2>1, BooksKept DEF Typed, sitemap, SitemapTyped, CallerTyped, CrawlTyped, books
  <2> QED
    BY <2>1, <2>2, CrewStays DEF Typed
<1>8. CASE \E w \in Worker : Step(w)
  BY <1>8, StepTyped
<1>9. CASE UNCHANGED vars
  <2>1. /\ UNCHANGED sitemap /\ UNCHANGED caller_ /\ UNCHANGED crawl /\ UNCHANGED crew
        /\ UNCHANGED books /\ UNCHANGED given
    BY <1>9 DEF vars
  <2>2. SitemapTyped' /\ CallerTyped' /\ CrawlTyped' /\ BooksTyped'
    BY <2>1, BooksKept DEF Typed, sitemap, SitemapTyped, caller_, CallerTyped, crawl, CrawlTyped, books
  <2>3. UNCHANGED run
    BY <2>1 DEF crawl
  <2> QED
    BY <2>1, <2>2, <2>3, CrewStays DEF Typed
<1> QED
  BY <1>1, <1>2, <1>3, <1>4, <1>5, <1>6, <1>7, <1>8, <1>9 DEF Next

\* The type invariant: whatever the sitemap, the pages and the replies are, for
\* any number of Runs and workers, the variables have their types, and a worker
\* that has fetched has a result.
THEOREM TypeCorrect == Spec => []TypeOK
<1>1. Typed => TypeOK
  <2> SUFFICES ASSUME Typed PROVE TypeOK
    OBVIOUS
  <2>1. SitemapTyped /\ CallerTyped /\ CrawlTyped /\ CrewTyped /\ BooksTyped
    BY DEF Typed
  <2>2. run \in {0} \cup Run
    <3>1. run \in Nat /\ 1..run \subseteq Run
      BY <2>1 DEF CrawlTyped
    <3>2. run = 0 \/ run \in 1..run
      BY <3>1
    <3> QED
      BY <3>1, <3>2
  <2>3. ASSUME NEW w \in Worker, at[w] \in {"save", "record", "scan", "mark"} PROVE result[w] # Nothing
    <3>1. result[w] \in Result
      BY <2>3 DEF Typed, WorkerTyped, HasResult
    <3> QED
      BY <3>1, ResultIsSomething
  <2>4. InScope \subseteq Page
    BY SessionAssumption
  <2>5. links \in [Worker -> SUBSET Page]
    BY <2>1, <2>4 DEF CrewTyped
  <2> QED
    BY <2>1, <2>2, <2>3, <2>4, <2>5
       DEF TypeOK, SitemapTyped, CallerTyped, CrawlTyped, CrewTyped, BooksTyped, Place
<1> QED
  BY <1>1, InitTyped, NextTyped, PTL DEF Spec
-----------------------------------------------------------------------------
(* The Runs that have returned. *)

\* A Run that returned nil has nothing left to do.
Through(r) == queue[r] = <<>> /\ Busy(r) = {}

Returned ==
  /\ ~open => caller = "over"
  /\ late # {} => ~open
  /\ caller \in {"sitemap", "search"} => run = 0
  /\ \A r \in Run :
       /\ r \notin 1..run => ended[r] = ""
       /\ r \in 1..run /\ ended[r] = "" => caller = "running" /\ r = run
       /\ ended[r] = "nil" => Through(r)

InvLate == Typed /\ Returned /\ LateOnlyAfterCancel

\* A Run whose queue does not change and whose workers do not take up work
\* remains through.
LEMMA StaysThrough ==
  ASSUME NEW r \in Run, Through(r), queue'[r] = queue[r],
         \A w \in Crew[r] : at'[w] = at[w] \/ at'[w] \in {"off", "idle", "gone"}
  PROVE  Through(r)'
BY DEF Through, Busy

\* What a worker does that has work, or takes it, happens in a Run that has not
\* returned nil.
LEMMA StepLate ==
  ASSUME InvLate, NEW w \in Worker, Step(w)
  PROVE  Returned' /\ LateOnlyAfterCancel'
<1> DEFINE q == RunOf(w)
<1>1. Typed /\ Returned /\ LateOnlyAfterCancel /\ CrewTyped /\ CrawlTyped
  BY DEF InvLate, Typed
<1>2. /\ UNCHANGED <<caller, open, run, ended>>
      /\ \A v \in Worker : v # w => at'[v] = at[v]
      /\ \A r \in Run : r # q => queue'[r] = queue[r]
      /\ at[w] # "off"
  BY <1>1 DEF Step, Take, Exit, Pass, PassFails, Fetched, Save, Record, Scan, Mark, MarkCut,
              Goto, Done, Others, caller_, CrewTyped, CrawlTyped
<1>3. q \in Run /\ w \in Crew[q] /\ q \in 1..run
  BY <1>1, <1>2, OwnRun DEF Typed, WorkerTyped
<1>4. ASSUME NEW r \in Run, ended[r] = "nil" PROVE Through(r)'
  <2>1. Through(r)
    BY <1>1, <1>4 DEF Returned
  <2>2. CASE r # q
    <3>1. \A v \in Crew[r] : v \in Worker /\ v # w
      BY <2>2, OwnRun
    <3> QED
      BY <1>2, <2>1, <2>2, <3>1, StaysThrough
  <2>3. CASE r = q
    <3>1. at[w] \in {"idle", "gone"} /\ queue[q] = <<>>
      BY <1>2, <1>3, <2>1, <2>3 DEF Through, Busy
    <3>2. Exit(w)
      BY <3>1 DEF Step, Take, Pass, PassFails, Fetched, Save, Record, Scan, Mark, MarkCut
    <3>3. queue' = queue /\ at'[w] = "gone"
      BY <1>1, <3>2 DEF Exit, Goto, CrewTyped
    <3>4. \A v \in Crew[r] : at'[v] = at[v] \/ at'[v] = "gone"
      BY <1>2, <3>3, OwnRun
    <3> QED
      BY <2>1, <3>3, <3>4, StaysThrough
  <2> QED
    BY <2>2, <2>3
<1>5. ASSUME late' # late PROVE ~open /\ late' = late \cup {q} /\ ended[q] = "cancelled"
  <2>1. Save(w)
    BY <1>5 DEF Step, Take, Exit, Pass, PassFails, Fetched, Record, Scan, Mark, MarkCut, books
  <2>2. ~open /\ late' = late \cup {q} /\ at[w] = "save"
    BY <1>5, <2>1 DEF Save
  <2>3. caller = "over"
    BY <1>1, <2>2 DEF Returned
  <2>4. ended[q] # ""
    BY <1>1, <1>3, <2>3 DEF Returned
  <2>5. ended[q] # "nil"
    BY <1>1, <1>3, <2>2 DEF Returned, Through, Busy
  <2>6. ended[q] \in {"", "nil", "cancelled"}
    BY <1>1, <1>3 DEF CrawlTyped
  <2> QED
    BY <2>2, <2>4, <2>5, <2>6
<1>6. Returned'
  <2>1. late' # {} => ~open'
    BY <1>1, <1>2, <1>5 DEF Returned
  <2> QED
    BY <1>1, <1>2, <1>4, <2>1 DEF Returned
<1>7. LateOnlyAfterCancel'
  BY <1>1, <1>2, <1>5 DEF LateOnlyAfterCancel
<1> QED
  BY <1>6, <1>7

\* A Run returns.
LEMMA EndingLate ==
  ASSUME InvLate, Ending
  PROVE  Returned' /\ LateOnlyAfterCancel'
<1>1. Typed /\ Returned /\ LateOnlyAfterCancel /\ CrawlTyped
  BY DEF InvLate, Typed
<1>2. PICK how \in {"nil", "cancelled"} :
        /\ caller = "running" /\ Return(how)
        /\ how = "nil" => queue[run] = <<>> /\ Busy(run) = {}
  BY DEF Ending, ReturnNil, ReturnCancelled
<1>3. /\ ended' = [ended EXCEPT ![run] = how] /\ caller' = "ready"
      /\ UNCHANGED <<open, run, queue, at, late>>
  BY <1>2 DEF Return, crew, books
<1>4. run \in 1..run /\ run \in Run /\ open /\ late = {}
  <2>1. run \in 1..run /\ 1..run \subseteq Run
    BY <1>1, <1>2 DEF Typed, CallerTyped, CrawlTyped
  <2> QED
    BY <1>1, <1>2, <2>1 DEF Returned
<1>5. ended'[run] = how /\ \A r \in Run : r # run => ended'[r] = ended[r]
  BY <1>1, <1>3, <1>4 DEF CrawlTyped
<1>6. \A r \in Run : Through(r) => Through(r)'
  BY <1>3 DEF Through, Busy
<1>7. ASSUME NEW r \in Run PROVE /\ r \notin 1..run' => ended'[r] = ""
                                 /\ r \in 1..run' => ended'[r] # ""
                                 /\ ended'[r] = "nil" => Through(r)'
  <2>1. /\ r \notin 1..run => ended[r] = ""
        /\ r \in 1..run /\ ended[r] = "" => r = run
        /\ ended[r] = "nil" => Through(r)
    BY <1>1 DEF Returned
  <2>2. CASE r = run
    BY <1>2, <1>3, <1>4, <1>5, <1>6, <2>2 DEF Through
  <2>3. CASE r # run
    BY <1>3, <1>5, <1>6, <2>1, <2>3
  <2> QED
    BY <2>2, <2>3
<1> QED
  BY <1>3, <1>4, <1>7 DEF Returned, LateOnlyAfterCancel

\* A Run starts.
LEMMA StartLate ==
  ASSUME InvLate, Start
  PROVE  Returned' /\ LateOnlyAfterCancel'
<1>1. Typed /\ Returned /\ LateOnlyAfterCancel /\ CrawlTyped
  BY DEF InvLate, Typed
<1>2. /\ caller = "ready" /\ run + 1 \in Run /\ run' = run + 1 /\ caller' = "running"
      /\ at' = [w \in Worker |-> IF w \in Crew[run + 1] THEN "idle" ELSE at[w]]
      /\ UNCHANGED <<open, ended, late>>
  BY DEF Start, books
<1>3. \E s : queue' = [queue EXCEPT ![run + 1] = s]
  BY DEF Start
<1>4. \A r \in Run : r # run + 1 => queue'[r] = queue[r]
  BY <1>1, <1>3 DEF CrawlTyped
<1>5. open /\ late = {}
  BY <1>1, <1>2 DEF Returned
<1>6. run \in Nat /\ run + 1 \notin 1..run /\ 1..(run + 1) = (1..run) \cup {run + 1}
  <2>1. run \in Nat
    BY <1>1 DEF CrawlTyped
  <2> QED
    BY <2>1
<1>7. ASSUME NEW r \in Run PROVE /\ r \notin 1..run' => ended'[r] = ""
                                 /\ r \in 1..run' /\ ended'[r] = "" => r = run'
                                 /\ ended'[r] = "nil" => Through(r)'
  <2>1. /\ r \notin 1..run => ended[r] = ""
        /\ r \in 1..run => ended[r] # ""
        /\ ended[r] = "nil" => Through(r)
    BY <1>1, <1>2 DEF Returned
  <2>2. CASE r = run + 1
    BY <1>2, <1>6, <2>1, <2>2
  <2>3. CASE r # run + 1
    <3>1. \A w \in Crew[r] : at'[w] = at[w] \/ at'[w] = "idle"
      BY <1>2, OwnRun
    <3>2. Through(r) => Through(r)'
      BY <1>4, <2>3, <3>1, StaysThrough
    <3> QED
      BY <1>2, <1>6, <2>1, <2>3, <3>2
  <2> QED
    BY <2>2, <2>3
<1> QED
  BY <1>2, <1>5, <1>7 DEF Returned, LateOnlyAfterCancel

\* The Runs stay as they are.
LEMMA RunsStay ==
  ASSUME InvLate, UNCHANGED <<run, ended, queue, at, late>>,
         ~open' => caller' = "over", late # {} => ~open',
         caller' \in {"sitemap", "search"} => run = 0,
         run = 0 \/ caller' = caller \/ caller = "ready"
  PROVE  Returned' /\ LateOnlyAfterCancel'
<1>1. Typed /\ Returned /\ LateOnlyAfterCancel
  BY DEF InvLate
<1>2. \A r \in Run : Through(r) => Through(r)'
  BY DEF Through, Busy
<1>3. ASSUME NEW r \in Run PROVE /\ r \notin 1..run' => ended'[r] = ""
                                 /\ r \in 1..run' /\ ended'[r] = "" => caller' = "running" /\ r = run'
                                 /\ ended'[r] = "nil" => Through(r)'
  <2>1. /\ r \notin 1..run => ended[r] = ""
        /\ r \in 1..run /\ ended[r] = "" => caller = "running" /\ r = run
        /\ ended[r] = "nil" => Through(r)
    BY <1>1 DEF Returned
  <2>2. run = 0 => r \notin 1..run
    OBVIOUS
  <2> QED
    BY <1>2, <2>1, <2>2
<1> QED
  BY <1>1, <1>3 DEF Returned, LateOnlyAfterCancel

\* Every step keeps what is known of late results.
LEMMA NextLate == InvLate /\ [Next]_vars => InvLate'
<1> SUFFICES ASSUME InvLate, [Next]_vars PROVE InvLate'
  OBVIOUS
<1>1. Typed /\ Returned
  BY DEF InvLate
<1>2. Typed'
  BY <1>1, NextTyped
<1>3. CASE Search
  <2>1. /\ caller = "search" /\ caller' = "over"
        /\ UNCHANGED <<run, ended, queue, at, late, open>>
    BY <1>3 DEF Search, crawl, crew, books
  <2>2. run = 0 /\ (late # {} => ~open)
    BY <1>1, <2>1 DEF Returned
  <2> QED
    BY <1>2, <2>1, <2>2, RunsStay DEF InvLate
<1>4. CASE ReadSitemap
  <2>1. UNCHANGED <<run, ended, queue, at, late, open, caller>>
    BY <1>4 DEF ReadSitemap, crawl, crew, books, caller_
  <2>2. (~open => caller = "over") /\ (late # {} => ~open) /\ (caller \in {"sitemap", "search"} => run = 0)
    BY <1>1 DEF Returned
  <2> QED
    BY <1>2, <2>1, <2>2, RunsStay DEF InvLate
<1>5. CASE NewCrawler
  <2>1. /\ caller = "sitemap" /\ caller' = "ready"
        /\ UNCHANGED <<run, ended, queue, at, late, open>>
    BY <1>5 DEF NewCrawler, crawl, crew, books
  <2>2. run = 0 /\ open /\ (late # {} => ~open)
    BY <1>1, <2>1 DEF Returned
  <2> QED
    BY <1>2, <2>1, <2>2, RunsStay DEF InvLate
<1>6. CASE Start
  BY <1>2, <1>6, StartLate DEF InvLate
<1>7. CASE Ending
  BY <1>2, <1>7, EndingLate DEF InvLate
<1>8. CASE Cancel
  <2>1. UNCHANGED <<run, ended, queue, at, late, open, caller>>
    BY <1>8 DEF Cancel, crew, books, caller_
  <2>2. (~open => caller = "over") /\ (late # {} => ~open) /\ (caller \in {"sitemap", "search"} => run = 0)
    BY <1>1 DEF Returned
  <2> QED
    BY <1>2, <2>1, <2>2, RunsStay DEF InvLate
<1>9. CASE Close
  <2>1. /\ caller = "ready" /\ caller' = "over" /\ open' = FALSE
        /\ UNCHANGED <<run, ended, queue, at, late>>
    BY <1>9 DEF Close, crew, books
  <2> QED
    BY <1>2, <2>1, RunsStay DEF InvLate
<1>10. CASE \E w \in Worker : Step(w)
  BY <1>2, <1>10, StepLate DEF InvLate
<1>11. CASE UNCHANGED vars
  <2>1. UNCHANGED <<run, ended, queue, at, late, open, caller>>
    BY <1>11 DEF vars, crawl, crew, books, caller_
  <2>2. (~open => caller = "over") /\ (late # {} => ~open) /\ (caller \in {"sitemap", "search"} => run = 0)
    BY <1>1 DEF Returned
  <2> QED
    BY <1>2, <2>1, <2>2, RunsStay DEF InvLate
<1> QED
  BY <1>3, <1>4, <1>5, <1>6, <1>7, <1>8, <1>9, <1>10, <1>11 DEF Next

\* No Run is there yet.
LEMMA InitLate == Init => InvLate
<1> SUFFICES ASSUME Init PROVE InvLate
  OBVIOUS
<1>1. /\ caller \in {"sitemap", "search"} /\ open = TRUE /\ run = 0 /\ late = {}
      /\ ended = [r \in Run |-> ""]
  BY DEF Init
<1>2. 1..0 = {}
  OBVIOUS
<1>3. Returned
  BY <1>1, <1>2 DEF Returned
<1> QED
  BY <1>1, <1>3, InitTyped DEF InvLate, LateOnlyAfterCancel

\* A result meets a closed backend only if its Run returned the error of its
\* context: what a Run that returned nil scraped is in the backend or in the log
\* before the caller can close it, and so is what the Runs before it scraped.
THEOREM LateIsCancelled == Spec => []LateOnlyAfterCancel
<1>1. InvLate => LateOnlyAfterCancel
  BY DEF InvLate
<1> QED
  BY <1>1, InitLate, NextLate, PTL DEF Spec
-----------------------------------------------------------------------------
(* Where redirects lead to. *)

\* The pages that one redirect leads to.
Onward(q) == {r.to : r \in Serves[q]} \ {NoPage}

\* The recursion of Within, step by step.
Spreads(p, to) ==
  /\ to \in [0..(MostRequests - 1) -> SUBSET Page]
  /\ to[0] = {p}
  /\ \A n \in 1..(MostRequests - 1) : to[n] = to[n - 1] \cup UNION {Onward(q) : q \in to[n - 1]}

\* Within is what its recursion says.
LEMMA WithinUnfold ==
  ASSUME NEW p \in Page
  PROVE  \E to : Spreads(p, to) /\ Within(p) = to[MostRequests - 1]
<1> DEFINE N == MostRequests - 1
           S == SUBSET Page
           step == [n \in 1..N |-> [s \in S |-> s \cup UNION {Onward(q) : q \in s}]]
<1>1. N \in Nat
  <2>1. MostRequests \in Nat \ {0}
    BY Requests
  <2> QED
    BY <2>1
<1>2. \A q \in Page : Onward(q) \subseteq Page
  BY SessionAssumption DEF Onward, Reply
<1> HIDE DEF N
<1>3. step \in [1..N -> [S -> S]]
  BY <1>2
<1>4. \A n \in 1..N : \A s \in S : step[n][s] = s \cup UNION {Onward(q) : q \in s}
  OBVIOUS
<1>5. {p} \in S
  OBVIOUS
<1> DEFINE base == {p}
<1>6. base \in S
  BY <1>5
<1> HIDE DEF step, S, base
<1>7. PICK g \in [0..N -> S] : g[0] = base /\ \A n \in 1..N : g[n] = step[n][g[n - 1]]
  BY <1>1, <1>3, <1>6, Recursion
<1> USE DEF base
<1>8. \A n \in 1..N : n - 1 \in 0..N /\ n \in 0..N /\ n # 0
  BY <1>1
<1>9. \A n \in 1..N : g[n] = g[n - 1] \cup UNION {Onward(q) : q \in g[n - 1]}
  BY <1>4, <1>7, <1>8
<1> DEFINE Recursive(to) == to = [n \in 0..N |->
             IF n = 0 THEN {p}
             ELSE to[n - 1] \cup UNION {{r.to : r \in Serves[q]} \ {NoPage} : q \in to[n - 1]}]
<1>10. Recursive(g)
  <2> DEFINE h == [n \in 0..N |->
             IF n = 0 THEN {p} ELSE g[n - 1] \cup UNION {Onward(q) : q \in g[n - 1]}]
  <2>1. ASSUME NEW n \in 0..N PROVE g[n] = h[n]
    <3>1. n # 0 => n \in 1..N
      BY <1>1
    <3> QED
      BY <1>7, <1>9, <3>1
  <2>2. g = h
    BY <1>7, <2>1
  <2> QED
    BY <2>2 DEF Onward
<1> DEFINE f == CHOOSE f : Recursive(f)
<1>11. Recursive(f)
  BY <1>10
<1>12. Within(p) = f[N]
  BY DEF Within, N
<1> HIDE DEF f
<1>13. f[0] = {p} /\ \A n \in 1..N : f[n] = f[n - 1] \cup UNION {Onward(q) : q \in f[n - 1]}
  <2>1. 0 \in 0..N
    BY <1>1
  <2> QED
    BY <1>8, <1>11, <2>1 DEF Onward
<1> DEFINE Good == {n \in 0..N : f[n] = g[n]}
<1>14. 0 \in Good
  <2>1. 0 \in 0..N
    BY <1>1
  <2>2. f[0] = g[0]
    BY <1>7, <1>13
  <2> QED
    BY <2>1, <2>2
<1>15. ASSUME NEW n \in 0..N, n \in Good, n < N PROVE n + 1 \in Good
  <2>1. n + 1 \in 1..N /\ n + 1 \in 0..N /\ (n + 1) - 1 = n
    BY <1>1, <1>15
  <2> QED
    BY <1>9, <1>13, <1>15, <2>1
<1> HIDE DEF Good
<1>16. 0..N \subseteq Good
  BY <1>1, <1>14, <1>15, Induction
<1>17. N \in 0..N
  BY <1>1
<1>18. Within(p) = g[N]
  BY <1>12, <1>16, <1>17 DEF Good
<1>19. Spreads(p, g)
  BY <1>7, <1>9 DEF Spreads, N, S
<1> QED
  BY <1>18, <1>19 DEF N

\* The reply a fetch ends with is one for a page within reach of redirects.
LEMMA EndsWithin ==
  ASSUME NEW p \in Page, NEW end \in Ends[1][p]
  PROVE  end.from \in Within(p)
<1> DEFINE K == MostRequests
<1>1. K \in Nat \ {0} /\ MaxRedirects \in Int /\ K >= MaxRedirects
  BY Requests
<1>2. PICK to : Spreads(p, to) /\ Within(p) = to[K - 1]
  BY WithinUnfold
<1> HIDE DEF K
<1>3. /\ to \in [0..(K - 1) -> SUBSET Page] /\ to[0] = {p}
      /\ \A n \in 1..(K - 1) : to[n] = to[n - 1] \cup UNION {Onward(q) : q \in to[n - 1]}
  BY <1>2 DEF Spreads, K
<1> DEFINE Good == {m \in 0..(K - 1) : /\ to[(K - 1) - m] \subseteq to[K - 1]
                                       /\ \A q \in to[(K - 1) - m] : \A e \in Ends[K - m][q] :
                                            e.from \in to[K - 1]}
<1>4. ASSUME NEW n \in 1..K, NEW q \in Page, NEW e \in Ends[n][q]
      PROVE  \/ e.from = q
             \/ n < MaxRedirects /\ \E t \in Onward(q) : e \in Ends[n + 1][t]
  <2>1. Ends[n] = Stage(n, Ends[n + 1])
    BY EndsUnfold DEF K
  <2>2. e \in Stage(n, Ends[n + 1])[q]
    BY <2>1
  <2>3. \/ \E r \in Serves[q] : e = [from |-> q, reply |-> r]
        \/ \E r \in Redirects(q) :
             e \in IF n >= MaxRedirects THEN {[from |-> q, reply |-> NoReply]} ELSE Ends[n + 1][r.to]
    BY <2>2 DEF Stage
  <2>4. ASSUME NEW r \in Redirects(q),
               e \in IF n >= MaxRedirects THEN {[from |-> q, reply |-> NoReply]} ELSE Ends[n + 1][r.to]
        PROVE  \/ e.from = q
               \/ n < MaxRedirects /\ \E t \in Onward(q) : e \in Ends[n + 1][t]
    <3>1. r.to \in Onward(q)
      BY DEF Redirects, Onward
    <3>2. CASE n >= MaxRedirects
      BY <2>4, <3>2
    <3>3. CASE ~(n >= MaxRedirects)
      <4>1. n < MaxRedirects
        BY <1>1, <3>3
      <4> QED
        BY <2>4, <3>1, <3>3, <4>1
    <3> QED
      BY <3>2, <3>3
  <2> QED
    BY <2>3, <2>4
<1>5. 0 \in Good
  <2>1. K \in 1..K /\ K - 0 = K /\ (K - 1) - 0 = K - 1 /\ 0 \in 0..(K - 1) /\ ~(K < MaxRedirects)
        /\ K - 1 \in 0..(K - 1)
    BY <1>1
  <2>2. to[K - 1] \subseteq Page
    BY <1>3, <2>1
  <2>3. \A q \in to[K - 1] : \A e \in Ends[K][q] : e.from \in to[K - 1]
    BY <1>4, <2>1, <2>2
  <2> QED
    BY <2>1, <2>3
<1>6. ASSUME NEW m \in 0..(K - 1), m \in Good, m < K - 1 PROVE m + 1 \in Good
  <2> DEFINE n == K - (m + 1)
  <2>1. /\ m + 1 \in 0..(K - 1) /\ n \in 1..K /\ n \in 1..(K - 1) /\ n - 1 = (K - 1) - (m + 1)
        /\ n = (K - 1) - m /\ n + 1 = K - m /\ n - 1 \in 0..(K - 1)
    BY <1>1, <1>6
  <2>2. to[n] \subseteq to[K - 1] /\ \A q \in to[n] : \A e \in Ends[n + 1][q] : e.from \in to[K - 1]
    BY <1>6, <2>1
  <2> HIDE DEF n
  <2>3. to[n] = to[n - 1] \cup UNION {Onward(q) : q \in to[n - 1]}
    BY <1>3, <2>1
  <2>4. to[n - 1] \subseteq Page
    BY <1>3, <2>1
  <2>5. ASSUME NEW q \in to[n - 1], NEW e \in Ends[n][q] PROVE e.from \in to[K - 1]
    <3>1. q \in to[K - 1] /\ q \in Page /\ Onward(q) \subseteq to[n]
      BY <2>2, <2>3, <2>4
    <3> QED
      BY <1>4, <2>1, <2>2, <3>1
  <2>6. to[n - 1] \subseteq to[K - 1]
    BY <2>2, <2>3
  <2> QED
    BY <2>1, <2>5, <2>6 DEF n
<1> HIDE DEF Good
<1>7. K - 1 \in Nat /\ K - 1 \in 0..(K - 1) /\ (K - 1) - (K - 1) = 0 /\ K - (K - 1) = 1
  BY <1>1
<1>8. 0..(K - 1) \subseteq Good
  <2> DEFINE L == K - 1
  <2>1. L \in Nat /\ 0 \in Good
    BY <1>5, <1>7
  <2>2. \A m \in 0..L : m \in Good /\ m < L => m + 1 \in Good
    BY <1>6
  <2> HIDE DEF L
  <2>3. 0..L \subseteq Good
    BY <2>1, <2>2, Induction
  <2> QED
    BY <2>3 DEF L
<1>9. p \in to[0] /\ K - 1 \in Good
  BY <1>3, <1>7, <1>8
<1> QED
  BY <1>2, <1>7, <1>9 DEF Good

\* A page is within reach of itself.
LEMMA SelfWithin ==
  ASSUME NEW p \in Page
  PROVE  p \in Within(p)
<1> DEFINE N == MostRequests - 1
<1>1. N \in Nat
  <2>1. MostRequests \in Nat \ {0}
    BY Requests
  <2> QED
    BY <2>1
<1>2. PICK to : Spreads(p, to) /\ Within(p) = to[N]
  BY WithinUnfold
<1> HIDE DEF N
<1>3. p \in to[0] /\ \A n \in 1..N : to[n - 1] \subseteq to[n]
  BY <1>2 DEF Spreads, N
<1> DEFINE Good == {n \in 0..N : p \in to[n]}
<1>4. 0 \in Good
  BY <1>1, <1>3
<1>5. ASSUME NEW n \in 0..N, n \in Good, n < N PROVE n + 1 \in Good
  <2>1. n + 1 \in 1..N /\ n + 1 \in 0..N /\ (n + 1) - 1 = n
    BY <1>1, <1>5
  <2> QED
    BY <1>3, <1>5, <2>1
<1> HIDE DEF Good
<1>6. 0..N \subseteq Good /\ N \in 0..N
  BY <1>1, <1>4, <1>5, Induction
<1> QED
  BY <1>2, <1>6 DEF Good
-----------------------------------------------------------------------------
(* Where pages and contents come from. *)

\* The results whose Save has returned.
Had == DOMAIN stored \cup DOMAIN lost

\* A page was given, or a page that was read to its end links to it.
Origin(p) == p \in given \/ \E r \in Had : r.error = "" /\ r.html /\ p \in LinksOf(r)

Reach == [p \in Page |-> Within(p)]

\* A result is kept under a visited page, and its content is within reach.
Near(r) == r.url \in visited /\ r.from \in Reach[r.url]

KnownJob == [page : visited, depth : 0..MaxDepth]

\* What is known of a worker's work by the place the worker is at.
WorkerTraced(w) ==
  /\ at[w] \in HasJob => job[w].page \in visited
  /\ at[w] \in HasResult => Near(result[w])
  /\ at[w] \in {"record", "scan", "mark"} => result[w] \in Had
  /\ at[w] \in {"scan", "mark"} => result[w].error = "" /\ result[w].html
  /\ at[w] = "mark" => links[w] \subseteq LinksOf(result[w])

Tracing ==
  /\ \A p \in visited : Origin(p)
  /\ \A r \in Had : Near(r)
  /\ \A r \in Run : queue[r] \in Seq(KnownJob)
  /\ \A w \in Worker : WorkerTraced(w)

InvTraced == Typed /\ Tracing

\* Nothing that was seen, given or had is forgotten.
Grows == visited \subseteq visited' /\ given \subseteq given' /\ Had \subseteq Had'

\* What was traced remains so.
LEMMA StayTraced ==
  ASSUME Grows
  PROVE  /\ \A p : Origin(p) => Origin(p)'
         /\ \A r : Near(r) => Near(r)'
         /\ \A s : s \in Seq(KnownJob) => s \in Seq(KnownJob')
<1>1. visited \subseteq visited' /\ given \subseteq given' /\ Had \subseteq Had'
  BY DEF Grows
<1>2. ASSUME NEW p, Origin(p) PROVE Origin(p)'
  BY <1>1, <1>2 DEF Origin, LinksOf
<1>3. ASSUME NEW r, Near(r) PROVE Near(r)'
  BY <1>1, <1>3 DEF Near
<1>4. KnownJob \subseteq KnownJob'
  BY <1>1 DEF KnownJob
<1>5. ASSUME NEW s, s \in Seq(KnownJob) PROVE s \in Seq(KnownJob')
  BY <1>4, <1>5
<1> QED
  BY <1>2, <1>3, <1>5

\* A worker that does not move keeps what it traces.
LEMMA WorkerStays ==
  ASSUME NEW w \in Worker, Grows, WorkerTraced(w),
         at'[w] = at[w], job'[w] = job[w], result'[w] = result[w], links'[w] = links[w]
  PROVE  WorkerTraced(w)'
<1>1. Near(result[w]) => Near(result[w])'
  BY DEF Grows, Near
<1>2. visited \subseteq visited' /\ Had \subseteq Had'
  BY DEF Grows
<1> QED
  BY <1>1, <1>2 DEF WorkerTraced, LinksOf

\* One worker moves and leaves everything traced.
LEMMA MovesTraced ==
  ASSUME InvTraced, Grows, NEW w \in Worker,
         \A p \in visited' : p \in visited \/ Origin(p)',
         \A r \in Had' : r \in Had \/ Near(r)',
         \A r \in Run : queue'[r] = queue[r] \/ queue'[r] \in Seq(KnownJob'),
         \A v \in Worker : v # w => /\ at'[v] = at[v] /\ job'[v] = job[v]
                                    /\ result'[v] = result[v] /\ links'[v] = links[v],
         WorkerTraced(w)'
  PROVE  Tracing'
<1>1. /\ \A p : Origin(p) => Origin(p)'
      /\ \A r : Near(r) => Near(r)'
      /\ \A s : s \in Seq(KnownJob) => s \in Seq(KnownJob')
  BY StayTraced
<1>2. Tracing
  BY DEF InvTraced
<1>3. \A p \in visited' : Origin(p)'
  BY <1>1, <1>2 DEF Tracing
<1>4. \A r \in Had' : Near(r)'
  BY <1>1, <1>2 DEF Tracing
<1>5. \A r \in Run : queue'[r] \in Seq(KnownJob')
  BY <1>1, <1>2 DEF Tracing
<1>6. ASSUME NEW v \in Worker PROVE WorkerTraced(v)'
  <2>1. WorkerTraced(v)
    BY <1>2 DEF Tracing
  <2>2. v = w => WorkerTraced(v)'
    OBVIOUS
  <2>3. v # w => WorkerTraced(v)'
    BY <2>1, WorkerStays
  <2> QED
    BY <2>2, <2>3
<1> QED
  BY <1>3, <1>4, <1>5, <1>6 DEF Tracing

\* The other workers are left alone.
LEMMA OneMoves ==
  ASSUME Typed, NEW w \in Worker,
         NEW a, NEW j, NEW r, NEW k,
         at' = [at EXCEPT ![w] = a], job' = [job EXCEPT ![w] = j],
         result' = [result EXCEPT ![w] = r], links' = [links EXCEPT ![w] = k]
  PROVE  /\ at'[w] = a /\ job'[w] = j /\ result'[w] = r /\ links'[w] = k
         /\ \A v \in Worker : v # w => /\ at'[v] = at[v] /\ job'[v] = job[v]
                                       /\ result'[v] = result[v] /\ links'[v] = links[v]
<1>1. CrewTyped
  BY DEF Typed
<1> QED
  BY <1>1 DEF CrewTyped

\* A worker is done with its job.
LEMMA DoneTraced ==
  ASSUME InvTraced, Grows, NEW w \in Worker, Done(w),
         \A p \in visited' : p \in visited \/ Origin(p)',
         \A r \in Had' : r \in Had \/ Near(r)',
         \A r \in Run : queue'[r] = queue[r] \/ queue'[r] \in Seq(KnownJob')
  PROVE  Tracing'
<1>1. /\ at' = [at EXCEPT ![w] = "idle"] /\ job' = [job EXCEPT ![w] = Nothing]
      /\ result' = [result EXCEPT ![w] = Nothing] /\ links' = [links EXCEPT ![w] = {}]
  BY DEF Done, Goto
<1>2. /\ at'[w] = "idle"
      /\ \A v \in Worker : v # w => /\ at'[v] = at[v] /\ job'[v] = job[v]
                                    /\ result'[v] = result[v] /\ links'[v] = links[v]
  BY <1>1, OneMoves DEF InvTraced
<1>3. WorkerTraced(w)'
  BY <1>2 DEF WorkerTraced, HasJob, HasResult
<1> QED
  BY <1>2, <1>3, MovesTraced

\* While nothing is seen, given or had, nothing is to be traced.
LEMMA NothingNew ==
  ASSUME UNCHANGED <<visited, given, stored, lost>>
  PROVE  /\ Grows
         /\ \A p \in visited' : p \in visited \/ Origin(p)'
         /\ \A r \in Had' : r \in Had \/ Near(r)'
BY DEF Grows, Had

\* A worker takes a job.
LEMMA TakeTraced ==
  ASSUME InvTraced, NEW w \in Worker, Take(w)
  PROVE  Tracing'
<1> DEFINE q == queue[RunOf(w)]
           j == Head(q)
<1>1. /\ at[w] = "idle" /\ q # <<>>
      /\ job' = [job EXCEPT ![w] = j]
      /\ queue' = [queue EXCEPT ![RunOf(w)] = Tail(q)]
      /\ at' = [at EXCEPT ![w] = "limit"]
      /\ UNCHANGED <<visited, result, links>> /\ UNCHANGED <<given, stored, lost>>
  BY DEF Take, Goto, books, Others
<1>2. Typed /\ Tracing /\ RunOf(w) \in Run /\ queue \in [Run -> Seq(Job)]
  BY OwnRun DEF InvTraced, Typed, CrawlTyped
<1>3. q \in Seq(KnownJob)
  BY <1>2 DEF Tracing
<1> HIDE DEF q
<1>4. j \in KnownJob /\ Tail(q) \in Seq(KnownJob)
  BY <1>1, <1>3, HeadTailProperties
<1> HIDE DEF j
<1>5. \A r \in Run : queue'[r] = queue[r] \/ queue'[r] \in Seq(KnownJob')
  <2>1. KnownJob' = KnownJob
    BY <1>1 DEF KnownJob
  <2>2. \A r \in Run : queue'[r] = queue[r] \/ queue'[r] = Tail(q)
    BY <1>1, <1>2
  <2> QED
    BY <1>4, <2>1, <2>2
<1>6. CrewTyped
  BY <1>2 DEF Typed
<1>7. /\ at'[w] = "limit" /\ job'[w] = j
      /\ \A v \in Worker : v # w => /\ at'[v] = at[v] /\ job'[v] = job[v]
                                    /\ result'[v] = result[v] /\ links'[v] = links[v]
  BY <1>1, <1>6 DEF CrewTyped
<1>8. WorkerTraced(w)'
  <2>1. "limit" \notin HasResult /\ j.page \in visited
    BY <1>4 DEF HasResult, KnownJob
  <2> QED
    <3>1. job'[w].page \in visited' /\ at'[w] = "limit"
      BY <1>1, <1>7, <2>1
    <3> QED
      BY <2>1, <3>1 DEF WorkerTraced
<1>9. /\ Grows
      /\ \A p \in visited' : p \in visited \/ Origin(p)'
      /\ \A r \in Had' : r \in Had \/ Near(r)'
  BY <1>1, NothingNew
<1> QED
  BY <1>5, <1>7, <1>8, <1>9, MovesTraced

\* A fetch returns.
LEMMA FetchedTraced ==
  ASSUME InvTraced, NEW w \in Worker, Fetched(w)
  PROVE  Tracing'
<1> DEFINE p == job[w].page
<1>1. /\ at[w] = "fetch" /\ at' = [at EXCEPT ![w] = "save"]
      /\ UNCHANGED <<visited, queue, job, links>> /\ UNCHANGED <<given, stored, lost>>
  BY DEF Fetched, Goto, books, Others
<1>2. Typed /\ Tracing
  BY DEF InvTraced
<1>3. PICK end \in IF Cut(w) THEN {[from |-> p, reply |-> NoReply]} ELSE Ends[1][p] :
        result' = [result EXCEPT ![w] = ResultOf(p, end)]
  BY DEF Fetched
<1>4. job[w] \in Job /\ p \in visited
  <2>1. at[w] \in HasJob
    BY <1>1 DEF HasJob, Place
  <2> QED
    BY <1>2, <2>1 DEF Typed, WorkerTyped, Tracing, WorkerTraced
<1>5. p \in Page
  BY <1>4 DEF Job
<1> DEFINE r == ResultOf(p, end)
<1>6. Near(r)
  <2>1. end.from \in Within(p)
    BY <1>3, <1>5, EndsWithin, SelfWithin
  <2>2. r.url = p /\ r.from = end.from
    BY DEF ResultOf
  <2> QED
    BY <1>4, <1>5, <2>1, <2>2 DEF Near, Reach
<1> HIDE DEF p, r
<1>7. CrewTyped
  BY <1>2 DEF Typed
<1>8. result' = [result EXCEPT ![w] = r]
  BY <1>3 DEF r
<1>9. /\ at'[w] = "save" /\ job'[w] = job[w] /\ result'[w] = r
      /\ \A v \in Worker : v # w => /\ at'[v] = at[v] /\ job'[v] = job[v]
                                    /\ result'[v] = result[v] /\ links'[v] = links[v]
  BY <1>1, <1>7, <1>8 DEF CrewTyped
<1>10. WorkerTraced(w)'
  BY <1>1, <1>4, <1>6, <1>9 DEF WorkerTraced, HasResult, Near, p
<1>11. /\ Grows
       /\ \A x \in visited' : x \in visited \/ Origin(x)'
       /\ \A x \in Had' : x \in Had \/ Near(x)'
  BY <1>1, NothingNew
<1> QED
  BY <1>1, <1>9, <1>10, <1>11, MovesTraced

\* A worker keeps its job, its result and its links, and nothing is seen.
LEMMA GoesTraced ==
  ASSUME InvTraced, NEW w \in Worker, NEW a \in Place, Goto(w, a), Had \subseteq Had',
         \A r \in Had' : r \in Had \/ Near(r)',
         UNCHANGED <<visited, given, queue, job, result, links>>,
         a \in HasJob => at[w] \in HasJob,
         a \in HasResult => at[w] \in HasResult,
         a \in {"record", "scan", "mark"} => result[w] \in Had',
         a \in {"scan", "mark"} => result[w].error = "" /\ result[w].html,
         a # "mark"
  PROVE  Tracing'
<1>1. Typed /\ Tracing
  BY DEF InvTraced
<1>2. CrewTyped
  BY <1>1 DEF Typed
<1>3. /\ at'[w] = a /\ job'[w] = job[w] /\ result'[w] = result[w]
      /\ \A v \in Worker : v # w => /\ at'[v] = at[v] /\ job'[v] = job[v]
                                    /\ result'[v] = result[v] /\ links'[v] = links[v]
  BY <1>2 DEF CrewTyped, Goto
<1>4. WorkerTraced(w)'
  BY <1>1, <1>3 DEF Tracing, WorkerTraced, Near
<1>5. Grows
  BY DEF Grows
<1> QED
  BY <1>3, <1>4, <1>5, MovesTraced

\* A result is saved, or its Save fails.
LEMMA SaveTraced ==
  ASSUME InvTraced, NEW w \in Worker, Save(w)
  PROVE  Tracing'
<1>1. /\ at[w] = "save" /\ Goto(w, "record")
      /\ UNCHANGED <<visited, given, queue, job, result, links>>
  BY DEF Save, Others
<1>2. Had' = Had \cup {result[w]}
  <2>1. \/ stored' = OneMore(stored, result[w]) /\ lost' = lost
        \/ lost' = OneMore(lost, result[w]) /\ stored' = stored
    BY DEF Save
  <2>2. DOMAIN OneMore(stored, result[w]) = DOMAIN stored \cup {result[w]}
        /\ DOMAIN OneMore(lost, result[w]) = DOMAIN lost \cup {result[w]}
    BY OneMoreIn
  <2> QED
    BY <2>1, <2>2 DEF Had
<1>3. "save" \in HasResult /\ "save" \in HasJob /\ "record" \in Place
  BY DEF HasJob, HasResult, Place
<1>4. Near(result[w])
  BY <1>1, <1>3 DEF InvTraced, Tracing, WorkerTraced
<1>5. \A r \in Had' : r \in Had \/ Near(r)'
  BY <1>1, <1>2, <1>4 DEF Near
<1> QED
  BY <1>1, <1>2, <1>3, <1>5, GoesTraced

\* A result is counted.
LEMMA RecordTraced ==
  ASSUME InvTraced, NEW w \in Worker, Record(w)
  PROVE  Tracing'
<1>1. /\ at[w] = "record" /\ UNCHANGED <<visited, given, queue, stored, lost>>
  BY DEF Record, Others
<1>2. /\ Grows
      /\ \A p \in visited' : p \in visited \/ Origin(p)'
      /\ \A r \in Had' : r \in Had \/ Near(r)'
  BY <1>1, NothingNew
<1>3. CASE Expands(job[w], result[w])
  <2>1. Goto(w, "scan") /\ UNCHANGED <<job, result, links>>
    BY <1>3 DEF Record
  <2>2. result[w].error = "" /\ result[w].html
    BY <1>3 DEF Expands
  <2>3. "record" \in HasResult /\ "record" \in HasJob /\ "scan" \in Place
    BY DEF HasJob, HasResult, Place
  <2>4. result[w] \in Had /\ Had' = Had
    BY <1>1 DEF InvTraced, Tracing, WorkerTraced, Had
  <2> QED
    BY <1>1, <1>2, <2>1, <2>2, <2>3, <2>4, GoesTraced
<1>4. CASE ~Expands(job[w], result[w])
  <2>1. Done(w)
    BY <1>4 DEF Record
  <2>2. \A r \in Run : queue'[r] = queue[r]
    BY <1>1
  <2> QED
    BY <1>2, <2>1, <2>2, DoneTraced
<1> QED
  BY <1>3, <1>4

\* The links of a page are looked up.
LEMMA ScanTraced ==
  ASSUME InvTraced, NEW w \in Worker, Scan(w)
  PROVE  Tracing'
<1> DEFINE k == (LinksOf(result[w]) \cap InScope) \ visited
<1>1. /\ at[w] = "scan" /\ at' = [at EXCEPT ![w] = "mark"] /\ links' = [links EXCEPT ![w] = k]
      /\ UNCHANGED <<visited, queue, job, result, given, stored, lost>>
  BY DEF Scan, Goto, books, Others
<1>2. k \subseteq LinksOf(result[w])
  OBVIOUS
<1> HIDE DEF k
<1>3. Typed /\ Tracing
  BY DEF InvTraced
<1>4. CrewTyped
  BY <1>3 DEF Typed
<1>5. /\ at'[w] = "mark" /\ job'[w] = job[w] /\ result'[w] = result[w] /\ links'[w] = k
      /\ \A v \in Worker : v # w => /\ at'[v] = at[v] /\ job'[v] = job[v]
                                    /\ result'[v] = result[v] /\ links'[v] = links[v]
  BY <1>1, <1>4 DEF CrewTyped
<1>6. WorkerTraced(w)'
  <2>1. WorkerTraced(w) /\ at[w] \in HasJob /\ at[w] \in HasResult
    BY <1>1, <1>3 DEF Tracing, HasJob, HasResult, Place
  <2>2. Had' = Had
    BY <1>1 DEF Had
  <2> QED
    <3>1. /\ job[w].page \in visited /\ Near(result[w]) /\ result[w] \in Had
          /\ result[w].error = "" /\ result[w].html
      BY <1>1, <2>1 DEF WorkerTraced
    <3>2. Near(result[w])'
      BY <1>1, <3>1 DEF Near
    <3>3. (links[w] \subseteq LinksOf(result[w]))'
      BY <1>1, <1>2, <1>5 DEF LinksOf
    <3> QED
      BY <1>1, <1>5, <2>2, <3>1, <3>2, <3>3 DEF WorkerTraced
<1>7. /\ Grows
      /\ \A p \in visited' : p \in visited \/ Origin(p)'
      /\ \A r \in Had' : r \in Had \/ Near(r)'
  BY <1>1, NothingNew
<1> QED
  BY <1>1, <1>5, <1>6, <1>7, MovesTraced

\* The links of a page are marked; nothing or all of them is queued.
LEMMA MarkTraced ==
  ASSUME InvTraced, NEW w \in Worker, Mark(w) \/ MarkCut(w)
  PROVE  Tracing'
<1> DEFINE T == {[page |-> p, depth |-> job[w].depth + 1] : p \in links[w]}
           q == queue[RunOf(w)]
           f == [p \in links[w] |-> [page |-> p, depth |-> job[w].depth + 1]]
<1>1. /\ at[w] = "mark" /\ visited' = visited \cup links[w]
      /\ queue' = queue \/ queue' = [queue EXCEPT ![RunOf(w)] = q \o SetToSeq(T)]
      /\ Done(w) /\ UNCHANGED <<given, stored, lost>>
  BY DEF Mark, MarkCut, books, Others
<1>2. Typed /\ Tracing /\ WorkerTraced(w) /\ WorkerTyped(w) /\ RunOf(w) \in Run
      /\ queue \in [Run -> Seq(Job)]
  BY OwnRun DEF InvTraced, Typed, Tracing, CrawlTyped
<1>3. job[w] \in Job /\ job[w].depth < MaxDepth /\ IsFiniteSet(links[w])
  BY <1>1, <1>2 DEF WorkerTyped, HasJob, Place
<1>4. Had' = Had /\ Grows
  BY <1>1 DEF Had, Grows
<1>5. \A p \in visited' : p \in visited \/ Origin(p)'
  <2>1. result[w] \in Had /\ result[w].error = "" /\ result[w].html /\ links[w] \subseteq LinksOf(result[w])
    BY <1>1, <1>2 DEF WorkerTraced
  <2>2. \A p \in links[w] : Origin(p)
    BY <2>1 DEF Origin
  <2>3. \A p : Origin(p) => Origin(p)'
    BY <1>4, StayTraced
  <2> QED
    BY <1>1, <2>2, <2>3
<1>6. T \subseteq KnownJob'
  <2>1. job[w].depth + 1 \in 0..MaxDepth
    BY <1>3, SessionAssumption DEF Job
  <2> QED
    BY <1>1, <2>1 DEF KnownJob
<1>7. IsFiniteSet(T)
  <2>1. T = {f[p] : p \in links[w]}
    OBVIOUS
  <2> HIDE DEF f, T
  <2> QED
    BY <1>3, <2>1, FiniteImage
<1>8. q \in Seq(KnownJob')
  <2>1. q \in Seq(KnownJob)
    BY <1>2 DEF Tracing
  <2> QED
    BY <1>4, <2>1, StayTraced
<1> HIDE DEF T, q, f
<1>9. SetToSeq(T) \in Seq(KnownJob')
  <2>1. SetToSeq(T) \in Seq(T)
    BY <1>7, Listed
  <2> QED
    BY <1>6, <2>1
<1>10. q \o SetToSeq(T) \in Seq(KnownJob')
  BY <1>8, <1>9, ConcatProperties
<1>11. \A r \in Run : queue'[r] = queue[r] \/ queue'[r] = q \o SetToSeq(T)
  BY <1>1, <1>2
<1>12. \A r \in Had' : r \in Had \/ Near(r)'
  BY <1>4
<1> QED
  BY <1>1, <1>4, <1>5, <1>10, <1>11, <1>12, DoneTraced

\* The caller does something that neither sees nor queues a page.
LEMMA AsideTraced ==
  ASSUME InvTraced, UNCHANGED <<visited, given, queue, at, job, result, links, stored, lost>>
  PROVE  Tracing'
<1>1. Tracing
  BY DEF InvTraced
<1>2. Grows /\ Had' = Had /\ KnownJob' = KnownJob
  BY DEF Grows, Had, KnownJob
<1>3. \A w \in Worker : WorkerTraced(w)'
  BY <1>1, <1>2, WorkerStays DEF Tracing
<1>4. /\ \A p : Origin(p) => Origin(p)'
      /\ \A r : Near(r) => Near(r)'
  BY <1>2, StayTraced
<1> QED
  BY <1>1, <1>2, <1>3, <1>4 DEF Tracing

\* A Run starts.
LEMMA StartTraced ==
  ASSUME InvTraced, Start
  PROVE  Tracing'
<1>1. /\ run + 1 \in Run
      /\ at' = [w \in Worker |-> IF w \in Crew[run + 1] THEN "idle" ELSE at[w]]
      /\ UNCHANGED <<job, result, links, stored, lost>>
  BY DEF Start, books
<1>2. PICK seeds \in IF run = 0 THEN {list} ELSE SeedLists :
        /\ visited' = visited \cup ToSet(Fresh(seeds))
        /\ queue' = [queue EXCEPT ![run + 1] =
             [i \in DOMAIN Fresh(seeds) |-> [page |-> Fresh(seeds)[i], depth |-> 0]]]
        /\ given' = given \cup ToSet(seeds)
  BY DEF Start
<1>3. Tracing /\ CallerTyped /\ CrawlTyped
  BY DEF InvTraced, Typed
<1>4. seeds \in Seq(Page)
  BY <1>2, <1>3, SessionAssumption DEF CallerTyped
<1> DEFINE s == Fresh(seeds)
           q == [i \in DOMAIN s |-> [page |-> s[i], depth |-> 0]]
<1>5. s \in Seq(ToSet(seeds))
  <2>1. s \in Seq(InScope \cap ToSet(seeds))
    BY <1>4, FreshOnes
  <2>2. \A A, B : s \in Seq(A \cap B) => s \in Seq(B)
    OBVIOUS
  <2> QED
    BY <2>1, <2>2
<1>6. /\ visited' = visited \cup ToSet(s) /\ queue' = [queue EXCEPT ![run + 1] = q]
      /\ ToSet(s) \subseteq ToSet(seeds)
  BY <1>2, <1>5, Elements
<1> HIDE DEF s
<1>7. Grows /\ Had' = Had
  BY <1>1, <1>2, <1>6 DEF Grows, Had
<1>8. q \in Seq(KnownJob')
  <2>1. DOMAIN s = 1..Len(s) /\ Len(s) \in Nat /\ \A i \in 1..Len(s) : s[i] \in ToSet(s)
    BY <1>5, LenProperties DEF ToSet
  <2>2. 0 \in 0..MaxDepth
    BY SessionAssumption
  <2>3. \A i \in 1..Len(s) : [page |-> s[i], depth |-> 0] \in KnownJob'
    BY <1>6, <2>1, <2>2 DEF KnownJob
  <2> QED
    BY <2>1, <2>3
<1> HIDE DEF q
<1>9. \A p \in visited' : Origin(p)'
  <2>1. \A p \in ToSet(s) : Origin(p)'
    BY <1>2, <1>6 DEF Origin
  <2>2. \A p : Origin(p) => Origin(p)'
    BY <1>7, StayTraced
  <2> QED
    BY <1>3, <1>6, <2>1, <2>2 DEF Tracing
<1>10. \A r \in Had' : Near(r)'
  BY <1>3, <1>7, StayTraced DEF Tracing
<1>11. \A r \in Run : queue'[r] \in Seq(KnownJob')
  <2>1. \A r \in Run : queue'[r] = queue[r] \/ queue'[r] = q
    BY <1>3, <1>6 DEF CrawlTyped
  <2>2. \A r \in Run : queue[r] \in Seq(KnownJob')
    BY <1>3, <1>7, StayTraced DEF Tracing
  <2> QED
    BY <1>8, <2>1, <2>2
<1>12. ASSUME NEW w \in Worker PROVE WorkerTraced(w)'
  <2>1. WorkerTraced(w)
    BY <1>3 DEF Tracing
  <2>2. CASE at'[w] = "idle"
    BY <2>2 DEF WorkerTraced, HasJob, HasResult
  <2>3. CASE at'[w] = at[w]
    BY <1>1, <1>7, <2>1, <2>3, WorkerStays
  <2> QED
    BY <1>1, <2>2, <2>3
<1> QED
  BY <1>9, <1>10, <1>11, <1>12 DEF Tracing

\* Every step leaves everything traced.
LEMMA NextTraced == InvTraced /\ [Next]_vars => InvTraced'
<1> SUFFICES ASSUME InvTraced, [Next]_vars PROVE Tracing'
  BY NextTyped DEF InvTraced
<1> DEFINE Same == UNCHANGED <<visited, given, queue, at, job, result, links, stored, lost>>
<1>1. CASE Search \/ ReadSitemap \/ NewCrawler \/ Ending \/ Cancel \/ Close
  <2>1. Search => Same
    BY DEF Search, crawl, crew, books
  <2>2. ReadSitemap => Same
    BY DEF ReadSitemap, crawl, crew, books
  <2>3. NewCrawler => Same
    BY DEF NewCrawler, crawl, crew, books
  <2>4. Ending => Same
    BY DEF Ending, ReturnNil, ReturnCancelled, Return, crew, books
  <2>5. Cancel => Same
    BY DEF Cancel, crew, books
  <2>6. Close => Same
    BY DEF Close, crew, books
  <2> QED
    BY <1>1, <2>1, <2>2, <2>3, <2>4, <2>5, <2>6, AsideTraced
<1>2. CASE Start
  BY <1>2, StartTraced
<1>3. CASE UNCHANGED vars
  <2>1. Same
    BY <1>3 DEF vars, crawl, crew, books
  <2> QED
    BY <2>1, AsideTraced
<1>4. ASSUME NEW w \in Worker, Step(w) PROVE Tracing'
  <2>1. CASE Take(w)
    BY <2>1, TakeTraced
  <2>2. CASE Exit(w)
    <3>1. Goto(w, "gone") /\ UNCHANGED <<visited, given, queue, job, result, links, stored, lost>>
      BY <2>2 DEF Exit, Others, books
    <3>2. "gone" \in Place /\ "gone" \notin HasJob /\ "gone" \notin HasResult
          /\ "gone" \notin {"record", "scan", "mark"}
      BY DEF Place, HasJob, HasResult
    <3>3. Had' = Had /\ "gone" # "mark"
      BY <3>1 DEF Had
    <3> QED
      BY <3>1, <3>2, <3>3, GoesTraced
  <2>3. CASE Pass(w)
    <3>1. at[w] = "limit" /\ Goto(w, "fetch")
          /\ UNCHANGED <<visited, given, queue, job, result, links, stored, lost>>
      BY <2>3 DEF Pass, Others, books
    <3>2. "fetch" \in Place /\ "limit" \in HasJob /\ "fetch" \notin HasResult
          /\ "fetch" \notin {"record", "scan", "mark"}
      BY DEF Place, HasJob, HasResult
    <3>3. Had' = Had /\ "fetch" # "mark"
      BY <3>1 DEF Had
    <3> QED
      BY <3>1, <3>2, <3>3, GoesTraced
  <2>4. CASE PassFails(w)
    <3>1. Done(w) /\ UNCHANGED <<visited, given, queue, stored, lost>>
      BY <2>4 DEF PassFails, Others, books
    <3> QED
      BY <3>1, NothingNew, DoneTraced
  <2>5. CASE Fetched(w)
    BY <2>5, FetchedTraced
  <2>6. CASE Save(w)
    BY <2>6, SaveTraced
  <2>7. CASE Record(w)
    BY <2>7, RecordTraced
  <2>8. CASE Scan(w)
    BY <2>8, ScanTraced
  <2>9. CASE Mark(w) \/ MarkCut(w)
    BY <2>9, MarkTraced
  <2> QED
    BY <1>4, <2>1, <2>2, <2>3, <2>4, <2>5, <2>6, <2>7, <2>8, <2>9 DEF Step
<1> QED
  BY <1>1, <1>2, <1>3, <1>4 DEF Next

\* Nothing is to be traced yet.
LEMMA InitTraced == Init => InvTraced
<1> SUFFICES ASSUME Init PROVE InvTraced
  OBVIOUS
<1>1. Had = {}
  BY DEF Init, Had, EmptyBag, SetToBag
<1>2. visited = {} /\ \A r \in Run : queue[r] = <<>>
  BY DEF Init
<1>3. \A w \in Worker : at[w] = "off"
  BY DEF Init
<1>4. \A w \in Worker : WorkerTraced(w)
  BY <1>3 DEF WorkerTraced, HasJob, HasResult
<1>5. \A r \in Run : queue[r] \in Seq(KnownJob)
  <2>1. \A A : <<>> \in Seq(A)
    OBVIOUS
  <2> QED
    BY <1>2, <2>1
<1>6. Tracing
  BY <1>1, <1>2, <1>4, <1>5 DEF Tracing
<1> QED
  BY <1>6, InitTyped DEF InvTraced

\* Every visited page is in scope and was given, or linked to by a page that
\* was read to its end; what is kept under a URL is the content of a page that
\* few enough redirects lead to from it.
THEOREM EverythingIsTraced == Spec => []Traced
<1>1. InvTraced => Traced
  <2> SUFFICES ASSUME InvTraced PROVE Traced
    OBVIOUS
  <2>1. Typed /\ Tracing
    BY DEF InvTraced
  <2>2. Had \subseteq Result /\ visited \subseteq InScope
    BY <2>1 DEF Typed, BooksTyped, CrawlTyped, Had
  <2>3. \A r \in Had : r.url \in visited /\ r.from \in Within(r.url)
    <3> SUFFICES ASSUME NEW r \in Had PROVE r.url \in visited /\ r.from \in Within(r.url)
      OBVIOUS
    <3>1. r.url \in Page
      BY <2>2 DEF Result
    <3>2. Near(r)
      BY <2>1 DEF Tracing
    <3> QED
      BY <3>1, <3>2 DEF Near, Reach
  <2>4. \A p \in visited : p \in InScope /\ Origin(p)
    BY <2>1, <2>2 DEF Tracing
  <2> QED
    BY <2>3, <2>4 DEF Traced, Had, Origin
<1> QED
  BY <1>1, InitTraced, NextTraced, PTL DEF Spec
-----------------------------------------------------------------------------
(* What a sitemap gives. *)

\* The operators of Sitemap for a web that is named.
LeadsIn(W, d) == IF ReadAs(W[d]) = "index" THEN ToSet(W[d].nested) ELSE {}
Closed(W, S) == \A e \in S : LeadsIn(W, e) \subseteq S
FromIn(W, docs) == {d \in Doc : \A S \in SUBSET Doc : docs \subseteq S /\ Closed(W, S) => d \in S}
EntriesIn(W, d) == IF W[d].up /\ (W[d].parsed \/ W[d].indexed) THEN ToSet(W[d].entries) ELSE {}

\* What there is to be found from a document.
All(W, d) == UNION {EntriesIn(W, e) : e \in FromIn(W, {d})}

\* A is what B is or, under a cancelled context, some of it.
Fits(cancel, A, B) == A \subseteq B /\ (~cancel => A = B)

\* A call for d may return r.
Answers(W, cancel, d, r) ==
  /\ r.ok => ReadAs(W[d]) # "refused"
  /\ ~cancel => (r.ok <=> ReadAs(W[d]) # "refused")
  /\ Fits(cancel, ToSet(r.urls), All(W, d))

\* What is to be found from the documents that a call has not come to.
Later(W, call) == UNION {All(W, d) : d \in ToSet(call.todo)}

\* What a call through nested documents has, and is still to get, is what is to
\* be found from its document; below is what the call it makes is to get.
OnItsWay(W, cancel, call, below) ==
  /\ call.at = "nested" /\ ReadAs(W[call.doc]) = "index"
  /\ Fits(cancel, ToSet(call.urls) \cup Later(W, call) \cup below, All(W, call.doc))

\* The calls from the outermost to the innermost, which may not have fetched.
Consistent(W, cancel, cs) ==
  /\ cs[1].doc = Root
  /\ \A i \in 1..(Len(cs) - 1) : OnItsWay(W, cancel, cs[i], All(W, cs[i + 1].doc))
  /\ cs[Len(cs)].at = "nested" => OnItsWay(W, cancel, cs[Len(cs)], {})

Exact ==
  /\ calls = <<>> => Answers(web, cut, Root, answer)
  /\ calls # <<>> => Consistent(web, cut, calls)

\* Where a web leads to.
LEMMA LeadsTyped ==
  ASSUME NEW W \in Webs \cup {Blank}, NEW d \in Doc
  PROVE  W[d] \in Content /\ LeadsIn(W, d) \subseteq Doc
<1>1. Blank \in [Doc -> Content]
  BY DEF Blank, Content
<1>2. W[d] \in Content
  BY <1>1, SitemapAssumption
<1>3. W[d].nested \in Seq(Doc)
  BY <1>2 DEF Content
<1>4. ToSet(W[d].nested) \subseteq Doc
  BY <1>3, Elements
<1> QED
  BY <1>2, <1>4 DEF LeadsIn

\* What can be reached from a document: itself, and what can be reached from
\* where it leads.
LEMMA FromUnfold ==
  ASSUME NEW W \in Webs \cup {Blank}, NEW d \in Doc
  PROVE  FromIn(W, {d}) = {d} \cup UNION {FromIn(W, {e}) : e \in LeadsIn(W, d)}
<1> DEFINE R == {d} \cup UNION {FromIn(W, {e}) : e \in LeadsIn(W, d)}
<1>1. \A e \in Doc : FromIn(W, {e}) \subseteq Doc /\ e \in FromIn(W, {e})
  BY DEF FromIn
<1>2. ASSUME NEW e \in Doc PROVE Closed(W, FromIn(W, {e}))
  <2> SUFFICES ASSUME NEW x \in FromIn(W, {e}), NEW y \in LeadsIn(W, x) PROVE y \in FromIn(W, {e})
    BY DEF Closed
  <2>1. x \in Doc /\ y \in Doc
    BY <1>1, LeadsTyped
  <2>2. ASSUME NEW S \in SUBSET Doc, {e} \subseteq S, Closed(W, S) PROVE y \in S
    <3>1. x \in S
      BY <2>2 DEF FromIn
    <3> QED
      BY <2>2, <3>1 DEF Closed
  <2> QED
    BY <2>1, <2>2 DEF FromIn
<1>3. LeadsIn(W, d) \subseteq Doc
  BY LeadsTyped
<1>4. FromIn(W, {d}) \subseteq R
  <2>1. R \in SUBSET Doc /\ {d} \subseteq R
    BY <1>1, <1>3
  <2>2. Closed(W, R)
    <3> SUFFICES ASSUME NEW x \in R, NEW y \in LeadsIn(W, x) PROVE y \in R
      BY DEF Closed
    <3>1. CASE x = d
      BY <1>1, <1>3, <3>1
    <3>2. CASE x # d
      <4>1. PICK e \in LeadsIn(W, d) : x \in FromIn(W, {e})
        BY <3>2
      <4>2. y \in FromIn(W, {e})
        BY <1>2, <1>3, <4>1 DEF Closed
      <4> QED
        BY <4>1, <4>2
    <3> QED
      BY <3>1, <3>2
  <2> HIDE DEF R
  <2> QED
    BY <2>1, <2>2 DEF FromIn
<1>5. R \subseteq FromIn(W, {d})
  <2> SUFFICES ASSUME NEW e \in LeadsIn(W, d), NEW x \in FromIn(W, {e}) PROVE x \in FromIn(W, {d})
    BY <1>1
  <2>1. x \in Doc
    BY <1>1, <1>3
  <2>2. ASSUME NEW S \in SUBSET Doc, {d} \subseteq S, Closed(W, S) PROVE x \in S
    <3>1. e \in S
      BY <2>2 DEF Closed
    <3> QED
      BY <2>2, <3>1 DEF FromIn
  <2> QED
    BY <2>1, <2>2 DEF FromIn
<1> QED
  BY <1>4, <1>5

\* What is to be found from a document: what it lists, and what is to be found
\* from where it leads.
LEMMA AllUnfold ==
  ASSUME NEW W \in Webs \cup {Blank}, NEW d \in Doc
  PROVE  All(W, d) = EntriesIn(W, d) \cup UNION {All(W, e) : e \in LeadsIn(W, d)}
<1>1. FromIn(W, {d}) = {d} \cup UNION {FromIn(W, {e}) : e \in LeadsIn(W, d)}
  BY FromUnfold
<1>2. ASSUME NEW x PROVE x \in All(W, d) <=> \E y \in FromIn(W, {d}) : x \in EntriesIn(W, y)
  BY DEF All
<1>3. ASSUME NEW x, NEW e
      PROVE x \in All(W, e) <=> \E y \in FromIn(W, {e}) : x \in EntriesIn(W, y)
  BY DEF All
<1>4. ASSUME NEW x
      PROVE  x \in All(W, d) <=> x \in EntriesIn(W, d) \/ \E e \in LeadsIn(W, d) : x \in All(W, e)
  <2> DEFINE F == FromIn(W, {d})
             L == LeadsIn(W, d)
  <2>1. ASSUME NEW y PROVE y \in F <=> y = d \/ \E e \in L : y \in FromIn(W, {e})
    BY <1>1
  <2>2. x \in All(W, d) <=> \E y \in F : x \in EntriesIn(W, y)
    BY <1>2
  <2> HIDE DEF F, L
  <2>3. ASSUME x \in All(W, d) PROVE x \in EntriesIn(W, d) \/ \E e \in L : x \in All(W, e)
    <3>1. PICK y \in F : x \in EntriesIn(W, y)
      BY <2>2, <2>3
    <3>2. y = d \/ \E e \in L : y \in FromIn(W, {e})
      BY <2>1
    <3> QED
      BY <1>3, <3>1, <3>2
  <2>4. ASSUME x \in EntriesIn(W, d) PROVE x \in All(W, d)
    BY <2>1, <2>2, <2>4
  <2>5. ASSUME NEW e \in L, x \in All(W, e) PROVE x \in All(W, d)
    <3>1. PICK y \in FromIn(W, {e}) : x \in EntriesIn(W, y)
      BY <1>3, <2>5
    <3> QED
      BY <2>1, <2>2, <3>1
  <2> QED
    BY <2>3, <2>4, <2>5 DEF L
<1> QED
  BY <1>4

\* What the elements of some sequences are.
LEMMA ToSets ==
  /\ ToSet(<<>>) = {}
  /\ \A A, B : \A s \in Seq(A), t \in Seq(B) : ToSet(s \o t) = ToSet(s) \cup ToSet(t)
  /\ \A A : \A s \in Seq(A) : s # <<>> => ToSet(s) = {Head(s)} \cup ToSet(Tail(s))
<1>1. ToSet(<<>>) = {}
  BY DEF ToSet
<1>2. ASSUME NEW A, NEW B, NEW s \in Seq(A), NEW t \in Seq(B)
      PROVE ToSet(s \o t) = ToSet(s) \cup ToSet(t)
  <2> DEFINE m == Len(s)
             n == Len(t)
  <2>1. /\ m \in Nat /\ n \in Nat /\ DOMAIN s = 1..m /\ DOMAIN t = 1..n
        /\ DOMAIN (s \o t) = 1..(m + n)
        /\ \A i \in 1..m : (s \o t)[i] = s[i]
        /\ \A i \in 1..n : (s \o t)[m + i] = t[i]
    OBVIOUS
  <2> HIDE DEF m, n
  <2>2. /\ \A i \in 1..m : i \in 1..(m + n)
        /\ \A i \in 1..n : m + i \in 1..(m + n)
        /\ \A i \in 1..(m + n) : i \in 1..m \/ (i - m \in 1..n /\ m + (i - m) = i)
    BY <2>1
  <2> DEFINE u == s \o t
  <2>3. ToSet(u) = {u[i] : i \in 1..(m + n)} /\ ToSet(s) = {s[i] : i \in 1..m}
        /\ ToSet(t) = {t[i] : i \in 1..n}
    BY <2>1 DEF ToSet
  <2> HIDE DEF u
  <2>4. /\ \A i \in 1..m : u[i] = s[i]
        /\ \A i \in 1..n : u[m + i] = t[i]
    BY <2>1 DEF u
  <2>5. ToSet(s) \subseteq ToSet(u) /\ ToSet(t) \subseteq ToSet(u)
    BY <2>2, <2>3, <2>4
  <2>6. ASSUME NEW i \in 1..(m + n) PROVE u[i] \in ToSet(s) \cup ToSet(t)
    <3>1. CASE i \in 1..m
      BY <2>3, <2>4, <3>1
    <3>2. CASE i - m \in 1..n /\ m + (i - m) = i
      <4>1. u[i] = t[i - m]
        BY <2>4, <3>2
      <4> QED
        BY <2>3, <3>2, <4>1
    <3> QED
      BY <2>2, <3>1, <3>2
  <2> QED
    BY <2>3, <2>5, <2>6 DEF u
<1>3. ASSUME NEW A, NEW s \in Seq(A), s # <<>>
      PROVE ToSet(s) = {Head(s)} \cup ToSet(Tail(s))
  <2> DEFINE n == Len(s)
  <2>1. /\ n \in Nat \ {0} /\ DOMAIN s = 1..n /\ Head(s) = s[1]
        /\ DOMAIN Tail(s) = 1..(n - 1)
        /\ \A i \in 1..(n - 1) : Tail(s)[i] = s[i + 1]
    BY <1>3
  <2> HIDE DEF n
  <2>2. /\ 1 \in 1..n /\ \A i \in 1..(n - 1) : i + 1 \in 1..n
        /\ \A i \in 1..n : i = 1 \/ (i - 1 \in 1..(n - 1) /\ (i - 1) + 1 = i)
    BY <2>1
  <2> DEFINE u == Tail(s)
  <2>3. ToSet(u) = {u[i] : i \in 1..(n - 1)} /\ ToSet(s) = {s[i] : i \in 1..n}
    BY <2>1 DEF ToSet
  <2>4. \A i \in 1..(n - 1) : u[i] = s[i + 1]
    BY <2>1
  <2> HIDE DEF u
  <2>5. s[1] \in ToSet(s) /\ ToSet(u) \subseteq ToSet(s)
    BY <2>2, <2>3, <2>4
  <2>6. ASSUME NEW i \in 1..n PROVE s[i] \in {s[1]} \cup ToSet(u)
    <3>1. CASE i = 1
      BY <3>1
    <3>2. CASE i - 1 \in 1..(n - 1) /\ (i - 1) + 1 = i
      <4>1. u[i - 1] = s[i]
        BY <2>4, <3>2
      <4> QED
        BY <2>3, <3>2, <4>1
    <3> QED
      BY <2>2, <3>1, <3>2
  <2>7. Head(s) = s[1]
    BY <2>1
  <2> HIDE DEF u
  <2>8. ToSet(s) = {s[1]} \cup ToSet(u)
    BY <2>3, <2>5, <2>6
  <2> QED
    BY <2>7, <2>8 DEF u
<1> QED
  BY <1>1, <1>2, <1>3

\* A sequence with another element at some place.
LEMMA ElsewhereSame ==
  ASSUME NEW T, NEW s \in Seq(T), NEW k \in 1..Len(s), NEW x \in T
  PROVE  /\ [s EXCEPT ![k] = x] \in Seq(T) /\ Len([s EXCEPT ![k] = x]) = Len(s)
         /\ [s EXCEPT ![k] = x][k] = x
         /\ \A i \in 1..Len(s) : i # k => [s EXCEPT ![k] = x][i] = s[i]
BY ExceptSeq

\* What a document is read as says what is to be found from it.
LEMMA AllByKind ==
  ASSUME NEW W \in Webs \cup {Blank}, NEW d \in Doc
  PROVE  /\ ReadAs(W[d]) \in {"refused", "list", "index"}
         /\ ReadAs(W[d]) = "refused" => All(W, d) = {}
         /\ ReadAs(W[d]) = "list" => All(W, d) = ToSet(W[d].entries)
         /\ ReadAs(W[d]) = "index" =>
              All(W, d) = ToSet(W[d].entries) \cup UNION {All(W, e) : e \in ToSet(W[d].nested)}
<1>1. W[d] \in Content
  BY LeadsTyped
<1>2. All(W, d) = EntriesIn(W, d) \cup UNION {All(W, e) : e \in LeadsIn(W, d)}
  BY AllUnfold
<1>3. ReadAs(W[d]) \in {"refused", "list", "index"}
  BY DEF ReadAs
<1>4. ReadAs(W[d]) = "refused" => EntriesIn(W, d) = {}
  BY <1>1, ToSets DEF ReadAs, EntriesIn, Content
<1>5. ReadAs(W[d]) # "refused" => EntriesIn(W, d) = ToSet(W[d].entries)
  BY <1>1 DEF ReadAs, EntriesIn, Content
<1> QED
  BY <1>2, <1>3, <1>4, <1>5 DEF LeadsIn

InvExact == SitemapTyped /\ Exact

\* The call that made the innermost one goes on with what that returns.
LEMMA ReturnsTo ==
  ASSUME NEW W, NEW c \in BOOLEAN, NEW n \in Nat, n > 1, NEW cs \in Seq(Call), Len(cs) = n,
         Consistent(W, c, cs), NEW r \in Answer, Answers(W, c, cs[n].doc, r),
         NEW ds, Len(ds) = n - 1, \A i \in 1..(n - 2) : ds[i] = cs[i],
         NEW y, ds[n - 1] = y, y.urls = cs[n - 1].urls \o r.urls, y.doc = cs[n - 1].doc,
         y.todo = cs[n - 1].todo, y.at = cs[n - 1].at
  PROVE  Consistent(W, c, ds)
<1> DEFINE x == cs[n - 1]
<1>1. n - 1 \in 1..(n - 1) /\ (n - 1) + 1 = n /\ n - 1 \in 1..n /\ n \in 1..n /\ DOMAIN cs = 1..n
  OBVIOUS
<1>2. x \in Call /\ r.urls \in Seq(Entry)
  BY <1>1, ElementOfSeq DEF Answer
<1>3. x.urls \in Seq(Entry)
  BY <1>2 DEF Call
<1>4. y.urls = x.urls \o r.urls /\ y.doc = x.doc /\ y.todo = x.todo /\ y.at = x.at
  OBVIOUS
<1>5. OnItsWay(W, c, x, All(W, cs[n].doc))
  BY <1>1 DEF Consistent
<1> HIDE DEF x
<1>6. ToSet(y.urls) = ToSet(x.urls) \cup ToSet(r.urls)
  BY <1>2, <1>3, <1>4, ToSets
<1>7. OnItsWay(W, c, y, {})
  <2>1. Later(W, y) = Later(W, x)
    BY <1>4 DEF Later
  <2>2. Fits(c, ToSet(r.urls), All(W, cs[n].doc))
    BY DEF Answers
  <2>3. Fits(c, ToSet(x.urls) \cup Later(W, x) \cup All(W, cs[n].doc), All(W, x.doc))
    BY <1>5 DEF OnItsWay
  <2>4. Fits(c, ToSet(y.urls) \cup Later(W, y) \cup {}, All(W, y.doc))
    BY <1>4, <1>6, <2>1, <2>2, <2>3 DEF Fits
  <2> QED
    BY <1>4, <1>5, <2>4 DEF OnItsWay
<1>8. \A i \in 1..(n - 1) : ds[i].doc = cs[i].doc
  <2>1. \A i \in 1..(n - 1) : i = n - 1 \/ i \in 1..(n - 2)
    OBVIOUS
  <2> QED
    BY <1>4, <2>1 DEF x
<1>9. ASSUME NEW i \in 1..(n - 2) PROVE OnItsWay(W, c, ds[i], All(W, ds[i + 1].doc))
  <2>1. i \in 1..(n - 1) /\ i + 1 \in 1..(n - 1)
    OBVIOUS
  <2>2. OnItsWay(W, c, cs[i], All(W, cs[i + 1].doc))
    BY <2>1 DEF Consistent
  <2>3. ds[i] = cs[i] /\ ds[i + 1].doc = cs[i + 1].doc
    BY <1>8, <2>1
  <2> QED
    BY <2>2, <2>3
<1>10. ds[1].doc = Root
  <2>1. 1 \in 1..(n - 1)
    OBVIOUS
  <2> QED
    BY <1>8, <2>1 DEF Consistent
<1>11. (n - 1) - 1 = n - 2
  OBVIOUS
<1>12. Len(ds) - 1 = n - 2
  BY <1>11
<1> QED
  BY <1>7, <1>9, <1>10, <1>12 DEF Consistent

\* The innermost call goes on, or makes a further one.
LEMMA InnermostGoesOn ==
  ASSUME NEW W, NEW c \in BOOLEAN, NEW n \in Nat \ {0}, NEW cs, Len(cs) = n,
         Consistent(W, c, cs),
         NEW ds, Len(ds) \in {n, n + 1}, \A i \in 1..(n - 1) : ds[i] = cs[i],
         ds[n].doc = cs[n].doc,
         Len(ds) = n => OnItsWay(W, c, ds[n], {}),
         Len(ds) = n + 1 => /\ OnItsWay(W, c, ds[n], All(W, ds[n + 1].doc))
                            /\ ds[n + 1].at = "fetch"
  PROVE  Consistent(W, c, ds)
<1>1. \A i \in 1..n : ds[i].doc = cs[i].doc
  <2>1. \A i \in 1..n : i = n \/ i \in 1..(n - 1)
    OBVIOUS
  <2> QED
    BY <2>1
<1>2. ds[1].doc = Root
  <2>1. 1 \in 1..n
    OBVIOUS
  <2> QED
    BY <1>1, <2>1 DEF Consistent
<1>3. ASSUME NEW i \in 1..(n - 1) PROVE OnItsWay(W, c, ds[i], All(W, ds[i + 1].doc))
  <2>1. i + 1 \in 1..n
    <3>1. \A k \in Nat : \A j \in 1..(k - 1) : j + 1 \in 1..k
      OBVIOUS
    <3> QED
      BY <3>1
  <2>2. OnItsWay(W, c, cs[i], All(W, cs[i + 1].doc))
    BY DEF Consistent
  <2> QED
    BY <1>1, <2>1, <2>2
<1>4. CASE Len(ds) = n
  BY <1>2, <1>3, <1>4 DEF Consistent
<1>5. CASE Len(ds) = n + 1
  <2>1. (n + 1) - 1 = n /\ \A i \in 1..n : i = n \/ i \in 1..(n - 1)
    OBVIOUS
  <2>2. \A i \in 1..n : OnItsWay(W, c, ds[i], All(W, ds[i + 1].doc))
    BY <1>3, <1>5, <2>1
  <2>3. Len(ds) - 1 = n /\ ds[Len(ds)].at # "nested"
    BY <1>5, <2>1
  <2> QED
    BY <1>2, <2>2, <2>3 DEF Consistent
<1> QED
  BY <1>4, <1>5

\* A call returns what it may return.
LEMMA ReturnsExact ==
  ASSUME InvExact, calls # <<>>, NEW r \in Answer, Returns(r),
         Answers(web, cut, calls[Len(calls)].doc, r)
  PROVE  Exact'
<1> DEFINE rest == Front(calls)
           n == Len(calls)
           m == n - 1
           x == [calls[m] EXCEPT !.urls = @ \o r.urls]
<1>1. /\ n \in Nat \ {0} /\ calls \in Seq(Call) /\ cut \in BOOLEAN
      /\ rest \in Seq(Call) /\ Len(rest) = m
      /\ \A i \in 1..m : rest[i] = calls[i]
      /\ rest # <<>> => m \in 1..m
  BY TopCall, OuterCalls DEF InvExact, SitemapTyped
<1>2. /\ calls' = IF rest = <<>> THEN <<>>
                  ELSE [rest EXCEPT ![Len(rest)].urls = @ \o r.urls]
      /\ answer' = IF rest = <<>> THEN r ELSE answer
      /\ web' = web /\ cut' = cut
  BY DEF Returns
<1>3. Consistent(web, cut, calls)
  BY DEF InvExact, Exact
<1> HIDE DEF rest
<1>4. CASE rest = <<>>
  <2>1. m = 0
    BY <1>1, <1>4
  <2>2. n = 1
    <3>1. \A k \in Nat : k - 1 = 0 => k = 1
      OBVIOUS
    <3> QED
      BY <1>1, <2>1, <3>1
  <2>3. calls' = <<>> /\ answer' = r
    BY <1>2, <1>4
  <2>4. calls[n].doc = Root
    BY <1>3, <2>2 DEF Consistent, n
  <2>5. Answers(web, cut, Root, r)
    BY <2>4
  <2> QED
    BY <1>2, <2>3, <2>5 DEF Exact
<1>5. CASE rest # <<>>
  <2>1. m \in 1..m
    BY <1>1, <1>5
  <2> HIDE DEF n
  <2>2. n > 1 /\ n \in Nat /\ m \in Nat /\ (n - 1) - 1 = n - 2 /\ \A i \in 1..(n - 2) : i \in 1..m /\ i # m
    BY <1>1, <2>1
  <2>3. calls' = [rest EXCEPT ![m] = x]
    BY <1>1, <1>2, <1>5, <2>1
  <2> DEFINE cs == calls
             ds == calls'
  <2>4. ds[m] = x /\ Len(ds) = m /\ \A i \in 1..m : i # m => ds[i] = cs[i]
    BY <1>1, <2>1, <2>3
  <2>5. \A i \in 1..(n - 2) : ds[i] = cs[i]
    BY <2>2, <2>4
  <2>6. /\ ds[n - 1] = x /\ x.urls = cs[n - 1].urls \o r.urls /\ x.doc = cs[n - 1].doc
        /\ x.todo = cs[n - 1].todo /\ x.at = cs[n - 1].at
    <3>1. calls[m] \in Call
      BY <1>1, <2>2, <2>1, ElementOfSeq DEF n
    <3> QED
      BY <2>4, <3>1 DEF Call
  <2>7. Len(cs) = n /\ cs \in Seq(Call) /\ Consistent(web, cut, cs) /\ Answers(web, cut, cs[n].doc, r)
    BY <1>1, <1>3 DEF n
  <2>8. Len(ds) = n - 1 /\ cut \in BOOLEAN
    BY <1>1, <2>4
  <2> HIDE DEF cs, ds, m, x
  <2>9. Consistent(web, cut, ds)
    BY <2>2, <2>5, <2>6, <2>7, <2>8, ReturnsTo
  <2>10. calls' # <<>>
    <3>1. Len(<<>>) = 0 /\ n - 1 # 0
      BY <2>2
    <3> QED
      BY <2>8, <3>1 DEF ds
  <2> QED
    BY <1>2, <2>9, <2>10 DEF Exact, ds
<1> QED
  BY <1>4, <1>5

\* The fetcher stays exact.
LEMMA FetchSitemapExact ==
  ASSUME InvExact, FetchSitemap \/ CutSitemap
  PROVE  Exact'
<1> DEFINE n == Len(calls)
           d == calls[n].doc
           c == web[d]
<1>1. calls # <<>>
  <2>1. Fetching => calls # <<>>
    BY DEF Fetching
  <2> QED
    BY <2>1 DEF FetchSitemap, CutSitemap, Fetch, FetchCut, Nest, End
<1>2. /\ n \in Nat \ {0} /\ DOMAIN calls = 1..n
      /\ Innermost = calls[n] /\ calls[n] \in Call /\ n \in 1..n
      /\ calls \in Seq(Call) /\ cut \in BOOLEAN /\ web \in Webs \cup {Blank}
  BY <1>1, TopCall DEF InvExact, SitemapTyped
<1>3. d \in Doc /\ c \in Content
  BY <1>2, Contents DEF Call
<1>4. /\ ReadAs(c) \in {"refused", "list", "index"}
      /\ ReadAs(c) = "refused" => All(web, d) = {}
      /\ ReadAs(c) = "list" => All(web, d) = ToSet(c.entries)
      /\ ReadAs(c) = "index" =>
           All(web, d) = ToSet(c.entries) \cup UNION {All(web, e) : e \in ToSet(c.nested)}
  BY <1>2, <1>3, AllByKind
<1>5. Consistent(web, cut, calls)
  BY <1>1 DEF InvExact, Exact
<1>6. /\ Error \in Answer /\ Ok(c.entries) \in Answer /\ Ok(calls[n].urls) \in Answer
  BY <1>2, <1>3 DEF Error, Ok, Answer, Content, Call
<1>7. Error.ok = FALSE /\ ToSet(Error.urls) = {} /\ \A u : Ok(u).ok = TRUE /\ Ok(u).urls = u
  BY ToSets DEF Error, Ok
<1> HIDE DEF n, d, c
<1>8. CASE Fetch
  <2>1. CASE ReadAs(c) = "refused"
    <3>1. Returns(Error)
      BY <1>2, <1>8, <2>1 DEF Fetch, c, d
    <3>2. Answers(web, cut, d, Error)
      BY <1>4, <1>7, <2>1 DEF Answers, Fits, c
    <3> QED
      BY <1>1, <1>6, <3>1, <3>2, ReturnsExact DEF d, n
  <2>2. CASE ReadAs(c) = "list"
    <3>1. Returns(Ok(c.entries))
      BY <1>2, <1>8, <2>2 DEF Fetch, c, d
    <3>2. Answers(web, cut, d, Ok(c.entries))
      BY <1>4, <1>7, <2>2 DEF Answers, Fits, c
    <3> QED
      BY <1>1, <1>6, <3>1, <3>2, ReturnsExact DEF d, n
  <2>3. CASE ReadAs(c) = "index"
    <3> DEFINE x == [calls[n] EXCEPT !.at = "nested", !.todo = c.nested, !.urls = c.entries]
               ds == calls'
    <3>1. /\ calls' = [calls EXCEPT ![n] = x] /\ UNCHANGED <<web, answer, cut>>
      BY <1>2, <1>8, <2>3 DEF Fetch, c, d, n
    <3>2. x.doc = d /\ x.at = "nested" /\ x.todo = c.nested /\ x.urls = c.entries
      BY <1>2 DEF Call, d
    <3>3. x \in Call
      BY <1>2, <1>3 DEF Call, Content
    <3> HIDE DEF x
    <3>4. ds[n] = x /\ Len(ds) = n /\ \A i \in 1..(n - 1) : ds[i] = calls[i]
      <4>1. \A i \in 1..(n - 1) : i \in 1..n /\ i # n
        BY <1>2
      <4>2. Len(calls) = n
        BY DEF n
      <4> QED
        BY <1>2, <3>1, <3>3, <4>1, <4>2, ElsewhereSame
    <3>5. OnItsWay(web, cut, x, {})
      <4>1. Fits(cut, ToSet(x.urls) \cup Later(web, x) \cup {}, All(web, x.doc))
        BY <1>4, <2>3, <3>2 DEF Fits, Later
      <4> QED
        BY <2>3, <3>2, <4>1 DEF OnItsWay, c
    <3> HIDE DEF ds
    <3>6. Consistent(web, cut, ds)
      <4>1. Len(calls) = n /\ ds[n].doc = calls[n].doc
        BY <3>2, <3>4 DEF n, d
      <4>2. n \in Nat \ {0} /\ cut \in BOOLEAN /\ n # n + 1
        BY <1>2
      <4> QED
        BY <1>5, <3>4, <3>5, <4>1, <4>2, InnermostGoesOn
    <3>7. calls' # <<>>
      BY <1>2, <3>4 DEF ds
    <3> QED
      BY <3>1, <3>6, <3>7 DEF Exact, ds
  <2> QED
    BY <1>4, <2>1, <2>2, <2>3
<1>9. CASE FetchCut
  <2>1. Returns(Error) /\ cut
    BY <1>9 DEF FetchCut
  <2>2. Answers(web, cut, d, Error)
    BY <1>7, <2>1 DEF Answers, Fits
  <2> QED
    BY <1>1, <1>6, <2>1, <2>2, ReturnsExact DEF d, n
<1>10. CASE Nest
  <2> DEFINE q == calls[n].todo
             x == [calls[n] EXCEPT !.todo = Tail(q)]
             y == CallOf(Head(q))
             ds == calls'
  <2>1. calls' = Append([calls EXCEPT ![n] = x], y) /\ UNCHANGED <<web, answer, cut>>
        /\ calls[n].at = "nested" /\ q # <<>>
    BY <1>2, <1>10 DEF Nest, n
  <2>2. q \in Seq(Doc)
    BY <1>2 DEF Call
  <2>3. ToSet(q) = {Head(q)} \cup ToSet(Tail(q))
    BY <2>1, <2>2, ToSets
  <2>4. y.doc = Head(q) /\ y.at = "fetch"
    BY DEF CallOf
  <2>5. x.doc = d /\ x.at = "nested" /\ x.urls = calls[n].urls /\ x.todo = Tail(q)
    <3>1. \A call \in Call : \A t : /\ [call EXCEPT !.todo = t].doc = call.doc
                                    /\ [call EXCEPT !.todo = t].at = call.at
                                    /\ [call EXCEPT !.todo = t].urls = call.urls
                                    /\ [call EXCEPT !.todo = t].todo = t
      BY DEF Call
    <3> QED
      BY <1>2, <2>1, <3>1 DEF d
  <2> HIDE DEF x, y
  <2>6. /\ Len(ds) = n + 1 /\ ds[n + 1] = y /\ ds[n] = x
        /\ \A i \in 1..(n - 1) : ds[i] = calls[i]
    <3> DEFINE es == [calls EXCEPT ![n] = x]
    <3>1. x \in Call /\ y \in Call /\ Len(calls) = n
      <4>1. Head(q) \in Doc /\ Tail(q) \in Seq(Doc)
        BY <2>1, <2>2, HeadTailProperties
      <4>2. \A call \in Call : \A t \in Seq(Doc) : [call EXCEPT !.todo = t] \in Call
        BY DEF Call
      <4>3. \A e \in Doc : CallOf(e) \in Call
        BY DEF Call, CallOf
      <4> QED
        BY <1>2, <4>1, <4>2, <4>3 DEF x, y, n
    <3>2. es \in Seq(Call) /\ Len(es) = n /\ es[n] = x /\ \A i \in 1..n : i # n => es[i] = calls[i]
      BY <1>2, <3>1, ElsewhereSame
    <3>3. \A i \in 1..(n - 1) : i \in 1..n /\ i # n
      BY <1>2
    <3>4. ds = Append(es, y)
      BY <2>1
    <3> HIDE DEF es, ds
    <3>5. Len(ds) = n + 1 /\ ds[n + 1] = y /\ \A i \in 1..n : ds[i] = es[i]
      BY <3>1, <3>2, <3>4, AppendProperties
    <3> QED
      BY <1>2, <3>2, <3>3, <3>5
  <2> HIDE DEF ds, q
  <2>7. OnItsWay(web, cut, x, All(web, y.doc))
    <3>1. OnItsWay(web, cut, calls[n], {})
      BY <1>5, <2>1 DEF Consistent, n
    <3>2. Later(web, calls[n]) = Later(web, x) \cup All(web, y.doc)
      BY <2>3, <2>4, <2>5 DEF Later, q
    <3>3. Fits(cut, ToSet(calls[n].urls) \cup Later(web, calls[n]) \cup {}, All(web, d))
      BY <3>1 DEF OnItsWay, d
    <3>4. Fits(cut, ToSet(x.urls) \cup Later(web, x) \cup All(web, y.doc), All(web, x.doc))
      BY <2>5, <3>2, <3>3 DEF Fits
    <3> QED
      BY <2>5, <3>1, <3>4 DEF OnItsWay, d
  <2>8. Consistent(web, cut, ds)
    <3>1. Len(calls) = n /\ ds[n].doc = calls[n].doc
      BY <2>5, <2>6 DEF n, d
    <3>2. n \in Nat \ {0} /\ cut \in BOOLEAN /\ n # n + 1
      BY <1>2
    <3>3. OnItsWay(web, cut, ds[n], All(web, ds[n + 1].doc)) /\ ds[n + 1].at = "fetch"
      BY <2>4, <2>6, <2>7
    <3> QED
      BY <1>5, <2>6, <3>1, <3>2, <3>3, InnermostGoesOn
  <2>9. calls' # <<>>
    BY <1>2, <2>6 DEF ds
  <2> QED
    BY <2>1, <2>8, <2>9 DEF Exact, ds
<1>11. CASE End
  <2>1. Returns(Ok(calls[n].urls)) /\ calls[n].at = "nested" /\ calls[n].todo = <<>>
    BY <1>2, <1>11 DEF End
  <2>2. OnItsWay(web, cut, calls[n], {})
    BY <1>5, <2>1 DEF Consistent, n
  <2>3. Later(web, calls[n]) = {}
    BY <2>1, ToSets DEF Later
  <2>4. Answers(web, cut, d, Ok(calls[n].urls))
    <3>1. Fits(cut, ToSet(calls[n].urls), All(web, d)) /\ ReadAs(web[d]) = "index"
      BY <2>2, <2>3 DEF OnItsWay, Fits, d
    <3> QED
      BY <1>7, <3>1 DEF Answers
  <2> QED
    BY <1>1, <1>6, <2>1, <2>4, ReturnsExact DEF d, n
<1>12. CASE CutSitemap
  <2>1. cut' = TRUE /\ UNCHANGED <<web, calls, answer>>
    BY <1>12 DEF CutSitemap
  <2>2. \A A, B : Fits(cut, A, B) => Fits(TRUE, A, B)
    BY DEF Fits
  <2>3. \A call, below : OnItsWay(web, cut, call, below) => OnItsWay(web, TRUE, call, below)
    BY <2>2 DEF OnItsWay
  <2>4. Consistent(web, TRUE, calls)
    BY <1>5, <2>3 DEF Consistent
  <2> QED
    BY <1>1, <2>1, <2>4 DEF Exact
<1> QED
  BY <1>8, <1>9, <1>10, <1>11, <1>12 DEF FetchSitemap

\* Where nothing is, a call fails.
LEMMA BlankAnswers == Answers(Blank, FALSE, Root, Error)
<1>1. Root \in Doc /\ Blank[Root].up = FALSE
  BY SitemapAssumption DEF Blank
<1>2. ReadAs(Blank[Root]) = "refused"
  BY <1>1 DEF ReadAs
<1>3. All(Blank, Root) = {}
  BY <1>1, <1>2, AllByKind
<1>4. Error.ok = FALSE /\ ToSet(Error.urls) = {}
  BY ToSets DEF Error
<1> QED
  BY <1>2, <1>3, <1>4 DEF Answers, Fits

\* FetchSitemap has not been called, or is called for the root.
LEMMA InitExact == Init => Typed /\ Exact
<1> SUFFICES ASSUME Init PROVE Exact
  BY InitTyped
<1>1. CASE SitemapInit
  <2>1. calls = <<CallOf(Root)>>
    BY <1>1 DEF SitemapInit
  <2>2. calls # <<>> /\ Len(calls) = 1 /\ calls[1] = CallOf(Root)
    BY <2>1
  <2>3. calls[1].doc = Root /\ calls[1].at = "fetch"
    BY <2>2 DEF CallOf
  <2>4. 1..(1 - 1) = {}
    OBVIOUS
  <2> QED
    BY <2>2, <2>3, <2>4 DEF Exact, Consistent
<1>2. CASE web = Blank /\ calls = <<>> /\ answer = Error /\ cut = FALSE
  BY <1>2, BlankAnswers DEF Exact
<1> QED
  BY <1>1, <1>2 DEF Init

\* Every step of the session leaves the fetcher exact.
LEMMA NextExact == Typed /\ Exact /\ [Next]_vars => (Typed /\ Exact)'
<1> SUFFICES ASSUME Typed, Exact, [Next]_vars PROVE Exact'
  BY NextTyped
<1>1. CASE UNCHANGED sitemap
  <2>1. UNCHANGED <<web, calls, answer, cut>>
    BY <1>1 DEF sitemap
  <2> QED
    BY <2>1 DEF Exact
<1>2. CASE ReadSitemap
  <2>1. FetchSitemap \/ CutSitemap
    BY <1>2 DEF ReadSitemap
  <2>2. InvExact
    BY DEF InvExact, Typed
  <2> QED
    BY <2>1, <2>2, FetchSitemapExact
<1>3. CASE NewCrawler
  <2>1. web' = Blank /\ answer' = Error /\ cut' = FALSE /\ calls' = <<>>
    BY <1>3 DEF NewCrawler
  <2> QED
    BY <2>1, BlankAnswers DEF Exact
<1>4. CASE Search \/ Start \/ Ending \/ Cancel \/ Close
  BY <1>1, <1>4 DEF Search, Start, Ending, ReturnNil, ReturnCancelled, Return, Cancel, Close
<1>5. CASE \E w \in Worker : Step(w)
  BY <1>1, <1>5 DEF Step, Take, Exit, Pass, PassFails, Fetched, Save, Record, Scan, Mark, MarkCut, Others
<1>6. CASE UNCHANGED vars
  BY <1>1, <1>6 DEF vars
<1> QED
  BY <1>2, <1>3, <1>4, <1>5, <1>6 DEF Next

\* When FetchSitemap has returned, it failed exactly if the document it was
\* called for cannot be used, and its result is exactly what can be found from
\* there; a cancelled context can only have cost some of it.
THEOREM SitemapIsExact == Spec => []SitemapExact
<1>1. Typed /\ Exact => SitemapExact
  <2> SUFFICES ASSUME Typed, Exact, calls = <<>>
               PROVE  LET all == UNION {Entries(d) : d \in From({Root})}
                      IN  /\ answer.ok => ReadAs(web[Root]) # "refused" /\ ToSet(answer.urls) \subseteq all
                          /\ ~cut => answer.ok = (ReadAs(web[Root]) # "refused")
                          /\ ~cut /\ answer.ok => ToSet(answer.urls) = all
    BY DEF SitemapExact
  <2> DEFINE all == UNION {Entries(d) : d \in From({Root})}
  <2>1. all = All(web, Root)
    BY DEF All, EntriesIn, FromIn, Closed, LeadsIn, Entries, From, Leads
  <2> HIDE DEF all
  <2>2. Answers(web, cut, Root, answer)
    BY DEF Exact
  <2>3. answer.ok \in BOOLEAN
    BY DEF Typed, SitemapTyped, Answer
  <2>4. answer.ok => ReadAs(web[Root]) # "refused" /\ ToSet(answer.urls) \subseteq all
    BY <2>1, <2>2 DEF Answers, Fits
  <2>5. ~cut => answer.ok = (ReadAs(web[Root]) # "refused")
    BY <2>2, <2>3 DEF Answers
  <2>6. ~cut /\ answer.ok => ToSet(answer.urls) = all
    BY <2>1, <2>2 DEF Answers, Fits
  <2> QED
    BY <2>4, <2>5, <2>6 DEF all
<1> QED
  BY <1>1, InitExact, NextExact, PTL DEF Spec
-----------------------------------------------------------------------------
(* The books balance. *)

Recording(a) == {w \in Worker : a[w] = "record"}
Saved == stored (+) lost

\* There is no response just when there is no status.
Honest(r) == r.error = "no response" <=> r.status = 0

\* The results whose workers are to record them are among those that Save was
\* called with, and the counters have been told of the others.
Bookkeeping ==
  /\ FiniteBag(stored) /\ FiniteBag(lost)
  /\ IsFiniteSet(Recording(at))
  /\ Part(UnderWay, Saved) /\ Balanced(metrics, Recorded)
  /\ \A r \in Had : Honest(r)
  /\ \A w \in Worker : at[w] \in HasResult => Honest(result[w])

InvBooks == Typed /\ Bookkeeping

\* What is under way is what those who record have in hand.
LEMMA UnderWayIs ==
  /\ UnderWay = InHand(Recording(at), result) /\ UnderWay' = InHand(Recording(at'), result')
  /\ Recorded = Saved (-) UnderWay /\ Recorded' = Saved' (-) UnderWay'
BY DEF UnderWay, InHand, Recording, Recorded, Saved

\* What was recorded are results.
LEMMA RecordedBag ==
  ASSUME InvBooks
  PROVE  /\ FiniteBag(Saved) /\ FiniteBag(UnderWay) /\ FiniteBag(Recorded)
         /\ DOMAIN Recorded \subseteq Had /\ Had \subseteq Result
<1>1. /\ FiniteBag(stored) /\ FiniteBag(lost) /\ IsFiniteSet(Recording(at))
      /\ Part(UnderWay, Saved)
  BY DEF InvBooks, Bookkeeping
<1>2. FiniteBag(Saved) /\ DOMAIN Saved = Had
  BY <1>1, BothBags DEF Saved, Had
<1>3. FiniteBag(UnderWay)
  BY <1>1, InHandBag, UnderWayIs
<1>4. FiniteBag(Saved (-) UnderWay) /\ DOMAIN (Saved (-) UnderWay) \subseteq DOMAIN Saved
  BY <1>1, <1>2, <1>3, WithoutPart
<1>5. Had \subseteq Result
  BY DEF InvBooks, Typed, BooksTyped, Had
<1> QED
  BY <1>2, <1>3, <1>4, <1>5, UnderWayIs

\* A step that writes nothing and records nothing keeps the books.
LEMMA AsideBooks ==
  ASSUME InvBooks, UNCHANGED <<metrics, stored, lost>>,
         \A w \in Worker : \/ at'[w] = at[w] /\ result'[w] = result[w]
                           \/ /\ at[w] # "record" /\ at'[w] # "record"
                              /\ at'[w] \in HasResult => Honest(result'[w])
  PROVE  Bookkeeping'
<1>1. Recording(at') = Recording(at)
  BY DEF Recording
<1>2. UnderWay' = UnderWay
  <2>1. \A w \in Recording(at) : result'[w] = result[w]
    BY DEF Recording
  <2>2. InHand(Recording(at), result') = InHand(Recording(at), result)
    BY <2>1, InHandSame
  <2> QED
    BY <1>1, <2>2, UnderWayIs
<1>3. Saved' = Saved /\ Had' = Had
  BY DEF Saved, Had
<1>4. Recorded' = Recorded
  BY <1>2, <1>3, UnderWayIs
<1>5. \A w \in Worker : at'[w] \in HasResult => Honest(result'[w])
  BY DEF InvBooks, Bookkeeping
<1>6. /\ FiniteBag(stored') /\ FiniteBag(lost') /\ IsFiniteSet(Recording(at'))
      /\ Part(UnderWay', Saved') /\ Balanced(metrics', Recorded')
      /\ \A r \in Had' : Honest(r)
  BY <1>1, <1>2, <1>3, <1>4 DEF InvBooks, Bookkeeping
<1> QED
  BY <1>5, <1>6 DEF Bookkeeping, Honest

\* A worker that does not record goes somewhere else, or is done.
LEMMA GoesBooks ==
  ASSUME InvBooks, NEW w \in Worker, UNCHANGED <<metrics, stored, lost>>,
         at[w] # "record", NEW a \in Place, a # "record", NEW r,
         at' = [at EXCEPT ![w] = a], result' = [result EXCEPT ![w] = r],
         a \in HasResult => Honest(r)
  PROVE  Bookkeeping'
<1>1. CrewTyped
  BY DEF InvBooks, Typed
<1>2. /\ at'[w] = a /\ result'[w] = r
      /\ \A v \in Worker : v # w => at'[v] = at[v] /\ result'[v] = result[v]
  BY <1>1 DEF CrewTyped
<1>3. \A v \in Worker : \/ at'[v] = at[v] /\ result'[v] = result[v]
                        \/ /\ at[v] # "record" /\ at'[v] # "record"
                           /\ at'[v] \in HasResult => Honest(result'[v])
  BY <1>2
<1> QED
  BY <1>3, AsideBooks

\* What a fetch returns is honest.
LEMMA FetchedHonest ==
  ASSUME NEW p, NEW end
  PROVE  Honest(ResultOf(p, end))
<1> DEFINE s == end.reply.status
           whole == end.reply.whole
           e == IF s = 0 THEN "no response" ELSE IF whole THEN "" ELSE "body"
<1>1. ResultOf(p, end).error = e /\ ResultOf(p, end).status = s
  BY DEF ResultOf
<1>2. e = "no response" <=> s = 0
  OBVIOUS
<1> HIDE DEF e, s
<1> QED
  BY <1>1, <1>2 DEF Honest

\* A result is saved, or its Save fails: its worker is to record it.
LEMMA SaveBooks ==
  ASSUME InvBooks, NEW w \in Worker, Save(w)
  PROVE  Bookkeeping'
<1> DEFINE x == result[w]
<1>1. /\ at[w] = "save" /\ at' = [at EXCEPT ![w] = "record"]
      /\ UNCHANGED <<result, metrics>>
      /\ \/ stored' = OneMore(stored, x) /\ lost' = lost
         \/ lost' = OneMore(lost, x) /\ stored' = stored
  BY DEF Save, Goto
<1>2. CrewTyped /\ Honest(x)
  BY <1>1 DEF InvBooks, Typed, Bookkeeping, HasResult
<1>3. at'[w] = "record" /\ \A v \in Worker : v # w => at'[v] = at[v]
  BY <1>1, <1>2 DEF CrewTyped
<1>4. Recording(at') = Recording(at) \cup {w} /\ w \notin Recording(at)
  BY <1>1, <1>3 DEF Recording
<1>5. /\ FiniteBag(stored) /\ FiniteBag(lost) /\ IsFiniteSet(Recording(at))
      /\ Part(UnderWay, Saved) /\ Balanced(metrics, Recorded)
      /\ \A r \in Had : Honest(r)
  BY DEF InvBooks, Bookkeeping
<1>6. FiniteBag(Saved) /\ FiniteBag(UnderWay)
  BY RecordedBag
<1> HIDE DEF x
<1>7. /\ FiniteBag(OneMore(stored, x)) /\ DOMAIN OneMore(stored, x) = DOMAIN stored \cup {x}
      /\ FiniteBag(OneMore(lost, x)) /\ DOMAIN OneMore(lost, x) = DOMAIN lost \cup {x}
  BY <1>5, OneMoreBag
<1>8. FiniteBag(stored') /\ FiniteBag(lost') /\ Had' = Had \cup {x}
  BY <1>1, <1>5, <1>7 DEF Had
<1>9. Saved' = OneMore(Saved, x)
  <2>1. OneMore(stored, x) (+) lost = OneMore(Saved, x)
    BY <1>5, JoinsBoth DEF Saved
  <2>2. stored (+) OneMore(lost, x) = OneMore(Saved, x)
    BY <1>5, JoinsBoth DEF Saved
  <2> QED
    BY <1>1, <2>1, <2>2 DEF Saved
<1>10. UnderWay' = OneMore(UnderWay, x)
  <2>1. InHand(Recording(at) \cup {w}, result) = OneMore(InHand(Recording(at), result), result[w])
    BY <1>4, <1>5, InHandGrows
  <2> QED
    BY <1>1, <1>4, <2>1, UnderWayIs DEF x
<1>11. /\ Part(OneMore(UnderWay, x), OneMore(Saved, x))
       /\ OneMore(Saved, x) (-) OneMore(UnderWay, x) = Saved (-) UnderWay
  BY <1>5, <1>6, BothGrow
<1>12. Part(UnderWay', Saved') /\ Recorded' = Recorded
  BY <1>9, <1>10, <1>11, UnderWayIs
<1>13. IsFiniteSet(Recording(at'))
  BY <1>4, <1>5, FS_AddElement
<1>14. Balanced(metrics', Recorded')
  BY <1>1, <1>5, <1>12
<1>15. \A v \in Worker : at'[v] \in HasResult => Honest(result'[v])
  BY <1>1, <1>2, <1>3 DEF InvBooks, Bookkeeping, x
<1>16. \A r \in Had' : Honest(r)
  BY <1>2, <1>5, <1>8
<1> QED
  BY <1>8, <1>12, <1>13, <1>14, <1>15, <1>16 DEF Bookkeeping, Honest

\* A result is recorded: the counters are told of it.
LEMMA RecordBooks ==
  ASSUME InvBooks, NEW w \in Worker, Record(w)
  PROVE  Bookkeeping'
<1> DEFINE x == result[w]
           R == Recording(at')
<1>1. /\ at[w] = "record" /\ metrics' = RecordScrape(metrics, x)
      /\ UNCHANGED <<stored, lost>>
      /\ \/ at' = [at EXCEPT ![w] = "scan"] /\ result' = result
         \/ at' = [at EXCEPT ![w] = "idle"] /\ result' = [result EXCEPT ![w] = Nothing]
  BY DEF Record, Goto, Done
<1>2. CrewTyped /\ Honest(x) /\ x \in Result
  BY <1>1 DEF InvBooks, Typed, WorkerTyped, Bookkeeping, HasResult
<1>3. /\ \/ at'[w] = "scan" /\ result'[w] = x
         \/ at'[w] = "idle"
      /\ \A v \in Worker : v # w => at'[v] = at[v] /\ result'[v] = result[v]
  BY <1>1, <1>2 DEF CrewTyped
<1>4. /\ Recording(at) = R \cup {w} /\ w \notin R
      /\ \A v \in R : result[v] = result'[v]
  BY <1>1, <1>3 DEF Recording
<1>5. /\ FiniteBag(stored) /\ FiniteBag(lost) /\ IsFiniteSet(Recording(at))
      /\ Part(UnderWay, Saved) /\ Balanced(metrics, Recorded)
      /\ \A r \in Had : Honest(r)
  BY DEF InvBooks, Bookkeeping
<1>6. FiniteBag(Saved) /\ FiniteBag(Recorded) /\ DOMAIN Recorded \subseteq Result
  BY RecordedBag
<1>7. Saved' = Saved /\ Had' = Had
  BY <1>1 DEF Saved, Had
<1>8. IsFiniteSet(R)
  BY <1>4, <1>5, FS_Subset
<1> HIDE DEF x, R
<1>9. FiniteBag(UnderWay')
  BY <1>8, InHandBag, UnderWayIs DEF R
<1>10. UnderWay = OneMore(UnderWay', x)
  <2>1. InHand(R \cup {w}, result) = OneMore(InHand(R, result'), result[w])
    BY <1>4, <1>8, InHandGrows
  <2> QED
    BY <1>4, <2>1, UnderWayIs DEF x, R
<1>11. Part(UnderWay', Saved) /\ Saved (-) UnderWay' = OneMore(Saved (-) OneMore(UnderWay', x), x)
  <2> DEFINE U == UnderWay'
  <2>1. FiniteBag(U) /\ Part(OneMore(U, x), Saved)
    BY <1>5, <1>9, <1>10
  <2> HIDE DEF U
  <2>2. Part(U, Saved) /\ Saved (-) U = OneMore(Saved (-) OneMore(U, x), x)
    BY <1>6, <2>1, PartShrinks
  <2> QED
    BY <2>2 DEF U
<1>12. Recorded' = OneMore(Recorded, x)
  BY <1>7, <1>10, <1>11, UnderWayIs
<1>13. Balanced(metrics', Recorded')
  <2>1. \A r \in DOMAIN Recorded \cup {x} : r.bytes \in Nat
    BY <1>2, <1>6 DEF Result
  <2>2. Balanced(RecordScrape(metrics, x), OneMore(Recorded, x))
    BY <1>5, <1>6, <2>1, BalanceKept
  <2> QED
    BY <1>1, <1>12, <2>2
<1>14. \A v \in Worker : at'[v] \in HasResult => Honest(result'[v])
  <2>1. "idle" \notin HasResult
    BY DEF HasResult
  <2> QED
    BY <1>2, <1>3, <2>1 DEF InvBooks, Bookkeeping
<1>15. FiniteBag(stored') /\ FiniteBag(lost')
  BY <1>1, <1>5
<1>16. Part(UnderWay', Saved') /\ \A r \in Had' : Honest(r)
  BY <1>5, <1>7, <1>11
<1> QED
  BY <1>8, <1>13, <1>14, <1>15, <1>16 DEF Bookkeeping, Honest, R

\* Every step keeps the books.
LEMMA NextBooks == InvBooks /\ [Next]_vars => InvBooks'
<1> SUFFICES ASSUME InvBooks, [Next]_vars PROVE Bookkeeping'
  BY NextTyped DEF InvBooks
<1> DEFINE Same == UNCHANGED <<at, result, metrics, stored, lost>>
<1>1. CASE Search \/ ReadSitemap \/ NewCrawler \/ Ending \/ Cancel \/ Close \/ UNCHANGED vars
  <2>1. Search => Same
    BY DEF Search, crew, books
  <2>2. ReadSitemap => Same
    BY DEF ReadSitemap, crew, books
  <2>3. NewCrawler => Same
    BY DEF NewCrawler, crew, books
  <2>4. Ending => Same
    BY DEF Ending, ReturnNil, ReturnCancelled, Return, crew, books
  <2>5. Cancel => Same
    BY DEF Cancel, crew, books
  <2>6. Close => Same
    BY DEF Close, crew, books
  <2>7. UNCHANGED vars => Same
    BY DEF vars, crew, books
  <2> QED
    BY <1>1, <2>1, <2>2, <2>3, <2>4, <2>5, <2>6, <2>7, AsideBooks
<1>2. CASE Start
  <2>1. /\ run + 1 \in Run /\ UNCHANGED <<result, metrics, stored, lost>>
        /\ at' = [w \in Worker |-> IF w \in Crew[run + 1] THEN "idle" ELSE at[w]]
    BY <1>2 DEF Start, books
  <2>2. \A w \in Crew[run + 1] : at[w] = "off"
    <3> SUFFICES ASSUME NEW w \in Crew[run + 1] PROVE at[w] = "off"
      OBVIOUS
    <3>1. w \in Worker /\ RunOf(w) = run + 1
      BY <2>1, OwnRun
    <3>2. run \in Nat /\ (at[w] # "off" => RunOf(w) \in 1..run)
      BY <3>1 DEF InvBooks, Typed, CrawlTyped, WorkerTyped
    <3>3. ~(run + 1 \in 1..run)
      BY <3>2
    <3> QED
      BY <3>1, <3>2, <3>3
  <2>3. \A w \in Worker : \/ at'[w] = at[w] /\ result'[w] = result[w]
                          \/ /\ at[w] # "record" /\ at'[w] # "record"
                             /\ at'[w] \in HasResult => Honest(result'[w])
    BY <2>1, <2>2 DEF HasResult
  <2> QED
    BY <2>1, <2>3, AsideBooks
<1>3. ASSUME NEW w \in Worker, Step(w) PROVE Bookkeeping'
  <2>1. /\ result = [result EXCEPT ![w] = result[w]]
        /\ at[w] \in HasResult => Honest(result[w])
    BY Kept DEF InvBooks, Bookkeeping
  <2>2. CASE Take(w) \/ Exit(w) \/ Pass(w) \/ PassFails(w) \/ Scan(w) \/ Mark(w) \/ MarkCut(w)
    <3> DEFINE Moves(a, r) == /\ at[w] # "record" /\ UNCHANGED <<metrics, stored, lost>>
                              /\ at' = [at EXCEPT ![w] = a] /\ result' = [result EXCEPT ![w] = r]
    <3>1. Take(w) => Moves("limit", result[w])
      BY <2>1 DEF Take, Goto, books
    <3>2. Exit(w) => Moves("gone", result[w])
      BY <2>1 DEF Exit, Goto, books
    <3>3. Pass(w) => Moves("fetch", result[w])
      BY <2>1 DEF Pass, Goto, books
    <3>4. PassFails(w) => Moves("idle", Nothing)
      BY DEF PassFails, Done, Goto, books
    <3>5. Scan(w) => Moves("mark", result[w]) /\ at[w] = "scan"
      BY <2>1 DEF Scan, Goto, books
    <3>6. Mark(w) => Moves("idle", Nothing)
      BY DEF Mark, Done, Goto, books
    <3>7. MarkCut(w) => Moves("idle", Nothing)
      BY DEF MarkCut, Done, Goto, books
    <3> HIDE DEF Moves
    <3>8. ASSUME NEW a \in Place \ {"record"}, NEW r, Moves(a, r), a \in HasResult => Honest(r)
          PROVE  Bookkeeping'
      BY <3>8, GoesBooks DEF Moves
    <3>9. /\ {"limit", "gone", "fetch", "idle", "mark"} \subseteq Place \ {"record"}
          /\ {"limit", "gone", "fetch", "idle"} \cap HasResult = {} /\ "scan" \in HasResult
      BY DEF Place, HasResult
    <3> QED
      BY <2>1, <2>2, <3>1, <3>2, <3>3, <3>4, <3>5, <3>6, <3>7, <3>8, <3>9
  <2>3. CASE Fetched(w)
    <3>1. PICK p, end : result' = [result EXCEPT ![w] = ResultOf(p, end)]
      BY <2>3 DEF Fetched
    <3>2. /\ at[w] # "record" /\ "save" \in Place /\ "save" # "record"
          /\ at' = [at EXCEPT ![w] = "save"] /\ UNCHANGED <<metrics, stored, lost>>
      BY <2>3 DEF Fetched, Goto, books, Place
    <3>3. Honest(ResultOf(p, end))
      BY FetchedHonest
    <3> DEFINE r == ResultOf(p, end)
    <3> HIDE DEF r
    <3> QED
      BY <3>1, <3>2, <3>3, GoesBooks DEF r
  <2>4. CASE Save(w)
    BY <2>4, SaveBooks
  <2>5. CASE Record(w)
    BY <2>5, RecordBooks
  <2> QED
    BY <1>3, <2>2, <2>3, <2>4, <2>5 DEF Step
<1> QED
  BY <1>1, <1>2, <1>3 DEF Next

\* Nothing was recorded yet.
LEMMA InitBooks == Init => InvBooks
<1> SUFFICES ASSUME Init PROVE Bookkeeping
  BY InitTyped DEF InvBooks
<1>1. /\ stored = EmptyBag /\ lost = EmptyBag /\ metrics = NoMetrics
      /\ \A w \in Worker : at[w] = "off"
  BY DEF Init
<1>2. FiniteBag(EmptyBag) /\ DOMAIN EmptyBag = {}
  BY FS_EmptySet DEF EmptyBag, SetToBag, FiniteBag
<1>3. Recording(at) = {} /\ Had = {}
  BY <1>1, <1>2 DEF Recording, Had
<1>4. IsFiniteSet(Recording(at))
  BY <1>3, FS_EmptySet
<1>5. FiniteBag(Saved) /\ DOMAIN Saved = {} /\ FiniteBag(UnderWay)
  BY <1>1, <1>2, <1>4, BothBags, InHandBag, UnderWayIs DEF Saved
<1>6. \A e : Copies(UnderWay, e) = 0 /\ Copies(Saved, e) = 0
  <2>1. DOMAIN UnderWay = {}
    BY <1>3, UnderWayIs DEF InHand
  <2> QED
    BY <1>5, <2>1 DEF Copies
<1>7. Part(UnderWay, Saved)
  BY <1>6 DEF Part
<1>8. DOMAIN Recorded = {}
  BY <1>5, <1>7, WithoutPart, UnderWayIs
<1>9. Balanced(metrics, Recorded)
  BY <1>1, <1>8, BalanceOfNothing
<1>10. \A w \in Worker : at[w] \notin HasResult
  BY <1>1 DEF HasResult
<1> QED
  BY <1>1, <1>2, <1>3, <1>4, <1>7, <1>9, <1>10 DEF Bookkeeping

\* Balanced counters say what a report on the results says.
LEMMA BalancedBooks ==
  ASSUME InvBooks
  PROVE  BooksBalance
<1> DEFINE K == Recorded
           C == metrics.requests
           L == DOMAIN C \cup {Label(r) : r \in DOMAIN K}
<1>1. /\ FiniteBag(K) /\ FiniteBag(C) /\ metrics.bytes = Bytes(K)
      /\ \A Q : Among(C, Q) = Among(K, {r \in DOMAIN K : Label(r) \in Q})
  BY RecordedBag DEF InvBooks, Bookkeeping, Balanced
<1>2. ASSUME NEW r \in DOMAIN K
      PROVE  /\ r.status \in Codes /\ r.error \in {"", "no response", "body"}
             /\ r.error = "no response" <=> r.status = 0
             /\ Label(r).detected <=> r.source # ""
             /\ Label(r).source = r.source
             /\ Label(r).status = "error" <=> r.error # ""
             /\ \A s \in Codes : Label(r).status = ToString(s) <=> r.error = "" /\ r.status = s
  <2>1. r \in Result /\ Honest(r)
    BY RecordedBag DEF InvBooks, Bookkeeping
  <2>2. r.status \in Codes /\ r.error \in {"", "no response", "body"}
    BY <2>1 DEF Result
  <2>3. /\ Label(r).detected = (r.source # "") /\ Label(r).source = r.source
        /\ Label(r).status = IF r.error # "" THEN "error" ELSE ToString(r.status)
    BY DEF Label
  <2> QED
    BY <2>1, <2>2, <2>3, CodesAssumption DEF Honest
<1>3. IsFiniteSet(DOMAIN K) /\ \A r \in DOMAIN K : K[r] \in Nat
  BY <1>1 DEF FiniteBag
<1> HIDE DEF K, C
<1>4. ASSUME NEW Z
      PROVE  SumOf(C, {l \in DOMAIN C : l \in Z}) = SumOf(K, {r \in DOMAIN K : Label(r) \in Z})
  <2> DEFINE Q == {r \in DOMAIN K : Label(r) \in Z}
  <2>1. {r \in DOMAIN K : r \in Q} = Q
    OBVIOUS
  <2>2. Among(C, Z) = Among(K, Q)
    BY <1>1
  <2> HIDE DEF Q
  <2>3. SumOf(C, {l \in DOMAIN C : l \in Z}) = SumOf(K, Q)
    BY <2>1, <2>2 DEF Among
  <2> QED
    BY <2>3 DEF Q
<1>5. SumOf(K, DOMAIN K) = SumOf(C, {l \in DOMAIN C : TRUE})
  <2>1. {l \in DOMAIN C : l \in L} = {l \in DOMAIN C : TRUE} /\ {r \in DOMAIN K : Label(r) \in L} = DOMAIN K
    OBVIOUS
  <2> HIDE DEF L
  <2> QED
    BY <1>4, <2>1
<1>6. SumOf(K, {r \in DOMAIN K : r.error # ""}) = SumOf(C, {l \in DOMAIN C : l.status = "error"})
  <2> DEFINE Z == {l \in L : l.status = "error"}
  <2>1. {l \in DOMAIN C : l \in Z} = {l \in DOMAIN C : l.status = "error"}
    OBVIOUS
  <2>2. {r \in DOMAIN K : Label(r) \in Z} = {r \in DOMAIN K : r.error # ""}
    BY <1>2
  <2> HIDE DEF Z
  <2> QED
    BY <1>4, <2>1, <2>2
<1>7. SumOf(K, {r \in DOMAIN K : r.source # ""}) = SumOf(C, {l \in DOMAIN C : l.detected})
  <2> DEFINE Z == {l \in L : l.detected}
  <2>1. {l \in DOMAIN C : l \in Z} = {l \in DOMAIN C : l.detected}
    OBVIOUS
  <2>2. {r \in DOMAIN K : Label(r) \in Z} = {r \in DOMAIN K : r.source # ""}
    BY <1>2, Zenon
  <2> HIDE DEF Z
  <2> QED
    BY <1>4, <2>1, <2>2
<1>8. ASSUME NEW source
      PROVE  SumOf(K, {r \in DOMAIN K : r.source = source}) = SumOf(C, {l \in DOMAIN C : l.source = source})
  <2> DEFINE Z == {l \in L : l.source = source}
  <2>1. {l \in DOMAIN C : l \in Z} = {l \in DOMAIN C : l.source = source}
    OBVIOUS
  <2>2. {r \in DOMAIN K : Label(r) \in Z} = {r \in DOMAIN K : r.source = source}
    BY <1>2
  <2> HIDE DEF Z
  <2> QED
    BY <1>4, <2>1, <2>2
<1>9. ASSUME NEW s \in {r.status : r \in DOMAIN K} \ {0}
      PROVE  SumOf(K, {r \in DOMAIN K : r.status = s})
               = SumOf(C, {l \in DOMAIN C : l.status = ToString(s)})
                 + SumOf(K, {r \in DOMAIN K : r.error = "body" /\ r.status = s})
  <2> DEFINE Z == {l \in L : l.status = ToString(s)}
             A == {r \in DOMAIN K : r.error = "" /\ r.status = s}
             B == {r \in DOMAIN K : r.error = "body" /\ r.status = s}
  <2>1. s \in Codes /\ s # 0
    <3>1. PICK r \in DOMAIN K : s = r.status
      OBVIOUS
    <3>2. r.status \in Codes
      BY <1>2
    <3> QED
      BY <3>1, <3>2
  <2>2. {l \in DOMAIN C : l \in Z} = {l \in DOMAIN C : l.status = ToString(s)}
    OBVIOUS
  <2>3. {r \in DOMAIN K : Label(r) \in Z} = A
    BY <1>2, <2>1
  <2>4. {r \in DOMAIN K : r.status = s} = A \cup B
    BY <1>2, <2>1
  <2>5. A \cap B = {} /\ A \subseteq DOMAIN K /\ B \subseteq DOMAIN K
    OBVIOUS
  <2> HIDE DEF Z, A
  <2>6. SumOf(C, {l \in DOMAIN C : l.status = ToString(s)}) = SumOf(K, A)
    BY <1>4, <2>2, <2>3
  <2> HIDE DEF B
  <2>7. IsFiniteSet(A) /\ IsFiniteSet(B) /\ \A r \in A \cup B : K[r] \in Nat
    BY <1>3, <2>5, FS_Subset
  <2>8. SumOf(K, A \cup B) = SumOf(K, A) + SumOf(K, B)
    BY <2>5, <2>7, SumSplit
  <2> QED
    BY <2>4, <2>6, <2>8 DEF B
<1> DEFINE R == GenerateSummary(K)
           counted(Kind(_)) == Number(C, Kind)
<1>10. /\ R.TotalRequests = SumOf(K, DOMAIN K)
       /\ R.TotalErrors = SumOf(K, {r \in DOMAIN K : r.error # ""})
       /\ R.TotalDetections = SumOf(K, {r \in DOMAIN K : r.source # ""})
       /\ R.TotalBytes = Bytes(K)
  BY DEF GenerateSummary, Number, Total, Bytes
<1>11. /\ DOMAIN R.StatusCodes = {r.status : r \in DOMAIN K} \ {0}
       /\ \A s \in DOMAIN R.StatusCodes :
            R.StatusCodes[s] = SumOf(K, {r \in DOMAIN K : r.status = s})
       /\ \A source \in DOMAIN R.DetectionsBySrc :
            R.DetectionsBySrc[source] = SumOf(K, {r \in DOMAIN K : r.source = source})
  BY DEF GenerateSummary, Number
<1> HIDE DEF R
<1>12. /\ R.TotalRequests = counted(LAMBDA l : TRUE)
       /\ R.TotalErrors = counted(LAMBDA l : l.status = "error")
       /\ R.TotalDetections = counted(LAMBDA l : l.detected)
       /\ R.TotalBytes = metrics.bytes
  BY <1>1, <1>5, <1>6, <1>7, <1>10 DEF Number
<1>13. \A source \in DOMAIN R.DetectionsBySrc :
         R.DetectionsBySrc[source] = counted(LAMBDA l : l.source = source)
  BY <1>8, <1>11 DEF Number
<1>14. \A s \in DOMAIN R.StatusCodes :
         R.StatusCodes[s] = counted(LAMBDA l : l.status = ToString(s))
                            + Number(K, LAMBDA r : r.error = "body" /\ r.status = s)
  BY <1>9, <1>11 DEF Number
<1> QED
  BY <1>12, <1>13, <1>14 DEF BooksBalance, R, K, C

\* At any time the counters of the process say what a report on the results
\* that were recorded says, whatever pages send, Saves fail and Runs are
\* cancelled, and however the workers of several Runs interleave.
THEOREM BooksAreBalanced == Spec => []BooksBalance
<1>1. InvBooks => BooksBalance
  BY BalancedBooks
<1> QED
  BY InitBooks, NextBooks, <1>1, PTL DEF Spec
-----------------------------------------------------------------------------
(* What the search of a text finds. *)

\* What is kept of a search of a text for terms, and the search that was made.
SearchOf(text, terms) ==
  [text |-> text, terms |-> terms, plain |-> FindTermMatches(text, terms),
   fast |-> FindTermMatchesOptimized(text, terms)]
Searched == search = Nothing \/ \E text \in Texts, terms \in TermLists : search = SearchOf(text, terms)

\* Nothing but Search changes what was searched for and found.
LEMMA NextSearched == Searched /\ [Next]_vars => Searched'
<1> SUFFICES ASSUME Searched, [Next]_vars PROVE Searched'
  OBVIOUS
<1>1. ASSUME search' = search PROVE Searched'
  BY <1>1 DEF Searched
<1>2. CASE Search
  BY <1>2 DEF Search, Searched, SearchOf
<1>3. CASE ReadSitemap \/ NewCrawler \/ Start \/ Ending \/ Cancel \/ Close \/ UNCHANGED vars
  <2>1. ReadSitemap => search' = search
    BY DEF ReadSitemap, caller_
  <2>2. NewCrawler => search' = search
    BY DEF NewCrawler
  <2>3. Start => search' = search
    BY DEF Start
  <2>4. Ending => search' = search
    BY DEF Ending, ReturnNil, ReturnCancelled, Return
  <2>5. Cancel => search' = search
    BY DEF Cancel, caller_
  <2>6. Close => search' = search
    BY DEF Close
  <2>7. UNCHANGED vars => search' = search
    BY DEF vars, caller_
  <2> QED
    BY <1>1, <1>3, <2>1, <2>2, <2>3, <2>4, <2>5, <2>6, <2>7
<1>4. ASSUME NEW w \in Worker, Step(w) PROVE Searched'
  <2>1. Take(w) \/ Exit(w) \/ Pass(w) \/ PassFails(w) \/ Fetched(w) => search' = search
    BY DEF Take, Exit, Pass, PassFails, Fetched, Others, caller_
  <2>2. Save(w) \/ Record(w) \/ Scan(w) \/ Mark(w) \/ MarkCut(w) => search' = search
    BY DEF Save, Record, Scan, Mark, MarkCut, Others, caller_
  <2> QED
    BY <1>1, <1>4, <2>1, <2>2 DEF Step
<1> QED
  BY <1>2, <1>3, <1>4 DEF Next

\* In what a search made of a text and terms the sentences are sound, and every
\* match counts right.
LEMMA SearchIsRight ==
  ASSUME NEW text \in Texts, NEW terms \in TermLists, search = SearchOf(text, terms)
  PROVE  Matchers
<1>1. text \in Seq(Char) /\ terms \in Seq(Seq(Char))
  BY TextsAssumption
<1> DEFINE plain == FindTermMatches(text, terms)
           fast == FindTermMatchesOptimized(text, terms)
<1>2. search.text = text /\ search.plain = plain /\ search.fast = fast
  BY DEF SearchOf
<1>3. SentencesSound(text)
  BY <1>1, SplitIsSound
<1>4. \A match \in ToSet(plain) \cup ToSet(fast) : CountedRight(text, match)
  BY <1>1, SearchesCountRight
<1> HIDE DEF plain, fast
<1> QED
  BY <1>2, <1>3, <1>4 DEF Matchers

\* Every text is split soundly, and whatever either function reports of a term
\* counts the most occurrences that do not overlap and lists no more sentences.
THEOREM SearchesAreRight == Spec => []Matchers
<1>1. Init => Searched
  BY DEF Init, Searched
<1>2. Searched => Matchers
  <2>1. search = Nothing => Matchers
    BY DEF Matchers
  <2> QED
    BY <2>1, SearchIsRight DEF Searched
<1> QED
  BY <1>1, <1>2, NextSearched, PTL DEF Spec
=============================================================================
