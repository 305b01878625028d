------------------------------ MODULE Sitemap ------------------------------
(***************************************************************************)
(* SitemapFetcher.FetchSitemap (internal/scraper/sitemap.go): a recursion  *)
(* through sitemaps and sitemap indexes, as a stack of calls.              *)
(*                                                                         *)
(* What the sitemap library makes of a document is data: the entries Parse *)
(* delivers before it ends or fails, and the nested sitemaps ParseIndex    *)
(* delivers.  up is FALSE for a document whose fetch has an Error or ends  *)
(* with a status of 400 or more.                                           *)
(***************************************************************************)
EXTENDS Naturals, SequencesExt

CONSTANTS
  Doc,       \* the URLs of sitemaps
  Root,      \* the sitemap the caller asks for
  Entry,     \* the URLs that sitemaps list
  Webs,      \* the assignments of contents to documents that are looked at
  MaxNesting \* bound: how deep calls nest, where an index leads back to itself

Content == [up : BOOLEAN, entries : Seq(Entry), parsed : BOOLEAN,
            nested : Seq(Doc), indexed : BOOLEAN]

ASSUME SitemapAssumption ==
  Root \in Doc /\ MaxNesting \in Nat /\ Webs \subseteq [Doc -> Content]

VARIABLES
  web,    \* the contents of the documents
  calls,  \* the calls under way, the innermost last
  answer, \* what FetchSitemap(Root) returned
  cut     \* has the context been cancelled?

sitemap == <<web, calls, answer, cut>>

Call == [doc : Doc, at : {"fetch", "nested"}, todo : Seq(Doc), urls : Seq(Entry)]
CallOf(d) == [doc |-> d, at |-> "fetch", todo |-> <<>>, urls |-> <<>>]

Answer == [ok : BOOLEAN, urls : Seq(Entry)]
Error == [ok |-> FALSE, urls |-> <<>>]
Ok(urls) == [ok |-> TRUE, urls |-> urls]

SitemapInit ==
  /\ web \in Webs
  /\ calls = <<CallOf(Root)>>
  /\ answer = Error
  /\ cut = FALSE

\* The innermost call returns.  A caller that gets an error goes on with the
\* next nested sitemap.
Returns(result) ==
  LET rest == Front(calls)
  IN  /\ calls' = IF rest = <<>> THEN <<>>
                  ELSE [rest EXCEPT ![Len(rest)].urls = @ \o result.urls]
      /\ answer' = IF rest = <<>> THEN result ELSE answer
      /\ UNCHANGED <<web, cut>>

Innermost == Last(calls)
Fetching == calls # <<>> /\ Innermost.at = "fetch"

\* Mutant: a parse error is returned before the index is tried.
ReadAsGivesUp(c) ==
  IF ~c.up \/ ~c.parsed THEN "refused"
  ELSE IF c.entries # <<>> THEN "list"
  ELSE IF ~c.indexed \/ c.nested = <<>> THEN "refused"
  ELSE "index"

\* What the code takes a document for.  An index is tried when parsing failed
\* or gave nothing, and it counts when it has something or entries were read.
ReadAs(c) ==
  IF ~c.up THEN "refused"
  ELSE IF c.parsed /\ c.entries # <<>> THEN "list"
  ELSE IF ~c.indexed \/ (c.entries = <<>> /\ c.nested = <<>>) THEN "refused"
  ELSE "index"

Fetch ==
  /\ Fetching /\ ~cut
  /\ LET c == web[Innermost.doc]
     IN  CASE ReadAs(c) = "refused" -> Returns(Error)
           [] ReadAs(c) = "list" -> Returns(Ok(c.entries))
           [] OTHER ->
                /\ Len(calls) < MaxNesting
                /\ calls' = [calls EXCEPT ![Len(calls)] =
                      [@ EXCEPT !.at = "nested", !.todo = c.nested, !.urls = c.entries]]
                /\ UNCHANGED <<web, answer, cut>>

\* Mutant: a fetch that failed is tried again.
FetchCutRetries == Fetching /\ cut /\ UNCHANGED sitemap

\* Under a cancelled context every fetch fails.
FetchCut == Fetching /\ cut /\ Returns(Error)

\* The loop over the nested sitemaps: the next one, or all are through.
Nest ==
  /\ calls # <<>> /\ Innermost.at = "nested" /\ Innermost.todo # <<>>
  /\ calls' = Append([calls EXCEPT ![Len(calls)].todo = Tail(@)],
                     CallOf(Head(Innermost.todo)))
  /\ UNCHANGED <<web, answer, cut>>

End ==
  /\ calls # <<>> /\ Innermost.at = "nested" /\ Innermost.todo = <<>>
  /\ Returns(Ok(Innermost.urls))

CutSitemap ==
  /\ calls # <<>> /\ ~cut
  /\ cut' = TRUE
  /\ UNCHANGED <<web, calls, answer>>

FetchSitemap == Fetch \/ FetchCut \/ Nest \/ End
-----------------------------------------------------------------------------
(* What the recursion is to compute. *)

Leads(d) == IF ReadAs(web[d]) = "index" THEN ToSet(web[d].nested) ELSE {}

\* The documents that can be reached from some.
From(docs) == {d \in Doc : \A S \in SUBSET Doc :
                  docs \subseteq S /\ (\A e \in S : Leads(e) \subseteq S) => d \in S}

Cyclic == \E d \in From({Root}) : d \in From(Leads(d))

Entries(d) == IF web[d].up /\ (web[d].parsed \/ web[d].indexed) THEN ToSet(web[d].entries) ELSE {}

\* FetchSitemap fails exactly if the document it was called for cannot be used,
\* and else returns what is listed by the documents that can be reached, the
\* ones nested in others and the ones read in part included; a cancelled
\* context can only cost some of it (sitemap.go:39-45, 55-66, 69-79).
SitemapExact ==
  calls = <<>> =>
    LET all == UNION {Entries(d) : d \in From({Root})}
    IN  /\ answer.ok => ReadAs(web[Root]) # "refused" /\ ToSet(answer.urls) \subseteq all
        /\ ~cut => answer.ok = (ReadAs(web[Root]) # "refused")
        /\ ~cut /\ answer.ok => ToSet(answer.urls) = all

\* FetchSitemap returns, unless indexes lead back to themselves and nobody
\* cancels: nothing remembers which sitemaps were read (sitemap.go:69-76).
SitemapEnds == calls # <<>> ~> calls = <<>> \/ (Cyclic /\ ~cut)
=============================================================================
