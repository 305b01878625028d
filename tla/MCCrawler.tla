----------------------------- MODULE MCCrawler -----------------------------
(***************************************************************************)
(* Small webs for Crawler.  a#top and c#s are a and c with a fragment, x is*)
(* out of scope.  In MCLinks c and d are linked from two pages each, d     *)
(* links back to a seed, a fetch of c can fail, and f is more than         *)
(* MaxDepth links away from a and b.  From g more links are found at once  *)
(* than a channel of two has room for.                                     *)
(***************************************************************************)
EXTENDS CrawlerProperties

MCURL == {"a", "a#top", "b", "c", "c#s", "d", "e", "f", "g", "x"}
MCNorm == [u \in MCURL |-> CASE u = "a#top" -> "a" [] u = "c#s" -> "c" [] OTHER -> u]
MCPage == MCURL \ {"a#top", "c#s"}
MCInScope == MCPage \ {"x"}
MCSeedLists == {<<"b", "a#top", "x", "a">>, <<"g">>, <<"b", "c", "a">>, <<>>}
MCLinks == [p \in MCPage |->
  CASE p = "a" -> <<"c", "d">>
    [] p = "b" -> <<"x", "d">>
    [] p = "c" -> <<"e">>
    [] p = "d" -> <<"c#s", "a#top">>
    [] p = "e" -> <<"f">>
    [] p = "g" -> <<"d", "c", "f">>
    [] OTHER -> <<>>]
MCResponse == [p \in MCPage |->
  CASE p = "c" -> {"html", "error"} [] p = "f" -> {"other"} [] OTHER -> {"html"}]
MCVerdict == [p \in MCPage |-> IF p = "d" THEN {"allow", "deny"} ELSE {"allow"}]

\* The same web with nothing in doubt, and single lists of seeds.
AllHtml == [p \in MCPage |-> {"html"}]
AllAllowed == [p \in MCPage |-> {"allow"}]
TwoSeeds == {<<"a", "b">>}
OneSeed == {<<"g">>}

\* A web with a shortcut: c is one link from a and two links from b.
Shortcut == [p \in MCPage |->
  CASE p = "a" -> <<"c">> [] p = "b" -> <<"d">> [] p = "d" -> <<"c#s", "b">>
    [] p = "c" -> <<"e", "x">> [] OTHER -> <<>>]
=============================================================================
