----------------------------- MODULE MCSession -----------------------------
(***************************************************************************)
(* Session on a site of two pages and one elsewhere, which redirects lead  *)
(* to, and with sitemaps that nest, fail, break off and lead back to       *)
(* themselves.                                                             *)
(***************************************************************************)
EXTENDS Session

List(entries) == [up |-> TRUE, entries |-> entries, parsed |-> TRUE, nested |-> <<>>, indexed |-> TRUE]
Index(docs) == [up |-> TRUE, entries |-> <<>>, parsed |-> TRUE, nested |-> docs, indexed |-> TRUE]
Torn(entries, indexed) == [up |-> TRUE, entries |-> entries, parsed |-> FALSE, nested |-> <<>>, indexed |-> indexed]
Mixed(entries, docs) == [up |-> TRUE, entries |-> entries, parsed |-> FALSE, nested |-> docs, indexed |-> TRUE]
Down == [List(<<>>) EXCEPT !.up = FALSE]

MCDoc == {"root", "a", "b"}
Roots == {Index(<<"a", "b">>), Index(<<"a", "a">>), List(<<"home", "news">>), List(<<>>), Down,
          Torn(<<"home", "news">>, TRUE), Torn(<<"home">>, FALSE), Mixed(<<"home", "news">>, <<"a">>)}
MCWebs == {[d \in MCDoc |-> CASE d = "root" -> r [] d = "a" -> a [] OTHER -> b] :
  r \in Roots,
  a \in {Index(<<"b">>), Index(<<"root">>), List(<<"home", "news">>), Down, Torn(<<"home", "news">>, TRUE)},
  b \in {List(<<"news", "home", "news">>), Torn(<<"home">>, FALSE), Index(<<"b", "a">>)}}

Says(status, signs) == [status |-> status, to |-> NoPage, html |-> TRUE, signs |-> signs,
                        bytes |-> 1, whole |-> TRUE]
Moved(p) == [Says(302, {}) EXCEPT !.to = p, !.html = FALSE]
Broken(status, signs) == [Says(status, signs) EXCEPT !.whole = FALSE]

Site == {"home", "news", "elsewhere"}
MCServes == [p \in Site |->
  CASE p = "home" -> {Says(200, {}), Moved("news")}
    [] p = "news" -> {Broken(403, {"px-captcha", "Reference #", "Access Denied"}), Moved("elsewhere")}
    [] OTHER -> {Says(200, {"px-captcha"})}]
MCAnchors == [p \in Site |-> IF p = "home" THEN {"news", "elsewhere"} ELSE {"home"}]
MCResolve == [p \in Site |-> [h \in Site |-> h]]
MCSeedLists == {<<"elsewhere", "news">>}
MCCrew == <<{"w1", "w2"}, {"w3"}>>
MCTexts == UNION {[1..n -> Char] : n \in 0..4}
MCTerms == {<<>>} \cup {<<t>> : t \in UNION {[1..n -> Char] : n \in 0..2}} \cup {<<<<"x">>, <<".">>>>}
=============================================================================
