--------------------------- MODULE MCProxiedFetch ---------------------------
(* Loads for ProxiedFetch. *)
EXTENDS ProxiedFetch

\* Three proxies in two calls, the second one of them cut short.
TwoCalls == <<<<"p", "q">>, <<"r", BadURL, "p">>>>

\* A list that names a proxy twice.
Twice == <<<<"p", "q", "p">>>>
=============================================================================
