---------------------------- MODULE CrawlPromise ----------------------------
(***************************************************************************)
(* What Crawler.Run promises its caller, without channels, workers or      *)
(* counters: work breeds work until none is open, and a nil error says     *)
(* that none is open and that every page found has been answered, by a     *)
(* result handed to the storage backend or by a refusal of its robots.txt. *)
(***************************************************************************)
EXTENDS Naturals

CONSTANT Page

VARIABLES
  open,      \* how many pieces of work are not finished
  found,     \* the pages the crawl knows of
  answered,  \* the pages that have an answer
  cancelled, \* has the caller given up?
  outcome    \* what Run returned, if it has

vars == <<open, found, answered, cancelled, outcome>>

TypeOK ==
  /\ open \in Nat
  /\ found \in SUBSET Page
  /\ answered \in SUBSET Page
  /\ cancelled \in BOOLEAN
  /\ outcome \in {"none", "ok", "cancelled"}

Init ==
  /\ open = 1
  /\ found = {}
  /\ answered = {}
  /\ cancelled = FALSE
  /\ outcome = "none"

\* Open work finds a page, maybe one that is known already.
Discover ==
  /\ open > 0 /\ outcome # "ok"
  /\ open' = open + 1
  /\ \E p \in Page : found' = found \cup {p}
  /\ UNCHANGED <<answered, cancelled, outcome>>

\* Open work answers a page that was found.
Reply ==
  /\ open > 0 /\ outcome # "ok"
  /\ \E p \in found : answered' = answered \cup {p}
  /\ UNCHANGED <<open, found, cancelled, outcome>>

Finish ==
  /\ open > 0 /\ outcome # "ok"
  /\ open' = open - 1
  /\ UNCHANGED <<found, answered, cancelled, outcome>>

GiveUp ==
  /\ cancelled' = TRUE
  /\ UNCHANGED <<open, found, answered, outcome>>

ReturnOk ==
  /\ outcome = "none" /\ open = 0
  /\ cancelled \/ answered = found
  /\ outcome' = "ok"
  /\ UNCHANGED <<open, found, answered, cancelled>>

ReturnCancelled ==
  /\ outcome = "none" /\ cancelled
  /\ outcome' = "cancelled"
  /\ UNCHANGED <<open, found, answered, cancelled>>

Next == Discover \/ Reply \/ Finish \/ GiveUp \/ ReturnOk \/ ReturnCancelled

Spec == Init /\ [][Next]_vars
=============================================================================
