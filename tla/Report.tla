------------------------------- MODULE Report -------------------------------
(***************************************************************************)
(* The two accounts of a session's results: GenerateSummary, over the      *)
(* results a query returned (internal/report/report.go), and the           *)
(* counters RecordScrape keeps (internal/metrics/metrics.go).  Results     *)
(* come as a bag, the counters are a bag of label values.                  *)
(***************************************************************************)
EXTENDS Naturals, FiniteSetsExt, Bags, TLC

\* A bag with one more of an element.
OneMore(B, x) == B (+) SetToBag({x})

\* The sum of f over a set.
SumOf(f, S) == MapThenSumSet(LAMBDA x : f[x], S)

\* How many elements of a bag there are of a kind.
Number(B, Kind(_)) == SumOf(B, {x \in DOMAIN B : Kind(x)})

Total(B, Weight(_)) == SumOf([x \in DOMAIN B |-> B[x] * Weight(x)], DOMAIN B)

\* The maps have the keys that occur; the times are 0 for no results.
GenerateSummary(results) ==
  LET kinds == DOMAIN results
      times == {r.createdAt : r \in kinds} \cup (IF kinds = {} THEN {0} ELSE {})
  IN  [TotalRequests |-> SumOf(results, kinds),
       TotalErrors |-> Number(results, LAMBDA r : r.error # ""),
       TotalDetections |-> Number(results, LAMBDA r : r.source # ""),
       StatusCodes |-> [code \in {r.status : r \in kinds} \ {0} |->
                          Number(results, LAMBDA r : r.status = code)],
       DetectionsBySrc |-> [source \in {r.source : r \in kinds} \ {""} |->
                              Number(results, LAMBDA r : r.source = source)],
       TotalBytes |-> Total(results, LAMBDA r : r.bytes),
       StartTime |-> Min(times), EndTime |-> Max(times),
       Duration |-> Max(times) - Min(times)]

\* ScrapeRequestsTotal by status, detection and source, ScrapeBytesTotal, and
\* the observations of ScrapeDuration.
NoMetrics == [requests |-> EmptyBag, bytes |-> 0, durations |-> 0]

\* Mutant: the label has the status code where there is one.
LabelByStatus(res) ==
  [status |-> IF res.error # "" /\ res.status = 0 THEN "error" ELSE ToString(res.status),
   detected |-> res.source # "", source |-> res.source]

Label(res) ==
  [status |-> IF res.error # "" THEN "error" ELSE ToString(res.status),
   detected |-> res.source # "", source |-> res.source]

RecordScrape(metrics, res) ==
  [requests |-> OneMore(metrics.requests, Label(res)),
   bytes |-> metrics.bytes + res.bytes, durations |-> metrics.durations + 1]
=============================================================================
