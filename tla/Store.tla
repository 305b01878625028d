------------------------------- MODULE Store -------------------------------
(***************************************************************************)
(* The storage backends behind storage.Backend: one line per result in a   *)
(* file (internal/storage/csvbackend/csv.go, jsonbackend/json.go) or one   *)
(* row of a table (sqlite/sqlite.go, postgres/postgres.go).  Save and      *)
(* Query are one step each: they hold a mutex or are one statement.  But a *)
(* write to a file may be cut short by an error or by the end of the       *)
(* process, and then the next line is written right behind what there is;  *)
(* and a statement may take effect although its caller gets an error.      *)
(*                                                                         *)
(* A result is the number of its creation: CreatedAt is set when its fetch *)
(* starts, it is saved when its fetch has ended.  Of a line's text only    *)
(* what it reads as is kept: its fields, and whose row it is.              *)
(***************************************************************************)
EXTENDS Naturals, FiniteSets, SequencesExt

CONSTANTS
  Formats,    \* which of "csv", "json", "sqlite" and "postgres"
  Writers,    \* the goroutines that fetch and save
  MaxResults, \* bound: how many results are created
  Columns,    \* the fields of a CSV row
  Long,       \* results whose line is longer than bufio.Scanner takes, 64 KiB
  Filters,    \* the sets of results a reader's filter may select
  PageSize    \* Filter.Limit of a reader that pages

SQL == {"sqlite", "postgres"}
Result == 1..MaxResults
None == 0 \* no result: the header, and a row mixed from two

ASSUME StoreAssumption ==
  /\ Formats \subseteq {"csv", "json"} \cup SQL
  /\ MaxResults \in Nat /\ Columns \in Nat \ {0} /\ PageSize \in Nat \ {0}
  /\ Long \subseteq Result /\ Filters \subseteq SUBSET Result

VARIABLES
  format,  \* the backend
  file,    \* its lines or rows, in the order of their saves
  open,    \* is it open?
  created, \* how many results were created
  pending, \* the result each writer has fetched and not saved
  acked,   \* history: the results whose Save returned nil
  cut,     \* history: the results whose Save returned an error or never returned,
           \* and None if the header was cut short
  behind,  \* history: the results written right behind a torn line
  reader   \* somebody who reads page after page

vars == <<format, file, open, created, pending, acked, cut, behind, reader>>

\* A line has so many fields, 0 if it cannot be read, and ended tells whether
\* its line end was written.  A JSON object and a row of a table have them all.
Line == [fields : Nat, result : Result \cup {None}, ended : BOOLEAN]

Reader == [at : {"idle", "paging", "done"}, want : SUBSET Result, offset : Nat,
           seen : SUBSET Result, owed : SUBSET Result]
NoReader == [at |-> "idle", want |-> {}, offset |-> 0, seen |-> {}, owed |-> {}]

TypeOK ==
  /\ format \in Formats
  /\ file \in Seq(Line)
  /\ open \in BOOLEAN
  /\ created \in 0..MaxResults
  /\ pending \in [Writers -> Result \cup {None}]
  /\ acked \in SUBSET Result /\ cut \in SUBSET (Result \cup {None})
  /\ behind \in SUBSET Result
  /\ reader \in Reader

Init ==
  /\ format \in Formats
  /\ file = <<>>
  /\ open = FALSE
  /\ created = 0
  /\ pending = [w \in Writers |-> None]
  /\ acked = {} /\ cut = {} /\ behind = {}
  /\ reader = NoReader
-----------------------------------------------------------------------------
(* Writing. *)

Torn == file # <<>> /\ ~Last(file).ended

\* How much of a line is written: all of it, nothing, all but the line end, or
\* less than its fields.
Extent == {"all", "none", "bare", "part"}

\* Two lines run together share the field in the middle; two JSON objects do
\* not parse, and what cannot be read spoils the rest.
Joined(m, n) == IF format = "json" \/ m = 0 \/ n = 0 THEN 0 ELSE m + n - 1

\* A line starts right behind what a torn one left.
WriteLine(r, fields, ended) ==
  /\ file' = IF Torn
       THEN [file EXCEPT ![Len(file)] = [fields |-> Joined(@.fields, fields),
                                         result |-> None, ended |-> ended]]
       ELSE Append(file, [fields |-> fields, result |-> r, ended |-> ended])
  /\ behind' = IF Torn THEN behind \cup {r} ELSE behind

\* less is what a line that is cut short can read as.
Write(r, extent, less) ==
  CASE extent = "none" -> UNCHANGED <<file, behind>>
    [] extent = "part" -> \E fields \in less : WriteLine(r, fields, FALSE)
    [] OTHER -> WriteLine(r, Columns, extent = "all")

\* A row that ends within quotes cannot be read.
WriteCSV(r, extent) == format = "csv" /\ Write(r, extent, 0..(Columns - 1))

WriteJSON(r, extent) == format = "json" /\ Write(r, extent, {0})

\* One INSERT, all of it or nothing; "bare" is one that took effect but whose
\* answer did not arrive.
WriteSQL(r, extent) ==
  /\ format \in SQL /\ extent # "part"
  /\ file' = IF extent = "none" THEN file
             ELSE Append(file, [fields |-> Columns, result |-> r, ended |-> TRUE])
  /\ UNCHANGED behind

WriteOne(r, extent) == WriteCSV(r, extent) \/ WriteJSON(r, extent) \/ WriteSQL(r, extent)

\* Mutant: what the write returns is not looked at.
SaveUnchecked(w) ==
  /\ pending[w] # None /\ open
  /\ \E extent \in Extent :
       /\ WriteOne(pending[w], extent)
       /\ acked' = acked \cup {pending[w]}
       /\ cut' = cut
  /\ pending' = [pending EXCEPT ![w] = None]
  /\ UNCHANGED <<format, open, created, reader>>

\* Mutant: a result that is nil is saved.
SaveNil(w) ==
  /\ open
  /\ WriteOne(pending[w], "all")
  /\ acked' = acked \cup {pending[w]}
  /\ pending' = [pending EXCEPT ![w] = None]
  /\ UNCHANGED <<format, open, created, cut, reader>>

\* Save returns nil when the whole line was written and an error otherwise.
Save(w) ==
  /\ pending[w] # None /\ open
  /\ \E extent \in Extent :
       /\ WriteOne(pending[w], extent)
       /\ acked' = IF extent = "all" THEN acked \cup {pending[w]} ELSE acked
       /\ cut' = IF extent = "all" THEN cut ELSE cut \cup {pending[w]}
  /\ pending' = [pending EXCEPT ![w] = None]
  /\ UNCHANGED <<format, open, created, reader>>

\* On a closed backend nothing is written.
SaveClosed(w) ==
  /\ pending[w] # None /\ ~open
  /\ pending' = [pending EXCEPT ![w] = None]
  /\ UNCHANGED <<format, file, open, created, acked, cut, behind, reader>>

\* A fetch starts; the writer will save what comes of it.
Create(w) ==
  /\ pending[w] = None /\ open
  /\ created < MaxResults
  /\ created' = created + 1
  /\ pending' = [pending EXCEPT ![w] = created + 1]
  /\ UNCHANGED <<format, file, open, acked, cut, behind, reader>>
-----------------------------------------------------------------------------
(* Opening and closing. *)

Header == [fields |-> Columns, result |-> None, ended |-> TRUE]

\* Mutant: the size of the file is not looked at.
OpenCSVAlwaysHeads ==
  format = "csv" /\ open' = TRUE /\ file' = Append(file, Header) /\ UNCHANGED cut

\* An empty CSV file gets its header.  If that is cut short New fails, or the
\* program dies, and the next New finds a file that is not empty.
OpenCSV ==
  /\ format = "csv"
  /\ IF file # <<>> THEN open' = TRUE /\ UNCHANGED <<file, cut>>
     ELSE \E header \in [fields : 1..Columns, result : {None}, ended : BOOLEAN] :
            /\ header.ended => header = Header
            /\ file' = <<header>>
            /\ open' = header.ended
            /\ cut' = IF header.ended THEN cut ELSE cut \cup {None}

OpenJSON == format = "json" /\ open' = TRUE /\ UNCHANGED <<file, cut>>

\* CREATE TABLE IF NOT EXISTS: the rows stay.
OpenSQL == format \in SQL /\ open' = TRUE /\ UNCHANGED <<file, cut>>

\* The program is run, on the file of the run before it if there was one.
Open ==
  /\ ~open /\ \A w \in Writers : pending[w] = None
  /\ OpenCSV \/ OpenJSON \/ OpenSQL
  /\ UNCHANGED <<format, created, pending, acked, behind, reader>>

Close ==
  /\ open
  /\ open' = FALSE
  /\ UNCHANGED <<format, file, created, pending, acked, cut, behind, reader>>

\* The program dies, maybe in the middle of a Save.
Crash ==
  /\ open
  /\ \/ \E w \in Writers, extent \in Extent :
          /\ pending[w] # None
          /\ WriteOne(pending[w], extent)
          /\ cut' = cut \cup {pending[w]}
     \/ UNCHANGED <<file, cut, behind>>
  /\ open' = FALSE
  /\ pending' = [w \in Writers |-> None]
  /\ reader' = NoReader
  /\ UNCHANGED <<format, created, acked>>
-----------------------------------------------------------------------------
(* Reading. *)

\* Mutant: rows with more or fewer fields than the first row are no error.
FailsUnreadable == \E i \in DOMAIN file : file[i].fields = 0

\* A row that cannot be read ends the query with an error, and so does one
\* that has not as many fields as the first row, which is taken for the header.
FailsCSV ==
  \E i \in DOMAIN file : file[i].fields = 0 \/ file[i].fields # file[1].fields

\* Rows without all fields are skipped: there are none unless the first row,
\* and so every row, is such a one.
RowsCSV ==
  IF file # <<>> /\ file[1].fields # Columns THEN <<>>
  ELSE [i \in 1..(Len(file) - 1) |-> file[i + 1].result]

RowsJSON == [i \in DOMAIN file |-> file[i].result]
FailsJSON == \E i \in DOMAIN file : file[i].fields = 0 \/ file[i].result \in Long

RowsSQL == [i \in DOMAIN file |-> file[i].result]

Rows == CASE format = "csv" -> RowsCSV [] format = "json" -> RowsJSON [] OTHER -> RowsSQL
Fails == CASE format = "csv" -> FailsCSV [] format = "json" -> FailsJSON [] OTHER -> FALSE

\* The rows in want, in the order in which they are read.
Filtered(rows, want) ==
  LET upTo[n \in 0..Len(rows)] ==
        IF n = 0 THEN <<>>
        ELSE IF rows[n] \in want THEN Append(upTo[n - 1], rows[n]) ELSE upTo[n - 1]
  IN  upTo[Len(rows)]

\* A row of a table among others that are sorted: behind the newer ones.
Placed(rows, r) == InsertAt(rows, Cardinality({i \in DOMAIN rows : rows[i] > r}) + 1, r)

\* ORDER BY created_at DESC.
Sorted(rows) ==
  LET upTo[n \in 0..Len(rows)] == IF n = 0 THEN <<>> ELSE Placed(upTo[n - 1], rows[n])
  IN  upTo[Len(rows)]

\* Mutant: ORDER BY created_at without DESC.
OrderOldestFirst(rows) == IF format \in SQL THEN Reverse(Sorted(rows)) ELSE Reverse(rows)

\* The files are turned round, the tables sorted by created_at.
Order(rows) == IF format \in SQL THEN Sorted(rows) ELSE Reverse(rows)

\* The statement is built with OFFSET alone, which SQLite does not parse.
Refused(limit, offset) == format = "sqlite" /\ limit = 0 /\ offset > 0

\* Mutant: an offset that leaves one row leaves none.
PageTooShort(rows, limit, offset) ==
  IF offset + 1 >= Len(rows) THEN <<>>
  ELSE SubSeq(rows, offset + 1,
              IF limit \in 1..(Len(rows) - offset) THEN offset + limit ELSE Len(rows))

\* The rows after the first offset ones, limit of them if there are so many
\* and limit is not 0.
Page(rows, limit, offset) ==
  IF offset >= Len(rows) THEN <<>>
  ELSE SubSeq(rows, offset + 1,
              IF limit \in 1..(Len(rows) - offset) THEN offset + limit ELSE Len(rows))

\* Query with a filter that selects want, when it is not refused.
Answer(want, limit, offset) ==
  Page(Order(Filtered(Rows, want \cup {None})), limit, offset)

Begin ==
  /\ open /\ ~Fails /\ reader.at # "paging"
  /\ \E want \in Filters :
       reader' = [NoReader EXCEPT !.at = "paging", !.want = want,
                                  !.owed = acked \cap ToSet(Rows) \cap want]
  /\ UNCHANGED <<format, file, open, created, pending, acked, cut, behind>>

\* The reader asks for the next page, until one is empty or an error.
Read ==
  /\ reader.at = "paging"
  /\ LET rows == Answer(reader.want, PageSize, reader.offset)
     IN  reader' = IF ~open \/ Fails \/ Refused(PageSize, reader.offset) THEN NoReader
                   ELSE IF rows = <<>> THEN [reader EXCEPT !.at = "done"]
                   ELSE [reader EXCEPT !.offset = @ + PageSize,
                                       !.seen = @ \cup (ToSet(rows) \ {None})]
  /\ UNCHANGED <<format, file, open, created, pending, acked, cut, behind>>

Next ==
  \/ Open \/ Close \/ Crash \/ Begin \/ Read
  \/ \E w \in Writers : Create(w) \/ Save(w) \/ SaveClosed(w)

Spec == Init /\ [][Next]_vars
-----------------------------------------------------------------------------
Clean == open /\ ~Fails /\ behind = {}

\* While nothing was written behind a torn line, a query that succeeds returns
\* every result whose Save returned nil, once, and nothing that nobody saved,
\* through closings, crashes and lost answers (csv.go:56-67, 130-193; json.go:66-99;
\* sqlite.go:44, 64-83; postgres.go:47, 68-87).
Exact ==
  Clean =>
    /\ acked \subseteq ToSet(Rows)
    /\ ToSet(Rows) \subseteq acked \cup cut
    /\ Len(Rows) = Cardinality(ToSet(Rows))

\* Torn lines or not: a query that succeeds returns every result whose Save
\* returned nil, but for the ones written right behind a torn line
\* (csv.go:108-112, json.go:45-48).
AckedSurvive == open /\ ~Fails => acked \ behind \subseteq ToSet(Rows)

\* However often writes are cut short, and be it that of the header: the
\* results whose Save returned nil and that a query which succeeds has not are
\* no more than the writes that were cut short (csv.go:56-67, 105-119, 148-154;
\* json.go:42-53, 79-81).
LossBounded == open /\ ~Fails => Cardinality(acked \ ToSet(Rows)) <= Cardinality(cut)

\* "Skip malformed rows": a query of a CSV file fails over rows that cannot be
\* read, not over those with another number of fields (csv.go:152-154).
MalformedSkipped ==
  open /\ format = "csv" /\ Fails => \E i \in DOMAIN file : file[i].fields = 0

\* A reader that pages with Limit and Offset while others save misses nothing
\* that was saved, and could be read, when it began (csv.go:195-211, json.go:101-117).
PagingMissesNothing == reader.at = "done" => reader.owed \subseteq reader.seen

\* With any filter, limit and offset a query answers with the results that have
\* the right number of newer ones before them, the newest first: always from a
\* table, and from a file whose results were saved in the order of their
\* creation.  All backends agree then, but for the statement SQLite refuses
\* (csv.go:195-211, json.go:101-117, sqlite.go:102-111, postgres.go:110-121).
PagesNewestFirst ==
  Clean /\ (format \in SQL \/ \A i, j \in DOMAIN Rows : i < j => Rows[i] < Rows[j]) =>
    \A want \in Filters, limit, offset \in 0..MaxResults : ~Refused(limit, offset) =>
      LET rows == Answer(want, limit, offset)
          kept == ToSet(Rows) \cap want
          newer(r) == Cardinality({s \in kept : s > r})
      IN  /\ ToSet(rows) = {r \in kept : newer(r) >= offset /\
                                         (limit > 0 => newer(r) < offset + limit)}
          /\ \A i, j \in DOMAIN rows : i < j => rows[i] > rows[j]

\* "Order by created_at DESC": of two results in an answer the one created
\* later comes first (csv.go:195, json.go:101).
NewestFirst ==
  open /\ ~Fails =>
    LET rows == Answer(Result, 0, 0)
    IN  \A i, j \in DOMAIN rows : i < j => rows[i] > rows[j]
=============================================================================
