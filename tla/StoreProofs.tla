---------------------------- MODULE StoreProofs ----------------------------
(***************************************************************************)
(* What a storage backend keeps, for any number of writers and results and *)
(* any interleaving of saves, writes that are cut short, closings, crashes *)
(* and readers.                                                            *)
(***************************************************************************)
EXTENDS Store, Counting, FiniteSetTheorems

(***************************************************************************)
(* The inductive invariant of the file.  Only its last line can be torn,   *)
(* the header of a CSV file and what was written right behind a torn line  *)
(* belong to no result, every other line belongs to one that a Save was    *)
(* called with, and a result whose Save returned nil has a line that is    *)
(* complete, unless it was written behind a torn one.  Every such result   *)
(* has used up a torn line, and every torn line is a write cut short.      *)
(***************************************************************************)

\* The lines that belong to results.
Lines == {i \in DOMAIN file : file[i].result # None}

Typed ==
  /\ format \in Formats
  /\ file \in Seq(Line)
  /\ open \in BOOLEAN
  /\ created \in 0..MaxResults
  /\ pending \in [Writers -> Result \cup {None}]
  /\ acked \in SUBSET Result /\ cut \in SUBSET (Result \cup {None})
  /\ behind \in SUBSET Result

Settled == \A i \in DOMAIN file : i < Len(file) => file[i].ended

Headed ==
  /\ format = "csv" =>
       /\ open => file # <<>>
       /\ \A i \in DOMAIN file : i = 1 => file[i].result = None
  /\ format = "json" => \A i \in DOMAIN file : file[i].result = None => file[i].fields = 0
  /\ format \in SQL =>
       \A i \in DOMAIN file : file[i].result # None /\ file[i].fields = Columns /\ file[i].ended

Saved == \A i \in Lines : file[i].result \in (acked \cup cut) \ behind

OneLineEach == \A i, j \in Lines : file[i].result = file[j].result => i = j

Whole ==
  \A r \in acked \ behind :
    \E i \in Lines : file[i].result = r /\ file[i].ended /\ file[i].fields = Columns

\* A line that belongs to no result is the header or was written behind a torn one.
Behind ==
  /\ behind \subseteq acked \cup cut
  /\ behind = {} => \A i \in DOMAIN file : i \in Lines \/ (format = "csv" /\ i = 1)

\* The torn lines that were written behind, or can be.
TornLines == Cardinality(acked \cap behind) + (IF Torn THEN 1 ELSE 0)

Tears ==
  /\ TornLines <= Cardinality(cut)
  /\ None \in cut => file # <<>>

FileInv == Settled /\ Headed /\ Saved /\ OneLineEach /\ Whole /\ Behind /\ Tears

\* What is pending was created and has not been saved, and by nobody else.
Numbered ==
  /\ acked \cup cut \subseteq {None} \cup 1..created
  /\ \A w \in Writers : pending[w] # None => pending[w] \in (1..created) \ (acked \cup cut)
  /\ \A v, w \in Writers : pending[v] # None /\ pending[v] = pending[w] => v = w

Inv == Typed /\ FileInv /\ Numbered
-----------------------------------------------------------------------------
(* A write. *)

\* The line with the number m is written, behind the last one or onto it if it
\* is torn.
NewLine(m, line) ==
  /\ m \in Nat \ {0} /\ line \in Line
  /\ file' \in Seq(Line) /\ DOMAIN file' = 1..m /\ Len(file') = m
  /\ file'[m] = line
  /\ \A i \in 1..(m - 1) : i \in DOMAIN file /\ file'[i] = file[i]
  /\ \A i \in DOMAIN file : i \in 1..m
  /\ IF Torn THEN m \in DOMAIN file /\ ~file[m].ended ELSE m \notin DOMAIN file

\* A write of r puts this line there.
PutsLine(m, line, r, extent) ==
  /\ extent # "none" /\ NewLine(m, line)
  /\ line.result = IF Torn THEN None ELSE r
  /\ extent = "all" => line.ended
  /\ extent = "all" /\ ~Torn => line.fields = Columns
  /\ format = "json" /\ Torn => line.fields = 0
  /\ format \in SQL => line.fields = Columns /\ line.ended /\ ~Torn
  /\ behind' = IF Torn THEN behind \cup {r} ELSE behind

\* What a write of r does.
Puts(r, extent) ==
  \/ extent = "none" /\ UNCHANGED <<file, behind>>
  \/ \E m, line : PutsLine(m, line, r, extent)

\* The sequence of lines is as long as its domain says.
LEMMA Numbers ==
  ASSUME Typed
  PROVE  /\ Len(file) \in Nat /\ DOMAIN file = 1..Len(file)
         /\ \A i \in DOMAIN file : file[i] \in Line
         /\ Torn <=> Len(file) \in DOMAIN file /\ ~file[Len(file)].ended
<1>1. file \in Seq(Line)
  BY DEF Typed
<1>2. Len(file) \in Nat /\ DOMAIN file = 1..Len(file)
  BY <1>1, LenProperties
<1>3. file # <<>> <=> Len(file) # 0
  BY <1>1
<1> QED
  BY <1>1, <1>2, <1>3, ElementOfSeq DEF Torn, Last

\* A line is appended.
LEMMA Appended ==
  ASSUME Typed, ~Torn, NEW line \in Line, file' = Append(file, line)
  PROVE  NewLine(Len(file) + 1, line)
<1>1. file \in Seq(Line) /\ Len(file) \in Nat /\ DOMAIN file = 1..Len(file)
  BY Numbers DEF Typed
<1>2. /\ file' \in Seq(Line) /\ Len(file') = Len(file) + 1
      /\ \A i \in 1..Len(file) : file'[i] = file[i]
      /\ file'[Len(file) + 1] = line
  BY <1>1, AppendProperties
<1>3. DOMAIN file' = 1..(Len(file) + 1)
  BY <1>2, LenProperties
<1> QED
  BY <1>1, <1>2, <1>3 DEF NewLine

\* A line is written onto the torn one.
LEMMA Rewritten ==
  ASSUME Typed, Torn, NEW line \in Line, file' = [file EXCEPT ![Len(file)] = line]
  PROVE  NewLine(Len(file), line)
<1>1. /\ file \in Seq(Line) /\ Len(file) \in Nat /\ DOMAIN file = 1..Len(file)
      /\ Len(file) \in DOMAIN file /\ ~file[Len(file)].ended
  BY Numbers DEF Typed
<1>2. file' \in Seq(Line) /\ Len(file') = Len(file) /\ DOMAIN file' = DOMAIN file
  BY <1>1, ExceptSeq, LenProperties
<1>3. /\ file'[Len(file)] = line
      /\ \A i \in DOMAIN file : i # Len(file) => file'[i] = file[i]
  BY <1>1
<1>4. Len(file) \in Nat \ {0} /\ \A i \in 1..(Len(file) - 1) : i \in DOMAIN file /\ i # Len(file)
  <2> DEFINE n == Len(file)
  <2>1. n \in Nat /\ DOMAIN file = 1..n /\ n \in 1..n
    BY <1>1
  <2> HIDE DEF n
  <2>2. n \in Nat \ {0} /\ \A i \in 1..(n - 1) : i \in 1..n /\ i # n
    BY <2>1
  <2> QED
    BY <2>1, <2>2 DEF n
<1> QED
  BY <1>1, <1>2, <1>3, <1>4 DEF NewLine

\* A line that is written behind the last one, or onto it, is put there.
LEMMA LineWritten ==
  ASSUME Typed, NEW r \in Result, NEW extent \in Extent, NEW fields \in Nat, NEW ended \in BOOLEAN,
         format \notin SQL, extent # "none", WriteLine(r, fields, ended),
         extent = "all" => ended /\ fields = Columns
  PROVE  \E m, line : PutsLine(m, line, r, extent)
<1>1. behind' = IF Torn THEN behind \cup {r} ELSE behind
  BY DEF WriteLine
<1>2. CASE Torn
  <2> DEFINE both == Joined(file[Len(file)].fields, fields)
             line == [fields |-> both, result |-> None, ended |-> ended]
  <2>1. file' = [file EXCEPT ![Len(file)] = line]
    BY <1>2 DEF WriteLine
  <2>2. both \in Nat /\ (format = "json" => both = 0)
    <3>1. Len(file) \in DOMAIN file /\ file[Len(file)] \in Line
      BY <1>2, Numbers
    <3>2. file[Len(file)].fields \in Nat
      BY <3>1 DEF Line
    <3> QED
      BY <3>2 DEF Joined
  <2> HIDE DEF both
  <2>3. line \in Line /\ line.fields = both /\ line.result = None /\ line.ended = ended
    BY <2>2 DEF Line
  <2> HIDE DEF line
  <2>4. NewLine(Len(file), line)
    BY <1>2, <2>1, <2>3, Rewritten
  <2>5. PutsLine(Len(file), line, r, extent)
    BY <1>1, <1>2, <2>2, <2>3, <2>4 DEF PutsLine
  <2> QED
    BY <2>5
<1>3. CASE ~Torn
  <2> DEFINE line == [fields |-> fields, result |-> r, ended |-> ended]
  <2>1. file' = Append(file, line)
    BY <1>3 DEF WriteLine
  <2>2. line \in Line /\ line.fields = fields /\ line.result = r /\ line.ended = ended
    BY DEF Line
  <2> HIDE DEF line
  <2>3. NewLine(Len(file) + 1, line)
    BY <1>3, <2>1, <2>2, Appended
  <2>4. PutsLine(Len(file) + 1, line, r, extent)
    BY <1>1, <1>3, <2>2, <2>3 DEF PutsLine
  <2> QED
    BY <2>4
<1> QED
  BY <1>2, <1>3

\* Every backend's write is one.
LEMMA Wrote ==
  ASSUME Typed, Headed, NEW r \in Result, NEW extent \in Extent, WriteOne(r, extent)
  PROVE  Puts(r, extent)
<1>1. ASSUME NEW less \in SUBSET Nat, Write(r, extent, less), format \notin SQL
      PROVE  Puts(r, extent)
  <2>1. CASE extent = "none"
    BY <1>1, <2>1 DEF Write, Puts
  <2>2. CASE extent = "part"
    <3>1. PICK fields \in less : WriteLine(r, fields, FALSE)
      BY <1>1, <2>2 DEF Write
    <3>2. fields \in Nat /\ extent # "none" /\ extent # "all"
      BY <2>2
    <3>3. \E m, line : PutsLine(m, line, r, extent)
      BY <1>1, <3>1, <3>2, LineWritten
    <3> QED
      BY <3>3 DEF Puts
  <2>3. CASE extent \notin {"none", "part"}
    <3>1. WriteLine(r, Columns, extent = "all") /\ extent # "none"
      BY <1>1, <2>3 DEF Write
    <3>2. Columns \in Nat
      BY StoreAssumption
    <3>3. \E m, line : PutsLine(m, line, r, extent)
      BY <1>1, <3>1, <3>2, LineWritten
    <3> QED
      BY <3>3 DEF Puts
  <2> QED
    BY <2>1, <2>2, <2>3
<1>2. 0..(Columns - 1) \in SUBSET Nat /\ {0} \in SUBSET Nat
  BY StoreAssumption
<1>3. CASE WriteCSV(r, extent)
  BY <1>1, <1>2, <1>3 DEF WriteCSV, SQL
<1>4. CASE WriteJSON(r, extent)
  BY <1>1, <1>2, <1>4 DEF WriteJSON, SQL
<1>5. CASE WriteSQL(r, extent)
  <2>1. format \in SQL /\ format # "json" /\ UNCHANGED behind
    BY <1>5 DEF WriteSQL, SQL
  <2>2. CASE extent = "none"
    BY <1>5, <2>1, <2>2 DEF WriteSQL, Puts
  <2>3. CASE extent # "none"
    <3> DEFINE line == [fields |-> Columns, result |-> r, ended |-> TRUE]
    <3>1. line \in Line /\ line.fields = Columns /\ line.result = r /\ line.ended
      BY StoreAssumption DEF Line
    <3>2. file' = Append(file, line)
      BY <1>5, <2>3 DEF WriteSQL
    <3>3. ~Torn
      BY <2>1, Numbers DEF Headed
    <3> HIDE DEF line
    <3>4. NewLine(Len(file) + 1, line)
      BY <3>1, <3>2, <3>3, Appended
    <3>5. PutsLine(Len(file) + 1, line, r, extent)
      BY <2>1, <2>3, <3>1, <3>3, <3>4 DEF PutsLine
    <3> QED
      BY <3>5 DEF Puts
  <2> QED
    BY <2>2, <2>3
<1> QED
  BY <1>3, <1>4, <1>5 DEF WriteOne

\* What a Save or a crash makes of the books: r was saved, or it was not.
Recorded(r, extent) ==
  \/ extent = "all" /\ acked' = acked \cup {r} /\ cut' = cut
  \/ acked' = acked /\ cut' = cut \cup {r}

\* The books are finite.
LEMMA BooksAreFinite ==
  ASSUME Typed
  PROVE  /\ IsFiniteSet(cut) /\ IsFiniteSet(acked) /\ IsFiniteSet(acked \cap behind)
         /\ Cardinality(cut) \in Nat /\ Cardinality(acked \cap behind) \in Nat
<1>1. IsFiniteSet(0..MaxResults)
  BY StoreAssumption, FS_Interval
<1>2. Result \cup {None} \subseteq 0..MaxResults
  BY StoreAssumption DEF Result, None
<1>3. cut \subseteq 0..MaxResults /\ acked \subseteq 0..MaxResults
  BY <1>2 DEF Typed
<1>4. acked \cap behind \subseteq acked
  OBVIOUS
<1>5. IsFiniteSet(cut) /\ IsFiniteSet(acked)
  BY <1>1, <1>3, FS_Subset
<1>6. IsFiniteSet(acked \cap behind)
  BY <1>4, <1>5, FS_Subset
<1> QED
  BY <1>5, <1>6, FS_CardinalityType

\* A write uses up a torn line or leaves one, and who leaves one is cut short.
LEMMA WriteTears ==
  ASSUME Typed, Behind, Tears, NEW r \in Result, r \notin acked \cup cut,
         file' # <<>> \/ UNCHANGED file,
         \/ UNCHANGED <<acked, behind>> /\ cut' = cut \cup {r}
         \/ acked' = acked /\ behind' = behind \cup {r} /\ cut' = cut \cup {r}
         \/ /\ acked' = acked \cup {r} /\ cut' = cut /\ ~Torn'
            /\ behind' = IF Torn THEN behind \cup {r} ELSE behind
  PROVE  Tears'
<1> DEFINE spent == acked \cap behind
<1>1. /\ IsFiniteSet(cut) /\ IsFiniteSet(spent)
      /\ Cardinality(cut) \in Nat /\ Cardinality(spent) \in Nat
  BY BooksAreFinite
<1>2. r \notin behind /\ r \notin spent /\ r \notin cut /\ r # None
  BY StoreAssumption DEF Behind, Result, None
<1>3. None \in cut' => file' # <<>>
  BY <1>2 DEF Tears
<1>4. Cardinality(spent) + (IF Torn THEN 1 ELSE 0) <= Cardinality(cut)
  BY DEF Tears, TornLines
<1>5. CASE cut' = cut \cup {r} /\ acked' \cap behind' = spent
  <2>1. Cardinality(cut') = Cardinality(cut) + 1
    BY <1>1, <1>2, <1>5, FS_AddElement
  <2>2. Cardinality(spent) + (IF Torn' THEN 1 ELSE 0) <= Cardinality(cut')
    BY <1>1, <1>4, <2>1
  <2> QED
    BY <1>3, <1>5, <2>2 DEF Tears, TornLines
<1>6. CASE acked' = acked \cup {r} /\ cut' = cut /\ ~Torn' /\ Torn /\ behind' = behind \cup {r}
  <2>1. acked' \cap behind' = spent \cup {r}
    BY <1>6
  <2>2. Cardinality(spent \cup {r}) = Cardinality(spent) + 1
    BY <1>1, <1>2, FS_AddElement
  <2> QED
    BY <1>1, <1>3, <1>4, <1>6, <2>1, <2>2 DEF Tears, TornLines
<1>7. CASE acked' = acked \cup {r} /\ cut' = cut /\ ~Torn' /\ ~Torn /\ behind' = behind
  <2>1. acked' \cap behind' = spent
    BY <1>2, <1>7
  <2> QED
    BY <1>1, <1>3, <1>4, <1>7, <2>1 DEF Tears, TornLines
<1>8. acked' = acked /\ behind' = behind \cup {r} => acked' \cap behind' = spent
  BY <1>2
<1> QED
  BY <1>5, <1>6, <1>7, <1>8

\* A write keeps the file in order, if it is recorded.
LEMMA WriteKeeps ==
  ASSUME Typed, FileInv, open, UNCHANGED format,
         NEW r \in Result, r \notin acked \cup cut, NEW extent \in Extent,
         Puts(r, extent), Recorded(r, extent)
  PROVE  FileInv' /\ file' \in Seq(Line) /\ behind' \subseteq behind \cup {r}
<1>1. /\ Len(file) \in Nat /\ DOMAIN file = 1..Len(file)
      /\ Torn <=> Len(file) \in DOMAIN file /\ ~file[Len(file)].ended
  BY Numbers
<1>2. /\ Settled /\ Headed /\ Saved /\ OneLineEach /\ Whole /\ Behind /\ Tears
      /\ r # None
  BY StoreAssumption DEF FileInv, Result, None
<1>3. CASE extent = "none" /\ UNCHANGED <<file, behind>>
  <2>1. acked' = acked /\ cut' = cut \cup {r}
    BY <1>3 DEF Recorded
  <2>2. open' => file # <<>> \/ format # "csv"
    BY <1>2 DEF Headed
  <2>3. Tears'
    BY <1>2, <1>3, <2>1, WriteTears
  <2> QED
    BY <1>2, <1>3, <2>1, <2>2, <2>3
    DEF Typed, FileInv, Settled, Headed, Saved, OneLineEach, Whole, Behind, Lines
<1>4. ASSUME NEW m, NEW line, PutsLine(m, line, r, extent)
      PROVE  FileInv' /\ file' \in Seq(Line) /\ behind' \subseteq behind \cup {r}
  <2>1. /\ m \in Nat \ {0} /\ file' \in Seq(Line) /\ DOMAIN file' = 1..m /\ Len(file') = m
        /\ file'[m] = line
        /\ \A i \in 1..(m - 1) : i \in DOMAIN file /\ file'[i] = file[i]
        /\ \A i \in DOMAIN file : i \in 1..m
        /\ Torn => m \in DOMAIN file /\ ~file[m].ended /\ m = Len(file)
        /\ ~Torn => m \notin DOMAIN file /\ m = Len(file) + 1
    <3>1. NewLine(m, line)
      BY <1>4 DEF PutsLine
    <3>2. /\ m \in Nat \ {0} /\ file' \in Seq(Line) /\ DOMAIN file' = 1..m /\ Len(file') = m
          /\ file'[m] = line
          /\ \A i \in 1..(m - 1) : i \in DOMAIN file /\ file'[i] = file[i]
          /\ \A i \in DOMAIN file : i \in 1..m
          /\ IF Torn THEN m \in DOMAIN file /\ ~file[m].ended ELSE m \notin DOMAIN file
      BY <3>1 DEF NewLine
    <3>3. m \in Nat \ {0} /\ \A i \in 1..(m - 1) : i \in 1..Len(file)
      BY <1>1, <3>2
    <3>4. \A i \in 1..Len(file) : i \in 1..m
      BY <1>1, <3>2
    <3>5. m \in DOMAIN file => m = Len(file)
      <4> SUFFICES ASSUME m \in DOMAIN file PROVE m = Len(file)
        OBVIOUS
      <4> DEFINE k == Len(file)
      <4>1. m \in 1..k /\ k \in Nat
        BY <1>1
      <4>2. k \in 1..k
        BY <4>1
      <4>3. k \in 1..m
        BY <4>2, <3>4
      <4> HIDE DEF k
      <4>4. m = k
        BY <4>1, <4>3
      <4> QED
        BY <4>4 DEF k
    <3>6. m \notin DOMAIN file => m = Len(file) + 1
      BY <1>1, <3>3, <3>4
    <3> QED
      BY <3>2, <3>5, <3>6
  <2>2. /\ line.result = IF Torn THEN None ELSE r
        /\ extent = "all" => line.ended
        /\ extent = "all" /\ ~Torn => line.fields = Columns
        /\ format = "json" /\ Torn => line.fields = 0
        /\ format \in SQL => line.fields = Columns /\ line.ended /\ ~Torn
        /\ behind' = IF Torn THEN behind \cup {r} ELSE behind
    BY <1>4 DEF PutsLine
  <2>3. \A i \in Lines' : i # m => i \in Lines /\ file'[i] = file[i]
    BY <2>1 DEF Lines
  <2>4. \A i \in Lines : i # m => i \in Lines' /\ file'[i] = file[i]
    <3>1. \A i \in 1..m : i # m => i \in 1..(m - 1)
      BY <2>1
    <3>2. \A i \in Lines : i # m => i \in 1..(m - 1)
      BY <2>1, <3>1 DEF Lines
    <3> QED
      BY <2>1, <3>2 DEF Lines
  <2>5. /\ acked \cup cut \cup {r} = acked' \cup cut'
        /\ behind \subseteq behind'
    BY <2>2 DEF Recorded
  <2>6. Settled'
    <3>1. \A i \in 1..(m - 1) : file[i].ended
      <4>1. \A i \in 1..(m - 1) : i < Len(file) \/ (i = Len(file) /\ ~Torn)
        BY <1>1, <2>1
      <4> QED
        BY <1>1, <1>2, <2>1, <4>1 DEF Settled
    <3>2. \A i \in 1..m : i < m => i \in 1..(m - 1)
      BY <2>1
    <3> QED
      BY <2>1, <3>1, <3>2 DEF Settled
  <2>7. Headed'
    <3>1. \A i \in 1..m : i = m \/ (i \in DOMAIN file /\ file'[i] = file[i])
      BY <2>1
    <3>2. ASSUME format = "csv"
          PROVE  file' # <<>> /\ \A i \in 1..m : i = 1 => file'[i].result = None
      <4>1. file' # <<>>
        BY <2>1
      <4>2. Len(file) # 0
        BY <1>2, <3>2 DEF Headed, Typed
      <4>3. m = 1 => Torn
        BY <1>1, <2>1, <4>2
      <4> QED
        BY <1>2, <2>1, <2>2, <3>1, <3>2, <4>1, <4>3 DEF Headed
    <3>3. format = "json" => \A i \in 1..m : file'[i].result = None => file'[i].fields = 0
      BY <1>2, <2>1, <2>2, <3>1 DEF Headed
    <3>4. format \in SQL =>
            \A i \in 1..m : file'[i].result # None /\ file'[i].fields = Columns /\ file'[i].ended
      BY <1>2, <2>1, <2>2, <3>1 DEF Headed
    <3> QED
      BY <2>1, <3>2, <3>3, <3>4 DEF Headed
  <2>8. Saved'
    <3> SUFFICES ASSUME NEW i \in Lines'
                 PROVE  file'[i].result \in (acked' \cup cut') \ behind'
      BY DEF Saved
    <3>1. CASE i = m
      <4>1. ~Torn /\ file'[i].result = r
        BY <2>1, <2>2, <3>1 DEF Lines
      <4> QED
        BY <1>2, <2>2, <2>5, <4>1 DEF Behind
    <3>2. CASE i # m
      <4>1. file'[i].result \in (acked \cup cut) \ behind
        BY <1>2, <2>3, <3>2 DEF Saved
      <4> QED
        BY <2>2, <2>5, <4>1
    <3> QED
      BY <3>1, <3>2
  <2>9. OneLineEach'
    <3>1. \A i \in Lines : file[i].result # r
      BY <1>2 DEF Saved
    <3>2. m \in Lines' => file'[m].result = r
      BY <2>1, <2>2 DEF Lines
    <3> QED
      BY <1>2, <2>3, <3>1, <3>2 DEF OneLineEach
  <2>10. Whole'
    <3> SUFFICES ASSUME NEW a \in acked' \ behind'
                 PROVE  \E i \in Lines' : file'[i].result = a /\ file'[i].ended
                                          /\ file'[i].fields = Columns
      BY DEF Whole
    <3>1. CASE a \in acked
      <4>1. PICK i \in Lines : file[i].result = a /\ file[i].ended /\ file[i].fields = Columns
        BY <1>2, <2>5, <3>1 DEF Whole
      <4>2. i # m
        BY <2>1, <4>1 DEF Lines
      <4> QED
        BY <2>4, <4>1, <4>2
    <3>2. CASE a \notin acked
      <4>1. a = r /\ extent = "all" /\ ~Torn
        BY <2>2, <3>2 DEF Recorded
      <4>2. m \in Lines' /\ file'[m] = line
        BY <1>2, <2>1, <2>2, <4>1 DEF Lines
      <4> QED
        BY <2>2, <4>1, <4>2
    <3> QED
      BY <3>1, <3>2
  <2>11. Behind'
    <3>1. behind' \subseteq acked' \cup cut'
      BY <1>2, <2>2, <2>5 DEF Behind
    <3>2. ASSUME behind' = {}, NEW i \in DOMAIN file'
          PROVE  i \in Lines' \/ (format = "csv" /\ i = 1)
      <4>1. ~Torn /\ behind = {}
        BY <2>2, <3>2
      <4>2. CASE i = m
        BY <1>2, <2>1, <2>2, <4>1, <4>2 DEF Lines
      <4>3. CASE i # m
        <5>1. i \in DOMAIN file /\ file'[i] = file[i]
          BY <2>1, <4>3
        <5> QED
          BY <1>2, <2>4, <4>1, <4>3, <5>1 DEF Behind
      <4> QED
        BY <4>2, <4>3
    <3> QED
      BY <3>1, <3>2 DEF Behind
  <2>12. Tears'
    <3>1. file' # <<>> /\ (Torn' <=> ~line.ended)
      <4>1. Len(file') # 0 /\ file'[Len(file')] = line
        BY <2>1
      <4> QED
        BY <2>1, <4>1 DEF Torn, Last
    <3>2. CASE extent = "all" /\ acked' = acked \cup {r} /\ cut' = cut
      <4>1. ~Torn'
        BY <2>2, <3>1, <3>2
      <4> QED
        BY <1>2, <2>2, <3>1, <3>2, <4>1, WriteTears
    <3>3. CASE acked' = acked /\ cut' = cut \cup {r}
      <4>1. behind' = behind \/ behind' = behind \cup {r}
        BY <2>2
      <4> QED
        BY <1>2, <3>1, <3>3, <4>1, WriteTears
    <3> QED
      BY <3>2, <3>3 DEF Recorded
  <2> QED
    BY <2>1, <2>2, <2>6, <2>7, <2>8, <2>9, <2>10, <2>11, <2>12 DEF FileInv
<1> QED
  BY <1>3, <1>4 DEF Puts

\* The file stays, and so do the books.
LEMMA FileStays ==
  ASSUME Typed, FileInv, UNCHANGED <<format, file, acked, cut, behind>>, open' => open
  PROVE  FileInv'
BY DEF FileInv, Settled, Headed, Saved, OneLineEach, Whole, Behind, Tears, TornLines, Torn, Lines

\* An empty CSV file gets its header or a part of it, any other file stays.
LEMMA OpenKeeps ==
  ASSUME Typed, FileInv, Open
  PROVE  /\ FileInv' /\ file' \in Seq(Line)
         /\ cut' \subseteq cut \cup {None} /\ open' \in BOOLEAN
<1>1. UNCHANGED <<format, acked, behind>>
  BY DEF Open
<1>2. /\ file \in Seq(Line)
      /\ file = <<>> => DOMAIN file = {}
  BY DEF Typed
<1>3. CASE format = "csv" /\ file = <<>>
  <2>1. PICK header \in [fields : 1..Columns, result : {None}, ended : BOOLEAN] :
          /\ file' = <<header>>
          /\ open' = header.ended
          /\ cut' = IF header.ended THEN cut ELSE cut \cup {None}
    BY <1>3 DEF Open, OpenCSV, OpenJSON, OpenSQL, SQL
  <2>2. header \in Line /\ header.result = None /\ header.ended \in BOOLEAN
    BY StoreAssumption DEF Line
  <2>3. file' \in Seq(Line) /\ DOMAIN file' = {1} /\ Len(file') = 1 /\ file'[1] = header /\ file' # <<>>
    BY <2>1, <2>2
  <2>4. Lines' = {}
    BY <2>2, <2>3 DEF Lines
  <2>5. DOMAIN file = {} /\ Lines = {} /\ ~Torn
    BY <1>2, <1>3 DEF Lines, Torn
  <2>6. acked \ behind = {}
    BY <2>5 DEF FileInv, Whole
  <2>7. Settled'
    BY <2>3 DEF Settled
  <2>8. Headed'
    BY <1>1, <1>3, <2>2, <2>3 DEF Headed, SQL
  <2>9. Behind'
    BY <1>1, <1>3, <2>1, <2>3 DEF FileInv, Behind
  <2>10. Tears'
    <3>1. Cardinality(acked \cap behind) <= Cardinality(cut) /\ None \notin cut
      <4>1. Cardinality(acked \cap behind) \in Nat
        BY BooksAreFinite
      <4> QED
        BY <1>3, <2>5, <4>1 DEF FileInv, Tears, TornLines
    <3>2. Torn' <=> ~header.ended
      BY <2>3 DEF Torn, Last
    <3>3. CASE header.ended
      <4>1. Cardinality(acked \cap behind) \in Nat
        BY BooksAreFinite
      <4> QED
        BY <1>1, <2>1, <2>3, <3>1, <3>2, <3>3, <4>1 DEF Tears, TornLines
    <3>4. CASE ~header.ended
      <4>1. /\ IsFiniteSet(cut)
            /\ Cardinality(cut) \in Nat /\ Cardinality(acked \cap behind) \in Nat
        BY BooksAreFinite
      <4>2. Cardinality(cut') = Cardinality(cut) + 1
        BY <2>1, <3>1, <3>4, <4>1, FS_AddElement
      <4> QED
        BY <1>1, <2>1, <2>3, <3>1, <3>2, <3>4, <4>1, <4>2 DEF Tears, TornLines
    <3> QED
      BY <3>3, <3>4
  <2>11. Saved' /\ OneLineEach'
    BY <2>4 DEF Saved, OneLineEach
  <2>12. Whole'
    BY <1>1, <2>6 DEF Whole
  <2> QED
    BY <2>1, <2>2, <2>3, <2>7, <2>8, <2>9, <2>10, <2>11, <2>12 DEF FileInv
<1>4. CASE ~(format = "csv" /\ file = <<>>)
  <2>1. UNCHANGED <<file, cut>> /\ open' = TRUE
    BY <1>4 DEF Open, OpenCSV, OpenJSON, OpenSQL
  <2> QED
    BY <1>1, <1>2, <1>4, <2>1
    DEF FileInv, Settled, Headed, Saved, OneLineEach, Whole, Behind, Tears, TornLines, Torn, Lines
<1> QED
  BY <1>3, <1>4
-----------------------------------------------------------------------------
(* The file, the books and the writers together. *)

\* Every initial state satisfies the invariant.
LEMMA InvInit == Init => Inv
<1> SUFFICES ASSUME Init PROVE Inv
  OBVIOUS
<1>1. file = <<>> /\ DOMAIN file = {} /\ Lines = {} /\ file \in Seq(Line)
  BY DEF Init, Lines
<1>2. 0 \in 0..MaxResults
  BY StoreAssumption
<1>3. Typed
  BY <1>1, <1>2 DEF Init, Typed, None
<1>4. Tears
  <2>1. ~Torn /\ acked \cap behind = {} /\ cut = {} /\ None \notin cut
    BY <1>1 DEF Init, Torn
  <2> QED
    BY <2>1, FS_EmptySet DEF Tears, TornLines
<1> QED
  BY <1>1, <1>3, <1>4 DEF Init, Inv, FileInv, Settled, Headed, Saved, OneLineEach, Whole,
                          Behind, Numbered

\* Saving is writing one of the writer's results and recording it.
LEMMA SaveKeeps ==
  ASSUME Inv, NEW w \in Writers, Save(w)
  PROVE  Inv'
<1> DEFINE r == pending[w]
<1>1. Typed /\ FileInv /\ Numbered /\ open /\ r # None
  BY DEF Inv, Save
<1>2. r \in Result /\ r \in (1..created) \ (acked \cup cut)
  BY <1>1 DEF Typed, Numbered
<1>3. PICK extent \in Extent :
        /\ WriteOne(r, extent)
        /\ acked' = IF extent = "all" THEN acked \cup {r} ELSE acked
        /\ cut' = IF extent = "all" THEN cut ELSE cut \cup {r}
  BY DEF Save
<1>4. UNCHANGED <<format, open, created>> /\ pending' = [pending EXCEPT ![w] = None]
  BY DEF Save
<1> HIDE DEF r
<1>5. Puts(r, extent)
  BY <1>1, <1>2, <1>3, Wrote DEF FileInv
<1>6. Recorded(r, extent)
  BY <1>3 DEF Recorded
<1>7. FileInv' /\ file' \in Seq(Line) /\ behind' \subseteq behind \cup {r}
  BY <1>1, <1>2, <1>4, <1>5, <1>6, WriteKeeps
<1>8. Typed'
  BY <1>1, <1>2, <1>4, <1>6, <1>7 DEF Typed, Recorded
<1>9. Numbered'
  <2>1. \A v \in Writers : pending'[v] = IF v = w THEN None ELSE pending[v]
    BY <1>1, <1>4 DEF Typed
  <2>2. acked' \cup cut' = acked \cup cut \cup {r}
    BY <1>6 DEF Recorded
  <2>3. \A v \in Writers : v # w => pending[v] # r \/ pending[v] = None
    BY <1>1 DEF Numbered, r
  <2> QED
    BY <1>1, <1>2, <1>4, <2>1, <2>2, <2>3 DEF Numbered
<1> QED
  BY <1>7, <1>8, <1>9 DEF Inv

\* A crash is at most a Save that does not return.
LEMMA CrashKeeps ==
  ASSUME Inv, Crash
  PROVE  Inv'
<1>1. /\ Typed /\ FileInv /\ Numbered /\ open
      /\ UNCHANGED <<format, created, acked>> /\ open' = FALSE
      /\ pending' = [w \in Writers |-> None]
  BY DEF Inv, Crash
<1>2. ASSUME NEW w \in Writers, NEW extent \in Extent, pending[w] # None,
             WriteOne(pending[w], extent), cut' = cut \cup {pending[w]}
      PROVE  /\ FileInv' /\ file' \in Seq(Line) /\ behind' \in SUBSET Result
             /\ cut' \in SUBSET (Result \cup {None}) /\ cut' \subseteq cut \cup 1..created
  <2> DEFINE r == pending[w]
  <2>1. r \in Result /\ r \in (1..created) \ (acked \cup cut)
    BY <1>1, <1>2 DEF Typed, Numbered
  <2>2. WriteOne(r, extent) /\ Recorded(r, extent)
    BY <1>1, <1>2 DEF Recorded
  <2>3. cut' = cut \cup {r}
    BY <1>2
  <2> HIDE DEF r
  <2>4. Puts(r, extent)
    BY <1>1, <2>1, <2>2, Wrote DEF FileInv
  <2>5. FileInv' /\ file' \in Seq(Line) /\ behind' \subseteq behind \cup {r}
    BY <1>1, <2>1, <2>2, <2>4, WriteKeeps
  <2> QED
    BY <1>1, <2>1, <2>3, <2>5 DEF Typed
<1>3. CASE UNCHANGED <<file, cut, behind>>
  <2>1. FileInv'
    BY <1>1, <1>3, FileStays
  <2> QED
    BY <1>1, <1>3, <2>1 DEF Inv, Typed, Numbered
<1>4. ASSUME NEW w \in Writers, NEW extent \in Extent, pending[w] # None,
             WriteOne(pending[w], extent), cut' = cut \cup {pending[w]}
      PROVE  Inv'
  BY <1>1, <1>2, <1>4 DEF Inv, Typed, Numbered
<1> QED
  BY <1>3, <1>4 DEF Crash

\* Every step preserves the invariant.
LEMMA InvStep == Inv /\ [Next]_vars => Inv'
<1> SUFFICES ASSUME Inv, [Next]_vars PROVE Inv'
  OBVIOUS
<1>1. Typed /\ FileInv /\ Numbered
  BY DEF Inv
<1>2. CASE UNCHANGED vars
  BY <1>1, <1>2, FileStays DEF vars, Inv, Typed, Numbered
<1>3. CASE Open
  BY <1>1, <1>3, OpenKeeps DEF Open, Inv, Typed, Numbered
<1>4. CASE Close
  BY <1>1, <1>4, FileStays DEF Close, Inv, Typed, Numbered
<1>5. CASE Begin \/ Read
  <2>1. UNCHANGED <<format, file, open, created, pending, acked, cut, behind>>
    BY <1>5 DEF Begin, Read
  <2> QED
    BY <1>1, <2>1, FileStays DEF Inv, Typed, Numbered
<1>6. ASSUME NEW w \in Writers, SaveClosed(w) PROVE Inv'
  <2>1. FileInv'
    BY <1>1, <1>6, FileStays DEF SaveClosed
  <2>2. \A v \in Writers : pending'[v] = IF v = w THEN None ELSE pending[v]
    BY <1>1, <1>6 DEF Typed, SaveClosed
  <2>3. Typed'
    BY <1>1, <1>6 DEF Typed, SaveClosed
  <2>4. Numbered'
    BY <1>1, <1>6, <2>2 DEF Numbered, SaveClosed
  <2> QED
    BY <2>1, <2>3, <2>4 DEF Inv
<1>7. ASSUME NEW w \in Writers, Create(w) PROVE Inv'
  <2>1. FileInv'
    BY <1>1, <1>7, FileStays DEF Create
  <2>2. created \in Nat /\ created' = created + 1 /\ created' \in 0..MaxResults /\ created' \in Result
    BY <1>1, <1>7, StoreAssumption DEF Typed, Create, Result
  <2>3. \A v \in Writers : pending'[v] = IF v = w THEN created' ELSE pending[v]
    BY <1>1, <1>7 DEF Typed, Create
  <2>4. Typed'
    BY <1>1, <1>7, <2>2 DEF Typed, Create
  <2>5. 1..created \subseteq 1..created' /\ created' \in 1..created' /\ created' \notin 1..created
    BY <2>2
  <2>6. Numbered'
    BY <1>1, <1>7, <2>3, <2>5 DEF Numbered, Create
  <2> QED
    BY <2>1, <2>4, <2>6 DEF Inv
<1> QED
  BY <1>2, <1>3, <1>4, <1>5, <1>6, <1>7, SaveKeeps, CrashKeeps DEF Next

\* The inductive invariant holds of every behaviour.
THEOREM Invariance == Spec => []Inv
BY InvInit, InvStep, PTL DEF Spec
-----------------------------------------------------------------------------
(* What a query finds. *)

\* The header of a CSV file is no row.
Shift == IF format = "csv" THEN 1 ELSE 0

\* The first line of a CSV file has all fields.
Plain == format = "csv" /\ file # <<>> => file[1].fields = Columns

\* The rows are what the lines read as, in their order, or nothing.
LEMMA RowsOfLines ==
  ASSUME Typed
  PROVE  /\ Rows \in Seq(Result \cup {None}) /\ Len(Rows) \in Nat
         /\ DOMAIN Rows = 1..Len(Rows)
         /\ ~Plain => Rows = <<>>
         /\ Plain => Len(Rows) = IF file = <<>> THEN 0 ELSE Len(file) - Shift
         /\ \A j \in DOMAIN Rows : j + Shift \in DOMAIN file /\ Rows[j] = file[j + Shift].result
         /\ Plain => \A i \in DOMAIN file :
              i # Shift => i - Shift \in DOMAIN Rows /\ Rows[i - Shift] = file[i].result
<1>1. /\ Len(file) \in Nat /\ DOMAIN file = 1..Len(file)
      /\ \A i \in DOMAIN file : file[i] \in Line
      /\ file = <<>> <=> Len(file) = 0
  BY Numbers DEF Typed
<1>2. \A i \in DOMAIN file : file[i].result \in Result \cup {None}
  BY <1>1 DEF Line
<1>3. CASE format = "csv" /\ Plain
  <2>1. Shift = 1 /\ Rows = RowsCSV
    BY <1>3 DEF Shift, Rows
  <2> DEFINE n == IF file = <<>> THEN 0 ELSE Len(file) - 1
             f == [i \in 1..n |-> file[i + 1].result]
  <2>2. n \in Nat /\ 1..(Len(file) - 1) = 1..n
    BY <1>1
  <2>3. \A i \in 1..n : i + 1 \in DOMAIN file
    BY <1>1
  <2>4. Rows = f
    BY <1>3, <2>1, <2>2 DEF RowsCSV, Plain
  <2>5. \A i \in DOMAIN file : i # 1 => i - 1 \in 1..n /\ i = (i - 1) + 1
    BY <1>1
  <2> HIDE DEF n
  <2>6. \A i \in 1..n : f[i] \in Result \cup {None}
    BY <1>2, <2>3
  <2>7. f \in Seq(Result \cup {None}) /\ Len(f) = n /\ DOMAIN f = 1..n
    BY <2>2, <2>6
  <2>8. n = IF file = <<>> THEN 0 ELSE Len(file) - 1
    BY DEF n
  <2> QED
    BY <1>3, <2>1, <2>2, <2>3, <2>4, <2>5, <2>7, <2>8
<1>4. CASE ~Plain
  <2>1. Rows = <<>>
    BY <1>4 DEF Rows, RowsCSV, Plain
  <2>2. Len(<<>>) = 0 /\ <<>> \in Seq(Result \cup {None}) /\ DOMAIN <<>> = {} /\ 1..0 = {}
    OBVIOUS
  <2> QED
    BY <1>4, <2>1, <2>2
<1>5. CASE format # "csv"
  <2>1. Shift = 0 /\ Plain
    BY <1>5 DEF Shift, Plain
  <2>2. Rows = [i \in 1..Len(file) |-> file[i].result]
    BY <1>1, <1>5 DEF Rows, RowsJSON, RowsSQL
  <2>3. Rows \in Seq(Result \cup {None}) /\ Len(Rows) = Len(file) /\ DOMAIN Rows = 1..Len(file)
    BY <1>1, <1>2, <2>2
  <2>4. \A i \in 1..Len(file) : i + 0 = i /\ i - 0 = i
    BY <1>1
  <2>5. Len(file) - 0 = Len(file)
    BY <1>1
  <2> QED
    BY <1>1, <2>1, <2>2, <2>3, <2>4, <2>5
<1> QED
  BY <1>3, <1>4, <1>5

\* A result with a line that is whole is found by a query that succeeds.
LEMMA WholeIsFound ==
  ASSUME Typed, Headed, ~Fails, NEW i \in Lines, file[i].fields = Columns
  PROVE  i - Shift \in DOMAIN Rows /\ Rows[i - Shift] = file[i].result
<1>1. i \in DOMAIN file /\ file[i].result # None
  BY DEF Lines
<1>2. i # Shift
  <2>1. i # 0
    BY <1>1, Numbers
  <2> QED
    BY <1>1, <2>1 DEF Headed, Shift
<1>3. Plain
  <2> SUFFICES ASSUME format = "csv" PROVE file[1].fields = Columns
    BY DEF Plain
  <2>1. file[i].fields = file[1].fields
    BY <1>1 DEF Fails, FailsCSV
  <2> QED
    BY <2>1
<1>4. Plain => i - Shift \in DOMAIN Rows /\ Rows[i - Shift] = file[i].result
  BY <1>1, <1>2, RowsOfLines
<1> QED
  BY <1>3, <1>4

\* Whoever was told nil finds the result, unless it is one of those that were
\* written behind a torn line.
LEMMA AckedFound == Inv => AckedSurvive
<1> SUFFICES ASSUME Inv, ~Fails, NEW r \in acked \ behind PROVE r \in ToSet(Rows)
  BY DEF AckedSurvive
<1>1. PICK i \in Lines : file[i].result = r /\ file[i].fields = Columns
  BY DEF Inv, FileInv, Whole
<1>2. i - Shift \in DOMAIN Rows /\ Rows[i - Shift] = file[i].result
  BY <1>1, WholeIsFound DEF Inv, FileInv
<1> QED
  BY <1>1, <1>2 DEF ToSet

\* What is lost was written behind a torn line, and there are not more torn
\* lines than writes that were cut short.
LEMMA LossFound == Inv => LossBounded
<1> SUFFICES ASSUME Inv, open, ~Fails
             PROVE  Cardinality(acked \ ToSet(Rows)) <= Cardinality(cut)
  BY DEF LossBounded
<1>1. /\ IsFiniteSet(acked \cap behind)
      /\ Cardinality(cut) \in Nat /\ Cardinality(acked \cap behind) \in Nat
  BY BooksAreFinite DEF Inv
<1>2. acked \ ToSet(Rows) \subseteq acked \cap behind
  BY AckedFound DEF AckedSurvive
<1>3. Cardinality(acked \ ToSet(Rows)) <= Cardinality(acked \cap behind)
  BY <1>1, <1>2, FS_Subset
<1>4. Cardinality(acked \ ToSet(Rows)) \in Nat
  BY <1>1, <1>2, FS_Subset, FS_CardinalityType
<1>5. Cardinality(acked \cap behind) <= Cardinality(cut)
  BY <1>1 DEF Inv, FileInv, Tears, TornLines
<1> QED
  BY <1>1, <1>3, <1>4, <1>5

\* In a file where nothing was written behind a torn line the rows are the
\* results, one by one.
LEMMA CleanRows ==
  ASSUME Inv, Clean
  PROVE  /\ \A j \in DOMAIN Rows : Rows[j] = file[j + Shift].result /\ Rows[j] \in acked \cup cut
                                   /\ Rows[j] # None
         /\ \A j, k \in DOMAIN Rows : Rows[j] = Rows[k] => j = k
<1>1. Typed /\ Headed /\ Saved /\ OneLineEach /\ Behind /\ behind = {}
  BY DEF Inv, FileInv, Clean
<1>2. Shift \in {0, 1} /\ DOMAIN Rows = 1..Len(Rows) /\ Len(Rows) \in Nat
  BY <1>1, RowsOfLines DEF Shift
<1>3. \A j \in DOMAIN Rows : j + Shift \in DOMAIN file /\ Rows[j] = file[j + Shift].result
  BY <1>1, RowsOfLines
<1>4. \A j \in DOMAIN Rows : format = "csv" => j + Shift # 1
  BY <1>2 DEF Shift
<1>5. \A j \in DOMAIN Rows : j + Shift \in Lines
  BY <1>1, <1>3, <1>4 DEF Behind
<1>6. \A j, k \in DOMAIN Rows : Rows[j] = Rows[k] => j + Shift = k + Shift
  BY <1>1, <1>3, <1>5 DEF OneLineEach
<1>7. \A j, k \in DOMAIN Rows : j + Shift = k + Shift => j = k
  BY <1>2
<1>8. \A j \in DOMAIN Rows : Rows[j] # None
  BY <1>3, <1>5 DEF Lines
<1> QED
  BY <1>1, <1>3, <1>5, <1>6, <1>7, <1>8 DEF Saved

\* Such a file has every result whose Save returned nil, and each result once.
LEMMA ExactFound == Inv => Exact
<1> SUFFICES ASSUME Inv, Clean
             PROVE  /\ acked \subseteq ToSet(Rows)
                    /\ ToSet(Rows) \subseteq acked \cup cut
                    /\ Len(Rows) = Cardinality(ToSet(Rows))
  BY DEF Exact
<1>1. Typed
  BY DEF Inv
<1>2. acked \subseteq ToSet(Rows)
  BY AckedFound DEF AckedSurvive, Clean
<1>3. ToSet(Rows) \subseteq acked \cup cut
  BY CleanRows DEF ToSet
<1>4. Len(Rows) = Cardinality(ToSet(Rows))
  <2> DEFINE n == Len(Rows)
             f == [j \in 1..n |-> Rows[j]]
  <2>1. n \in Nat /\ DOMAIN Rows = 1..n
    BY <1>1, RowsOfLines
  <2>2. \A j, k \in 1..n : Rows[j] = Rows[k] => j = k
    BY <2>1, CleanRows
  <2>3. ToSet(Rows) = {Rows[j] : j \in 1..n}
    BY <2>1 DEF ToSet
  <2> HIDE DEF n
  <2>4. f \in Bijection(1..n, ToSet(Rows))
    BY <2>2, <2>3 DEF Bijection, Injection, Surjection, IsInjective
  <2>5. ExistsBijection(1..n, ToSet(Rows))
    BY <2>4 DEF ExistsBijection
  <2>6. Cardinality(ToSet(Rows)) = n
    BY <2>1, <2>5, FS_CountingElements
  <2> QED
    BY <2>6 DEF n
<1> QED
  BY <1>2, <1>3, <1>4

\* Torn lines or not, a query that succeeds returns every result whose Save
\* returned nil, but for those written right behind a torn line.
THEOREM AckedAreKept == Spec => []AckedSurvive
BY Invariance, AckedFound, PTL

\* However often writes are cut short, be it that of the header: a query that
\* succeeds lacks no more results whose Save returned nil than there were writes
\* cut short.
THEOREM LossIsBounded == Spec => []LossBounded
BY Invariance, LossFound, PTL

\* While nothing was written behind a torn line, a query that succeeds returns
\* every result whose Save returned nil, once, and nothing that nobody saved.
THEOREM CleanIsExact == Spec => []Exact
BY Invariance, ExactFound, PTL
-----------------------------------------------------------------------------
(***************************************************************************)
(* The order of a query's answer.  One more row, at the end of the table   *)
(* or file, becomes one more entry of the list that the pages are cut      *)
(* from, at some place of it, and the others keep their order.             *)
(***************************************************************************)

\* The number after one that is below a bound.
LEMMA NextUpTo ==
  ASSUME NEW N \in Nat, NEW n \in 0..N, n < N
  PROVE  n + 1 \in 1..N /\ n + 1 \in 1..(N + 1) /\ (n + 1) - 1 = n /\ n + 1 \in 0..N
OBVIOUS

\* The places of a list that is turned round.
LEMMA Mirrored ==
  ASSUME NEW N \in Nat
  PROVE  \A i \in 1..N : (N - i) + 1 \in 1..N /\ (N - i) + 1 = N + 1 - i
OBVIOUS

\* A list that is turned round.
LEMMA Reversed ==
  ASSUME NEW T, NEW s \in Seq(T)
  PROVE  /\ Reverse(s) \in Seq(T) /\ Len(Reverse(s)) = Len(s)
         /\ \A i \in 1..Len(s) : Reverse(s)[i] = s[Len(s) + 1 - i]
<1> DEFINE N == Len(s)
<1>1. N \in Nat
  BY LenProperties
<1>2. \A i \in 1..N : s[i] \in T
  BY ElementOfSeq
<1>3. Reverse(s) = [i \in 1..N |-> s[(N - i) + 1]]
  BY DEF Reverse
<1> HIDE DEF N
<1>4. \A i \in 1..N : (N - i) + 1 \in 1..N /\ (N - i) + 1 = N + 1 - i
  BY <1>1, Mirrored
<1>5. \A i \in 1..N : s[(N - i) + 1] \in T
  BY <1>2, <1>4
<1>6. Reverse(s) \in Seq(T) /\ Len(Reverse(s)) = N
  BY <1>1, <1>3, <1>5
<1>7. \A i \in 1..N : Reverse(s)[i] = s[N + 1 - i]
  BY <1>3, <1>4
<1> QED
  BY <1>6, <1>7 DEF N

\* A row joins the rows taken if it is wanted.
Taken(s, x, want) == IF x \in want THEN Append(s, x) ELSE s

\* Filtered is what its recursion says.
LEMMA FilteredUnfolds ==
  ASSUME NEW T, NEW rows \in Seq(T), NEW want
  PROVE  \E f \in [0..Len(rows) -> Seq(T)] :
           /\ f[0] = <<>>
           /\ \A n \in 1..Len(rows) :
                f[n] = Taken(f[n - 1], rows[n], want)
           /\ Filtered(rows, want) = f[Len(rows)]
<1> DEFINE N == Len(rows)
           S == Seq(T)
           step == [n \in 1..N |-> [s \in S |-> Taken(s, rows[n], want)]]
<1>1. N \in Nat /\ \A n \in 1..N : rows[n] \in T
  BY LenProperties, ElementOfSeq
<1>2. \A n \in 1..N : \A s \in S :
        step[n][s] = Taken(s, rows[n], want) /\ step[n][s] \in S
  BY <1>1 DEF Taken
<1>3. step \in [1..N -> [S -> S]]
  BY <1>2
<1>4. N \in Nat
  BY <1>1
<1>5. <<>> \in S
  OBVIOUS
<1> HIDE DEF step, N, S
<1>6. PICK g \in [0..N -> S] : g[0] = <<>> /\ \A n \in 1..N : g[n] = step[n][g[n - 1]]
  BY <1>3, <1>4, <1>5, Recursion
<1>7. \A n \in 1..N : g[n - 1] \in S /\ n \in 0..N /\ n # 0
  BY <1>1, <1>6
<1> DEFINE Recursive(f) == f = [n \in 0..N |->
             IF n = 0 THEN <<>>
             ELSE Taken(f[n - 1], rows[n], want)]
<1>8. Recursive(g)
  <2> DEFINE h == [n \in 0..N |->
               IF n = 0 THEN <<>>
               ELSE Taken(g[n - 1], rows[n], want)]
  <2>1. ASSUME NEW n \in 0..N PROVE g[n] = h[n]
    <3>1. CASE n = 0
      BY <1>6, <3>1
    <3>2. CASE n # 0
      <4>1. n \in 1..N
        BY <1>1, <3>2
      <4>2. g[n] = step[n][g[n - 1]] /\ g[n - 1] \in S
        BY <1>6, <1>7, <4>1
      <4> QED
        BY <1>2, <3>2, <4>1, <4>2
    <3> QED
      BY <3>1, <3>2
  <2> QED
    BY <1>6, <2>1
<1> DEFINE f == CHOOSE f : Recursive(f)
<1>9. Recursive(f)
  BY <1>8
<1>10. Filtered(rows, want) = f[N]
  BY DEF Filtered, Taken, N
<1> HIDE DEF f
<1>11. f[0] = <<>> /\ \A n \in 1..N :
         f[n] = Taken(f[n - 1], rows[n], want)
  <2>1. 0 \in 0..N /\ \A n \in 1..N : n \in 0..N /\ n # 0
    BY <1>1
  <2> QED
    BY <1>9, <2>1
<1>12. 0..N \subseteq {n \in 0..N : f[n] \in S}
  <2> DEFINE Good == {n \in 0..N : f[n] \in S}
  <2>1. 0 \in Good
    BY <1>1, <1>5, <1>11
  <2>2. ASSUME NEW n \in 0..N, n \in Good, n < N PROVE n + 1 \in Good
    <3>1. n + 1 \in 1..N /\ n + 1 \in 0..N /\ (n + 1) - 1 = n /\ f[n] \in S
      BY <1>1, <2>2
    <3>2. f[n + 1] = Taken(f[n], rows[n + 1], want)
      BY <1>11, <3>1
    <3>3. rows[n + 1] \in T
      BY <1>1, <3>1
    <3>4. f[n + 1] \in S
      BY <3>1, <3>2, <3>3 DEF S, Taken
    <3> QED
      BY <3>1, <3>4
  <2> HIDE DEF Good
  <2>3. 0..N \subseteq Good
    BY <1>1, <2>1, <2>2, Induction
  <2> QED
    BY <2>3 DEF Good
<1>13. f \in [0..N -> S]
  BY <1>9, <1>12
<1> QED
  BY <1>10, <1>11, <1>13 DEF N, S

\* What stands at i after x was put into q at p.
Shifted(q, p, x, i) == IF i < p THEN q[i] ELSE IF i = p THEN x ELSE q[i - 1]

\* Something is put into a sequence.
LEMMA Inserted ==
  ASSUME NEW T, NEW q \in Seq(T), NEW p \in 1..(Len(q) + 1), NEW x \in T
  PROVE  /\ InsertAt(q, p, x) \in Seq(T)
         /\ Len(InsertAt(q, p, x)) = Len(q) + 1
         /\ \A i \in 1..(Len(q) + 1) :
              InsertAt(q, p, x)[i] = Shifted(q, p, x, i)
<1> DEFINE a == SubSeq(q, 1, p - 1)
           b == <<x>>
           c == SubSeq(q, p, Len(q))
<1>1. Len(q) \in Nat /\ p \in Nat /\ 1 <= p /\ p <= Len(q) + 1
  BY LenProperties
<1>2. \A i \in 1..Len(q) : q[i] \in T
  BY ElementOfSeq
<1>3. /\ a \in Seq(T) /\ Len(a) = p - 1 /\ \A i \in 1..(p - 1) : a[i] = q[i]
  <2>1. \A i \in 1..(p - 1) : q[i] \in T
    BY <1>1, <1>2
  <2>2. CASE p = 1
    <3>1. a = <<>>
      BY <2>2, <1>1, SubSeqProperties
    <3> QED
      BY <2>2, <3>1
  <2>3. CASE p # 1
    BY <1>1, <2>1, <2>3, SubSeqProperties
  <2> QED
    BY <2>2, <2>3
<1>4. /\ c \in Seq(T) /\ Len(c) = Len(q) + 1 - p
      /\ \A i \in 1..(Len(q) + 1 - p) : c[i] = q[p + i - 1]
  BY <1>1, <1>2, SubSeqProperties
<1>5. b \in Seq(T) /\ Len(b) = 1 /\ b[1] = x
  OBVIOUS
<1>6. InsertAt(q, p, x) = (a \o b) \o c
  BY DEF InsertAt
<1> HIDE DEF a, b, c
<1>7. /\ a \o b \in Seq(T) /\ Len(a \o b) = p
      /\ \A i \in 1..p : (a \o b)[i] = IF i < p THEN q[i] ELSE x
  <2>1. /\ a \o b \in Seq(T) /\ Len(a \o b) = Len(a) + Len(b)
        /\ \A i \in 1..(Len(a) + Len(b)) :
             (a \o b)[i] = IF i <= Len(a) THEN a[i] ELSE b[i - Len(a)]
    BY <1>3, <1>5, ConcatProperties
  <2> QED
    BY <1>1, <1>3, <1>5, <2>1 DEF Shifted
<1> DEFINE d == a \o b
<1>8. d \in Seq(T) /\ Len(d) = p /\ \A i \in 1..p : d[i] = IF i < p THEN q[i] ELSE x
  BY <1>7
<1>9. InsertAt(q, p, x) = d \o c
  BY <1>6
<1> HIDE DEF d
<1>10. /\ d \o c \in Seq(T) /\ Len(d \o c) = p + (Len(q) + 1 - p)
       /\ \A i \in 1..(p + (Len(q) + 1 - p)) :
            (d \o c)[i] = IF i <= p THEN d[i] ELSE c[i - p]
  <2>1. /\ d \o c \in Seq(T) /\ Len(d \o c) = Len(d) + Len(c)
        /\ \A i \in 1..(Len(d) + Len(c)) :
             (d \o c)[i] = IF i <= Len(d) THEN d[i] ELSE c[i - Len(d)]
    BY <1>4, <1>8, ConcatProperties
  <2> QED
    BY <1>4, <1>8, <2>1
<1>11. p + (Len(q) + 1 - p) = Len(q) + 1
  BY <1>1
<1>12. ASSUME NEW i \in 1..(Len(q) + 1)
       PROVE  (d \o c)[i] = IF i < p THEN q[i] ELSE IF i = p THEN x ELSE q[i - 1]
  <2>1. CASE i <= p
    BY <1>1, <1>8, <1>10, <1>11, <2>1
  <2>2. CASE i > p
    <3>1. i - p \in 1..(Len(q) + 1 - p) /\ p + (i - p) - 1 = i - 1
      BY <1>1, <2>2
    <3>2. (d \o c)[i] = c[i - p]
      BY <1>1, <1>10, <1>11, <2>2
    <3>3. c[i - p] = q[i - 1]
      BY <1>4, <3>1
    <3> QED
      BY <1>1, <2>2, <3>2, <3>3
  <2>3. i <= p \/ i > p
    BY <1>1
  <2> QED
    BY <2>1, <2>2, <2>3
<1> QED
  BY <1>9, <1>10, <1>11, <1>12 DEF Shifted

\* The place of a row among others.
Place(q, r) == Cardinality({i \in DOMAIN q : q[i] > r}) + 1

\* That place is in the list or right behind it.
LEMMA PlaceInList ==
  ASSUME NEW T, NEW q \in Seq(T), NEW r
  PROVE  Place(q, r) \in 1..(Len(q) + 1)
<1>1. DOMAIN q = 1..Len(q) /\ Len(q) \in Nat
  BY LenProperties
<1>2. IsFiniteSet(1..Len(q)) /\ Cardinality(1..Len(q)) = Len(q)
  BY <1>1, FS_Interval
<1> DEFINE U == {i \in DOMAIN q : q[i] > r}
<1>3. U \in SUBSET (1..Len(q))
  BY <1>1
<1> HIDE DEF U
<1>4. IsFiniteSet(U) /\ Cardinality(U) <= Len(q) /\ Cardinality(U) \in Nat
  BY <1>2, <1>3, FS_Subset, FS_CardinalityType
<1> QED
  BY <1>1, <1>4 DEF Place, U

\* A row is put at its place.
LEMMA PlacedInList ==
  ASSUME NEW T, NEW q \in Seq(T), NEW r \in T
  PROVE  /\ Placed(q, r) = InsertAt(q, Place(q, r), r)
         /\ Placed(q, r) \in Seq(T)
<1>1. Placed(q, r) = InsertAt(q, Place(q, r), r)
  BY DEF Placed, Place
<1> QED
  BY <1>1, PlaceInList, Inserted

\* Sorted is what its recursion says.
LEMMA SortedUnfolds ==
  ASSUME NEW T, NEW rows \in Seq(T)
  PROVE  \E f \in [0..Len(rows) -> Seq(T)] :
           /\ f[0] = <<>>
           /\ \A n \in 1..Len(rows) :
                f[n] = Placed(f[n - 1], rows[n])
           /\ Sorted(rows) = f[Len(rows)]
<1> DEFINE N == Len(rows)
           S == Seq(T)
           step == [n \in 1..N |-> [s \in S |-> Placed(s, rows[n])]]
<1>1. N \in Nat /\ \A n \in 1..N : rows[n] \in T
  BY LenProperties, ElementOfSeq
<1>2. \A n \in 1..N : \A s \in S :
        step[n][s] = Placed(s, rows[n]) /\ step[n][s] \in S
  BY <1>1, PlacedInList
<1>3. step \in [1..N -> [S -> S]]
  BY <1>2
<1>4. N \in Nat
  BY <1>1
<1>5. <<>> \in S
  OBVIOUS
<1> HIDE DEF step, N, S
<1>6. PICK g \in [0..N -> S] : g[0] = <<>> /\ \A n \in 1..N : g[n] = step[n][g[n - 1]]
  BY <1>3, <1>4, <1>5, Recursion
<1>7. \A n \in 1..N : g[n - 1] \in S /\ n \in 0..N /\ n # 0
  BY <1>1, <1>6
<1> DEFINE Recursive(f) == f = [n \in 0..N |->
             IF n = 0 THEN <<>>
             ELSE Placed(f[n - 1], rows[n])]
<1>8. Recursive(g)
  <2> DEFINE h == [n \in 0..N |->
               IF n = 0 THEN <<>>
               ELSE Placed(g[n - 1], rows[n])]
  <2>1. ASSUME NEW n \in 0..N PROVE g[n] = h[n]
    <3>1. CASE n = 0
      BY <1>6, <3>1
    <3>2. CASE n # 0
      <4>1. n \in 1..N
        BY <1>1, <3>2
      <4>2. g[n] = step[n][g[n - 1]] /\ g[n - 1] \in S
        BY <1>6, <1>7, <4>1
      <4> QED
        BY <1>2, <3>2, <4>1, <4>2
    <3> QED
      BY <3>1, <3>2
  <2> QED
    BY <1>6, <2>1
<1> DEFINE f == CHOOSE f : Recursive(f)
<1>9. Recursive(f)
  BY <1>8
<1>10. Sorted(rows) = f[N]
  BY DEF Sorted, N
<1> HIDE DEF f
<1>11. f[0] = <<>> /\ \A n \in 1..N :
         f[n] = Placed(f[n - 1], rows[n])
  <2>1. 0 \in 0..N /\ \A n \in 1..N : n \in 0..N /\ n # 0
    BY <1>1
  <2> QED
    BY <1>9, <2>1
<1>12. 0..N \subseteq {n \in 0..N : f[n] \in S}
  <2> DEFINE Good == {n \in 0..N : f[n] \in S}
  <2>1. 0 \in Good
    BY <1>1, <1>5, <1>11
  <2>2. ASSUME NEW n \in 0..N, n \in Good, n < N PROVE n + 1 \in Good
    <3>1. n + 1 \in 1..N /\ n + 1 \in 0..N /\ (n + 1) - 1 = n /\ f[n] \in S
      BY <1>1, <2>2
    <3>2. f[n + 1] = Placed(f[n], rows[n + 1])
      BY <1>11, <3>1
    <3> QED
      BY <1>1, <3>1, <3>2, PlacedInList DEF S
  <2> HIDE DEF Good
  <2>3. 0..N \subseteq Good
    BY <1>1, <2>1, <2>2, Induction
  <2> QED
    BY <2>3 DEF Good
<1>13. f \in [0..N -> S]
  BY <1>9, <1>12
<1> QED
  BY <1>10, <1>11, <1>13 DEF N, S

\* Filtering a file or table that has one row more.
LEMMA FilteredAppend ==
  ASSUME NEW T, NEW rows \in Seq(T), NEW x \in T, NEW want
  PROVE  /\ Filtered(rows, want) \in Seq(T)
         /\ Filtered(Append(rows, x), want) = Taken(Filtered(rows, want), x, want)
<1> DEFINE N == Len(rows)
           more == Append(rows, x)
<1>1. /\ N \in Nat /\ more \in Seq(T) /\ Len(more) = N + 1 /\ more[N + 1] = x
      /\ \A n \in 1..N : more[n] = rows[n]
  BY AppendProperties, LenProperties
<1> HIDE DEF more
<1>2. PICK f \in [0..N -> Seq(T)] :
        /\ f[0] = <<>>
        /\ \A n \in 1..N : f[n] = Taken(f[n - 1], rows[n], want)
        /\ Filtered(rows, want) = f[N]
  BY FilteredUnfolds
<1>3. PICK g \in [0..(N + 1) -> Seq(T)] :
        /\ g[0] = <<>>
        /\ \A n \in 1..(N + 1) :
             g[n] = Taken(g[n - 1], more[n], want)
        /\ Filtered(more, want) = g[N + 1]
  <2>1. \E g \in [0..Len(more) -> Seq(T)] :
          /\ g[0] = <<>>
          /\ \A n \in 1..Len(more) :
               g[n] = Taken(g[n - 1], more[n], want)
          /\ Filtered(more, want) = g[Len(more)]
    <3>1. more \in Seq(T)
      BY <1>1
    <3> QED
      BY <3>1, FilteredUnfolds
  <2> QED
    BY <1>1, <2>1
<1> HIDE DEF N
<1> DEFINE Good == {n \in 0..N : g[n] = f[n]}
<1>4. 0 \in Good
  BY <1>1, <1>2, <1>3
<1>5. ASSUME NEW n \in 0..N, n \in Good, n < N PROVE n + 1 \in Good
  <2>1. N \in Nat /\ n < N
    BY <1>1, <1>5
  <2>2. n + 1 \in 1..N /\ n + 1 \in 1..(N + 1) /\ (n + 1) - 1 = n /\ n + 1 \in 0..N
    BY <2>1, NextUpTo
  <2>3. more[n + 1] = rows[n + 1] /\ g[n] = f[n]
    BY <1>1, <1>5, <2>2
  <2>4. g[n + 1] = f[n + 1]
    BY <1>2, <1>3, <2>2, <2>3
  <2> QED
    BY <2>2, <2>4
<1> HIDE DEF Good
<1>6. 0..N \subseteq Good
  BY <1>1, <1>4, <1>5, Induction
<1>7. g[N] = f[N] /\ N + 1 \in 1..(N + 1) /\ (N + 1) - 1 = N /\ N \in 0..N
  BY <1>1, <1>6 DEF Good
<1>8. g[N + 1] = Taken(f[N], x, want)
  BY <1>1, <1>3, <1>7
<1> QED
  BY <1>2, <1>3, <1>7, <1>8 DEF more

\* Sorting a table that has one row more.
LEMMA SortedAppend ==
  ASSUME NEW T, NEW rows \in Seq(T), NEW x \in T
  PROVE  /\ Sorted(rows) \in Seq(T)
         /\ Sorted(Append(rows, x)) = Placed(Sorted(rows), x)
<1> DEFINE N == Len(rows)
           more == Append(rows, x)
<1>1. /\ N \in Nat /\ more \in Seq(T) /\ Len(more) = N + 1 /\ more[N + 1] = x
      /\ \A n \in 1..N : more[n] = rows[n]
  BY AppendProperties, LenProperties
<1> HIDE DEF more
<1>2. PICK f \in [0..N -> Seq(T)] :
        /\ f[0] = <<>>
        /\ \A n \in 1..N : f[n] = Placed(f[n - 1], rows[n])
        /\ Sorted(rows) = f[N]
  BY SortedUnfolds
<1>3. PICK g \in [0..(N + 1) -> Seq(T)] :
        /\ g[0] = <<>>
        /\ \A n \in 1..(N + 1) : g[n] = Placed(g[n - 1], more[n])
        /\ Sorted(more) = g[N + 1]
  <2>1. \E g \in [0..Len(more) -> Seq(T)] :
          /\ g[0] = <<>>
          /\ \A n \in 1..Len(more) : g[n] = Placed(g[n - 1], more[n])
          /\ Sorted(more) = g[Len(more)]
    BY <1>1, SortedUnfolds
  <2> QED
    BY <1>1, <2>1
<1> HIDE DEF N
<1> DEFINE Good == {n \in 0..N : g[n] = f[n]}
<1>4. 0 \in Good
  BY <1>1, <1>2, <1>3
<1>5. ASSUME NEW n \in 0..N, n \in Good, n < N PROVE n + 1 \in Good
  <2>1. N \in Nat /\ n < N
    BY <1>1, <1>5
  <2>2. n + 1 \in 1..N /\ n + 1 \in 1..(N + 1) /\ (n + 1) - 1 = n /\ n + 1 \in 0..N
    BY <2>1, NextUpTo
  <2>3. more[n + 1] = rows[n + 1] /\ g[n] = f[n]
    BY <1>1, <1>5, <2>2
  <2>4. g[n + 1] = f[n + 1]
    BY <1>2, <1>3, <2>2, <2>3
  <2> QED
    BY <2>2, <2>4
<1> HIDE DEF Good
<1>6. 0..N \subseteq Good
  BY <1>1, <1>4, <1>5, Induction
<1>7. g[N] = f[N] /\ N + 1 \in 1..(N + 1) /\ (N + 1) - 1 = N /\ N \in 0..N
  BY <1>1, <1>6 DEF Good
<1>8. g[N + 1] = Placed(f[N], x)
  BY <1>1, <1>3, <1>7
<1> QED
  BY <1>2, <1>3, <1>7, <1>8 DEF more

\* Nothing is listed of nothing.
LEMMA ListsNothing ==
  /\ \A want : Filtered(<<>>, want) = <<>>
  /\ Sorted(<<>>) = <<>>
  /\ Reverse(<<>>) = <<>>
<1>1. <<>> \in Seq({}) /\ Len(<<>>) = 0
  OBVIOUS
<1>2. \A want : Filtered(<<>>, want) = <<>>
  <2> SUFFICES ASSUME NEW want PROVE Filtered(<<>>, want) = <<>>
    OBVIOUS
  <2> DEFINE e == <<>>
  <2>1. e \in Seq({}) /\ Len(e) = 0
    BY <1>1
  <2>2. e \in Seq({})
    BY <2>1
  <2> HIDE DEF e
  <2>3. \E f \in [0..Len(e) -> Seq({})] :
          /\ f[0] = <<>>
          /\ \A n \in 1..Len(e) : f[n] = Taken(f[n - 1], e[n], want)
          /\ Filtered(e, want) = f[Len(e)]
    BY <2>2, FilteredUnfolds
  <2>4. Filtered(e, want) = <<>>
    BY <2>1, <2>3
  <2> QED
    BY <2>4 DEF e
<1>3. Sorted(<<>>) = <<>>
  <2>1. PICK f \in [0..Len(<<>>) -> Seq({})] : f[0] = <<>> /\ Sorted(<<>>) = f[Len(<<>>)]
    BY <1>1, SortedUnfolds
  <2> QED
    BY <1>1, <2>1
<1>4. Reverse(<<>>) = <<>>
  BY DEF Reverse
<1> QED
  BY <1>2, <1>3, <1>4

\* Turning round a file that has one row more.
LEMMA ReverseAppend ==
  ASSUME NEW T, NEW rows \in Seq(T), NEW x \in T
  PROVE  /\ Reverse(rows) \in Seq(T) /\ Len(Reverse(rows)) = Len(rows)
         /\ \A i \in 1..Len(rows) : Reverse(rows)[i] = rows[Len(rows) + 1 - i]
         /\ Reverse(Append(rows, x)) = InsertAt(Reverse(rows), 1, x)
<1> DEFINE N == Len(rows)
           more == Append(rows, x)
<1>1. /\ N \in Nat /\ more \in Seq(T) /\ Len(more) = N + 1 /\ more[N + 1] = x
      /\ \A n \in 1..N : more[n] = rows[n]
      /\ \A n \in 1..N : rows[n] \in T
  BY AppendProperties, LenProperties, ElementOfSeq
<1> HIDE DEF more
<1>2. /\ Reverse(rows) \in Seq(T) /\ Len(Reverse(rows)) = N
      /\ \A i \in 1..N : Reverse(rows)[i] = rows[N + 1 - i]
  BY Reversed
<1> HIDE DEF N
<1>3. /\ Reverse(more) \in Seq(T) /\ Len(Reverse(more)) = N + 1
      /\ \A i \in 1..(N + 1) : Reverse(more)[i] = more[N + 2 - i]
  <2>1. /\ Reverse(more) \in Seq(T) /\ Len(Reverse(more)) = Len(more)
        /\ \A i \in 1..Len(more) : Reverse(more)[i] = more[Len(more) + 1 - i]
    BY <1>1, Reversed
  <2>2. N \in Nat /\ Len(more) = N + 1
    BY <1>1
  <2>3. \A i \in 1..(N + 1) : (N + 1) + 1 - i = N + 2 - i
    BY <2>2
  <2> QED
    BY <2>1, <2>2, <2>3
<1> DEFINE q == Reverse(rows)
<1> HIDE DEF q
<1>4. q \in Seq(T) /\ Len(q) = N /\ \A i \in 1..N : q[i] = rows[N + 1 - i]
  BY <1>2 DEF q
<1>5. /\ InsertAt(q, 1, x) \in Seq(T) /\ Len(InsertAt(q, 1, x)) = N + 1
      /\ \A i \in 1..(N + 1) :
           InsertAt(q, 1, x)[i] = Shifted(q, 1, x, i)
  <2>1. 1 \in 1..(Len(q) + 1)
    BY <1>1, <1>4
  <2> QED
    BY <1>4, <2>1, Inserted
<1>6. ASSUME NEW i \in 1..(N + 1) PROVE Reverse(more)[i] = InsertAt(q, 1, x)[i]
  <2>1. CASE i = 1
    <3>1. N + 2 - 1 = N + 1 /\ 1 \in 1..(N + 1)
      BY <1>1
    <3>2. Reverse(more)[1] = x
      BY <1>1, <1>3, <3>1
    <3>3. InsertAt(q, 1, x)[1] = Shifted(q, 1, x, 1)
      BY <1>5, <3>1
    <3>4. Shifted(q, 1, x, 1) = x
      BY DEF Shifted
    <3> QED
      BY <2>1, <3>2, <3>3, <3>4
  <2>2. CASE i # 1
    <3>1. N + 2 - i \in 1..N /\ i - 1 \in 1..N /\ N + 1 - (i - 1) = N + 2 - i /\ ~(i < 1)
      BY <1>1, <2>2
    <3>2. Reverse(more)[i] = more[N + 2 - i] /\ more[N + 2 - i] = rows[N + 2 - i]
      BY <1>1, <1>3, <3>1
    <3>3. q[i - 1] = rows[N + 2 - i]
      BY <1>4, <3>1
    <3>4. InsertAt(q, 1, x)[i] = Shifted(q, 1, x, i) /\ Shifted(q, 1, x, i) = q[i - 1]
      BY <1>5, <2>2, <3>1 DEF Shifted
    <3> QED
      BY <3>2, <3>3, <3>4
  <2> QED
    BY <2>1, <2>2
<1>7. Reverse(more) = InsertAt(q, 1, x)
  BY <1>3, <1>5, <1>6, SeqEqual
<1> QED
  BY <1>2, <1>7 DEF N, q, more

-----------------------------------------------------------------------------
(* The list that the pages are cut from. *)

Row == Result \cup {None}

\* The rows of a file or table that a filter lets through, in the answer's order.
ListOf(rows, want) == Order(Filtered(rows, want \cup {None}))

\* What is listed of a reader's rows.
Listing == ListOf(Rows, reader.want)

\* One row more is one entry more, somewhere in the list, or none.
LEMMA ListGrows ==
  ASSUME NEW rows \in Seq(Row), NEW x \in Row, NEW want
  PROVE  /\ ListOf(rows, want) \in Seq(Row)
         /\ x \in want \cup {None} =>
              /\ format \notin SQL => ListOf(Append(rows, x), want) = InsertAt(ListOf(rows, want), 1, x)
              /\ format \in SQL => ListOf(Append(rows, x), want) = Placed(ListOf(rows, want), x)
         /\ x \notin want \cup {None} => ListOf(Append(rows, x), want) = ListOf(rows, want)
<1> DEFINE W == want \cup {None}
           q == Filtered(rows, W)
<1> HIDE DEF W
<1>1. q \in Seq(Row) /\ Filtered(Append(rows, x), W) = Taken(q, x, W)
  BY FilteredAppend
<1> HIDE DEF q
<1>2. q \in Seq(Row)
  BY <1>1
<1>3. Sorted(q) \in Seq(Row) /\ Sorted(Append(q, x)) = Placed(Sorted(q), x)
  BY <1>2, SortedAppend
<1>4. Reverse(q) \in Seq(Row) /\ Reverse(Append(q, x)) = InsertAt(Reverse(q), 1, x)
  BY <1>2, ReverseAppend
<1>5. ListOf(rows, want) = Order(q) /\ ListOf(Append(rows, x), want) = Order(Taken(q, x, W))
  BY <1>1 DEF ListOf, W, q
<1>6. x \in W => Taken(q, x, W) = Append(q, x)
  BY DEF Taken
<1>7. x \notin W => Taken(q, x, W) = q
  BY DEF Taken
<1>8. /\ Order(q) \in Seq(Row)
      /\ format \notin SQL => Order(Append(q, x)) = InsertAt(Order(q), 1, x)
      /\ format \in SQL => Order(Append(q, x)) = Placed(Order(q), x)
  BY <1>3, <1>4 DEF Order
<1>9. x \in W => ListOf(Append(rows, x), want) = Order(Append(q, x))
  BY <1>5, <1>6
<1>10. x \notin W => ListOf(Append(rows, x), want) = Order(q)
  BY <1>5, <1>7
<1>11. ListOf(rows, want) = Order(q)
  BY <1>5
<1>12. W = want \cup {None}
  BY DEF W
<1> HIDE DEF Taken
<1> QED
  BY <1>8, <1>9, <1>10, <1>11, <1>12

\* The same without saying where.
LEMMA ListInserts ==
  ASSUME NEW rows \in Seq(Row), NEW x \in Row, NEW want, x \in want \cup {None}
  PROVE  \E p \in 1..(Len(ListOf(rows, want)) + 1) :
           ListOf(Append(rows, x), want) = InsertAt(ListOf(rows, want), p, x)
<1> DEFINE q == ListOf(rows, want)
<1>1. /\ q \in Seq(Row)
      /\ \/ ListOf(Append(rows, x), want) = InsertAt(q, 1, x)
         \/ ListOf(Append(rows, x), want) = Placed(q, x)
  BY ListGrows
<1> HIDE DEF q
<1>2. q \in Seq(Row)
  BY <1>1
<1>3. Placed(q, x) = InsertAt(q, Place(q, x), x)
  BY DEF Placed, Place
<1>4. Place(q, x) \in 1..(Len(q) + 1)
  BY <1>2, PlaceInList
<1>5. 1 \in 1..(Len(q) + 1)
  BY <1>2, LenProperties
<1> QED
  BY <1>1, <1>3, <1>4, <1>5 DEF q

\* Nothing is listed of no rows.
LEMMA ListEmpty ==
  ASSUME NEW want
  PROVE  ListOf(<<>>, want) = <<>>
BY ListsNothing DEF ListOf, Order

\* An entry put into a list is one of it then, and the others stay.
LEMMA InsertedHas ==
  ASSUME NEW T, NEW q \in Seq(T), NEW p \in 1..(Len(q) + 1), NEW x \in T
  PROVE  ToSet(InsertAt(q, p, x)) = ToSet(q) \cup {x}
<1> DEFINE n == Len(q)
           l == InsertAt(q, p, x)
<1>1. l \in Seq(T) /\ Len(l) = n + 1 /\ \A i \in 1..(n + 1) : l[i] = Shifted(q, p, x, i)
  BY Inserted
<1>2. n \in Nat /\ DOMAIN q = 1..n
  BY LenProperties
<1>3. p \in 1..(n + 1)
  OBVIOUS
<1> HIDE DEF n, l
<1>4. DOMAIN l = 1..(n + 1)
  BY <1>1, LenProperties
<1>5. ASSUME NEW i \in 1..(n + 1) PROVE l[i] \in ToSet(q) \cup {x}
  <2>1. i < p => i \in 1..n
    BY <1>2, <1>3
  <2>2. ~(i < p) /\ i # p => i - 1 \in 1..n
    BY <1>2, <1>3
  <2>3. l[i] = Shifted(q, p, x, i)
    BY <1>1
  <2> QED
    BY <1>2, <2>1, <2>2, <2>3 DEF Shifted, ToSet
<1>6. ASSUME NEW i \in 1..n PROVE \E j \in 1..(n + 1) : l[j] = q[i]
  <2>1. CASE i < p
    <3>1. i \in 1..(n + 1)
      BY <1>2
    <3>2. l[i] = q[i]
      BY <1>1, <2>1, <3>1 DEF Shifted
    <3> QED
      BY <3>1, <3>2
  <2>2. CASE ~(i < p)
    <3>1. i + 1 \in 1..(n + 1) /\ ~(i + 1 < p) /\ i + 1 # p /\ (i + 1) - 1 = i
      BY <1>2, <1>3, <2>2
    <3>2. l[i + 1] = q[i]
      BY <1>1, <3>1 DEF Shifted
    <3> QED
      BY <3>1, <3>2
  <2> QED
    BY <2>1, <2>2
<1>7. l[p] = x
  BY <1>1, <1>3 DEF Shifted
<1>8. ToSet(l) \subseteq ToSet(q) \cup {x}
  BY <1>4, <1>5 DEF ToSet
<1>9. ToSet(q) \subseteq ToSet(l)
  BY <1>2, <1>4, <1>6 DEF ToSet
<1>10. x \in ToSet(l)
  BY <1>3, <1>4, <1>7 DEF ToSet
<1> QED
  BY <1>8, <1>9, <1>10 DEF l

\* A file or table with one row more has that row and the others.
LEMMA AppendedHas ==
  ASSUME NEW T, NEW s \in Seq(T), NEW x \in T
  PROVE  ToSet(Append(s, x)) = ToSet(s) \cup {x}
<1>1. /\ Append(s, x) \in Seq(T) /\ Len(Append(s, x)) = Len(s) + 1 /\ Append(s, x)[Len(s) + 1] = x
      /\ \A i \in 1..Len(s) : Append(s, x)[i] = s[i]
  BY AppendProperties
<1>2. Len(s) \in Nat /\ DOMAIN s = 1..Len(s) /\ DOMAIN Append(s, x) = 1..(Len(s) + 1)
  BY <1>1, LenProperties
<1> DEFINE n == Len(s)
           a == Append(s, x)
<1> HIDE DEF n, a
<1>3. n \in Nat /\ DOMAIN s = 1..n /\ DOMAIN a = 1..(n + 1) /\ a[n + 1] = x
      /\ \A i \in 1..n : a[i] = s[i]
  BY <1>1, <1>2 DEF n, a
<1>4. \A i \in 1..(n + 1) : i \in 1..n \/ i = n + 1
  BY <1>3
<1>5. \A i \in 1..n : i \in 1..(n + 1)
  BY <1>3
<1>6. n + 1 \in 1..(n + 1)
  BY <1>3
<1> QED
  BY <1>3, <1>4, <1>5, <1>6 DEF ToSet, a

\* What is listed are the rows that the filter lets through, and all of them.
LEMMA ListHas ==
  ASSUME NEW rows \in Seq(Row), NEW want
  PROVE  /\ ListOf(rows, want) \in Seq(Row)
         /\ ToSet(ListOf(rows, want)) = ToSet(rows) \cap (want \cup {None})
<1> DEFINE W == want \cup {None}
           Good == {s \in Seq(Row) : /\ ListOf(s, want) \in Seq(Row)
                                     /\ ToSet(ListOf(s, want)) = ToSet(s) \cap W}
<1>1. <<>> \in Good
  <2>1. <<>> \in Seq(Row) /\ ToSet(<<>>) = {}
    BY DEF ToSet
  <2>2. ListOf(<<>>, want) = <<>>
    BY ListEmpty
  <2> QED
    BY <2>1, <2>2
<1>2. ASSUME NEW s \in Seq(Row), NEW x \in Row, s \in Good PROVE Append(s, x) \in Good
  <2> DEFINE q == ListOf(s, want)
             a == Append(s, x)
  <2>1. q \in Seq(Row) /\ ToSet(q) = ToSet(s) \cap W
    BY <1>2
  <2>2. a \in Seq(Row)
    BY AppendProperties
  <2>3. ToSet(a) = ToSet(s) \cup {x}
    BY AppendedHas
  <2>4. CASE x \in W
    <3>1. PICK p \in 1..(Len(q) + 1) : ListOf(a, want) = InsertAt(q, p, x)
      BY <2>4, ListInserts
    <3>2. q \in Seq(Row) /\ p \in 1..(Len(q) + 1)
      BY <2>1
    <3> HIDE DEF q, a, W
    <3>3. ToSet(InsertAt(q, p, x)) = ToSet(q) \cup {x} /\ InsertAt(q, p, x) \in Seq(Row)
      BY <3>2, InsertedHas, Inserted
    <3>4. ToSet(ListOf(a, want)) = ToSet(a) \cap W
      BY <2>1, <2>3, <2>4, <3>1, <3>3
    <3> QED
      BY <2>2, <3>1, <3>3, <3>4 DEF a
  <2>5. CASE x \notin W
    <3>1. ListOf(a, want) = q
      BY <2>5, ListGrows
    <3> HIDE DEF q, a, W
    <3>2. ToSet(ListOf(a, want)) = ToSet(a) \cap W
      BY <2>1, <2>3, <2>5, <3>1
    <3> QED
      BY <2>1, <2>2, <3>1, <3>2 DEF a
  <2> QED
    BY <2>4, <2>5
<1> HIDE DEF Good
<1>3. Seq(Row) \subseteq Good
  BY <1>1, <1>2, SequenceInduction
<1> QED
  BY <1>3 DEF Good

-----------------------------------------------------------------------------
(***************************************************************************)
(* A reader that pages while others save.  What it is owed and has not     *)
(* seen is still ahead of it: an entry only ever moves towards the end.    *)
(***************************************************************************)

\* Every entry of the list that is to be kept is as far on in another list, or
\* farther.
Onward(q, l, keep) ==
  \A k \in DOMAIN q : q[k] \in keep => \E j \in DOMAIN l : j >= k /\ l[j] = q[k]

Ahead ==
  /\ reader \in Reader
  /\ reader.owed \subseteq acked \cap reader.want
  /\ reader.at = "paging" /\ (format = "json" => ~Fails) =>
       \A r \in reader.owed \ reader.seen :
         \E k \in DOMAIN Listing : k > reader.offset /\ Listing[k] = r
  /\ reader.at = "done" => reader.owed \subseteq reader.seen

\* What RowsOfLines says, to be cited of the state after a step.
RowsRead ==
  /\ Rows \in Seq(Result \cup {None}) /\ Len(Rows) \in Nat
  /\ DOMAIN Rows = 1..Len(Rows)
  /\ ~Plain => Rows = <<>>
  /\ Plain => Len(Rows) = IF file = <<>> THEN 0 ELSE Len(file) - Shift
  /\ \A j \in DOMAIN Rows : j + Shift \in DOMAIN file /\ Rows[j] = file[j + Shift].result

\* The rows are so whatever the file has.
LEMMA RowsAreRead == Typed => RowsRead
BY RowsOfLines DEF RowsRead

\* What is put into a list moves the others towards its end.
LEMMA InsertedOnward ==
  ASSUME NEW T, NEW q \in Seq(T), NEW p \in 1..(Len(q) + 1), NEW x \in T, NEW keep
  PROVE  Onward(q, InsertAt(q, p, x), keep)
<1> DEFINE n == Len(q)
           l == InsertAt(q, p, x)
<1>1. l \in Seq(T) /\ Len(l) = n + 1 /\ \A i \in 1..(n + 1) : l[i] = Shifted(q, p, x, i)
  BY Inserted
<1>2. n \in Nat /\ DOMAIN q = 1..n
  BY LenProperties
<1>3. p \in 1..(n + 1)
  OBVIOUS
<1> HIDE DEF n, l
<1>4. DOMAIN l = 1..(n + 1)
  BY <1>1, LenProperties
<1>5. ASSUME NEW i \in 1..n PROVE \E j \in 1..(n + 1) : j >= i /\ l[j] = q[i]
  <2>1. CASE i < p
    <3>1. i \in 1..(n + 1) /\ i >= i
      BY <1>2
    <3>2. l[i] = q[i]
      BY <1>1, <2>1, <3>1 DEF Shifted
    <3> QED
      BY <3>1, <3>2
  <2>2. CASE ~(i < p)
    <3>1. i + 1 \in 1..(n + 1) /\ ~(i + 1 < p) /\ i + 1 # p /\ (i + 1) - 1 = i /\ i + 1 >= i
      BY <1>2, <1>3, <2>2
    <3>2. l[i + 1] = q[i]
      BY <1>1, <3>1 DEF Shifted
    <3> QED
      BY <3>1, <3>2
  <2> QED
    BY <2>1, <2>2
<1> QED
  BY <1>2, <1>4, <1>5 DEF Onward, l

\* One row more moves entries towards the end, if any.
LEMMA GrowsOnward ==
  ASSUME NEW rows \in Seq(Row), NEW x \in Row, NEW want, NEW keep
  PROVE  Onward(ListOf(rows, want), ListOf(Append(rows, x), want), keep)
<1> DEFINE q == ListOf(rows, want)
           l == ListOf(Append(rows, x), want)
<1>1. q \in Seq(Row)
  BY ListGrows
<1>2. CASE x \in want \cup {None}
  <2>1. PICK p \in 1..(Len(q) + 1) : l = InsertAt(q, p, x)
    BY <1>2, ListInserts
  <2> HIDE DEF q, l
  <2>2. Onward(q, InsertAt(q, p, x), keep)
    BY <1>1, InsertedOnward
  <2> QED
    BY <2>1, <2>2 DEF q, l
<1>3. CASE x \notin want \cup {None}
  <2>1. l = q
    BY <1>3, ListGrows
  <2> HIDE DEF q, l
  <2>2. DOMAIN q = 1..Len(q) /\ Len(q) \in Nat
    BY <1>1, LenProperties
  <2>3. \A k \in DOMAIN q : k >= k
    BY <2>2
  <2>4. Onward(q, q, keep)
    BY <2>3 DEF Onward
  <2> QED
    BY <2>1, <2>4 DEF q, l
<1> QED
  BY <1>2, <1>3

\* The last line of a file turns unreadable, after it was none that is to be kept.
LEMMA SpoiltOnward ==
  ASSUME NEW base \in Seq(Row), NEW x \in Row, NEW want, NEW keep, x \notin keep,
         format \notin SQL
  PROVE  Onward(ListOf(Append(base, x), want), ListOf(Append(base, None), want), keep)
<1> DEFINE q == ListOf(base, want)
           l == ListOf(Append(base, x), want)
           m == ListOf(Append(base, None), want)
<1>1. q \in Seq(Row) /\ m = InsertAt(q, 1, None)
  BY ListGrows DEF Row
<1>2. Len(q) \in Nat /\ DOMAIN q = 1..Len(q)
  BY <1>1, LenProperties
<1>3. CASE x \notin want \cup {None}
  <2>1. l = q
    BY <1>3, ListGrows
  <2>2. m = ListOf(Append(base, None), want) /\ None \in Row
    BY DEF Row
  <2> HIDE DEF m
  <2>3. Onward(q, m, keep)
    BY <2>2, GrowsOnward
  <2> QED
    BY <2>1, <2>3 DEF m
<1>4. CASE x \in want \cup {None}
  <2>1. l = InsertAt(q, 1, x)
    BY <1>4, ListGrows
  <2> HIDE DEF q, l, m
  <2>2. q \in Seq(Row) /\ 1 \in 1..(Len(q) + 1) /\ None \in Row
    BY <1>1, <1>2 DEF Row
  <2>3. /\ InsertAt(q, 1, x) \in Seq(Row) /\ Len(InsertAt(q, 1, x)) = Len(q) + 1
        /\ \A i \in 1..(Len(q) + 1) : InsertAt(q, 1, x)[i] = Shifted(q, 1, x, i)
    BY <2>2, Inserted
  <2>4. /\ InsertAt(q, 1, None) \in Seq(Row) /\ Len(InsertAt(q, 1, None)) = Len(q) + 1
        /\ \A i \in 1..(Len(q) + 1) : InsertAt(q, 1, None)[i] = Shifted(q, 1, None, i)
    BY <2>2, Inserted
  <2>5. DOMAIN l = 1..(Len(q) + 1) /\ DOMAIN m = 1..(Len(q) + 1)
    BY <1>1, <2>1, <2>3, <2>4, LenProperties
  <2>6. l[1] = x
    <3>1. l[1] = Shifted(q, 1, x, 1)
      BY <2>1, <2>2, <2>3
    <3> QED
      BY <3>1 DEF Shifted
  <2>7. ASSUME NEW k \in 1..(Len(q) + 1), l[k] \in keep PROVE m[k] = l[k] /\ k >= k
    <3>1. k # 1
      BY <2>6, <2>7
    <3>2. ~(k < 1) /\ k >= k
      BY <1>2
    <3>3. l[k] = Shifted(q, 1, x, k) /\ m[k] = Shifted(q, 1, None, k)
      BY <1>1, <2>1, <2>3, <2>4
    <3> QED
      BY <3>1, <3>2, <3>3 DEF Shifted
  <2>8. Onward(l, m, keep)
    BY <2>5, <2>7 DEF Onward
  <2> QED
    BY <2>8 DEF l, m
<1> QED
  BY <1>3, <1>4

\* A sequence that is not empty is one that was appended to.
LEMMA Undone ==
  ASSUME NEW T, NEW s \in Seq(T), Len(s) > 0
  PROVE  \E base \in Seq(T) : /\ s = Append(base, s[Len(s)]) /\ Len(base) = Len(s) - 1
                              /\ s[Len(s)] \in T
<1> DEFINE n == Len(s)
           b == SubSeq(s, 1, n - 1)
<1>1. n \in Nat /\ n > 0 /\ DOMAIN s = 1..n /\ \A i \in 1..n : s[i] \in T
  BY LenProperties, ElementOfSeq
<1> HIDE DEF n
<1>2. 1 \in 1..(n + 1) /\ n - 1 \in 0..n /\ (n - 1) - 1 + 1 = n - 1 /\ n \in 1..n
  BY <1>1
<1>3. b \in Seq(T) /\ Len(b) = n - 1 /\ \A i \in 1..(n - 1) : b[i] = s[i]
  <2>1. \A i \in 1..(n - 1) : s[i] \in T
    BY <1>1
  <2>2. n - 1 \in Nat
    BY <1>1
  <2>3. b = [i \in 1..(n - 1) |-> s[i]]
    BY <1>1, <2>2
  <2> HIDE DEF b
  <2> QED
    BY <2>1, <2>2, <2>3
<1> HIDE DEF b
<1>4. /\ Append(b, s[n]) \in Seq(T) /\ Len(Append(b, s[n])) = (n - 1) + 1
      /\ \A i \in 1..(n - 1) : Append(b, s[n])[i] = b[i]
      /\ Append(b, s[n])[(n - 1) + 1] = s[n]
  <2>1. s[n] \in T
    BY <1>1, <1>2
  <2> QED
    BY <1>3, <2>1, AppendProperties
<1>5. (n - 1) + 1 = n
  BY <1>1
<1>6. ASSUME NEW i \in 1..n PROVE s[i] = Append(b, s[n])[i]
  <2>1. i = n \/ i \in 1..(n - 1)
    BY <1>1
  <2> QED
    BY <1>3, <1>4, <1>5, <2>1
<1>7. s = Append(b, s[n])
  <2>1. Append(b, s[n]) \in Seq(T) /\ Len(Append(b, s[n])) = n
    BY <1>4, <1>5
  <2>2. s \in Seq(T) /\ Len(s) = n
    BY DEF n
  <2> QED
    BY <1>6, <2>1, <2>2, SeqEqual
<1> QED
  BY <1>1, <1>2, <1>3, <1>7 DEF n

\* What a write makes of the rows: one more, or an unreadable one of the last,
\* or the JSON file can be read no more.
RowsAfter ==
  \/ Rows' = Rows
  \/ \E x \in Row : Rows' = Append(Rows, x)
  \/ /\ format \notin SQL
     /\ \E base \in Seq(Row), x \in Row :
          x \notin acked /\ Rows = Append(base, x) /\ Rows' = Append(base, None)
  \/ format = "json" /\ Fails'

\* Every write that is recorded makes one of these of the rows.
LEMMA RowsWritten ==
  ASSUME Inv, open, UNCHANGED format, Typed', FileInv',
         NEW r \in Result, NEW extent \in Extent, Puts(r, extent)
  PROVE  RowsAfter
<1>1. Typed /\ Headed /\ Saved /\ Whole /\ OneLineEach
  BY DEF Inv, FileInv
<1>2. RowsRead /\ RowsRead'
  <2>1. (Typed => RowsRead)'
    BY RowsAreRead, PTL
  <2> QED
    BY <1>1, <2>1, RowsAreRead
<1>3. CASE UNCHANGED file
  BY <1>3 DEF RowsAfter, Rows, RowsCSV, RowsJSON, RowsSQL
<1>4. ASSUME NEW m, NEW line, PutsLine(m, line, r, extent) PROVE RowsAfter
  <2> DEFINE sh == Shift
             n == Len(Rows)
  <2>1. /\ m \in Nat \ {0} /\ DOMAIN file' = 1..m /\ Len(file') = m /\ file'[m] = line
        /\ \A i \in 1..(m - 1) : i \in DOMAIN file /\ file'[i] = file[i]
        /\ line \in Line
        /\ Torn => line.result = None /\ (format = "json" => line.fields = 0)
        /\ IF Torn THEN m = Len(file) ELSE m = Len(file) + 1
        /\ file' # <<>>
    <3>1. NewLine(m, line) /\ (Torn => line.result = None /\ (format = "json" => line.fields = 0))
      BY <1>4 DEF PutsLine
    <3>2. /\ m \in Nat \ {0} /\ DOMAIN file' = 1..m /\ Len(file') = m /\ file'[m] = line
          /\ \A i \in 1..(m - 1) : i \in DOMAIN file /\ file'[i] = file[i]
          /\ \A i \in DOMAIN file : i \in 1..m
          /\ IF Torn THEN m \in DOMAIN file /\ ~file[m].ended ELSE m \notin DOMAIN file
          /\ file' \in Seq(Line) /\ line \in Line
      BY <3>1 DEF NewLine
    <3>3. /\ Len(file) \in Nat /\ DOMAIN file = 1..Len(file)
          /\ Torn <=> Len(file) \in DOMAIN file /\ ~file[Len(file)].ended
      BY <1>1, Numbers
    <3>4. file' # <<>>
      BY <3>2
    <3>5. m \in Nat \ {0} /\ \A i \in 1..(m - 1) : i \in 1..Len(file)
      BY <3>2, <3>3
    <3>6. \A i \in 1..Len(file) : i \in 1..m
      BY <3>2, <3>3
    <3>7. m \in DOMAIN file => m = Len(file)
      <4> SUFFICES ASSUME m \in DOMAIN file PROVE m = Len(file)
        OBVIOUS
      <4> DEFINE k == Len(file)
      <4>1. m \in 1..k /\ k \in Nat
        BY <3>3
      <4>2. k \in 1..k
        BY <4>1
      <4>3. k \in 1..m
        BY <4>2, <3>6
      <4> HIDE DEF k
      <4>4. m = k
        BY <4>1, <4>3
      <4> QED
        BY <4>4 DEF k
    <3>8. m \notin DOMAIN file => m = Len(file) + 1
      BY <3>3, <3>5, <3>6
    <3> QED
      BY <3>1, <3>2, <3>4, <3>7, <3>8
  <2>2. /\ sh \in {0, 1} /\ sh = Shift' /\ (sh = 1 => file # <<>>) /\ Len(file) \in Nat
        /\ file = <<>> => Len(file) = 0
        /\ file # <<>> => Len(file) # 0
        /\ sh = 1 <=> format = "csv"
    BY <1>1, Numbers DEF Shift, Headed, Typed
  <2>3. Rows \in Seq(Row) /\ n \in Nat /\ DOMAIN Rows = 1..n
    BY <1>2, <2>2 DEF RowsRead, Row
  <2>4. Rows' \in Seq(Row) /\ Len(Rows') \in Nat /\ DOMAIN Rows' = 1..Len(Rows')
    BY <1>2, <2>1, <2>2 DEF RowsRead, Row
  <2>5. \A j \in 1..n : j + sh \in DOMAIN file /\ Rows[j] = file[j + sh].result
    BY <1>2, <2>3 DEF RowsRead
  <2>6. \A j \in DOMAIN Rows' : Rows'[j] = file'[j + sh].result
    BY <1>2, <2>2 DEF RowsRead
  <2>7. line.result \in Row
    BY <2>1 DEF Line, Row
  <2>8. CASE m = 1 /\ sh = 1
    <3>1. Len(file) = 1
      BY <2>1, <2>2, <2>8
    <3>2. n = 0
      BY <1>2, <2>2, <2>8, <3>1 DEF RowsRead, n, sh
    <3>3. Len(Rows') = 0
      <4>1. Plain' => Len(Rows') = m - sh
        BY <1>2, <2>1, <2>2 DEF RowsRead
      <4>2. ~Plain' => Rows' = <<>>
        BY <1>2 DEF RowsRead
      <4> QED
        BY <2>4, <2>8, <4>1, <4>2
    <3>4. Rows = <<>> /\ Rows' = <<>>
      BY <2>3, <2>4, <3>2, <3>3 DEF n
    <3> QED
      BY <3>4 DEF RowsAfter
  <2>9. CASE ~Plain /\ (m # 1 \/ sh = 0)
    <3>1. format = "csv" /\ file[1].fields # Columns
      BY <2>9 DEF Plain
    <3>2. 1 \in 1..(m - 1) /\ file' # <<>>
      BY <2>1, <2>2, <2>9, <3>1
    <3>3. file'[1] = file[1]
      BY <2>1, <3>2
    <3>4. ~Plain'
      BY <3>1, <3>2, <3>3 DEF Plain
    <3>5. Rows = <<>> /\ Rows' = <<>>
      BY <1>2, <2>9, <3>4 DEF RowsRead
    <3> QED
      BY <3>5 DEF RowsAfter
  <2>10. CASE Plain /\ (m # 1 \/ sh = 0)
    <3>1. Plain'
      <4> SUFFICES ASSUME format = "csv" PROVE file'[1].fields = Columns
        BY DEF Plain
      <4>1. 1 \in 1..(m - 1)
        BY <2>1, <2>2, <2>10
      <4>2. file'[1] = file[1]
        BY <2>1, <4>1
      <4> QED
        BY <2>2, <2>10, <4>2 DEF Plain
    <3>2. n = Len(file) - sh
      BY <1>2, <2>2, <2>10 DEF RowsRead
    <3>3. Len(Rows') = m - sh /\ DOMAIN Rows' = 1..(m - sh)
      BY <1>2, <2>1, <2>2, <2>4, <3>1 DEF RowsRead
    <3> HIDE DEF sh, n
    <3>4. m - sh \in 1..(m - sh) /\ (m - sh) + sh = m
      <4>1. m \in Nat \ {0} /\ sh \in {0, 1} /\ (m # 1 \/ sh = 0)
        BY <2>1, <2>2, <2>10
      <4> QED
        BY <4>1
    <3>5. Rows'[m - sh] = line.result
      BY <2>1, <2>6, <3>3, <3>4
    <3>6. \A j \in 1..n : j \in 1..(m - sh) /\ j # m - sh => Rows'[j] = Rows[j]
      <4> SUFFICES ASSUME NEW j \in 1..n, j \in 1..(m - sh), j # m - sh PROVE Rows'[j] = Rows[j]
        OBVIOUS
      <4>1. j + sh \in 1..(m - 1)
        <5>1. m \in Nat \ {0} /\ sh \in {0, 1} /\ n \in Nat
          BY <2>1, <2>2, <2>3
        <5> QED
          BY <5>1
      <4>2. file'[j + sh] = file[j + sh]
        BY <2>1, <4>1
      <4> QED
        BY <2>5, <2>6, <3>3, <4>2
    <3>7. CASE ~Torn
      <4>1. m - sh = n + 1
        BY <2>1, <2>2, <2>3, <3>2, <3>7
      <4>2. /\ Append(Rows, line.result) \in Seq(Row)
            /\ Len(Append(Rows, line.result)) = n + 1
            /\ \A j \in 1..n : Append(Rows, line.result)[j] = Rows[j]
            /\ Append(Rows, line.result)[n + 1] = line.result
        BY <2>3, <2>7, AppendProperties DEF n
      <4>3. ASSUME NEW j \in 1..(n + 1) PROVE Rows'[j] = Append(Rows, line.result)[j]
        <5>1. CASE j = n + 1
          BY <3>5, <4>1, <4>2, <5>1
        <5>2. CASE j # n + 1
          <6>1. j \in 1..n /\ j \in 1..(m - sh) /\ j # m - sh
            BY <2>3, <4>1, <5>2
          <6> QED
            BY <3>6, <4>2, <6>1
        <5> QED
          BY <5>1, <5>2
      <4>4. Rows' = Append(Rows, line.result)
        BY <2>4, <3>3, <4>1, <4>2, <4>3, SeqEqual
      <4> QED
        BY <2>7, <4>4 DEF RowsAfter
    <3>8. CASE Torn /\ format = "csv"
      <4>1. m - sh = n /\ n > 0
        BY <2>1, <2>2, <2>3, <2>10, <3>2, <3>8
      <4>2. line.result = None
        BY <2>1, <3>8
      <4>3. PICK base \in Seq(Row) : /\ Rows = Append(base, Rows[n]) /\ Len(base) = n - 1
                                     /\ Rows[n] \in Row
        BY <2>3, <4>1, Undone DEF n
      <4>4. Rows[n] \notin acked
        <5> SUFFICES ASSUME Rows[n] \in acked PROVE FALSE
          OBVIOUS
        <5>1. n \in 1..n /\ n + sh = Len(file)
          BY <2>1, <2>2, <2>3, <3>2, <4>1
        <5>2. file[Len(file)].result = Rows[n] /\ Len(file) \in DOMAIN file
          BY <2>5, <5>1
        <5>3. Rows[n] # None
          <6>1. acked \subseteq Result /\ None \notin Result
            BY <1>1, StoreAssumption DEF Typed, Result, None
          <6> QED
            BY <6>1
        <5>4. Len(file) \in Lines
          BY <5>2, <5>3 DEF Lines
        <5>5. Rows[n] \notin behind
          BY <1>1, <5>2, <5>4 DEF Saved
        <5>6. PICK i \in Lines : file[i].result = Rows[n] /\ file[i].ended
          BY <1>1, <5>5 DEF Whole
        <5>7. i = Len(file)
          BY <1>1, <5>2, <5>4, <5>6 DEF OneLineEach
        <5> QED
          BY <1>1, <3>8, <5>6, <5>7, Numbers
      <4>5. /\ Append(base, None) \in Seq(Row) /\ Len(Append(base, None)) = n
            /\ \A j \in 1..(n - 1) : Append(base, None)[j] = base[j]
            /\ Append(base, None)[n] = None
            /\ \A j \in 1..(n - 1) : Append(base, Rows[n])[j] = base[j]
        <5>1. None \in Row /\ (n - 1) + 1 = n
          BY <2>3 DEF Row
        <5>2. base \in Seq(Row) /\ Rows[n] \in Row
          BY <4>3
        <5>3. /\ Append(base, None) \in Seq(Row) /\ Len(Append(base, None)) = Len(base) + 1
              /\ \A j \in 1..Len(base) : Append(base, None)[j] = base[j]
              /\ Append(base, None)[Len(base) + 1] = None
          BY <5>1, <5>2, AppendProperties
        <5>4. \A j \in 1..Len(base) : Append(base, Rows[n])[j] = base[j]
          BY <5>2, AppendProperties
        <5>5. Len(base) = n - 1
          BY <4>3
        <5> QED
          BY <5>1, <5>3, <5>4, <5>5
      <4>6. ASSUME NEW j \in 1..n PROVE Rows'[j] = Append(base, None)[j]
        <5>1. CASE j = n
          BY <3>5, <4>1, <4>2, <4>5, <5>1
        <5>2. CASE j # n
          <6>1. j \in 1..(n - 1) /\ j \in 1..(m - sh) /\ j # m - sh
            BY <2>3, <4>1, <5>2
          <6>2. Rows'[j] = Rows[j]
            BY <3>6, <6>1
          <6>3. Rows[j] = base[j]
            BY <4>3, <4>5, <6>1
          <6> QED
            BY <4>5, <6>1, <6>2, <6>3
        <5> QED
          BY <5>1, <5>2
      <4>7. Rows' = Append(base, None)
        BY <2>4, <3>3, <4>1, <4>5, <4>6, SeqEqual
      <4>8. format \notin SQL
        BY <3>8 DEF SQL
      <4> QED
        BY <4>3, <4>4, <4>7, <4>8 DEF RowsAfter
    <3>9. CASE Torn /\ format # "csv"
      <4>1. format = "json"
        <5>1. format \notin SQL
          BY <1>1, <3>9, Numbers DEF Headed
        <5> QED
          BY <1>1, <3>9, <5>1, StoreAssumption DEF Typed
      <4>2. m \in DOMAIN file' /\ file'[m].fields = 0
        BY <2>1, <3>9, <4>1
      <4>3. Fails'
        BY <4>1, <4>2 DEF Fails, FailsJSON
      <4> QED
        BY <4>1, <4>3 DEF RowsAfter
    <3> QED
      BY <3>7, <3>8, <3>9
  <2> QED
    BY <2>2, <2>8, <2>9, <2>10
<1> QED
  BY <1>3, <1>4 DEF Puts

\* A JSON file that cannot be read stays so.
LEMMA FailsForGood ==
  ASSUME Inv, open, UNCHANGED format, Typed', FileInv', format = "json", Fails,
         NEW r \in Result, NEW extent \in Extent, Puts(r, extent)
  PROVE  Fails'
<1>1. PICK i \in DOMAIN file : file[i].fields = 0 \/ file[i].result \in Long
  BY DEF Fails, FailsJSON
<1>2. CASE UNCHANGED file
  BY <1>2 DEF Fails, FailsJSON
<1>3. ASSUME NEW m, NEW line, PutsLine(m, line, r, extent) PROVE Fails'
  <2>1. NewLine(m, line) /\ (Torn => line.fields = 0)
    BY <1>3 DEF PutsLine
  <2>2. /\ m \in Nat \ {0} /\ DOMAIN file' = 1..m /\ file'[m] = line /\ line \in Line
        /\ \A j \in 1..(m - 1) : j \in DOMAIN file /\ file'[j] = file[j]
        /\ \A j \in DOMAIN file : j \in 1..m
        /\ m \in DOMAIN file => Torn
    BY <2>1 DEF NewLine
  <2>3. i \in 1..m
    BY <2>2
  <2>4. CASE i = m
    <3>1. line.fields = 0
      BY <2>1, <2>2, <2>4
    <3> QED
      BY <2>2, <2>3, <2>4, <3>1 DEF Fails, FailsJSON
  <2>5. CASE i # m
    <3>1. i \in 1..(m - 1)
      BY <2>2, <2>3, <2>5
    <3>2. file'[i] = file[i]
      BY <2>2, <3>1
    <3> QED
      BY <1>1, <2>2, <2>3, <3>2 DEF Fails, FailsJSON
  <2> QED
    BY <2>4, <2>5
<1> QED
  BY <1>2, <1>3 DEF Puts

\* The list of what a reader is owed moves on when the rows change.
LEMMA ListOnward ==
  ASSUME Inv, Typed', FileInv', RowsAfter, UNCHANGED <<format, reader>>,
         ~(format = "json" /\ Fails')
  PROVE  Onward(Listing, Listing', acked)
<1>1. RowsRead /\ RowsRead'
  <2>1. (Typed => RowsRead)'
    BY RowsAreRead, PTL
  <2> QED
    BY <2>1, RowsAreRead DEF Inv, FileInv
<1>2. Rows \in Seq(Row)
  BY <1>1 DEF RowsRead, Row
<1> DEFINE W == reader.want
<1>3. Listing = ListOf(Rows, W) /\ Listing' = ListOf(Rows', W)
  BY DEF Listing, ListOf, Order
<1> HIDE DEF W
<1>4. CASE Rows' = Rows
  <2>1. Listing' = Listing
    BY <1>3, <1>4
  <2>2. Listing \in Seq(Row)
    BY <1>2, <1>3, ListHas
  <2>3. DOMAIN Listing = 1..Len(Listing) /\ Len(Listing) \in Nat
    BY <2>2, LenProperties
  <2>4. \A k \in DOMAIN Listing : k >= k
    BY <2>3
  <2> QED
    BY <2>1, <2>4 DEF Onward
<1>5. ASSUME NEW x \in Row, Rows' = Append(Rows, x) PROVE Onward(Listing, Listing', acked)
  <2>1. Onward(ListOf(Rows, W), ListOf(Append(Rows, x), W), acked)
    BY <1>2, GrowsOnward
  <2> QED
    BY <1>3, <1>5, <2>1
<1>6. ASSUME format \notin SQL, NEW base \in Seq(Row), NEW x \in Row, x \notin acked,
             Rows = Append(base, x), Rows' = Append(base, None)
      PROVE  Onward(Listing, Listing', acked)
  <2>1. Onward(ListOf(Append(base, x), W), ListOf(Append(base, None), W), acked)
    BY <1>6, SpoiltOnward
  <2> QED
    BY <1>3, <1>6, <2>1
<1> QED
  BY <1>4, <1>5, <1>6 DEF RowsAfter

\* What is owed and not seen stays ahead when the rows change.
LEMMA AheadStays ==
  ASSUME Inv, Ahead, Typed', FileInv', RowsAfter, UNCHANGED <<format, reader>>,
         acked \subseteq acked', format = "json" /\ Fails => Fails'
  PROVE  Ahead'
<1>1. /\ reader' \in Reader /\ reader'.owed \subseteq acked' \cap reader'.want
      /\ reader'.at = "done" => reader'.owed \subseteq reader'.seen
  BY DEF Ahead
<1> SUFFICES ASSUME reader.at = "paging", format = "json" => ~Fails',
                    NEW r \in reader.owed \ reader.seen
             PROVE  \E k \in DOMAIN Listing' : k > reader.offset /\ Listing'[k] = r
  BY <1>1 DEF Ahead
<1>2. PICK k \in DOMAIN Listing : k > reader.offset /\ Listing[k] = r
  BY DEF Ahead
<1>3. r \in acked
  BY DEF Ahead
<1>4. Onward(Listing, Listing', acked)
  BY ListOnward
<1>5. PICK j \in DOMAIN Listing' : j >= k /\ Listing'[j] = r
  BY <1>2, <1>3, <1>4 DEF Onward
<1>6. reader.offset \in Nat
  BY DEF Ahead, Reader
<1>7. k \in Nat /\ j \in Nat
  <2>1. RowsRead /\ RowsRead'
    <3>1. (Typed => RowsRead)'
      BY RowsAreRead, PTL
    <3> QED
      BY <3>1, RowsAreRead DEF Inv, FileInv
  <2>2. Rows \in Seq(Row) /\ Rows' \in Seq(Row)
    BY <2>1 DEF RowsRead, Row
  <2>3. Listing = ListOf(Rows, reader.want) /\ Listing' = ListOf(Rows', reader.want)
    BY DEF Listing, ListOf, Order
  <2>4. Listing \in Seq(Row) /\ ListOf(Rows', reader.want) \in Seq(Row)
    BY <2>2, <2>3, ListHas
  <2>5. Listing' \in Seq(Row)
    BY <2>3, <2>4
  <2>6. DOMAIN Listing = 1..Len(Listing) /\ DOMAIN Listing' = 1..Len(Listing')
    BY <2>4, <2>5, LenProperties
  <2> QED
    BY <1>2, <1>5, <2>6
<1> QED
  BY <1>2, <1>5, <1>6, <1>7

\* Where a page ends.
PageEnd(rows, limit, offset) ==
  IF limit \in 1..(Len(rows) - offset) THEN offset + limit ELSE Len(rows)

\* A page is a piece of the list, right behind the offset.
LEMMA PageIs ==
  ASSUME NEW T, NEW rows \in Seq(T), NEW limit \in Nat, NEW offset \in Nat
  PROVE  /\ Page(rows, limit, offset) \in Seq(T)
         /\ offset >= Len(rows) => Page(rows, limit, offset) = <<>>
         /\ offset < Len(rows) =>
              /\ Len(Page(rows, limit, offset)) = PageEnd(rows, limit, offset) - offset
              /\ Len(Page(rows, limit, offset)) > 0
              /\ \A i \in 1..(PageEnd(rows, limit, offset) - offset) :
                   Page(rows, limit, offset)[i] = rows[offset + i]
<1> DEFINE e == PageEnd(rows, limit, offset)
           page == Page(rows, limit, offset)
<1>1. Len(rows) \in Nat /\ \A i \in 1..Len(rows) : rows[i] \in T
  BY LenProperties, ElementOfSeq
<1>2. CASE offset >= Len(rows)
  <2>1. page = <<>>
    BY <1>2 DEF Page
  <2> QED
    BY <1>1, <1>2, <2>1
<1>3. CASE offset < Len(rows)
  <2>1. e \in Nat /\ e > offset /\ e <= Len(rows)
    BY <1>1, <1>3 DEF PageEnd
  <2>2. page = SubSeq(rows, offset + 1, e)
    BY <1>1, <1>3 DEF Page, PageEnd
  <2> HIDE DEF e, page
  <2>3. e - (offset + 1) + 1 = e - offset /\ e - offset \in Nat /\ e - offset > 0
    BY <2>1
  <2> DEFINE m == offset + 1
  <2>4. m \in 1..(Len(rows) + 1) /\ e \in (m - 1)..Len(rows) /\ e - m + 1 = e - offset
    BY <1>1, <2>1
  <2>5. \A i \in 1..(e - offset) : m + i - 1 = offset + i
    BY <2>1
  <2> HIDE DEF m
  <2>6. /\ SubSeq(rows, m, e) \in Seq(T) /\ Len(SubSeq(rows, m, e)) = e - m + 1
        /\ \A i \in 1..(e - m + 1) : SubSeq(rows, m, e)[i] = rows[m + i - 1]
    <3>1. m \in 1..(Len(rows) + 1) /\ e \in (m - 1)..Len(rows)
      BY <2>4
    <3> QED
      BY <3>1, SubSeqProperties
  <2>7. page \in Seq(T) /\ Len(page) = e - offset /\ \A i \in 1..(e - offset) : page[i] = rows[offset + i]
    <3>1. page = SubSeq(rows, m, e)
      BY <2>2 DEF m
    <3> QED
      BY <2>4, <2>5, <2>6, <3>1
  <2>8. ~(offset >= Len(rows))
    BY <1>1, <1>3
  <2> QED
    BY <1>3, <2>3, <2>7, <2>8 DEF e, page
<1>4. offset >= Len(rows) \/ offset < Len(rows)
  BY <1>1
<1> QED
  BY <1>2, <1>3, <1>4

\* The list is one of rows.
LEMMA ListingTyped ==
  ASSUME Inv
  PROVE  /\ Rows \in Seq(Row) /\ Listing \in Seq(Row)
         /\ DOMAIN Listing = 1..Len(Listing) /\ Len(Listing) \in Nat
         /\ ToSet(Listing) = ToSet(Rows) \cap (reader.want \cup {None})
<1>1. RowsRead
  BY RowsAreRead DEF Inv, FileInv
<1>2. Rows \in Seq(Row)
  BY <1>1 DEF RowsRead, Row
<1>3. Listing = ListOf(Rows, reader.want)
  BY DEF Listing
<1>4. Listing \in Seq(Row) /\ ToSet(Listing) = ToSet(Rows) \cap (reader.want \cup {None})
  BY <1>2, <1>3, ListHas
<1> QED
  BY <1>2, <1>4, LenProperties

\* A reader that begins has everything it is owed ahead of it.
LEMMA BeginAhead ==
  ASSUME Inv, Inv', Ahead, Begin
  PROVE  Ahead'
<1>1. PICK want \in Filters :
        reader' = [NoReader EXCEPT !.at = "paging", !.want = want,
                                   !.owed = acked \cap ToSet(Rows) \cap want]
  BY DEF Begin
<1>2. UNCHANGED <<format, file, acked>> /\ want \in SUBSET Result
  BY StoreAssumption DEF Begin
<1> DEFINE o == acked \cap ToSet(Rows) \cap want
<1>3. /\ reader'.at = "paging" /\ reader'.want = want /\ reader'.owed = o
      /\ reader'.seen = {} /\ reader'.offset = 0
      /\ reader' = [at |-> "paging", want |-> want, offset |-> 0, seen |-> {}, owed |-> o]
  BY <1>1 DEF NoReader
<1>4. reader' \in Reader /\ o \subseteq acked' \cap want
  BY <1>2, <1>3 DEF Reader
<1>5. Rows' = Rows
  BY <1>2 DEF Rows, RowsCSV, RowsJSON, RowsSQL
<1>6. /\ ToSet(Listing') = ToSet(Rows') \cap (reader'.want \cup {None})
      /\ DOMAIN Listing' = 1..Len(Listing') /\ Len(Listing') \in Nat
  <2>1. (Inv => /\ Rows \in Seq(Row) /\ Listing \in Seq(Row)
                /\ DOMAIN Listing = 1..Len(Listing) /\ Len(Listing) \in Nat
                /\ ToSet(Listing) = ToSet(Rows) \cap (reader.want \cup {None}))'
    <3>1. Inv => /\ Rows \in Seq(Row) /\ Listing \in Seq(Row)
                 /\ DOMAIN Listing = 1..Len(Listing) /\ Len(Listing) \in Nat
                 /\ ToSet(Listing) = ToSet(Rows) \cap (reader.want \cup {None})
      BY ListingTyped
    <3> QED
      BY ListingTyped, PTL
  <2> QED
    BY <2>1 DEF ToSet
<1>7. ASSUME NEW r \in o PROVE \E k \in DOMAIN Listing' : k > 0 /\ Listing'[k] = r
  <2>1. r \in ToSet(Listing')
    BY <1>3, <1>5, <1>6
  <2>2. PICK k \in DOMAIN Listing' : Listing'[k] = r
    BY <2>1 DEF ToSet
  <2>3. k > 0
    BY <1>6, <2>2
  <2> QED
    BY <2>2, <2>3
<1> HIDE DEF o
<1> QED
  BY <1>3, <1>4, <1>7 DEF Ahead

\* What a reader asks for is a page of its list.
LEMMA Asked ==
  ASSUME Inv, Ahead
  PROVE  /\ Answer(reader.want, PageSize, reader.offset) = Page(Listing, PageSize, reader.offset)
         /\ PageSize \in Nat /\ PageSize > 0 /\ reader.offset \in Nat
         /\ Listing \in Seq(Row)
BY StoreAssumption, ListingTyped DEF Answer, Listing, ListOf, Ahead, Reader

\* The rows and the reader's list depend on the file and the filter alone.
LEMMA SameList ==
  ASSUME UNCHANGED <<format, file>>, reader'.want = reader.want
  PROVE  Listing' = Listing /\ Rows' = Rows /\ Fails' = Fails
<1>1. Rows' = Rows
  BY DEF Rows, RowsCSV, RowsJSON, RowsSQL
<1> QED
  BY <1>1 DEF Listing, ListOf, Order, Fails, FailsCSV, FailsJSON

\* A reader that gets a page has seen what it passes.
LEMMA ReadAhead ==
  ASSUME Inv, Ahead, Read
  PROVE  Ahead'
<1> DEFINE page == Page(Listing, PageSize, reader.offset)
           off == reader.offset
<1>1. /\ reader.at = "paging" /\ UNCHANGED <<format, file, acked>>
      /\ reader' = IF ~open \/ Fails \/ Refused(PageSize, off) THEN NoReader
                   ELSE IF page = <<>> THEN [reader EXCEPT !.at = "done"]
                   ELSE [reader EXCEPT !.offset = @ + PageSize,
                                       !.seen = @ \cup (ToSet(page) \ {None})]
  BY Asked DEF Read
<1>2. /\ PageSize \in Nat /\ PageSize > 0 /\ off \in Nat /\ Listing \in Seq(Row)
      /\ DOMAIN Listing = 1..Len(Listing) /\ Len(Listing) \in Nat
  BY Asked, ListingTyped
<1>3. /\ page \in Seq(Row)
      /\ off >= Len(Listing) => page = <<>>
      /\ off < Len(Listing) =>
           /\ Len(page) = PageEnd(Listing, PageSize, off) - off
           /\ Len(page) > 0
           /\ \A i \in 1..(PageEnd(Listing, PageSize, off) - off) :
                page[i] = Listing[off + i]
  <2>1. PageSize \in Nat /\ off \in Nat /\ Listing \in Seq(Row)
    BY <1>2
  <2> QED
    BY <2>1, PageIs
<1> HIDE DEF page
<1>4. /\ reader \in Reader /\ reader.owed \subseteq acked \cap reader.want
      /\ (format = "json" => ~Fails) =>
           \A r \in reader.owed \ reader.seen :
             \E k \in DOMAIN Listing : k > off /\ Listing[k] = r
  BY <1>1 DEF Ahead
<1>5. CASE ~open \/ Fails \/ Refused(PageSize, off)
  <2>1. reader' = NoReader
    BY <1>1, <1>5
  <2>2. NoReader \in Reader
    BY <1>2 DEF Reader, NoReader
  <2> QED
    BY <2>1, <2>2 DEF Ahead, NoReader
<1>6. CASE ~(~open \/ Fails \/ Refused(PageSize, off)) /\ page = <<>>
  <2>1. reader' = [reader EXCEPT !.at = "done"]
    BY <1>1, <1>6
  <2>2. /\ reader' \in Reader /\ reader'.at = "done"
        /\ reader'.owed = reader.owed /\ reader'.seen = reader.seen /\ reader'.want = reader.want
    BY <1>4, <2>1 DEF Reader
  <2>3. off >= Len(Listing)
    <3>1. page = <<>> => ~(Len(page) > 0)
      OBVIOUS
    <3> QED
      BY <1>2, <1>3, <1>6, <3>1
  <2>4. \A r \in reader.owed \ reader.seen : FALSE
    <3> SUFFICES ASSUME NEW r \in reader.owed \ reader.seen PROVE FALSE
      OBVIOUS
    <3>1. PICK k \in DOMAIN Listing : k > off
      BY <1>4, <1>6
    <3> QED
      BY <1>2, <2>3, <3>1
  <2> QED
    BY <1>1, <1>4, <2>2, <2>4 DEF Ahead
<1>7. CASE ~(~open \/ Fails \/ Refused(PageSize, off)) /\ page # <<>>
  <2> DEFINE s == ToSet(page) \ {None}
  <2>1. reader' = [reader EXCEPT !.offset = off + PageSize, !.seen = reader.seen \cup s]
    BY <1>1, <1>7
  <2>2. s \subseteq Result
    BY <1>3, ElementOfSeq DEF ToSet, Row
  <2>3. ASSUME NEW k \in DOMAIN Listing, k > off, ~(k > off + PageSize), Listing[k] # None
        PROVE  Listing[k] \in s
    <3>1. off < Len(Listing)
      BY <1>2, <2>3
    <3>2. k <= PageEnd(Listing, PageSize, off)
      BY <1>2, <2>3 DEF PageEnd
    <3>3. PageEnd(Listing, PageSize, off) \in Nat
      BY <1>2 DEF PageEnd
    <3> DEFINE e == PageEnd(Listing, PageSize, off)
    <3> HIDE DEF e
    <3>4. k - off \in 1..(e - off) /\ off + (k - off) = k
      BY <1>2, <2>3, <3>2, <3>3 DEF e
    <3>5. page[k - off] = Listing[k] /\ Len(page) = e - off
      BY <1>3, <3>1, <3>4 DEF e
    <3>6. DOMAIN page = 1..(e - off)
      BY <1>3, <3>5, LenProperties
    <3> QED
      BY <2>3, <3>4, <3>5, <3>6 DEF ToSet
  <2> HIDE DEF s
  <2>4. /\ reader' \in Reader /\ reader'.at = "paging"
        /\ reader'.owed = reader.owed /\ reader'.want = reader.want
        /\ reader'.seen = reader.seen \cup s /\ reader'.offset = off + PageSize
    <3>1. off + PageSize \in Nat
      BY <1>2
    <3> DEFINE o == off + PageSize
               t == reader.seen \cup s
    <3>2. reader \in Reader /\ o \in Nat /\ t \in SUBSET Result
      BY <1>4, <2>2, <3>1 DEF Reader
    <3>3. reader' = [reader EXCEPT !.offset = o, !.seen = t]
      BY <2>1
    <3> HIDE DEF o, t
    <3>4. /\ reader' \in Reader /\ reader'.at = reader.at
          /\ reader'.owed = reader.owed /\ reader'.want = reader.want
          /\ reader'.seen = t /\ reader'.offset = o
      BY <3>2, <3>3 DEF Reader
    <3> QED
      BY <1>1, <3>4 DEF o, t
  <2>5. Listing' = Listing
    BY <1>1, <2>4, SameList
  <2>6. ASSUME NEW r \in reader'.owed \ reader'.seen
        PROVE  \E k \in DOMAIN Listing : k > off + PageSize /\ Listing[k] = r
    <3>1. r \in reader.owed \ reader.seen /\ r \notin s
      BY <2>4, <2>6
    <3>2. PICK k \in DOMAIN Listing : k > off /\ Listing[k] = r
      BY <1>4, <1>7, <3>1
    <3>3. r # None
      BY <1>4, <3>1, StoreAssumption DEF Reader, Result, None
    <3>4. k > off + PageSize
      BY <2>3, <3>1, <3>2, <3>3
    <3> QED
      BY <3>2, <3>4
  <2> QED
    BY <1>1, <1>4, <2>4, <2>5, <2>6 DEF Ahead
<1> QED
  BY <1>5, <1>6, <1>7

\* The backend's file and books are not touched.
LEMMA QuietAhead ==
  ASSUME Inv, Inv', Ahead, UNCHANGED <<format, file, acked, reader>>
  PROVE  Ahead'
<1>1. Rows' = Rows /\ Fails' = Fails
  BY SameList
<1> QED
  BY <1>1, AheadStays DEF RowsAfter, Inv

\* Opening writes a header at most, or a part of one, which is no row.
LEMMA OpenAhead ==
  ASSUME Inv, Inv', Ahead, Open
  PROVE  Ahead'
<1>1. UNCHANGED <<format, acked, reader>>
  BY DEF Open
<1>2. CASE UNCHANGED file
  BY <1>1, <1>2, QuietAhead
<1>3. CASE ~UNCHANGED file
  <2>1. format = "csv" /\ file = <<>> /\ \E header : file' = <<header>>
    BY <1>3 DEF Open, OpenCSV, OpenJSON, OpenSQL
  <2>2. Rows = <<>> /\ Rows' = <<>>
    <3>1. RowsRead /\ RowsRead'
      <4>1. (Typed => RowsRead)'
        BY RowsAreRead, PTL
      <4> QED
        BY <4>1, RowsAreRead DEF Inv, FileInv
    <3>2. Len(Rows) = 0 /\ Rows \in Seq(Row)
      BY <2>1, <3>1 DEF RowsRead, Row
    <3>3. Len(file') = 1 /\ file' # <<>>
      BY <2>1
    <3>4. Len(Rows') = 0 /\ Rows' \in Seq(Row)
      <4>1. CASE Plain'
        BY <1>1, <2>1, <3>1, <3>3, <4>1 DEF RowsRead, Row, Shift
      <4>2. CASE ~Plain'
        BY <3>1, <4>2 DEF RowsRead, Row
      <4> QED
        BY <4>1, <4>2
    <3> QED
      BY <3>2, <3>4
  <2>3. RowsAfter
    BY <2>2 DEF RowsAfter
  <2>4. format # "json"
    BY <2>1
  <2> QED
    BY <1>1, <2>3, <2>4, AheadStays DEF Inv
<1> QED
  BY <1>2, <1>3

\* A result that is saved moves the list on.
LEMMA SaveAhead ==
  ASSUME Inv, Inv', Ahead, NEW w \in Writers, Save(w)
  PROVE  Ahead'
<1> DEFINE r == pending[w]
<1>1. /\ open /\ UNCHANGED <<format, reader>> /\ acked \subseteq acked'
      /\ r \in Result /\ Typed /\ Headed
  BY DEF Save, Inv, Typed, FileInv
<1>2. PICK extent \in Extent : WriteOne(r, extent)
  BY DEF Save
<1> HIDE DEF r
<1>3. Puts(r, extent)
  BY <1>1, <1>2, Wrote
<1>4. Typed' /\ FileInv'
  BY DEF Inv
<1>5. RowsAfter
  BY <1>1, <1>3, <1>4, RowsWritten
<1>6. format = "json" /\ Fails => Fails'
  BY <1>1, <1>3, <1>4, FailsForGood
<1> QED
  BY <1>1, <1>4, <1>5, <1>6, AheadStays

\* A reader at rest is owed nothing.
LEMMA NothingOwed == NoReader \in Reader /\ NoReader.owed = {} /\ NoReader.at = "idle"
BY DEF NoReader, Reader

\* Every step keeps what is owed ahead.
LEMMA AheadStep == Inv /\ Inv' /\ Ahead /\ [Next]_vars => Ahead'
<1> SUFFICES ASSUME Inv, Inv', Ahead, [Next]_vars PROVE Ahead'
  OBVIOUS
<1>1. CASE UNCHANGED vars
  BY <1>1, QuietAhead DEF vars
<1>2. CASE Open
  BY <1>2, OpenAhead
<1>3. CASE Close
  BY <1>3, QuietAhead DEF Close
<1>4. CASE Crash
  <2>1. reader' = NoReader
    BY <1>4 DEF Crash
  <2> QED
    BY <2>1, NothingOwed DEF Ahead
<1>5. CASE Begin
  BY <1>5, BeginAhead
<1>6. CASE Read
  BY <1>6, ReadAhead
<1>7. ASSUME NEW w \in Writers, Create(w) PROVE Ahead'
  BY <1>7, QuietAhead DEF Create
<1>8. ASSUME NEW w \in Writers, Save(w) PROVE Ahead'
  BY <1>8, SaveAhead
<1>9. ASSUME NEW w \in Writers, SaveClosed(w) PROVE Ahead'
  BY <1>9, QuietAhead DEF SaveClosed
<1> QED
  BY <1>1, <1>2, <1>3, <1>4, <1>5, <1>6, <1>7, <1>8, <1>9 DEF Next

\* The reader's part of the invariant holds of every behaviour.
LEMMA Aheadness == Spec => []Ahead
<1>1. Init => Ahead
  BY NothingOwed DEF Init, Ahead
<1>2. Inv /\ Inv' /\ Ahead /\ [Next]_vars => Ahead'
  BY AheadStep
<1> QED
  BY <1>1, <1>2, Invariance, PTL DEF Spec

\* The variables of the backend have their types.
THEOREM TypeCorrect == Spec => []TypeOK
<1>1. Inv /\ Ahead => TypeOK
  BY DEF Inv, Typed, Ahead, TypeOK
<1> QED
  BY <1>1, Invariance, Aheadness, PTL

\* A reader that pages with Limit and Offset while others save misses nothing
\* that was saved, and could be read, when it began.
THEOREM NothingIsMissed == Spec => []PagingMissesNothing
<1>1. Ahead => PagingMissesNothing
  BY DEF Ahead, PagingMissesNothing
<1> QED
  BY <1>1, Aheadness, PTL

-----------------------------------------------------------------------------
(***************************************************************************)
(* The order of an answer.  The list that the pages are cut from descends, *)
(* so that the place of a result is the number of newer ones.              *)
(***************************************************************************)

Descends(q) == \A i, j \in DOMAIN q : i < j => q[i] > q[j]
Ascends(q) == \A i, j \in DOMAIN q : i < j => q[i] < q[j]
Distinct(q) == \A i, j \in DOMAIN q : q[i] = q[j] => i = j

\* Rows can be compared.
LEMMA RowsAreNumbers == Row \subseteq Nat /\ MaxResults \in Nat
BY StoreAssumption DEF Row, Result, None

\* What is put behind the greater ones of a list that descends leaves it so.
LEMMA InsertDescends ==
  ASSUME NEW q \in Seq(Row), NEW p \in 1..(Len(q) + 1), NEW x \in Row,
         Descends(q), \A i \in DOMAIN q : IF i < p THEN q[i] > x ELSE x > q[i]
  PROVE  Descends(InsertAt(q, p, x))
<1> DEFINE n == Len(q)
           l == InsertAt(q, p, x)
<1>1. l \in Seq(Row) /\ Len(l) = n + 1 /\ \A i \in 1..(n + 1) : l[i] = Shifted(q, p, x, i)
  BY Inserted
<1>2. n \in Nat /\ DOMAIN q = 1..n /\ \A i \in 1..n : q[i] \in Row
  BY LenProperties, ElementOfSeq
<1>3. p \in 1..(n + 1)
  OBVIOUS
<1> HIDE DEF n, l
<1>4. DOMAIN l = 1..(n + 1)
  BY <1>1, LenProperties
<1>5. \A i \in 1..n : q[i] \in Nat
  BY <1>2, RowsAreNumbers
<1>6. ASSUME NEW i \in 1..(n + 1), NEW j \in 1..(n + 1), i < j PROVE l[i] > l[j]
  <2>1. l[i] = Shifted(q, p, x, i) /\ l[j] = Shifted(q, p, x, j)
    BY <1>1
  <2>2. CASE j < p
    <3>1. i \in 1..n /\ j \in 1..n /\ i < p
      BY <1>2, <1>3, <1>6, <2>2
    <3>2. q[i] > q[j]
      BY <1>2, <1>6, <3>1 DEF Descends
    <3> QED
      BY <2>1, <2>2, <3>1, <3>2 DEF Shifted
  <2>3. CASE j = p
    <3>1. i \in 1..n /\ i < p /\ ~(j < p)
      BY <1>2, <1>3, <1>6, <2>3
    <3>2. q[i] > x
      BY <1>2, <3>1
    <3> QED
      BY <2>1, <2>3, <3>1, <3>2 DEF Shifted
  <2>4. CASE j > p
    <3>1. j - 1 \in 1..n /\ ~(j < p) /\ j # p /\ ~(j - 1 < p)
      BY <1>2, <1>3, <2>4
    <3>2. l[j] = q[j - 1] /\ x > q[j - 1]
      BY <1>2, <2>1, <3>1 DEF Shifted
    <3>3. CASE i < p
      <4>1. i \in 1..n /\ i < j - 1
        BY <1>2, <1>3, <2>4, <3>3
      <4>2. q[i] > q[j - 1]
        BY <1>2, <3>1, <4>1 DEF Descends
      <4>3. l[i] = q[i]
        BY <2>1, <3>3 DEF Shifted
      <4> QED
        BY <3>2, <4>2, <4>3
    <3>4. CASE i = p
      <4>1. ~(i < p)
        BY <1>3, <3>4
      <4>2. l[i] = x
        BY <2>1, <3>4, <4>1 DEF Shifted
      <4> QED
        BY <3>2, <4>2
    <3>5. CASE i > p
      <4>1. i - 1 \in 1..n /\ ~(i < p) /\ i # p /\ i - 1 < j - 1
        BY <1>2, <1>3, <1>6, <3>5
      <4>2. q[i - 1] > q[j - 1]
        BY <1>2, <3>1, <4>1 DEF Descends
      <4>3. l[i] = q[i - 1]
        BY <2>1, <4>1 DEF Shifted
      <4> QED
        BY <3>2, <4>2, <4>3
    <3>6. i < p \/ i = p \/ i > p
      BY <1>3
    <3> QED
      BY <3>3, <3>4, <3>5, <3>6
  <2>5. j < p \/ j = p \/ j > p
    BY <1>3
  <2> QED
    BY <2>2, <2>3, <2>4, <2>5
<1> QED
  BY <1>4, <1>6 DEF Descends, l

\* Of a list that descends the greater ones come first, so that a row's place
\* is right behind them.
LEMMA PlaceBehindGreater ==
  ASSUME NEW q \in Seq(Row), Descends(q), NEW x \in Row, x \notin ToSet(q)
  PROVE  \A i \in DOMAIN q : IF i < Place(q, x) THEN q[i] > x ELSE x > q[i]
<1> DEFINE n == Len(q)
           U == {i \in DOMAIN q : q[i] > x}
<1>1. n \in Nat /\ DOMAIN q = 1..n /\ \A i \in 1..n : q[i] \in Row
  BY LenProperties, ElementOfSeq
<1>2. \A i \in 1..n : q[i] \in Nat /\ q[i] # x
  BY <1>1, RowsAreNumbers DEF ToSet
<1>3. x \in Nat
  BY RowsAreNumbers
<1> HIDE DEF n
<1>4. PICK c \in 0..n : U = 1..c
  <2> DEFINE Out == {i \in 1..(n + 1) : i \notin U}
  <2>1. Out \subseteq Nat /\ Out # {}
    <3>1. n + 1 \in Out
      BY <1>1
    <3> QED
      BY <3>1
  <2> HIDE DEF Out
  <2>2. PICK m \in Out : \A y \in Out : ~(y < m)
    BY <2>1, LeastNumber
  <2>3. m \in 1..(n + 1) /\ m \notin U /\ m - 1 \in 0..n
    BY <1>1, <2>2 DEF Out
  <2>4. ASSUME NEW i \in 1..(m - 1) PROVE i \in U
    <3>1. i \in 1..(n + 1) /\ i < m
      BY <1>1, <2>3
    <3> QED
      BY <2>2, <3>1 DEF Out
  <2>5. ASSUME NEW i \in U PROVE i \in 1..(m - 1)
    <3>1. i \in 1..n /\ q[i] > x
      BY <1>1
    <3>2. CASE i < m
      BY <2>3, <3>1, <3>2
    <3>3. CASE ~(i < m)
      <4>1. i # m
        BY <2>3
      <4>2. m \in 1..n /\ m < i
        BY <1>1, <2>3, <3>1, <3>3, <4>1
      <4>3. q[m] > q[i]
        BY <1>1, <3>1, <4>2 DEF Descends
      <4>4. q[m] > x
        BY <1>2, <1>3, <3>1, <4>2, <4>3
      <4> QED
        BY <1>1, <2>3, <4>2, <4>4
    <3> QED
      BY <3>2, <3>3
  <2>6. U = 1..(m - 1)
    BY <2>4, <2>5
  <2> QED
    BY <2>3, <2>6
<1>5. Cardinality(1..c) = c
  <2>1. c \in Nat /\ 1 \in Int
    BY <1>1
  <2>2. Cardinality(1..c) = IF 1 > c THEN 0 ELSE c - 1 + 1
    BY <2>1, FS_Interval
  <2> QED
    BY <2>1, <2>2
<1>6. Place(q, x) = c + 1
  BY <1>4, <1>5 DEF Place
<1>7. ASSUME NEW i \in 1..n PROVE IF i < c + 1 THEN q[i] > x ELSE x > q[i]
  <2>1. i < c + 1 <=> i \in 1..c
    BY <1>1
  <2>2. i \in U <=> q[i] > x
    BY <1>1
  <2>3. q[i] > x \/ x > q[i]
    BY <1>2, <1>3
  <2> HIDE DEF U
  <2> QED
    BY <1>4, <2>1, <2>2, <2>3
<1> QED
  BY <1>1, <1>6, <1>7

\* The rows of a table that are all different, or of a file that were written
\* in the order of their creation.
InOrder(rows) == IF format \in SQL THEN Distinct(rows) ELSE Ascends(rows)

\* Rows in order stay so without the last, which is another one, and in a file a
\* later one.
LEMMA OrderUndone ==
  ASSUME NEW s \in Seq(Row), NEW x \in Row, InOrder(Append(s, x))
  PROVE  /\ InOrder(s)
         /\ format \in SQL => x \notin ToSet(s)
         /\ format \notin SQL => \A y \in ToSet(s) : x > y
<1> DEFINE n == Len(s)
           a == Append(s, x)
<1>1. /\ a \in Seq(Row) /\ Len(a) = n + 1 /\ a[n + 1] = x /\ \A i \in 1..n : a[i] = s[i]
  BY AppendProperties
<1>2. n \in Nat /\ DOMAIN s = 1..n
  BY LenProperties
<1> HIDE DEF n, a
<1>3. DOMAIN a = 1..(n + 1)
  BY <1>1, LenProperties
<1>4. \A i \in 1..n : i \in 1..(n + 1) /\ n + 1 \in 1..(n + 1) /\ i < n + 1 /\ i # n + 1
  BY <1>2
<1>5. CASE format \in SQL
  <2>1. \A i, j \in 1..(n + 1) : a[i] = a[j] => i = j
    BY <1>3, <1>5 DEF InOrder, Distinct, a
  <2>2. Distinct(s)
    BY <1>1, <1>2, <1>4, <2>1 DEF Distinct
  <2>3. x \notin ToSet(s)
    BY <1>1, <1>2, <1>4, <2>1 DEF ToSet
  <2> QED
    BY <1>5, <2>2, <2>3 DEF InOrder
<1>6. CASE format \notin SQL
  <2>1. \A i, j \in 1..(n + 1) : i < j => a[i] < a[j]
    BY <1>3, <1>6 DEF InOrder, Ascends, a
  <2>2. Ascends(s)
    BY <1>1, <1>2, <1>4, <2>1 DEF Ascends
  <2>3. \A y \in ToSet(s) : y < x
    BY <1>1, <1>2, <1>4, <2>1 DEF ToSet
  <2>4. \A y \in ToSet(s) : y \in Row
    BY ElementOfSeq DEF ToSet
  <2>5. \A y \in ToSet(s) : x > y
    BY <2>3, <2>4, RowsAreNumbers
  <2> QED
    BY <1>6, <2>2, <2>5 DEF InOrder
<1> QED
  BY <1>5, <1>6

\* Then the list descends.
LEMMA ListDescends ==
  ASSUME NEW rows \in Seq(Row), NEW want, InOrder(rows)
  PROVE  Descends(ListOf(rows, want))
<1> DEFINE Good == {s \in Seq(Row) : InOrder(s) => Descends(ListOf(s, want))}
<1>1. <<>> \in Good
  <2>1. <<>> \in Seq(Row) /\ DOMAIN <<>> = {}
    OBVIOUS
  <2>2. ListOf(<<>>, want) = <<>>
    BY ListEmpty
  <2>3. Descends(ListOf(<<>>, want))
    BY <2>1, <2>2 DEF Descends
  <2> QED
    BY <2>1, <2>3
<1>2. ASSUME NEW s \in Seq(Row), NEW x \in Row, s \in Good PROVE Append(s, x) \in Good
  <2>1. Append(s, x) \in Seq(Row)
    BY AppendProperties
  <2> SUFFICES ASSUME InOrder(Append(s, x)) PROVE Descends(ListOf(Append(s, x), want))
    BY <2>1
  <2> DEFINE q == ListOf(s, want)
             l == ListOf(Append(s, x), want)
  <2>2. /\ InOrder(s)
        /\ format \in SQL => x \notin ToSet(s)
        /\ format \notin SQL => \A y \in ToSet(s) : x > y
    BY OrderUndone
  <2>3. Descends(q)
    BY <1>2, <2>2
  <2>4. q \in Seq(Row) /\ ToSet(q) \subseteq ToSet(s)
    BY ListHas
  <2>5. /\ x \in want \cup {None} =>
             /\ format \notin SQL => l = InsertAt(q, 1, x)
             /\ format \in SQL => l = Placed(q, x)
        /\ x \notin want \cup {None} => l = q
    BY ListGrows
  <2> HIDE DEF q, l, Good
  <2>6. q \in Seq(Row)
    BY <2>4
  <2>7. CASE format \in SQL
    <3>1. Place(q, x) \in 1..(Len(q) + 1)
      BY <2>6, PlaceInList
    <3>2. \A i \in DOMAIN q : IF i < Place(q, x) THEN q[i] > x ELSE x > q[i]
      BY <2>2, <2>3, <2>4, <2>7, PlaceBehindGreater
    <3>3. Descends(InsertAt(q, Place(q, x), x))
      BY <2>3, <2>6, <3>1, <3>2, InsertDescends
    <3>4. Placed(q, x) = InsertAt(q, Place(q, x), x)
      BY DEF Placed, Place
    <3> QED
      BY <2>3, <2>5, <2>7, <3>3, <3>4 DEF l
  <2>8. CASE format \notin SQL
    <3>1. DOMAIN q = 1..Len(q) /\ Len(q) \in Nat
      BY <2>6, LenProperties
    <3>2. 1 \in 1..(Len(q) + 1) /\ \A i \in DOMAIN q : ~(i < 1)
      BY <3>1
    <3>3. \A i \in DOMAIN q : x > q[i]
      BY <2>2, <2>4, <2>8 DEF ToSet
    <3>4. \A i \in DOMAIN q : IF i < 1 THEN q[i] > x ELSE x > q[i]
      BY <3>2, <3>3
    <3>5. 1 \in 1..(Len(q) + 1)
      BY <3>2
    <3>6. Descends(InsertAt(q, 1, x))
      BY <2>3, <2>6, <3>4, <3>5, InsertDescends
    <3> QED
      BY <2>3, <2>5, <2>8, <3>6 DEF l
  <2> QED
    BY <2>7, <2>8
<1> HIDE DEF Good
<1>3. Seq(Row) \subseteq Good
  BY <1>1, <1>2, SequenceInduction
<1> QED
  BY <1>3 DEF Good

\* The number of the newer ones of a list that descends is the place of a row.
LEMMA NewerOnes ==
  ASSUME NEW l \in Seq(Row), Descends(l), NEW k \in DOMAIN l
  PROVE  Cardinality({s \in ToSet(l) : s > l[k]}) = k - 1
<1> DEFINE n == Len(l)
           V == {s \in ToSet(l) : s > l[k]}
           f == [i \in 1..(k - 1) |-> l[i]]
<1>1. n \in Nat /\ DOMAIN l = 1..n /\ \A i \in 1..n : l[i] \in Row
  BY LenProperties, ElementOfSeq
<1>2. k \in 1..n /\ k - 1 \in Nat
  BY <1>1
<1>3. \A i \in 1..n : l[i] \in Nat
  BY <1>1, RowsAreNumbers
<1> HIDE DEF n
<1>4. \A i \in 1..(k - 1) : i \in 1..n /\ i < k
  BY <1>1, <1>2
<1>5. \A i \in 1..(k - 1) : l[i] \in V
  BY <1>1, <1>2, <1>4 DEF Descends, ToSet
<1>6. ASSUME NEW s \in V PROVE \E i \in 1..(k - 1) : l[i] = s
  <2>1. PICK i \in 1..n : l[i] = s
    BY <1>1 DEF ToSet
  <2>2. l[i] > l[k]
    BY <2>1
  <2>3. i < k
    <3> SUFFICES ASSUME ~(i < k) PROVE FALSE
      OBVIOUS
    <3>1. i = k \/ k < i
      BY <1>1, <1>2
    <3>2. l[k] \in Nat /\ l[i] \in Nat
      BY <1>2, <1>3
    <3>3. CASE i = k
      BY <2>2, <3>2, <3>3
    <3>4. CASE k < i
      <4>1. l[k] > l[i]
        BY <1>1, <1>2, <3>4 DEF Descends
      <4> QED
        BY <2>2, <3>2, <4>1
    <3> QED
      BY <3>1, <3>3, <3>4
  <2>4. i \in 1..(k - 1)
    BY <1>1, <1>2, <2>3
  <2> QED
    BY <2>1, <2>4
<1>7. \A i, j \in 1..(k - 1) : l[i] = l[j] => i = j
  <2> SUFFICES ASSUME NEW i \in 1..(k - 1), NEW j \in 1..(k - 1), l[i] = l[j], i # j
               PROVE  FALSE
    OBVIOUS
  <2>1. i \in 1..n /\ j \in 1..n /\ (i < j \/ j < i)
    BY <1>1, <1>2, <1>4
  <2>2. l[i] > l[j] \/ l[j] > l[i]
    BY <1>1, <2>1 DEF Descends
  <2>3. l[i] \in Nat /\ l[j] \in Nat
    BY <1>3, <2>1
  <2> QED
    BY <2>2, <2>3
<1> HIDE DEF V
<1>8. f \in Bijection(1..(k - 1), V)
  BY <1>5, <1>6, <1>7 DEF Bijection, Injection, Surjection, IsInjective
<1>9. ExistsBijection(1..(k - 1), V)
  BY <1>8 DEF ExistsBijection
<1>10. Cardinality(V) = k - 1
  BY <1>2, <1>9, FS_CountingElements
<1> QED
  BY <1>10 DEF V

\* A page of a list that descends descends, and has the rows with the right
\* number of newer ones.
LEMMA PageOfNewest ==
  ASSUME NEW l \in Seq(Row), Descends(l), NEW limit \in Nat, NEW offset \in Nat
  PROVE  LET newer(r) == Cardinality({s \in ToSet(l) : s > r})
             page == Page(l, limit, offset)
         IN  /\ ToSet(page) = {r \in ToSet(l) : newer(r) >= offset /\
                                                (limit > 0 => newer(r) < offset + limit)}
             /\ \A i, j \in DOMAIN page : i < j => page[i] > page[j]
<1> DEFINE newer(r) == Cardinality({s \in ToSet(l) : s > r})
           page == Page(l, limit, offset)
           n == Len(l)
           e == PageEnd(l, limit, offset)
<1>1. n \in Nat /\ DOMAIN l = 1..n
  BY LenProperties
<1>2. \A k \in 1..n : newer(l[k]) = k - 1
  BY <1>1, NewerOnes
<1>3. /\ page \in Seq(Row)
      /\ offset >= n => page = <<>>
      /\ offset < n => Len(page) = e - offset /\ \A i \in 1..(e - offset) : page[i] = l[offset + i]
  BY PageIs
<1> HIDE DEF newer, page
<1>4. CASE offset >= n
  <2>1. page = <<>> /\ DOMAIN page = {} /\ ToSet(page) = {}
    BY <1>3, <1>4 DEF ToSet
  <2>2. \A k \in 1..n : ~(newer(l[k]) >= offset)
    <3>1. \A k \in 1..n : ~(k - 1 >= offset)
      BY <1>1, <1>4
    <3> QED
      BY <1>2, <3>1
  <2>3. \A r \in ToSet(l) : ~(newer(r) >= offset)
    BY <1>1, <2>2 DEF ToSet
  <2> QED
    BY <2>1, <2>3 DEF newer, page
<1>5. CASE offset < n
  <2>1. e \in Nat /\ e <= n /\ \A k \in 1..n : k > offset /\ k <= e <=> k - 1 >= offset /\ (limit > 0 => k - 1 < offset + limit)
    BY <1>1, <1>5 DEF PageEnd
  <2> HIDE DEF e, n
  <2>2. /\ DOMAIN page = 1..(e - offset)
        /\ \A i \in 1..(e - offset) : page[i] = l[offset + i]
    <3>1. DOMAIN page = 1..Len(page)
      BY <1>3, LenProperties
    <3> QED
      BY <1>3, <1>5, <3>1
  <2>3. \A i \in 1..(e - offset) : offset + i \in 1..n /\ offset + i > offset /\ offset + i <= e
    BY <1>1, <2>1
  <2>4. \A k \in 1..n : k > offset /\ k <= e => k - offset \in 1..(e - offset) /\ offset + (k - offset) = k
    BY <1>1, <2>1
  <2>5. ASSUME NEW i \in 1..(e - offset)
        PROVE  /\ page[i] \in ToSet(l)
               /\ newer(page[i]) >= offset /\ (limit > 0 => newer(page[i]) < offset + limit)
    <3>1. page[i] = l[offset + i] /\ offset + i \in 1..n
      BY <2>2, <2>3
    <3>2. (offset + i) - 1 >= offset /\ (limit > 0 => (offset + i) - 1 < offset + limit)
      BY <2>1, <2>3
    <3>3. newer(page[i]) = (offset + i) - 1
      BY <1>2, <3>1
    <3>4. page[i] \in ToSet(l)
      BY <1>1, <3>1 DEF ToSet
    <3> QED
      BY <3>2, <3>3, <3>4
  <2>6. ASSUME NEW r \in ToSet(l), newer(r) >= offset, limit > 0 => newer(r) < offset + limit
        PROVE  r \in ToSet(page)
    <3>1. PICK k \in 1..n : l[k] = r
      BY <1>1 DEF ToSet
    <3>2. newer(r) = k - 1
      BY <1>2, <3>1
    <3>3. k - 1 >= offset /\ (limit > 0 => k - 1 < offset + limit)
      BY <2>6, <3>2
    <3>4. k > offset /\ k <= e
      BY <2>1, <3>3
    <3>5. k - offset \in 1..(e - offset) /\ page[k - offset] = r
      BY <2>2, <2>4, <3>1, <3>4
    <3> QED
      BY <2>2, <3>5 DEF ToSet
  <2>7. \A r \in ToSet(page) : /\ r \in ToSet(l)
                               /\ newer(r) >= offset /\ (limit > 0 => newer(r) < offset + limit)
    BY <2>2, <2>5 DEF ToSet
  <2>8. ToSet(page) = {r \in ToSet(l) : newer(r) >= offset /\ (limit > 0 => newer(r) < offset + limit)}
    BY <2>6, <2>7
  <2>9. ASSUME NEW i \in 1..(e - offset), NEW j \in 1..(e - offset), i < j
        PROVE  page[i] > page[j]
    <3>1. offset + i \in 1..n /\ offset + j \in 1..n
      BY <2>3
    <3>2. i \in Int /\ j \in Int
      BY <2>1
    <3>3. offset + i < offset + j
      BY <2>9, <3>2
    <3>4. l[offset + i] > l[offset + j]
      BY <1>1, <3>1, <3>3 DEF Descends
    <3> QED
      BY <2>2, <3>4
  <2> QED
    BY <2>2, <2>8, <2>9 DEF newer, page
<1>6. offset >= n \/ offset < n
  BY <1>1
<1> QED
  BY <1>4, <1>5, <1>6

\* The pages of a clean table, or of a file written in the order of creation,
\* have the newest results first.
LEMMA NewestFound == Inv => PagesNewestFirst
<1> SUFFICES ASSUME Inv, Clean,
                    format \in SQL \/ \A i, j \in DOMAIN Rows : i < j => Rows[i] < Rows[j],
                    NEW want \in Filters, NEW limit \in 0..MaxResults, NEW offset \in 0..MaxResults
             PROVE  LET rows == Answer(want, limit, offset)
                        kept == ToSet(Rows) \cap want
                        newer(r) == Cardinality({s \in kept : s > r})
                    IN  /\ ToSet(rows) = {r \in kept : newer(r) >= offset /\
                                            (limit > 0 => newer(r) < offset + limit)}
                        /\ \A i, j \in DOMAIN rows : i < j => rows[i] > rows[j]
  BY DEF PagesNewestFirst
<1> DEFINE l == ListOf(Rows, want)
           kept == ToSet(Rows) \cap want
<1>1. Rows \in Seq(Row)
  BY ListingTyped
<1>2. InOrder(Rows)
  <2>1. Distinct(Rows)
    BY CleanRows DEF Distinct
  <2> QED
    BY <2>1 DEF InOrder, Ascends
<1>3. l \in Seq(Row) /\ ToSet(l) = ToSet(Rows) \cap (want \cup {None})
  BY <1>1, ListHas
<1>4. ToSet(l) = kept
  <2>1. None \notin ToSet(Rows)
    <3>1. \A j \in DOMAIN Rows : Rows[j] # None
      BY CleanRows
    <3> QED
      BY <3>1 DEF ToSet
  <2> QED
    BY <1>3, <2>1
<1>5. Descends(l)
  BY <1>1, <1>2, ListDescends
<1>6. limit \in Nat /\ offset \in Nat
  BY RowsAreNumbers
<1>7. Answer(want, limit, offset) = Page(l, limit, offset)
  BY DEF Answer, ListOf
<1> HIDE DEF l, kept
<1>8. LET newer(r) == Cardinality({s \in ToSet(l) : s > r})
          page == Page(l, limit, offset)
      IN  /\ ToSet(page) = {r \in ToSet(l) : newer(r) >= offset /\
                                             (limit > 0 => newer(r) < offset + limit)}
          /\ \A i, j \in DOMAIN page : i < j => page[i] > page[j]
  BY <1>3, <1>5, <1>6, PageOfNewest
<1> QED
  BY <1>4, <1>7, <1>8 DEF kept

\* With any filter, limit and offset a query answers with the results that have
\* the right number of newer ones before them, the newest first.
THEOREM NewestComeFirst == Spec => []PagesNewestFirst
BY Invariance, NewestFound, PTL
=============================================================================
