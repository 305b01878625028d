------------------------------ MODULE Analyzer ------------------------------
(***************************************************************************)
(* The term analyzer (internal/analyzer/matcher.go), which exists twice:   *)
(* FindTermMatches and FindTermMatchesOptimized.                           *)
(*                                                                         *)
(* A text is a sequence of characters: a letter in lower and upper case,   *)
(* "." for the three characters that end a sentence, "_" for white space.  *)
(***************************************************************************)
EXTENDS Naturals, FiniteSets, SequencesExt

Char == {"x", "X", ".", "_"}

ToLower(text) == [i \in DOMAIN text |-> IF text[i] = "X" THEN "x" ELSE text[i]]

\* The text from i to j without the white space at either end.
Trimmed(text, i, j) ==
  LET solid == {k \in i..j : text[k] # "_"}
  IN  IF solid = {} THEN <<>>
      ELSE SubSeq(text, CHOOSE k \in solid : \A l \in solid : k <= l,
                        CHOOSE k \in solid : \A l \in solid : l <= k)

\* Mutant: the white space after a sentence stays for the next one, and makes
\* a sentence of its own at the end of the text.
CutsBeforeSpace(text) == {i \in DOMAIN text : i < Len(text) /\ text[i] = "."}

\* A sentence ends behind its last character and the white space after that.
Cuts(text) ==
  {i \in 1..(Len(text) - 1) :
     text[i + 1] # "_" /\ \E k \in 1..i : text[k] = "." /\ \A l \in (k + 1)..i : text[l] = "_"}

\* The sentences that end by each place of the text, and where the next starts.
splitIntoSentences(text) ==
  LET ends == Cuts(text) \cup {Len(text)}
      upTo[i \in 0..Len(text)] ==
        IF i = 0 THEN [start |-> 1, sentences |-> <<>>]
        ELSE LET before == upTo[i - 1]
             IN  IF i \notin ends THEN before
                 ELSE [start |-> i + 1,
                       sentences |-> Append(before.sentences, Trimmed(text, before.start, i))]
  IN  upTo[Len(text)].sentences

\* The elements of a sequence that are in a set, in their order.
Those(s, S) ==
  LET upTo[n \in 0..Len(s)] ==
        IF n = 0 THEN <<>>
        ELSE IF s[n] \in S THEN Append(upTo[n - 1], s[n]) ELSE upTo[n - 1]
  IN  upTo[Len(s)]

OccursAt(text, term, i) == SubSeq(text, i, i + Len(term) - 1) = term
Starts(text, term) == {i \in 1..(Len(text) - Len(term) + 1) : OccursAt(text, term, i)}
HasTerm(text, term) == Starts(text, term) # {}

\* strings.Count: from the left, occurrences that do not overlap; the empty
\* term is found around every character.
Count(text, term) ==
  LET from[i \in 1..(Len(text) + 2)] ==
        IF i + Len(term) > Len(text) + 1 THEN 0
        ELSE IF OccursAt(text, term, i) THEN 1 + from[i + Len(term)]
        ELSE from[i + 1]
  IN  IF term = <<>> THEN Len(text) + 1 ELSE from[1]

Match(text, term, sentences) ==
  [term |-> term, count |-> Count(ToLower(text), ToLower(term)), sentences |-> sentences]

\* Mutant: the sentences are compared as they are written.
MatchingAsWritten(text, term) ==
  LET sentences == splitIntoSentences(text)
  IN  Those(sentences, {s \in ToSet(sentences) : HasTerm(s, ToLower(term))})

Matching(text, term) ==
  LET sentences == splitIntoSentences(text)
  IN  Those(sentences, {s \in ToSet(sentences) : HasTerm(ToLower(s), ToLower(term))})

Found(text, terms) ==
  Those(terms, {term \in ToSet(terms) : Count(ToLower(text), ToLower(term)) > 0})

\* The n-th sentence that matches is reported as the n-th of all sentences.
FindTermMatches(text, terms) ==
  LET found == Found(text, terms)
  IN  [i \in DOMAIN found |->
         Match(text, found[i],
               SubSeq(splitIntoSentences(text), 1, Len(Matching(text, found[i]))))]

\* Nothing is looked for in an empty text.
FindTermMatchesOptimized(text, terms) ==
  LET found == IF text = <<>> THEN <<>> ELSE Found(text, terms)
  IN  [i \in DOMAIN found |-> Match(text, found[i], Matching(text, found[i]))]
-----------------------------------------------------------------------------
(* What a match is to report. *)

Solid(text) == Those(text, Char \ {"_"})

\* The sentences are the text but for white space, and each ends at the first
\* character that ends one; only a text of white space has an empty one.
SentencesSound(text) ==
  LET s == splitIntoSentences(text)
  IN  /\ Solid(FlattenSeq(s)) = Solid(text)
      /\ \A n \in DOMAIN s :
           /\ s[n] = <<>> => Len(s) = 1
           /\ \A k \in DOMAIN s[n] : s[n][k] = "." => k = Len(s[n])
           /\ n < Len(s) => Last(s[n]) = "."

\* The most occurrences that do not overlap.
MostOccurrences(text, term) ==
  LET apart(S) == \A i, j \in S : i < j => i + Len(term) <= j
      sizes == {Cardinality(S) : S \in {S \in SUBSET Starts(text, term) : apart(S)}}
  IN  CHOOSE n \in sizes : \A m \in sizes : m <= n

\* A match counts the most occurrences there are, and lists no more sentences.
CountedRight(text, match) ==
  /\ match.term # <<>> =>
       match.count = MostOccurrences(ToLower(text), ToLower(match.term))
  /\ Len(match.sentences) <= match.count

\* For each occurrence the surrounding sentence is listed: what the sentences
\* of a match have of its term adds up to its count.  A term with the end of a
\* sentence or white space in it can be cut by the sentences.
Surrounded(match) ==
  match.term \in Seq({"x", "X"}) \ {<<>>} =>
    match.count = MapThenSumSet(
      LAMBDA n : MostOccurrences(ToLower(match.sentences[n]), ToLower(match.term)),
      DOMAIN match.sentences)
=============================================================================
