----------------------------- MODULE EvalScorer -----------------------------
(***************************************************************************)
(* EvalScorer.score (persistence/eval_harness.py): the findings of one     *)
(* bill against its gold labels.  A label or a finding is its type, its    *)
(* article (0 when no article can be determined) and its set of keywords.  *)
(***************************************************************************)
EXTENDS Integers, FiniteSets, Sequences

Item == [type : STRING, article : Nat, words : SUBSET Nat]

Matches(gold, finding) ==
  /\ gold.type = finding.type
  /\ finding.article \in {0, gold.article}
  /\ Cardinality(gold.words \cap finding.words) >= 3

\* The first of some findings, 0 if there is none.
Foremost(S) == IF S = {} THEN 0 ELSE CHOOSE i \in S : \A j \in S : i <= j

\* Mutant of Matching: a finding may be taken by several labels.
MatchingShared(labels, findings) ==
  [gi \in 1..Len(labels) |->
     Foremost({fi \in 1..Len(findings) : Matches(labels[gi], findings[fi])})]

\* Each label, in order, takes the first finding that matches it and nobody took.
Matching(labels, findings) ==
  LET takes[gi \in 1..Len(labels)] ==
        Foremost({fi \in 1..Len(findings) :
                    /\ Matches(labels[gi], findings[fi])
                    /\ \A g \in 1..(gi - 1) : takes[g] # fi})
  IN takes

\* The findings that were taken, and the labels that took none.
Taken(takes) == {takes[gi] : gi \in DOMAIN takes} \ {0}
Missed(takes) == {gi \in DOMAIN takes : takes[gi] = 0}

Of(seq, type) == {i \in 1..Len(seq) : seq[i].type = type}

\* True and false positives and false negatives of one finding type.
TypeMetrics(labels, findings, takes, type) ==
  [tp |-> Cardinality({gi \in DOMAIN takes : takes[gi] \in Of(findings, type)}),
   fp |-> Cardinality(Of(findings, type) \ Taken(takes)),
   fn |-> Cardinality(Of(labels, type) \cap Missed(takes))]

Score(labels, findings, types) ==
  LET takes == Matching(labels, findings)
  IN  [matched |-> Cardinality(Taken(takes)),
       missed |-> Missed(takes),
       spurious |-> (1..Len(findings)) \ Taken(takes),
       metrics |-> [t \in types |-> TypeMetrics(labels, findings, takes, t)]]
=============================================================================
