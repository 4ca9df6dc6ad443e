-------------------------- MODULE MCBillAnalysisFlow --------------------------
(* Instances of BillAnalysisFlow for TLC.                                   *)
EXTENDS BillAnalysisFlow, TLC

CONSTANTS f1, f2

MCArticle == 1..2

\* Nothing tells one process from another.
RunnerSymmetry == Permutations(Runner)

\* A clean bill of two articles and one with a gap.
CleanOrGap == {{1, 2}, {2}}

\* These, and one that lacks the article a request by id asks for.
AnyContent == {{1}, {1, 2}, {2}}

All(file) == [file |-> file, articles |-> Nil, ids |-> Nil]

\* One request per bill: an unrestricted one and one by article ids.
OneRequestPerFile == {All(f1), [file |-> f2, articles |-> Nil, ids |-> {2}]}

\* An unrestricted request for one bill, a strict selection from the other.
AllOrStrict == {All(f1), [file |-> f2, articles |-> {1}, ids |-> Nil]}

\* A strict selection that one content of a bill does not match.
SelectOne == {[file |-> f1, articles |-> {1}, ids |-> Nil]}
=============================================================================
