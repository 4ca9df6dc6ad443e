--------------------------- MODULE VerificationChain ---------------------------
(***************************************************************************)
(* What happens to raw findings: near-duplicates collapse, the skeptic     *)
(* reviews each finding, Chain-of-Verification checks it against the text  *)
(* of its article, and a reranker orders what is left.  Two drivers do     *)
(* this, BlackboardAggregator.aggregate() and the inline pair              *)
(* _aggregate_inline_dedup() and _aggregate_inline_verify() of the flow.   *)
(*                                                                         *)
(* A step is what one task does between two awaits.  Citation lookups, the *)
(* router and the composite reranker never suspend.  Reviews and           *)
(* verifications fan out under a semaphore made for the batch.             *)
(*                                                                         *)
(* Abstractions.  A quote is the article whose text it was copied from.    *)
(* The words of an issue are a set of tokens.  Scores are integers, a      *)
(* confidence and a severity in twentieths, a composite in two-hundredths. *)
(* The verdicts of LLM calls are nondeterministic.  A corrected conclusion *)
(* is left out: nothing in the chain reads it.                             *)
(***************************************************************************)
EXTENDS Integers, FiniteSets, Sequences

CONSTANTS
  Article,      \* ids of articles
  Bare,         \* Bare[a]: the id without its letter ("5" for "5A")
  Token,        \* the words of issues
  Adjustment,   \* what a model may answer as a change of confidence
  MaxQuestions, \* CoVeVerifier._max_questions
  Document,     \* the articles of the bill in order
  Cases         \* the settings and raw findings to start from

NoArticle == "no article"
Invented == "invented"

One == 20             \* a confidence of 1.0
Top == 200            \* a composite score of 1.0

Finding ==
  [id : Nat, article : Article, lens : STRING, issue : SUBSET Token,
   quote : Article \cup {NoArticle, Invented}, falseCitation : BOOLEAN,
   boost : 0..1, severity : 0..One, score : 0..One]

\* board: the driver; llm: an LLM port is there; model: the reranker asks a
\* model; faulty: the citation parser may raise; threshold: a percentage.
Case ==
  [board : BOOLEAN, llm : BOOLEAN, model : BOOLEAN, faulty : BOOLEAN,
   slots : Nat \ {0}, threshold : 1..100, raw : Seq(Finding)]

ASSUME ChainAssumption ==
  /\ Bare \in [Article -> Article]
  /\ IsFiniteSet(Token)
  /\ Adjustment \subseteq Int /\ 0 \in Adjustment
  /\ MaxQuestions \in Nat \ {0}
  /\ Document \in Seq(Article)
  /\ \A c \in Cases : /\ c \in Case
                      /\ \A i \in 1..Len(c.raw) : c.raw[i].id = i

VARIABLES
  case,       \* the setting and the raw findings, fixed
  stage,      \* where the driver is
  list,       \* the findings it holds
  task,       \* task[i]: the review or verification of list[i]
  free,       \* the semaphore of the batch
  events,     \* the events of the chain
  rounds,     \* rounds of the blackboard
  accused     \* history: ids of findings someone had something against

vars == <<case, stage, list, task, free, events, rounds, accused>>

Event(type, n) == [type |-> type, n |-> n]

Init ==
  /\ case \in Cases
  /\ stage = "collected" /\ list = case.raw /\ task = <<>>
  /\ free = case.slots
  /\ events = <<>> /\ rounds = 1
  /\ accused = {}

\* The members of a finite set of numbers in ascending order.
Ascending(S) ==
  CHOOSE seq \in [1..Cardinality(S) -> S] :
    \A j, k \in 1..Cardinality(S) : j < k => seq[j] < seq[k]
-----------------------------------------------------------------------------
(* Deduplication.                                                          *)

\* Shared words in percent of the longer issue.
Overlap(f, g) ==
  LET longer == IF Cardinality(f.issue) > Cardinality(g.issue) THEN f.issue ELSE g.issue
  IN IF f.issue = {} \/ g.issue = {} THEN 0
     ELSE (100 * Cardinality(f.issue \cap g.issue)) \div Cardinality(longer)

Similar(f, g) ==
  /\ f.lens = g.lens /\ f.article = g.article
  /\ Overlap(f, g) >= case.threshold

\* cluster(): a finding similar to no pivot before it is a pivot.
IsPivot(raw) ==
  LET pivot[i \in 1..Len(raw)] ==
        \A j \in 1..(i - 1) : pivot[j] => ~Similar(raw[j], raw[i])
  IN pivot

\* Each other finding joins the first pivot it is similar to.
ClusterOf(raw, p) ==
  {i \in p..Len(raw) :
     \/ i = p
     \/ /\ ~IsPivot(raw)[i] /\ Similar(raw[p], raw[i])
        /\ \A q \in 1..(p - 1) : IsPivot(raw)[q] => ~Similar(raw[q], raw[i])}

\* Mutant of Best: the first of a cluster stands for it.
First(raw, S) == {i \in S : \A j \in S : i <= j}

\* The ids are random, so any finding with the highest confidence may win.
Best(raw, S) == {i \in S : \A j \in S : raw[j].score <= raw[i].score}

\* deduplicate(): one finding for each cluster, in the order of the pivots.
Deduplicated(raw) ==
  LET pivots == Ascending({i \in 1..Len(raw) : IsPivot(raw)[i]})
  IN {[k \in 1..Len(pivots) |-> raw[chosen[k]]] :
        chosen \in {c \in [1..Len(pivots) -> 1..Len(raw)] :
                      \A k \in 1..Len(pivots) : c[k] \in Best(raw, ClusterOf(raw, pivots[k]))}}
-----------------------------------------------------------------------------
(* Results of a batch, folded in the order of the input.                   *)

Ids(fs) == {fs[i].id : i \in 1..Len(fs)}

Queued == [at |-> "queued", removed |-> FALSE, adjust |-> 0, left |-> 0, proved |-> FALSE]

Batch(fs) == [i \in 1..Len(fs) |-> Queued]

Clamp(score) == IF score < 0 THEN 0 ELSE IF score > One THEN One ELSE score

Adjusted(f, adjust) == [f EXCEPT !.score = Clamp(@ + adjust)]

\* Mutant of Results: a result is paired with the finding after its own.
ResultsShifted(fs, ts) ==
  LET kept == Ascending({i \in 1..Len(fs) : ~ts[i].removed})
  IN [k \in 1..Len(kept) |-> fs[IF kept[k] < Len(fs) THEN kept[k] + 1 ELSE kept[k]]]

\* The findings that were not removed, with their confidence adjusted.
Results(fs, ts) ==
  LET kept == Ascending({i \in 1..Len(fs) : ~ts[i].removed})
  IN [k \in 1..Len(kept) |-> Adjusted(fs[kept[k]], ts[kept[k]].adjust)]

Unproved(ts) == Cardinality({i \in 1..Len(ts) : ~ts[i].proved})

Removal(type, n) == IF n = 0 THEN <<>> ELSE <<Event(type, n)>>
-----------------------------------------------------------------------------
(* Ranking.                                                                *)

\* CompositeReranker: novelty is what no other finding shares.
Novelty(f, fs) ==
  LET overlaps == {Overlap(f, fs[i]) : i \in {j \in 1..Len(fs) : fs[j].id # f.id}}
  IN IF Len(fs) <= 1 THEN One
     ELSE IF f.issue = {} THEN One \div 2
     ELSE One - (One * CHOOSE m \in overlaps : \A o \in overlaps : o <= m) \div 100

Composite(f, fs) == 4 * f.severity + 4 * f.score + 2 * Novelty(f, fs)

CompositeScores(fs) == [i \in 1..Len(fs) |-> Composite(fs[i], fs)]

\* A stable sort by descending score.
Ranked(fs, score) ==
  LET order == CHOOSE o \in [1..Len(fs) -> 1..Len(fs)] :
                 \A j, k \in 1..Len(fs) : j < k =>
                   \/ score[o[j]] > score[o[k]]
                   \/ score[o[j]] = score[o[k]] /\ o[j] < o[k]
  IN [k \in 1..Len(fs) |-> fs[order[k]]]
-----------------------------------------------------------------------------
(* One review or verification.                                             *)

Calls == {"critic", "planning", "answering", "checking"}
Done == {"reviewed", "verified"}

\* A task without a pending call takes the slot and gives it back in one step.
Move(i, t) ==
  /\ task' = [task EXCEPT ![i] = t]
  /\ free' = free + (IF task[i].at \in Calls THEN 1 ELSE 0) - (IF t.at \in Calls THEN 1 ELSE 0)
  /\ UNCHANGED <<case, stage, list, events, rounds>>

Accuse(i) == accused' = accused \cup {list[i].id}

Removed(i, at) == [task[i] EXCEPT !.at = at, !.removed = TRUE, !.proved = FALSE]

\* Mutant of Waits: no semaphore.
WaitsForNothing(i, where) == stage = where /\ i \in DOMAIN task /\ task[i].at = "queued"

Waits(i, where) == stage = where /\ i \in DOMAIN task /\ task[i].at = "queued" /\ free > 0

InCall(i, at) == i \in DOMAIN task /\ task[i].at = at

\* The typed gates answer at once: neutral, or a little more confidence for a
\* finding that rests on the Constitution.  The critic asks a model.
BeginReview(i) ==
  /\ Waits(i, "review")
  /\ Move(i, [task[i] EXCEPT !.at = IF case.llm THEN "critic" ELSE "reviewed",
                             !.adjust = list[i].boost])
  /\ UNCHANGED accused

Refutes(i) ==
  /\ InCall(i, "critic")
  /\ Move(i, Removed(i, "reviewed"))
  /\ Accuse(i)

Magnitude(n) == IF n < 0 THEN -n ELSE n

\* Only the sign of a verdict that takes sides is corrected.
Bounded(verdict, n) == IF verdict = "supports" THEN Magnitude(n) ELSE n

Upholds(i) ==
  /\ InCall(i, "critic")
  /\ \E verdict \in {"supports", "neutral"}, n \in Adjustment :
       Move(i, [task[i] EXCEPT !.at = "reviewed", !.adjust = @ + Bounded(verdict, n)])
  /\ UNCHANGED accused

\* Mutant of CriticFails: a critic that fails refutes.
CriticFailsClosed(i) ==
  /\ InCall(i, "critic")
  /\ Move(i, Removed(i, "reviewed"))
  /\ UNCHANGED accused

\* A failed gate is neutral.
CriticFails(i) ==
  /\ InCall(i, "critic")
  /\ Move(i, [task[i] EXCEPT !.at = "reviewed"])
  /\ UNCHANGED accused

\* The article index: texts by the number in their heading, the last wins.
IndexKeys == {Bare[Document[k]] : k \in 1..Len(Document)}

SourceOf(f) ==
  IF f.article \in IndexKeys
    THEN LET S == {k \in 1..Len(Document) : Bare[Document[k]] = f.article}
         IN Document[CHOOSE k \in S : \A j \in S : j <= k]
    ELSE NoArticle

\* A quote that is not in the source.
Fabricated(f) ==
  SourceOf(f) # NoArticle /\ f.quote # NoArticle /\ f.quote # SourceOf(f)

Condemned(f) == Fabricated(f) \/ f.falseCitation

\* The gates before the first question: quote, then citations.
GateDrops(i) ==
  /\ Waits(i, "verify") /\ case.llm
  /\ Condemned(list[i])
  /\ Move(i, Removed(i, "verified"))
  /\ Accuse(i)

\* A parser that raises disproves nothing.
GatePasses(i) ==
  /\ Waits(i, "verify") /\ case.llm
  /\ ~Condemned(list[i]) \/ (case.faulty /\ ~Fabricated(list[i]))
  /\ Move(i, [task[i] EXCEPT !.at = "planning"])
  /\ UNCHANGED accused

\* Without a model citations are looked up and no finding is dropped, unless
\* the parser raises.
Resolves(i) ==
  /\ Waits(i, "verify") /\ ~case.llm
  /\ \/ \E ok \in BOOLEAN : Move(i, [task[i] EXCEPT !.at = "verified", !.proved = ok])
     \/ case.faulty /\ Move(i, Removed(i, "verified"))
  /\ UNCHANGED accused

\* Without questions there is nothing to check.
Plans(i) ==
  /\ InCall(i, "planning")
  /\ \E n \in 0..MaxQuestions :
       Move(i, [task[i] EXCEPT !.at = IF n = 0 THEN "verified" ELSE "answering",
                               !.left = n, !.proved = TRUE])
  /\ UNCHANGED accused

Answers(i) ==
  /\ InCall(i, "answering")
  /\ \E supported \in BOOLEAN :
       Move(i, [task[i] EXCEPT !.at = IF task[i].left = 1 THEN "checking" ELSE @,
                               !.left = @ - 1, !.proved = @ /\ supported])
  /\ UNCHANGED accused

Contradicts(i) ==
  /\ InCall(i, "checking")
  /\ \E consistent \in BOOLEAN :
       Move(i, [Removed(i, "verified") EXCEPT !.proved = task[i].proved /\ consistent])
  /\ Accuse(i)

\* The finding is kept, revised or not, also when the answer has no verdict.
Confirms(i) ==
  /\ InCall(i, "checking")
  /\ \E consistent \in BOOLEAN, n \in Adjustment :
       Move(i, [task[i] EXCEPT !.at = "verified", !.adjust = n,
                               !.proved = @ /\ consistent])
  /\ UNCHANGED accused

\* Mutant of VerifierFails: the slot of the failed call is never given back.
VerifierFailsLeaks(i) ==
  /\ i \in DOMAIN task /\ task[i].at \in Calls \ {"critic"}
  /\ task' = [task EXCEPT ![i] = [@ EXCEPT !.at = "verified", !.proved = FALSE]]
  /\ UNCHANGED <<case, stage, list, events, rounds, free, accused>>

\* A call fails: the finding stays, unverified.
VerifierFails(i) ==
  /\ i \in DOMAIN task /\ task[i].at \in Calls \ {"critic"}
  /\ Move(i, [task[i] EXCEPT !.at = "verified", !.proved = FALSE])
  /\ UNCHANGED accused
-----------------------------------------------------------------------------
(* The driver.                                                             *)

Rounds(n) == IF case.board THEN rounds + n ELSE rounds

Completed(fs) == IF case.board THEN <<Event("completed", Len(fs))>> ELSE <<>>

Settled(fs) == [i \in 1..Len(fs) |-> [Queued EXCEPT !.at = "verified"]]

\* The chain ends with these findings.
Finish(fs, evs, n) ==
  /\ stage' = "done" /\ list' = fs /\ task' = Settled(fs)
  /\ events' = evs \o Completed(fs)
  /\ rounds' = Rounds(n)
  /\ UNCHANGED <<case, free, accused>>

\* The next batch starts with these findings.
Fan(where, fs, evs) ==
  /\ stage' = where /\ list' = fs /\ task' = Batch(fs) /\ free' = case.slots
  /\ events' = evs /\ rounds' = Rounds(1)
  /\ UNCHANGED case

\* Without findings both drivers return at once, and record nothing.
NothingFound ==
  /\ stage = "collected" /\ case.raw = <<>>
  /\ stage' = "done"
  /\ UNCHANGED <<case, list, task, free, events, rounds, accused>>

Collapse ==
  /\ stage = "collected" /\ case.raw # <<>>
  /\ \E fs \in Deduplicated(case.raw) :
       /\ Fan("review", fs,
              (IF case.board THEN <<Event("created", Len(case.raw))>> ELSE <<>>)
                \o Removal("dedup_removed", Len(case.raw) - Len(fs)))
       /\ accused' = Ids(case.raw) \ Ids(fs)

AllDone(at) == \A i \in DOMAIN task : task[i].at = at

EndReview ==
  /\ stage = "review" /\ AllDone("reviewed")
  /\ \E fs \in {Results(list, task)} :
       LET evs == events \o Removal("refuted", Len(list) - Len(fs))
       IN IF fs = <<>> THEN Finish(fs, evs, 0)
          ELSE Fan("verify", fs, evs) /\ UNCHANGED accused

\* Mutant of Verified: what is counted as refuted is what is not verified.
VerifiedMiscounts(fs) ==
  Removal("refuted", Unproved(task)) \o
    IF Unproved(task) > 0 THEN <<Event("citation_failed", Unproved(task))>>
                          ELSE <<Event("citation_verified", Len(fs))>>

\* The events of a verification with these findings left.
Verified(fs) ==
  Removal("refuted", Len(list) - Len(fs)) \o
    IF Unproved(task) > 0 THEN <<Event("citation_failed", Unproved(task))>>
                          ELSE <<Event("citation_verified", Len(fs))>>

\* Mutant of PublishedOrder: the order of confidences before the verification.
OrderBeforeVerification(fs) == Ranked(fs, CompositeScores(list))

\* The composite reranker's order.
PublishedOrder(fs) == Ranked(fs, CompositeScores(fs))

EndVerify ==
  /\ stage = "verify" /\ AllDone("verified")
  /\ \E fs \in {Results(list, task)} :
       LET evs == events \o Verified(fs)
       IN IF fs = <<>> THEN Finish(fs, evs, 0)
          ELSE IF case.model
            THEN /\ stage' = "rerank" /\ list' = fs /\ task' = Settled(fs)
                 /\ events' = evs /\ rounds' = Rounds(1)
                 /\ UNCHANGED <<case, free, accused>>
            ELSE Finish(PublishedOrder(fs), evs, 2)

\* The rerank model scores some findings, or fails and scores none; the others
\* get their composite score.
Rerank ==
  /\ stage = "rerank"
  /\ \E scored \in SUBSET DOMAIN list :
       \E relevance \in [scored -> {0, Top}] :
         LET score == [i \in DOMAIN list |->
                         IF i \in scored THEN relevance[i] ELSE Composite(list[i], list)]
         IN Finish(Ranked(list, score), events, 1)

\* Ctrl-C: gather() cancels its tasks and the driver raises.
Cancel ==
  /\ stage \in {"review", "verify", "rerank"}
  /\ stage' = "cancelled"
  /\ UNCHANGED <<case, list, task, free, events, rounds, accused>>
-----------------------------------------------------------------------------
ReviewStep(i) ==
  /\ stage = "review"
  /\ BeginReview(i) \/ Refutes(i) \/ Upholds(i) \/ CriticFails(i)

VerifyStep(i) ==
  /\ stage = "verify"
  /\ \/ GateDrops(i) \/ GatePasses(i) \/ Resolves(i)
     \/ Plans(i) \/ Answers(i) \/ Contradicts(i) \/ Confirms(i) \/ VerifierFails(i)

Drive == NothingFound \/ Collapse \/ EndReview \/ EndVerify \/ Rerank

Positions == UNION {1..Len(c.raw) : c \in Cases}

Next ==
  \/ \E i \in DOMAIN task : ReviewStep(i) \/ VerifyStep(i)
  \/ Drive
  \/ Cancel

\* The LLM port and the rerank port end every call; the rest does not wait.
Fairness ==
  /\ \A i \in Positions : WF_vars(ReviewStep(i)) /\ WF_vars(VerifyStep(i))
  /\ WF_vars(Drive)

Spec == Init /\ [][Next]_vars /\ Fairness
-----------------------------------------------------------------------------
(* Properties.                                                             *)

\* Fan-outs are bounded: the calls of a batch and its free slots add up to the
\* semaphore, and none is used that is not there (review(), verify_batch()).
Calling == {i \in DOMAIN task : task[i].at \in Calls}

BatchBounded ==
  stage \in {"review", "verify"} => free >= 0 /\ free + Cardinality(Calling) = case.slots

\* What the events record as removed, each removal with its event: there are as
\* many as the sum of the numbers in the removal events.
Removals(evs) ==
  UNION {{k} \X (1..evs[k].n) : k \in {k \in DOMAIN evs : evs[k].type \in {"dedup_removed", "refuted"}}}

\* The event log accounts for every finding at every moment: those recorded
\* as removed, by whichever stage, and those still held add up to the raw ones
\* (the removal events of aggregate() and of the inline driver); and an
\* aggregation of any findings that ends has recorded so, last, once, and with
\* the number of findings it returns (_complete()).
EventsAccount ==
  /\ Cardinality(Removals(events)) + Len(list) = Len(case.raw)
  /\ case.board /\ case.raw # <<>> =>
       \A k \in DOMAIN events :
         events[k].type = "completed" <=>
           stage = "done" /\ k = Len(events) /\ events[k].n = Len(list)

\* With a model in the chain a finding is lost only if something speaks against
\* it: a duplicate, a verdict, its quote, its citation.  Failed calls, failed
\* gates and lookups that raise lose nothing (review(), _verify_llm()).
FailuresLoseNothing ==
  case.llm => Ids(case.raw) \ accused \subseteq Ids(list)

\* What the composite reranker publishes is ordered by the confidences and the
\* novelty the findings are published with, not those they once had.
RankedAsPublished ==
  stage = "done" /\ ~case.model =>
    \A i, j \in DOMAIN list : i < j => Composite(list[i], list) >= Composite(list[j], list)

\* deduplicate() never trades a finding for a weaker one: whatever it removes
\* leaves one of the same lens and article that is at least as confident.
StrongestStays ==
  stage = "review" =>
    \A i \in 1..Len(case.raw) : \E k \in DOMAIN list :
      /\ list[k].lens = case.raw[i].lens /\ list[k].article = case.raw[i].article
      /\ list[k].score >= case.raw[i].score

\* A comment in run() says that findings are checked against the real text of
\* their articles: with a model, a finding dropped before the first question is
\* put has a quote that is not in its article, or a citation that is disproved.
RealQuotesPass ==
  [][\A i \in DOMAIN task :
       case.llm /\ stage = "verify" /\ task[i].at = "queued" /\ i \in DOMAIN task' /\ task'[i].removed =>
         list[i].quote # list[i].article \/ list[i].falseCitation]_vars

FateOf ==
  [id \in 1..Len(case.raw) |->
     IF stage = "collected" THEN "open"
     ELSE IF \A k \in DOMAIN list : list[k].id # id THEN "removed"
     ELSE LET k == CHOOSE k \in DOMAIN list : list[k].id = id
          IN IF task[k].removed THEN "removed"
             ELSE IF task[k].at = "verified" THEN "kept" ELSE "open"]

Phase == CASE stage = "done" -> "published"
           [] stage = "cancelled" -> "cancelled"
           [] OTHER -> "running"

Output == IF stage = "done" THEN [k \in DOMAIN list |-> list[k].id] ELSE <<>>

\* Each finding meets its fate once, in whatever order calls return, and exactly
\* the findings that were kept are published.
Fates == INSTANCE FindingFates WITH fate <- FateOf, phase <- Phase, output <- Output

ImplementsFates == Fates!Spec

\* Every chain ends.
ChainEnds == <>(stage \in {"done", "cancelled"})
================================================================================
