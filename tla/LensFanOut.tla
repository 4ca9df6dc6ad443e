------------------------------ MODULE LensFanOut ------------------------------
(***************************************************************************)
(* Orchestrator.analyze_document(): one task per article under a semaphore *)
(* of the call, and inside each a TaskGroup of one task per lens under a   *)
(* semaphore of the orchestrator.  A lens task asks the router for a model *)
(* tier, calls the LLM, and on no findings or a failure tries once more at *)
(* the next tier.                                                          *)
(*                                                                         *)
(* A step is what one task does between two awaits.  StaticRouter never    *)
(* suspends, so routing, the construction of the lens and its first        *)
(* request are one step with what precedes them.                           *)
(*                                                                         *)
(* Abstractions.  The findings of one (article, lens) pair are one value:  *)
(* there are some or there are none.  Their order in the result is the     *)
(* order in which the tasks were created and is left out.  The LLM port is *)
(* present (without one a lens is a regular expression and awaits          *)
(* nothing).                                                               *)
(***************************************************************************)
EXTENDS Integers, FiniteSets

CONSTANTS
  Article,      \* the articles of the document
  Lens,         \* the lenses asked for, all of them configured
  Settings      \* the configurations of orchestrator and router

Tier == {"free", "budget", "premium"}

\* tier and cascade: the route "lens_analysis"; flaky: the router may raise;
\* sampling: use_verbalized_sampling; and the two semaphores.
Setting ==
  [tier : Tier, cascade : BOOLEAN, flaky : BOOLEAN, sampling : BOOLEAN,
   lensSlots : Nat \ {0}, articleSlots : Nat \ {0}]

ASSUME FanOutAssumption ==
  /\ IsFiniteSet(Article) /\ IsFiniteSet(Lens)
  /\ Settings \subseteq Setting

Pairs == Article \X Lens

VARIABLES
  setting,      \* the configuration, fixed
  free,         \* Orchestrator._semaphore
  articleFree,  \* article_sem
  article,      \* article[a]: the task of article a
  task,         \* task[p]: the task of a lens for an article
  events,       \* the DEGRADED events: the pair and the tier it failed at
  phase,        \* "running", "cancelling", "returned" or "cancelled"
  output        \* the pairs whose findings were returned

vars == <<setting, free, articleFree, article, task, events, phase, output>>

\* tries: max_retries; attempt: the attempts that have ended, the last with
\* this outcome.
NewTask ==
  [at |-> "new", tier |-> "budget", tries |-> 1, attempt |-> 0, outcome |-> "none"]

Init ==
  /\ setting \in Settings
  /\ free = setting.lensSlots
  /\ articleFree = setting.articleSlots
  /\ article = [a \in Article |-> [at |-> "queued", found |-> {}]]
  /\ task = [p \in Pairs |-> NewTask]
  /\ events = {}
  /\ phase = "running" /\ output = {}
-----------------------------------------------------------------------------
(* The router.                                                             *)

NoTier == "none"
Raised == "raised"

\* route() with the tries it allows, or the defaults when it raises.
Routes ==
  {[tier |-> setting.tier, tries |-> IF setting.cascade THEN 2 ELSE 1]}
    \cup (IF setting.flaky THEN {[tier |-> "budget", tries |-> 1]} ELSE {})

\* cascade(): the tier after this one.
NextTier(tier) ==
  CASE tier = "free" -> "budget"
    [] tier = "budget" -> "premium"
    [] tier = "premium" -> NoTier

\* Mutant of SafeCascade: a router that raises takes its task down.
RawCascade(tier) ==
  {NextTier(tier)} \cup (IF setting.flaky THEN {Raised} ELSE {})

\* _safe_cascade(): a router that raises offers no tier.
SafeCascade(tier) ==
  {NextTier(tier)} \cup (IF setting.flaky THEN {NoTier} ELSE {})
-----------------------------------------------------------------------------
(* One lens task.                                                          *)

Calls == {"sampling", "asking", "retrying"}
Ended == {"done", "raised", "cancelled"}

\* The first request of an attempt.
FirstCall == IF setting.sampling THEN "sampling" ELSE "asking"

\* Mutant of Over: only empty findings are tried again.
OverOnFailure(t) == t.outcome # "nothing" \/ t.attempt = t.tries

\* Is the task over after an attempt?
Over(t) == t.outcome = "found" \/ t.attempt = t.tries

\* The attempt of p ends with an outcome.  Without findings the next tier is
\* tried in the same slot, if a try and a tier are left; else the task ends
\* and gives its slot back.
EndAttempt(p, outcome) ==
  /\ LET now == [task[p] EXCEPT !.attempt = @ + 1, !.outcome = outcome]
     IN \E next \in IF Over(now) THEN {NoTier} ELSE SafeCascade(now.tier) :
          IF next \in Tier
            THEN /\ task' = [task EXCEPT ![p] = [now EXCEPT !.at = FirstCall, !.tier = next]]
                 /\ UNCHANGED free
            ELSE /\ task' = [task EXCEPT ![p] =
                               [now EXCEPT !.at = IF next = Raised THEN "raised" ELSE "done"]]
                 /\ free' = free + 1
  /\ UNCHANGED <<setting, articleFree, article, phase, output>>

TakeSlot(p) ==
  /\ task[p].at = "queued" /\ free > 0
  /\ free' = free - 1
  /\ \E route \in Routes :
       task' = [task EXCEPT ![p].at = FirstCall, ![p].tier = route.tier,
                            ![p].tries = route.tries]
  /\ UNCHANGED <<setting, articleFree, article, events, phase, output>>

\* Verbalized sampling found something.
SampleFound(p) ==
  /\ task[p].at = "sampling"
  /\ EndAttempt(p, "found")
  /\ UNCHANGED events

\* It found nothing or its call failed, which is only logged: the plain
\* analysis follows.
SampleEmpty(p) ==
  /\ task[p].at = "sampling"
  /\ task' = [task EXCEPT ![p].at = "asking"]
  /\ UNCHANGED <<setting, free, articleFree, article, events, phase, output>>

\* An answer in Greek, or the second answer in any language.
Answer(p, outcome) ==
  /\ task[p].at \in {"asking", "retrying"}
  /\ EndAttempt(p, outcome)
  /\ UNCHANGED events

\* An answer with findings in another language is asked for again.
ForeignAnswer(p) ==
  /\ task[p].at = "asking"
  /\ task' = [task EXCEPT ![p].at = "retrying"]
  /\ UNCHANGED <<setting, free, articleFree, article, events, phase, output>>

\* Mutant of Report: the failure is logged and nothing more.
LogOnly(p) == events

\* The DEGRADED event of a failed attempt.
Report(p) == events \cup {[pair |-> p, tier |-> task[p].tier]}

\* The LLM call of the plain analysis fails and the lens returns no findings,
\* or the lens itself raises and the orchestrator goes on without it.
Fails(p) ==
  /\ task[p].at \in {"asking", "retrying"}
  /\ events' = Report(p)
  /\ EndAttempt(p, "failed")
-----------------------------------------------------------------------------
(* Articles, the document, and cancellation.                               *)

TasksOf(a) == {p \in Pairs : p[1] = a}

\* Mutant of OpenArticle: one semaphore for articles and lenses.
OpenArticleSharedSlots(a) ==
  /\ article[a].at = "queued" /\ free > 0
  /\ article' = [article EXCEPT ![a].at = "open"]
  /\ free' = free - 1
  /\ task' = [p \in Pairs |-> IF p[1] = a THEN [task[p] EXCEPT !.at = "queued"] ELSE task[p]]
  /\ UNCHANGED <<setting, articleFree, events, phase, output>>

OpenArticle(a) ==
  /\ article[a].at = "queued" /\ articleFree > 0
  /\ article' = [article EXCEPT ![a].at = "open"]
  /\ articleFree' = articleFree - 1
  /\ task' = [p \in Pairs |-> IF p[1] = a THEN [task[p] EXCEPT !.at = "queued"] ELSE task[p]]
  /\ UNCHANGED <<setting, free, events, phase, output>>

Found(p) == task[p].outcome = "found"

\* The findings of an article, if none of its tasks was cancelled or raised.
Collected(a) ==
  {l \in Lens : Found(<<a, l>>) /\ \A p \in TasksOf(a) : task[p].at = "done"}

\* Every task of the group has ended: the article has its result.
CloseArticle(a) ==
  /\ article[a].at = "open"
  /\ \A p \in TasksOf(a) : task[p].at \in Ended
  /\ article' = [article EXCEPT ![a] = [at |-> "closed", found |-> Collected(a)]]
  /\ articleFree' = articleFree + 1
  /\ UNCHANGED <<setting, free, task, events, phase, output>>

\* The caller cancels: all tasks are cancelled at the await they are in.
Cancel ==
  /\ phase = "running"
  /\ phase' = "cancelling"
  /\ UNCHANGED <<setting, free, articleFree, article, task, events, output>>

\* Mutant of CancelTask: the slot is not given back on cancellation.
CancelTaskLeaks(p) ==
  /\ phase = "cancelling"
  /\ task[p].at \in Calls \cup {"queued"}
  /\ task' = [task EXCEPT ![p].at = "cancelled"]
  /\ UNCHANGED <<setting, free, articleFree, article, events, phase, output>>

\* A lens task is cancelled: with the document, or because a task of its
\* TaskGroup has raised.
CancelTask(p) ==
  /\ phase = "cancelling" \/ \E q \in TasksOf(p[1]) : task[q].at = "raised"
  /\ task[p].at \in Calls \cup {"queued"}
  /\ free' = IF task[p].at \in Calls THEN free + 1 ELSE free
  /\ task' = [task EXCEPT ![p].at = "cancelled"]
  /\ UNCHANGED <<setting, articleFree, article, events, phase, output>>

\* An article task is cancelled while it waits for its slot.
CancelArticle(a) ==
  /\ phase = "cancelling"
  /\ article[a].at = "queued"
  /\ article' = [article EXCEPT ![a].at = "closed"]
  /\ UNCHANGED <<setting, free, articleFree, task, events, phase, output>>

\* gather() ends with its last article.
EndDocument ==
  /\ phase \in {"running", "cancelling"}
  /\ \A a \in Article : article[a].at = "closed"
  /\ IF phase = "running"
       THEN /\ phase' = "returned"
            /\ output' = {p \in Pairs : p[2] \in article[p[1]].found}
       ELSE phase' = "cancelled" /\ UNCHANGED output
  /\ UNCHANGED <<setting, free, articleFree, article, task, events>>
-----------------------------------------------------------------------------
TaskStep(p) ==
  \/ TakeSlot(p)
  \/ SampleFound(p)
  \/ SampleEmpty(p)
  \/ \E outcome \in {"found", "nothing"} : Answer(p, outcome)
  \/ ForeignAnswer(p)
  \/ Fails(p)
  \/ CancelTask(p)

ArticleStep(a) ==
  \/ OpenArticle(a)
  \/ CloseArticle(a)
  \/ CancelArticle(a)

Next ==
  \/ \E p \in Pairs : TaskStep(p)
  \/ \E a \in Article : ArticleStep(a)
  \/ EndDocument
  \/ Cancel

\* A task whose await has ended is resumed, and the LLM port ends every call.
Fairness ==
  /\ \A p \in Pairs : WF_vars(TaskStep(p))
  /\ \A a \in Article : WF_vars(ArticleStep(a))
  /\ WF_vars(EndDocument)

Spec == Init /\ [][Next]_vars /\ Fairness
-----------------------------------------------------------------------------
(* Properties.                                                             *)

Task ==
  [at : {"new", "queued"} \cup Calls \cup Ended, tier : Tier, tries : 1..2,
   attempt : 0..2, outcome : {"none", "found", "nothing", "failed"}]

\* Types; an attempt is over only after it began, and no try exceeds the
\* route's, for analyze_document() and _run_lens_with_cascade().
FanOutTypeOK ==
  /\ setting \in Settings
  /\ free \in Nat /\ articleFree \in Nat
  /\ article \in [Article -> [at : {"queued", "open", "closed"}, found : SUBSET Lens]]
  /\ task \in [Pairs -> Task]
  /\ events \subseteq [pair : Pairs, tier : Tier]
  /\ phase \in {"running", "cancelling", "returned", "cancelled"}
  /\ output \subseteq Pairs

Running == {p \in Pairs : task[p].at \in Calls}
OpenArticles == {a \in Article : article[a].at = "open"}

\* No slot is lost or made up on any way out of a task: what is free and what
\* is in use add up to the two semaphores of the orchestrator.
SlotsConserved ==
  /\ free + Cardinality(Running) = setting.lensSlots
  /\ articleFree + Cardinality(OpenArticles) = setting.articleSlots

\* A pair that returns nothing was answered at its last tier, or a DEGRADED
\* event names it and that tier: no lens fails in silence.
SilentMeansAnswered ==
  \A p \in Pairs :
    task[p].at = "done" /\ ~Found(p) =>
      task[p].outcome = "nothing" \/ [pair |-> p, tier |-> task[p].tier] \in events

\* With a route that cascades and a router that works, a lens gives up only
\* after its second try, or at the highest tier, and the second try is one
\* tier above the first (_run_lens_with_cascade).
GivesUpLate ==
  setting.cascade /\ ~setting.flaky =>
    \A p \in Pairs :
      /\ task[p].at = "done" /\ ~Found(p) => task[p].attempt = 2 \/ task[p].tier = "premium"
      /\ task[p].attempt = 2 => task[p].tier = NextTier(setting.tier)

Verdict ==
  [p \in Pairs |->
     IF task[p].at # "done" THEN "open" ELSE IF Found(p) THEN "found" ELSE "none"]

Visible == IF phase = "cancelling" THEN "running" ELSE phase

\* analyze_document() decides each pair once and for itself, whatever the
\* others do, and returns exactly those with findings.
Table == INSTANCE LensTable WITH verdict <- Verdict, phase <- Visible

ImplementsTable == Table!Spec

\* Every analysis ends, cancelled or not: nested semaphores do not deadlock.
DocumentEnds == <>(phase \in {"returned", "cancelled"})
================================================================================
