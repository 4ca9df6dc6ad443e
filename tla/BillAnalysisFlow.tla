--------------------------- MODULE BillAnalysisFlow ---------------------------
(***************************************************************************)
(* leggie/application/workflow/bill_analysis_flow.py: the durable pipeline *)
(* of one bill analysis.  A runner is one BillAnalysisFlow object (one per *)
(* process); all runners share one checkpoint file, as the default path of *)
(* the container makes them do.                                            *)
(*                                                                         *)
(* A step of this module is what the coroutine does between two awaits:    *)
(* the body of a stage, the transition and the checkpoint that closes it.  *)
(* A crash may fall between any two steps, and a save may fail: both leave *)
(* the file as it was (module CheckpointStore shows why).                  *)
(*                                                                         *)
(* Abstractions.  A bill is the set of article numbers in it; a text that  *)
(* was never ingested parses to a document without articles.  A finding is *)
(* the article it is about, the text that article came from and how far it *)
(* went down the verification chain.  Only STAGE_COMPLETED events are kept *)
(* (field trail).                                                          *)
(***************************************************************************)
EXTENDS FlowStateMachine, Naturals, Sequences, FiniteSets

CONSTANTS
  Runner,           \* flow objects, one per process
  File,             \* paths of bills
  Article,          \* article numbers, 1..n
  Contents,         \* the sets of articles a file may hold
  Requests,         \* the arguments run() may be called with
  UseBlackboard,    \* constructor argument use_blackboard
  AllowDegraded,    \* constructor argument allow_degraded_parse
  GuardVisible,     \* does getattr(llm, "budget_guard") find the guard?
  PreviewWithStore, \* may preview() be called on a flow that has a store?
  MaxCalls,         \* bound: calls of run() and preview()
  MaxEdits,         \* bound: edits of the files
  MaxSpend,         \* bound: LLM calls charged to one process
  Nil               \* Python's None, and the empty string

Selection == {Nil} \cup SUBSET Article
Text == [file : File, arts : SUBSET Article]
Doc == [file : File, src : SUBSET Article, arts : SUBSET Article]

ASSUME FlowAssumption ==
  /\ Article \subseteq Nat \ {0}
  /\ Contents \subseteq SUBSET Article
  /\ Requests \subseteq [file : File, articles : Selection, ids : Selection]
  /\ UseBlackboard \in BOOLEAN /\ AllowDegraded \in BOOLEAN
  /\ GuardVisible \in BOOLEAN /\ PreviewWithStore \in BOOLEAN
  /\ MaxCalls \in Nat /\ MaxEdits \in Nat /\ MaxSpend \in Nat
  /\ Nil \notin File /\ Nil \notin Nat /\ Nil \notin Text /\ Nil \notin Doc
  /\ \A arts \in SUBSET Article : Nil # arts

VARIABLES
  flow,        \* flow[r]: the fields of runner r's BillAnalysisFlow
  disk,        \* the checkpoint file, Nil when there is none
  content,     \* content[f]: the articles file f holds now
  published,   \* published[f]: what the report files of f show, or Nil
  calls,       \* calls made so far; also the source of fresh run ids
  edits        \* edits made so far

vars == <<flow, disk, content, published, calls, edits>>
-----------------------------------------------------------------------------
(* Data.                                                                   *)
Status == {"raw", "deduped", "verified"}
Finding == [file : File, src : SUBSET Article, art : Article, status : Status]

\* One flow object.  used is the budget guard's counter; spent is a history
\* field: the calls charged to this run, as far as its checkpoints tell.
Flow ==
  [pc : {"idle", "run", "preview", "returned"}, store : BOOLEAN, state : WorkflowState,
   req : Requests \cup {Nil}, path : File \cup {Nil}, run : Nat,
   text : Text \cup {Nil}, doc : Doc \cup {Nil}, findings : SUBSET Finding,
   suggestions : SUBSET Finding, trail : Seq(TransitionTable),
   used : Nat, spent : Nat]

Checkpoint ==
  [stage : WorkflowState, file : File \cup {Nil}, run : Nat,
   text : Text \cup {Nil}, doc : Doc \cup {Nil}, findings : SUBSET Finding,
   suggestions : SUBSET Finding, trail : Seq(TransitionTable),
   budget : Nat \cup {Nil}, spent : Nat]

\* What the report files of a bill show.
Report ==
  [req : Requests, doc : Doc, findings : SUBSET Finding,
   suggestions : SUBSET Finding]

ASSUME ReportAssumption == Nil \notin Report

\* __init__: a new process with a new flow object and a new budget guard.
NewFlow(hasStore) ==
  [pc |-> "idle", store |-> hasStore, state |-> "IDLE", req |-> Nil,
   path |-> Nil, run |-> 0, text |-> Nil, doc |-> Nil, findings |-> {},
   suggestions |-> {}, trail |-> <<>>, used |-> 0, spent |-> 0]
-----------------------------------------------------------------------------
(* Transition and checkpoint.                                              *)

\* The state and audit-trail part of _transition().
Advance(f, event) ==
  LET next == Transition(f.state, event)
  IN  IF next = NoState
        THEN f
        ELSE [f EXCEPT !.state = next,
                       !.trail = Append(@, Row(f.state, event, next))]

\* Mutant of Saved: the source text is left out of the checkpoint.
SavedWithoutText(f) ==
  [stage |-> f.state, file |-> f.path, run |-> f.run, text |-> Nil,
   doc |-> f.doc, findings |-> f.findings, suggestions |-> f.suggestions,
   trail |-> f.trail, budget |-> IF GuardVisible THEN f.used ELSE Nil,
   spent |-> f.spent]

\* The data _save_checkpoint() writes.
Saved(f) ==
  [stage |-> f.state, file |-> f.path, run |-> f.run, text |-> f.text,
   doc |-> f.doc, findings |-> f.findings, suggestions |-> f.suggestions,
   trail |-> f.trail, budget |-> IF GuardVisible THEN f.used ELSE Nil,
   spent |-> f.spent]

\* _save_checkpoint(): nothing without a store; an OSError is swallowed.
Save(f) == disk' = Saved(f) \/ UNCHANGED disk
SaveIfStored(f) == IF f.store THEN Save(f) ELSE UNCHANGED disk

\* Mutant of Accepts: no look at the file the checkpoint belongs to.
AcceptsAnyFile(c, file) == c # Nil /\ c.stage \in ResumableStates

\* Which checkpoints _load_checkpoint() takes up.
Accepts(c, file) ==
  /\ c # Nil
  /\ c.stage \in ResumableStates
  /\ c.file \in {Nil, file}

\* Mutants of Load: one field of the checkpoint is not restored.
LoadWithoutEvents(f, c) ==
  [f EXCEPT !.run = c.run, !.state = c.stage, !.findings = c.findings,
            !.doc = c.doc, !.text = c.text, !.suggestions = c.suggestions]
LoadWithoutStage(f, c) ==
  [f EXCEPT !.run = c.run, !.findings = c.findings, !.trail = c.trail,
            !.doc = c.doc, !.text = c.text, !.suggestions = c.suggestions]
LoadWithoutBudget(f, c) ==
  [LoadWithoutStage(f, c) EXCEPT !.state = c.stage, !.spent = c.spent]
LoadWithoutSuggestions(f, c) ==
  [f EXCEPT !.run = c.run, !.state = c.stage, !.findings = c.findings,
            !.trail = c.trail, !.doc = c.doc, !.text = c.text]

\* _load_checkpoint(): an empty run id keeps the fresh one; the budget is
\* restored only when the checkpoint has one and the guard can be found.
Load(f, c) ==
  [f EXCEPT !.run = IF c.run = 0 THEN @ ELSE c.run,
            !.state = c.stage, !.findings = c.findings, !.trail = c.trail,
            !.doc = c.doc, !.text = c.text, !.suggestions = c.suggestions,
            !.used = IF GuardVisible /\ c.budget # Nil THEN c.budget ELSE @,
            !.spent = c.spent]
-----------------------------------------------------------------------------
(* Parsing and article selection.                                          *)

\* ParseIntegrityReport.is_clean: no number missing below the largest one.
IsClean(arts) == \A n \in arts : 1..n \subseteq arts

\* The document the parser makes of the flow's source text.
Parsed(f) ==
  IF f.text = Nil
    THEN [file |-> f.req.file, src |-> {}, arts |-> {}]
    ELSE [file |-> f.text.file, src |-> f.text.arts, arts |-> f.text.arts]

\* _filter_document() raises ValueError unless every requested number is there.
FilterMatches(doc, articles) ==
  articles # Nil => (articles # {} /\ articles \subseteq doc.arts)

Restrict(doc, sel) ==
  IF sel = Nil THEN doc ELSE [doc EXCEPT !.arts = @ \cap sel]

\* Mutant of Selected: the explicit ids are ignored.
SelectedByExpression(doc, req) == Restrict(doc, req.articles)

\* _filter_document() followed by _select_article_ids().
Selected(doc, req) == Restrict(Restrict(doc, req.articles), req.ids)

\* The articles a request asks for, of those a text has.
Wanted(req, arts) ==
  {a \in arts : /\ req.articles # Nil => a \in req.articles
                /\ req.ids # Nil => a \in req.ids}
-----------------------------------------------------------------------------
Init ==
  /\ flow \in [Runner -> {NewFlow(TRUE), NewFlow(FALSE)}]
  /\ disk = Nil
  /\ content \in [File -> Contents]
  /\ published = [f \in File |-> Nil]
  /\ calls = 0
  /\ edits = 0

\* The runner's object becomes f, which then saves its checkpoint.
Become(r, f) ==
  /\ flow' = [flow EXCEPT ![r] = f]
  /\ SaveIfStored(f)

\* run() returns; an exception leaves run(), or preview() ends.
Return(f) == [f EXCEPT !.pc = "returned"]
Leave(f) == [f EXCEPT !.pc = "idle"]
Busy(f) == f.pc \in {"run", "preview"}

\* The transition that closes a stage.  An ignored event leaves the state behind
\* every `if self._state ==` that follows, and run() falls through to its return.
Pass(f, event) ==
  IF Transition(f.state, event) = NoState THEN Return(f) ELSE Advance(f, event)

\* The fields run() resets when it is called; its checkpoint_path argument gives
\* a flow without a store one.
Reset(f, req, hasPath, id) ==
  [f EXCEPT !.pc = "run", !.store = @ \/ hasPath, !.req = req, !.path = req.file, !.run = id,
            !.state = "IDLE", !.findings = {}, !.trail = <<>>, !.doc = Nil,
            !.suggestions = {}, !.text = Nil, !.spent = 0]

\* A restored document is narrowed to the requested articles at once.
Narrowed(f, req) ==
  IF f.doc = Nil
    THEN f
    ELSE IF FilterMatches(f.doc, req.articles)
      THEN [f EXCEPT !.doc = Selected(@, req)]
      ELSE Leave(f)

\* run() up to its first stage.  load() gives None on a read error.
RunStart(r, req) ==
  /\ ~Busy(flow[r])
  /\ calls < MaxCalls
  /\ calls' = calls + 1
  /\ \E read \in {disk, Nil}, hasPath \in BOOLEAN :
       LET fresh == Reset(flow[r], req, hasPath, calls + 1)
       IN  flow' = [flow EXCEPT ![r] =
                      IF fresh.store /\ Accepts(read, req.file)
                        THEN Narrowed(Load(fresh, read), req)
                        ELSE fresh]
  /\ UNCHANGED <<disk, content, published, edits>>

InStage(r, stage) == flow[r].pc = "run" /\ flow[r].state = stage

IngestStart(r) ==
  /\ InStage(r, "IDLE")
  /\ Become(r, Pass(flow[r], "ingest_started"))
  /\ UNCHANGED <<content, published, calls, edits>>

IngestDone(r) ==
  LET f == flow[r]
  IN  /\ InStage(r, "INGESTING")
      /\ Become(r, Pass([f EXCEPT !.text = [file |-> f.req.file,
                                            arts |-> content[f.req.file]]],
                        "ingest_completed"))
      /\ UNCHANGED <<content, published, calls, edits>>

\* The parse-integrity gate.
Parses(arts) == IsClean(arts) \/ AllowDegraded

ParseDone(r) ==
  LET f == flow[r]
      doc == Parsed(f)
  IN  /\ InStage(r, "PARSING")
      /\ Parses(doc.arts)
      /\ FilterMatches(doc, f.req.articles)
      /\ Become(r, Pass([f EXCEPT !.doc = Selected(doc, f.req), !.text = Nil],
                        "parse_completed"))
      /\ UNCHANGED <<content, published, calls, edits>>

\* ParseIntegrityError, or ValueError from the selection (the parsed document
\* is already assigned then).  Neither fires a parse_failed transition.
ParseRaises(r) ==
  LET f == flow[r]
      doc == Parsed(f)
  IN  /\ InStage(r, "PARSING")
      /\ \/ /\ ~Parses(doc.arts)
            /\ flow' = [flow EXCEPT ![r] = Leave(f)]
         \/ /\ Parses(doc.arts)
            /\ ~FilterMatches(doc, f.req.articles)
            /\ flow' = [flow EXCEPT ![r] = Leave([f EXCEPT !.doc = doc])]
      /\ UNCHANGED <<disk, content, published, calls, edits>>

\* Mutant of Plan: an event the table has no row for.
PlanUnknownEvent(r) ==
  /\ InStage(r, "PLANNING")
  /\ flow[r].doc # Nil
  /\ Become(r, Pass(flow[r], "plan_completed"))
  /\ UNCHANGED <<content, published, calls, edits>>

\* The decomposition is computed and dropped.  The plan_failed branch needs
\* PLANNING without a document, which StageOutputs excludes.
Plan(r) ==
  /\ InStage(r, "PLANNING")
  /\ flow[r].doc # Nil
  /\ Become(r, Pass(flow[r], "plan_approved"))
  /\ UNCHANGED <<content, published, calls, edits>>

HasArticles(doc) == doc # Nil /\ doc.arts # {}

NothingToExecute(r) ==
  LET f == flow[r]
  IN  /\ InStage(r, "EXECUTING")
      /\ ~HasArticles(f.doc)
      /\ Become(r, Return(Advance(f, "execution_failed")))
      /\ UNCHANGED <<content, published, calls, edits>>

\* analyze_document() returns at most the findings of the document's articles.
Execute(r) ==
  LET f == flow[r]
      Found(arts) == {[file |-> f.doc.file, src |-> f.doc.src, art |-> a,
                       status |-> "raw"] : a \in arts}
  IN  /\ InStage(r, "EXECUTING")
      /\ HasArticles(f.doc)
      /\ \E arts \in SUBSET f.doc.arts :
           Become(r, Pass([f EXCEPT !.findings = Found(arts)],
                          "execution_completed"))
      /\ UNCHANGED <<content, published, calls, edits>>

\* What a verification round returns: some of its findings, with a new status.
Marked(kept, status) == {[x EXCEPT !.status = status] : x \in kept}

\* With the blackboard, dedup, skeptic, CoVe and rerank all run here; inline,
\* dedup alone does, and it keeps one finding of every cluster.
Aggregate(r) ==
  LET f == flow[r]
  IN  /\ InStage(r, "AGGREGATING")
      /\ \E kept \in SUBSET f.findings :
           /\ UseBlackboard \/ f.findings = {} \/ kept # {}
           /\ Become(r, Pass([f EXCEPT !.findings = Marked(kept,
                                IF UseBlackboard THEN "verified"
                                                 ELSE "deduped")],
                             "aggregation_completed"))
      /\ UNCHANGED <<content, published, calls, edits>>

\* Mutant of Verify: the inline chain is forgotten.
VerifyForgotten(r) ==
  /\ InStage(r, "VERIFYING")
  /\ Become(r, Pass(flow[r], "verify_passed"))
  /\ UNCHANGED <<content, published, calls, edits>>

\* Inline: skeptic, CoVe and rerank.  With the blackboard: a transition only.
Verify(r) ==
  LET f == flow[r]
  IN  /\ InStage(r, "VERIFYING")
      /\ \E kept \in IF UseBlackboard THEN {f.findings} ELSE SUBSET f.findings :
           Become(r, Pass([f EXCEPT !.findings =
                             IF UseBlackboard THEN kept
                                              ELSE Marked(kept, "verified")],
                          "verify_passed"))
      /\ UNCHANGED <<content, published, calls, edits>>

\* Suggestions are generated from the findings there are.
Improve(r) ==
  LET f == flow[r]
  IN  /\ InStage(r, "IMPROVING")
      /\ Become(r, Pass([f EXCEPT !.suggestions =
                           IF f.findings = {} THEN @ ELSE f.findings],
                        "improvement_completed"))
      /\ UNCHANGED <<content, published, calls, edits>>

\* Reports are written only for a run with findings; then DONE, the last
\* checkpoint, WORKFLOW_COMPLETED and the return.
WriteReports(r) ==
  LET f == flow[r]
  IN  /\ InStage(r, "REPORTING")
      /\ published' =
           IF f.doc # Nil /\ f.findings # {}
             THEN [published EXCEPT ![f.req.file] =
                     [req |-> f.req, doc |-> f.doc, findings |-> f.findings,
                      suggestions |-> f.suggestions]]
             ELSE published
      /\ Become(r, Return(Advance(f, "report_completed")))
      /\ UNCHANGED <<content, calls, edits>>

\* An exception in an awaited stage body leaves run() at once: the state stays
\* where it was, no *_failed event is fired and nothing is saved.
AwaitRaises(r) ==
  /\ flow[r].pc = "run"
  /\ flow[r].state \in {"INGESTING", "EXECUTING", "AGGREGATING", "VERIFYING",
                        "REPORTING"}
  /\ flow' = [flow EXCEPT ![r] = Leave(@)]
  /\ UNCHANGED <<disk, content, published, calls, edits>>

Charged(f) == [f EXCEPT !.used = @ + 1, !.spent = @ + 1]

\* One LLM call of a stage body is charged to the guard.
ChargeCall(r) ==
  /\ flow[r].pc = "run"
  /\ flow[r].state \in {"EXECUTING", "AGGREGATING", "VERIFYING"}
  /\ flow[r].used < MaxSpend
  /\ flow' = [flow EXCEPT ![r] = Charged(@)]
  /\ UNCHANGED <<disk, content, published, calls, edits>>
-----------------------------------------------------------------------------
(* preview(): resets the state only, then ingests into a local variable.   *)
PreviewStart(r) ==
  LET started == Advance([flow[r] EXCEPT !.pc = "preview", !.state = "IDLE"],
                         "preview_started")
      ingesting == Advance(started, "ingest_started")
  IN  /\ ~Busy(flow[r])
      /\ calls < MaxCalls
      /\ flow[r].store => PreviewWithStore
      /\ calls' = calls + 1
      /\ flow' = [flow EXCEPT ![r] = ingesting]
      /\ \/ UNCHANGED disk
         \/ /\ flow[r].store
            /\ disk' \in {Saved(started), Saved(ingesting)}
      /\ UNCHANGED <<content, published, edits>>

\* The text goes from the ingester to the parser, after the transition and its
\* checkpoint; overview generation follows.
PreviewDone(r, file) ==
  LET f == Advance(flow[r], "ingest_completed")
      arts == content[file]
      doc == [file |-> file, src |-> arts, arts |-> arts]
  IN  /\ flow[r].pc = "preview"
      /\ SaveIfStored(f)
      /\ flow' = [flow EXCEPT ![r] =
                    Leave(IF Parses(arts) THEN [f EXCEPT !.doc = doc] ELSE f)]
      /\ UNCHANGED <<content, published, calls, edits>>

PreviewRaises(r) ==
  /\ flow[r].pc = "preview"
  /\ flow' = [flow EXCEPT ![r] = Leave(@)]
  /\ UNCHANGED <<disk, content, published, calls, edits>>
-----------------------------------------------------------------------------
(* The environment.                                                        *)

\* The process dies, or simply ends; the next one builds a new flow.
Restart(r) ==
  /\ \E hasStore \in BOOLEAN : flow' = [flow EXCEPT ![r] = NewFlow(hasStore)]
  /\ UNCHANGED <<disk, content, published, calls, edits>>

EditFile(file) ==
  /\ edits < MaxEdits
  /\ edits' = edits + 1
  /\ \E arts \in Contents : content' = [content EXCEPT ![file] = arts]
  /\ UNCHANGED <<flow, disk, published, calls>>

\* The steps of a run that has started.
RunStep(r) ==
  \/ IngestStart(r) \/ IngestDone(r)
  \/ ParseDone(r) \/ ParseRaises(r)
  \/ Plan(r)
  \/ NothingToExecute(r) \/ Execute(r)
  \/ Aggregate(r) \/ Verify(r)
  \/ Improve(r) \/ WriteReports(r)
  \/ AwaitRaises(r)

Next ==
  \/ \E r \in Runner :
       \/ \E req \in Requests : RunStart(r, req)
       \/ RunStep(r)
       \/ ChargeCall(r)
       \/ PreviewStart(r)
       \/ \E file \in File : PreviewDone(r, file)
       \/ PreviewRaises(r)
       \/ Restart(r)
  \/ \E file \in File : EditFile(file)

Spec == Init /\ [][Next]_vars
-----------------------------------------------------------------------------
(* Properties.                                                             *)

TypeOK ==
  /\ flow \in [Runner -> Flow]
  /\ disk \in Checkpoint \cup {Nil}
  /\ content \in [File -> Contents]
  /\ published \in [File -> Report \cup {Nil}]
  /\ calls \in Nat /\ edits \in Nat

\* A trail of STAGE_COMPLETED events that explains how `state` was reached:
\* every entry is a row of the table, starts where the one before it ended (or
\* at IDLE, when the object was reused for a preview), and the last ends at
\* `state`.
Explains(trail, state) ==
  /\ \A i \in 1..Len(trail) :
       /\ trail[i] \in TransitionTable
       /\ \/ trail[i].from = "IDLE"
          \/ i > 1 /\ trail[i].from = trail[i-1].to
  /\ state = IF trail = <<>> THEN "IDLE" ELSE trail[Len(trail)].to

\* The audit trail of every flow object, and of the checkpoint a crashed run
\* leaves behind, is a path of the state machine to the state it stands for
\* (_transition: "must not corrupt the audit trail").
AuditTrail ==
  /\ \A r \in Runner : Explains(flow[r].trail, flow[r].state)
  /\ disk # Nil => Explains(disk.trail, disk.stage)

\* What the stages before `stage` produce: the text for PARSING, the document
\* from PLANNING on, raw findings for AGGREGATING, verified ones (with the
\* blackboard already at VERIFYING) from IMPROVING on.
StatusAt(stage) ==
  CASE stage = "AGGREGATING" -> {"raw"}
    [] stage = "VERIFYING" -> IF UseBlackboard THEN {"verified"} ELSE {"deduped"}
    [] stage \in {"IMPROVING", "REPORTING", "DONE"} -> {"verified"}
    [] OTHER -> {}

OutputsOf(stage, text, doc, findings) ==
  /\ stage = "PARSING" => text # Nil /\ findings = {}
  /\ stage \in ResumableStates \ {"PARSING"} => doc # Nil
  /\ stage \in ResumableStates =>
       \A x \in findings : x.status \in StatusAt(stage)

\* A checkpoint at a resumable stage holds the outputs of all prior stages, so
\* the flow can re-enter there (docstring of resumable_states()).
CheckpointComplete ==
  disk # Nil => OutputsOf(disk.stage, disk.text, disk.doc, disk.findings)

\* A run never enters a stage without the outputs of the ones before it,
\* whether it got there step by step or by resuming.
StageOutputs ==
  \A r \in Runner : flow[r].pc = "run" =>
    OutputsOf(flow[r].state, flow[r].text, flow[r].doc, flow[r].findings)

\* Everything a run works with comes from one text of the bill it was called
\* for: no other file's checkpoint is resumed, and an edit between a crash and
\* the resume never mixes two versions of the bill.
OneSource ==
  \A r \in Runner : LET f == flow[r] IN
    f.pc = "run" =>
      /\ f.text # Nil => f.text.file = f.req.file
      /\ f.doc # Nil => f.doc.file = f.req.file
      /\ \A x \in f.findings : f.doc # Nil /\ x.file = f.doc.file
                                           /\ x.src = f.doc.src

\* What the report files of a bill show went through the whole verification
\* chain, stems from one text of that bill, and every suggestion is about a
\* finding that is shown.
PublishedSound ==
  \A file \in File : LET p == published[file] IN
    p # Nil =>
      /\ p.suggestions = p.findings
      /\ \A x \in p.findings : /\ x.status = "verified"
                               /\ x.file = file
                               /\ x.src = p.doc.src

\* A report covers only articles its own request selected.
SelectionRespected ==
  \A file \in File : LET p == published[file] IN
    p # Nil => \A x \in p.findings : x.art \in Wanted(p.req, p.doc.src)

Order == <<"IDLE", "PREVIEWING", "INGESTING", "PARSING", "PLANNING",
           "EXECUTING", "AGGREGATING", "VERIFYING", "IMPROVING", "REPORTING",
           "DONE", "FAILED">>
Rank(state) == CHOOSE i \in 1..Len(Order) : Order[i] = state

\* A run is never at a stage before the one its own durable checkpoint has
\* reached, so a stage whose completion was saved is never paid for again (for
\* one process per checkpoint file).
NeverBehindCheckpoint ==
  \A r \in Runner : LET f == flow[r] IN
    (f.pc = "run" /\ disk # Nil /\ disk.run = f.run) =>
       Rank(disk.stage) <= Rank(f.state)

\* The budget guard counts at least what the run was charged up to its last
\* checkpoint, also after a crash and a resume.
SpendSurvives ==
  \A r \in Runner : flow[r].pc = "run" => flow[r].used >= flow[r].spent

\* A run ends FAILED only when the text it really read has none of the
\* articles the request asks for.
FailureIsReal ==
  \A r \in Runner : LET f == flow[r] IN
    f.state = "FAILED" =>
      f.doc # Nil /\ f.doc.src \in Contents /\ Wanted(f.req, f.doc.src) = {}

\* run() returns only at the end of the pipeline: FAILED without findings, or
\* DONE with every finding verified and, if there are any, the reports of the
\* bill on disk.  An event the table ignores ends run() just as quietly in the
\* middle of it.
RunCompletes ==
  \A r \in Runner : LET f == flow[r] IN
    f.pc = "returned" =>
      \/ f.state = "FAILED" /\ f.findings = {}
      \/ /\ f.state = "DONE"
         /\ \A x \in f.findings : x.status = "verified"
         /\ f.findings # {} => published[f.req.file] # Nil
=============================================================================
