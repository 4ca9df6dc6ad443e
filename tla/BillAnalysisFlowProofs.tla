----------------------- MODULE BillAnalysisFlowProofs -----------------------
(***************************************************************************)
(* Proofs about BillAnalysisFlow, for any number of processes, bills and   *)
(* articles, and for every crash, failed save and lost checkpoint.         *)
(*                                                                         *)
(*   TypeCorrect       every variable keeps its type                       *)
(*   AuditTrailSound   every audit trail is a path of the table            *)
(*   SpendIsKept       the guard counts what the run was charged           *)
(*                                                                         *)
(* and, from the inductive invariant Coherence, when no preview is made    *)
(* with a checkpoint store:                                                *)
(*                                                                         *)
(*   CheckpointsComplete, StagesHaveInputs, OneSourceOnly, ReportsAreSound *)
(*                                                                         *)
(* from the inductive invariant Choice on top of it, when every bill is    *)
(* called for with one selection:                                          *)
(*                                                                         *)
(*   SelectionIsKept, FailuresAreReal                                      *)
(*                                                                         *)
(* and, from ProgressInv, when one process uses the checkpoint file:       *)
(*                                                                         *)
(*   SavedStagesAreNotRedone                                               *)
(***************************************************************************)
EXTENDS BillAnalysisFlow, TLAPS

(* ----------------------------------------------------------------------- *)
(* The transition table.                                                   *)

\* Every row of the table leads from a state to a state that is not NoState.
LEMMA RowTypes ==
  \A row \in TransitionTable :
    /\ row.from \in WorkflowState
    /\ row.to \in WorkflowState
    /\ row = Row(row.from, row.event, row.to)
BY DEF TransitionTable, Row, WorkflowState

\* A transition that happens is a row of the table.
LEMMA TransitionIsRow ==
  ASSUME NEW s, NEW e, Transition(s, e) # NoState
  PROVE  /\ Row(s, e, Transition(s, e)) \in TransitionTable
         /\ Transition(s, e) \in WorkflowState
<1>1. RowsFor(s, e) # {}
  BY DEF Transition
<1>2. PICK row \in RowsFor(s, e) : Transition(s, e) = row.to
  BY <1>1 DEF Transition
<1>3. row \in TransitionTable /\ row.from = s /\ row.event = e
  BY <1>2 DEF RowsFor
<1> QED
  BY <1>2, <1>3, RowTypes

\* transition() is the function the table describes: no (state, event) pair has
\* two rows.
LEMMA TransitionOfRow ==
  ASSUME NEW row \in TransitionTable
  PROVE  Transition(row.from, row.event) = row.to
<1>1. \A other \in TransitionTable :
        other.from = row.from /\ other.event = row.event => other.to = row.to
  BY DEF TransitionTable, Row
<1>2. row \in RowsFor(row.from, row.event)
  BY DEF RowsFor
<1>3. PICK other \in RowsFor(row.from, row.event) :
        Transition(row.from, row.event) = other.to
  BY <1>2 DEF Transition
<1> QED
  BY <1>1, <1>3 DEF RowsFor

\* NoState is not a state, so a row always fires.
LEMMA NoStateIsNoState == NoState \notin WorkflowState
BY DEF NoState, WorkflowState

(* ----------------------------------------------------------------------- *)
(* Types.                                                                  *)

\* Moving along the table keeps a flow a flow.
LEMMA AdvanceType ==
  ASSUME NEW f \in Flow, NEW event
  PROVE  Advance(f, event) \in Flow
<1> DEFINE next == Transition(f.state, event)
<1>1. CASE next = NoState
  BY <1>1 DEF Advance
<1>2. CASE next # NoState
  <2>1. /\ Row(f.state, event, next) \in TransitionTable
        /\ next \in WorkflowState
    BY <1>2, TransitionIsRow
  <2>2. Append(f.trail, Row(f.state, event, next)) \in Seq(TransitionTable)
    BY <2>1 DEF Flow
  <2> HIDE DEF next
  <2>3. [f EXCEPT !.state = next,
                  !.trail = Append(@, Row(f.state, event, next))] \in Flow
    BY <2>1, <2>2 DEF Flow
  <2> QED
    BY <1>2, <2>3 DEF Advance, next
<1> QED
  BY <1>1, <1>2

\* What is saved of a flow is a checkpoint.
LEMMA SavedType ==
  ASSUME NEW f \in Flow
  PROVE  Saved(f) \in Checkpoint
BY DEF Saved, Flow, Checkpoint

\* Restoring a checkpoint into a flow gives a flow.
LEMMA LoadType ==
  ASSUME NEW f \in Flow, NEW c \in Checkpoint
  PROVE  Load(f, c) \in Flow
<1> DEFINE run == IF c.run = 0 THEN f.run ELSE c.run
           used == IF GuardVisible /\ c.budget # Nil THEN c.budget ELSE f.used
<1>1. run \in Nat /\ used \in Nat
  BY DEF Flow, Checkpoint
<1>2. Load(f, c) = [f EXCEPT !.run = run, !.state = c.stage,
                             !.findings = c.findings, !.trail = c.trail,
                             !.doc = c.doc, !.text = c.text,
                             !.suggestions = c.suggestions,
                             !.used = used, !.spent = c.spent]
  BY DEF Load
<1> HIDE DEF run, used
<1> QED
  BY <1>1, <1>2 DEF Flow, Checkpoint

\* A new process starts with a flow.
LEMMA NewFlowType ==
  ASSUME NEW hasStore \in BOOLEAN
  PROVE  NewFlow(hasStore) \in Flow
BY DEF NewFlow, Flow, WorkflowState

\* The type invariant is inductive with this: run() has its request from its
\* first step on.
ReqKnown == \A r \in Runner : flow[r].pc = "run" => flow[r].req \in Requests

TypeInv == TypeOK /\ ReqKnown

\* Replacing the object of one runner by a flow keeps TypeInv.
LEMMA FlowStep ==
  ASSUME TypeInv, NEW r \in Runner, NEW f \in Flow,
         f.pc = "run" => f.req \in Requests,
         flow' = [flow EXCEPT ![r] = f],
         disk' \in Checkpoint \cup {Nil},
         calls' \in Nat, UNCHANGED <<content, published, edits>>
  PROVE  TypeInv'
<1>1. flow' \in [Runner -> Flow]
  BY DEF TypeInv, TypeOK
<1>2. ReqKnown'
  BY DEF TypeInv, TypeOK, ReqKnown
<1> QED
  BY <1>1, <1>2 DEF TypeInv, TypeOK

\* The same for a step that closes with a checkpoint.
LEMMA BecomeStep ==
  ASSUME TypeInv, NEW r \in Runner, NEW f \in Flow,
         f.pc = "run" => f.req \in Requests,
         Become(r, f), UNCHANGED <<content, published, calls, edits>>
  PROVE  TypeInv'
<1>1. flow' = [flow EXCEPT ![r] = f]
  BY DEF Become
<1>2. disk' \in Checkpoint \cup {Nil}
  BY SavedType DEF Become, SaveIfStored, Save, TypeInv, TypeOK
<1>3. calls' \in Nat
  BY DEF TypeInv, TypeOK
<1> QED
  BY <1>1, <1>2, <1>3, FlowStep

\* Moving along the table changes nothing but the state and the trail.
LEMMA AdvanceKeeps ==
  ASSUME NEW f \in Flow, NEW event
  PROVE  LET g == Advance(f, event)
         IN  /\ g.pc = f.pc /\ g.store = f.store /\ g.req = f.req
             /\ g.path = f.path /\ g.run = f.run /\ g.text = f.text
             /\ g.doc = f.doc /\ g.findings = f.findings
             /\ g.suggestions = f.suggestions /\ g.used = f.used
             /\ g.spent = f.spent
             /\ g.state = IF Transition(f.state, event) = NoState
                            THEN f.state ELSE Transition(f.state, event)
<1> DEFINE next == Transition(f.state, event)
           row == Row(f.state, event, next)
<1>1. Advance(f, event) =
        IF next = NoState
          THEN f ELSE [f EXCEPT !.state = next, !.trail = Append(@, row)]
  BY DEF Advance
<1> HIDE DEF next, row
<1>2. LET g == Advance(f, event)
      IN  /\ g.pc = f.pc /\ g.store = f.store /\ g.req = f.req
          /\ g.path = f.path /\ g.run = f.run /\ g.text = f.text
          /\ g.doc = f.doc /\ g.findings = f.findings
          /\ g.suggestions = f.suggestions /\ g.used = f.used
          /\ g.spent = f.spent
          /\ g.state = IF next = NoState THEN f.state ELSE next
  BY <1>1 DEF Flow
<1> QED
  BY <1>2 DEF next

\* Narrowing a document gives a document of the same text.
LEMMA SelectedDoc ==
  ASSUME NEW doc \in Doc, NEW req
  PROVE  /\ Selected(doc, req) \in Doc
         /\ Selected(doc, req).file = doc.file
         /\ Selected(doc, req).src = doc.src
         /\ Selected(doc, req).arts = Wanted(req, doc.arts)
<1>1. ASSUME NEW d \in Doc, NEW sel
      PROVE  /\ Restrict(d, sel) \in Doc
             /\ Restrict(d, sel).file = d.file /\ Restrict(d, sel).src = d.src
             /\ Restrict(d, sel).arts = {a \in d.arts : sel # Nil => a \in sel}
  BY DEF Restrict, Doc
<1> DEFINE once == Restrict(doc, req.articles)
<1>2. /\ once \in Doc /\ once.file = doc.file /\ once.src = doc.src
      /\ once.arts = {a \in doc.arts :
                         req.articles # Nil => a \in req.articles}
  BY <1>1
<1>3. Selected(doc, req) = Restrict(once, req.ids)
  BY DEF Selected
<1> HIDE DEF once
<1>4. /\ Selected(doc, req) \in Doc
      /\ Selected(doc, req).file = once.file
      /\ Selected(doc, req).src = once.src
      /\ Selected(doc, req).arts =
           {a \in once.arts : req.ids # Nil => a \in req.ids}
  BY <1>1, <1>2, <1>3
<1>5. Selected(doc, req).arts = Wanted(req, doc.arts)
  BY <1>2, <1>4 DEF Wanted
<1> QED
  BY <1>2, <1>4, <1>5

\* What the parser makes is a document of the bill run() was called for, or of
\* the bill the flow's text is from.
LEMMA ParsedDoc ==
  ASSUME NEW f \in Flow, f.req \in Requests
  PROVE  /\ Parsed(f) \in Doc
         /\ f.text = Nil => Parsed(f).file = f.req.file
         /\ f.text # Nil => /\ Parsed(f).file = f.text.file
                            /\ Parsed(f).src = f.text.arts
                            /\ Parsed(f).arts = f.text.arts
<1>1. f.req.file \in File
  BY FlowAssumption
<1>2. f.text \in Text \cup {Nil}
  BY DEF Flow
<1> QED
  BY <1>1, <1>2 DEF Parsed, Text, Doc

\* Marking keeps the findings and gives all of them one status.
LEMMA MarkedFindings ==
  ASSUME NEW kept \in SUBSET Finding, NEW status \in Status
  PROVE  /\ Marked(kept, status) \in SUBSET Finding
         /\ \A x \in Marked(kept, status) :
              /\ x.status = status
              /\ \E y \in kept : x.file = y.file /\ x.src = y.src
                                 /\ x.art = y.art
<1>1. \A y \in kept : LET x == [y EXCEPT !.status = status]
                      IN  /\ x \in Finding /\ x.status = status
                          /\ x.file = y.file /\ x.src = y.src
                          /\ x.art = y.art
  BY DEF Finding, Status
<1> QED
  BY <1>1 DEF Marked

\* The fields of a flow that run() has just reset.
Fresh(g, req) ==
  /\ g.pc = "run" /\ g.req = req /\ g.path = req.file
  /\ g.state = "IDLE" /\ g.text = Nil /\ g.doc = Nil
  /\ g.findings = {} /\ g.suggestions = {} /\ g.trail = <<>>
  /\ g.spent = 0

\* run() resets these fields and leaves the budget guard alone.
LEMMA ResetType ==
  ASSUME NEW f \in Flow, NEW req \in Requests, NEW hasPath \in BOOLEAN,
         NEW id \in Nat
  PROVE  LET g == Reset(f, req, hasPath, id)
         IN  g \in Flow /\ Fresh(g, req) /\ g.run = id
<1> DEFINE none == {}
           trail == <<>>
           path == req.file
           state == "IDLE"
           store == f.store \/ hasPath
           g == [f EXCEPT !.pc = "run", !.store = store, !.req = req, !.path = path, !.run = id,
                          !.state = state, !.findings = none, !.trail = trail,
                          !.doc = Nil, !.suggestions = none, !.text = Nil,
                          !.spent = 0]
<1>1. /\ none \in SUBSET Finding /\ trail \in Seq(TransitionTable)
      /\ path \in File /\ state \in WorkflowState /\ store \in BOOLEAN
  BY FlowAssumption DEF WorkflowState
<1>2. Reset(f, req, hasPath, id) = g
  BY DEF Reset
<1> HIDE DEF none, trail, path, state, store
<1>3. g \in Flow
  BY <1>1 DEF Flow
<1>4. /\ g.pc = "run" /\ g.req = req /\ g.path = path
      /\ g.state = state /\ g.text = Nil /\ g.doc = Nil
      /\ g.findings = none /\ g.suggestions = none /\ g.trail = trail
      /\ g.spent = 0 /\ g.run = id
  BY DEF Flow
<1> HIDE DEF g
<1> QED
  BY <1>2, <1>3, <1>4 DEF Fresh, path, none, trail, state

\* Restoring a checkpoint keeps the arguments of the call.
LEMMA LoadKeeps ==
  ASSUME NEW f \in Flow, NEW c \in Checkpoint
  PROVE  LET g == Load(f, c)
         IN  /\ g.pc = f.pc /\ g.store = f.store
             /\ g.req = f.req /\ g.path = f.path
             /\ g.state = c.stage /\ g.text = c.text /\ g.doc = c.doc
             /\ g.findings = c.findings /\ g.suggestions = c.suggestions
             /\ g.trail = c.trail /\ g.spent = c.spent
             /\ g.run = IF c.run = 0 THEN f.run ELSE c.run
             /\ g.used = IF GuardVisible /\ c.budget # Nil THEN c.budget ELSE f.used
BY DEF Load, Flow

\* Narrowing the restored document changes the document only; a document that
\* does not match ends the call.
LEMMA NarrowedType ==
  ASSUME NEW f \in Flow, NEW req
  PROVE  LET g == Narrowed(f, req)
         IN  /\ g \in Flow
             /\ g.store = f.store /\ g.req = f.req /\ g.path = f.path
             /\ g.run = f.run /\ g.state = f.state /\ g.text = f.text
             /\ g.findings = f.findings /\ g.suggestions = f.suggestions
             /\ g.trail = f.trail /\ g.spent = f.spent /\ g.used = f.used
             /\ g.pc \in {f.pc, "idle"}
             /\ f.doc = Nil => g.doc = Nil
             /\ f.doc # Nil => /\ g.doc \in Doc
                               /\ g.doc.file = f.doc.file
                               /\ g.doc.src = f.doc.src
                               /\ g.doc.arts \in {f.doc.arts,
                                                 Wanted(req, f.doc.arts)}
<1> DEFINE doc == Selected(f.doc, req)
<1>1. CASE f.doc = Nil
  BY <1>1 DEF Narrowed, Flow
<1>2. CASE f.doc # Nil /\ FilterMatches(f.doc, req.articles)
  <2>1. f.doc \in Doc
    BY <1>2 DEF Flow
  <2>2. /\ doc \in Doc /\ doc.file = f.doc.file /\ doc.src = f.doc.src
        /\ doc.arts = Wanted(req, f.doc.arts)
    BY <2>1, SelectedDoc
  <2>3. Narrowed(f, req) = [f EXCEPT !.doc = doc]
    BY <1>2 DEF Narrowed
  <2> HIDE DEF doc
  <2> QED
    BY <1>2, <2>2, <2>3 DEF Flow
<1>3. CASE f.doc # Nil /\ ~FilterMatches(f.doc, req.articles)
  <2>1. f.doc \in Doc
    BY <1>3 DEF Flow
  <2>2. Narrowed(f, req) = [f EXCEPT !.pc = "idle"]
    BY <1>3 DEF Narrowed, Leave
  <2> QED
    BY <1>3, <2>1, <2>2 DEF Flow
<1> QED
  BY <1>1, <1>2, <1>3

\* run() up to its first stage: a fresh flow, or a restored and narrowed one.
LEMMA RunStartCases ==
  ASSUME TypeInv, NEW r \in Runner, NEW req \in Requests, RunStart(r, req)
  PROVE  \E fresh \in Flow, g \in Flow :
           /\ Fresh(fresh, req) /\ fresh.run = calls + 1
           /\ flow' = [flow EXCEPT ![r] = g]
           /\ \/ g = fresh
              \/ /\ disk \in Checkpoint /\ Accepts(disk, req.file)
                 /\ fresh.store
                 /\ g = Narrowed(Load(fresh, disk), req)
<1>1. flow[r] \in Flow /\ calls + 1 \in Nat
  BY DEF TypeInv, TypeOK
<1>2. PICK read \in {disk, Nil}, hasPath \in BOOLEAN :
        LET fresh == Reset(flow[r], req, hasPath, calls + 1)
        IN  flow' = [flow EXCEPT ![r] =
                       IF fresh.store /\ Accepts(read, req.file)
                         THEN Narrowed(Load(fresh, read), req) ELSE fresh]
  BY DEF RunStart
<1> DEFINE fresh == Reset(flow[r], req, hasPath, calls + 1)
<1>3. /\ fresh \in Flow /\ Fresh(fresh, req) /\ fresh.run = calls + 1
      /\ flow' = [flow EXCEPT ![r] =
                    IF fresh.store /\ Accepts(read, req.file)
                      THEN Narrowed(Load(fresh, read), req) ELSE fresh]
  BY <1>1, <1>2, ResetType
<1> HIDE DEF fresh
<1>4. CASE fresh.store /\ Accepts(read, req.file)
  <2>1. read = disk /\ disk \in Checkpoint
    BY <1>4 DEF Accepts, TypeInv, TypeOK
  <2>2. Narrowed(Load(fresh, disk), req) \in Flow
    BY <1>3, <2>1, LoadType, NarrowedType
  <2> QED
    BY <1>3, <1>4, <2>1, <2>2
<1>5. CASE ~(fresh.store /\ Accepts(read, req.file))
  BY <1>3, <1>5
<1> QED
  BY <1>4, <1>5

(* ----------------------------------------------------------------------- *)
(* What the stages keep.                                                   *)

\* The outputs a run has at `stage` of the bill `file`: those of the stages
\* before (OutputsOf), all from one text of that bill, findings only from
\* AGGREGATING on and suggestions only at REPORTING.
Coherent(stage, file, text, doc, findings, suggestions) ==
  /\ OutputsOf(stage, text, doc, findings)
  /\ text # Nil => text.file = file
  /\ doc # Nil => doc.file = file
  /\ \A x \in findings : doc # Nil /\ x.file = doc.file /\ x.src = doc.src
  /\ stage \notin {"AGGREGATING", "VERIFYING", "IMPROVING", "REPORTING"} =>
       findings = {}
  /\ suggestions = IF stage = "REPORTING" THEN findings ELSE {}

\* A flow object whose run() has only such outputs.
Sound(f) ==
  /\ f.pc = "run" =>
       /\ f.path = f.req.file
       /\ Coherent(f.state, f.path, f.text, f.doc, f.findings, f.suggestions)
  /\ f.pc = "preview" => ~f.store

\* What a run works with for the request req: a text some file held, the
\* articles the request asks for of that text, and findings about those.
Picked(req, text, doc, findings) ==
  /\ text # Nil => text.arts \in Contents
  /\ doc # Nil => doc.src \in Contents /\ doc.arts = Wanted(req, doc.src)
  /\ \A x \in findings : doc # Nil /\ x.art \in doc.arts

\* A flow object whose run() works with such things, and which ended FAILED only
\* if the text has nothing the request asks for.
NothingWanted(req, doc) ==
  doc # Nil /\ doc.src \in Contents /\ Wanted(req, doc.src) = {}

Chosen(f) ==
  /\ f.pc = "run" => Picked(f.req, f.text, f.doc, f.findings)
  /\ f.state = "FAILED" => f.pc = "returned" /\ NothingWanted(f.req, f.doc)

\* Where run() returns: FAILED, without findings, or DONE with verified ones.
Ended(state, findings) ==
  \/ state = "FAILED" /\ findings = {}
  \/ state = "DONE" /\ \A x \in findings : x.status = "verified"

\* What every step of a stage does to its flow object.
StageStep(f, g) ==
  /\ g \in Flow
  /\ g.pc \in {"run", "returned"} /\ g.req = f.req /\ g.store = f.store
  /\ g.used = f.used /\ g.spent = f.spent /\ g.run = f.run
  /\ g.pc = "run" => Rank(f.state) <= Rank(g.state)
  /\ Explains(f.trail, f.state) => Explains(g.trail, g.state)
  /\ Sound(f) => /\ Sound(g)
                 /\ g.pc = "run" \/ g.state \notin ResumableStates
                 /\ g.pc = "returned" =>
                      /\ g.findings = f.findings
                      /\ Ended(g.state, g.findings)
                      /\ g.state = "DONE" => f.state = "REPORTING"
  /\ Sound(f) /\ Chosen(f) => Chosen(g)

WithOutputs(f, text, doc, findings, suggestions) ==
  [f EXCEPT !.text = text, !.doc = doc, !.findings = findings,
            !.suggestions = suggestions]

\* A row added to a trail that explains a state explains the row's target, when
\* the row leaves that state or IDLE (to which preview() resets).
LEMMA ExplainsAppend ==
  ASSUME NEW trail \in Seq(TransitionTable), NEW row \in TransitionTable,
         NEW state, Explains(trail, state), row.from \in {state, "IDLE"}
  PROVE  Explains(Append(trail, row), row.to)
<1> DEFINE longer == Append(trail, row)
<1>1. /\ Len(longer) = Len(trail) + 1 /\ Len(trail) \in Nat
      /\ \A i \in 1..Len(trail) : longer[i] = trail[i]
      /\ longer[Len(trail) + 1] = row
  OBVIOUS
<1>2. trail = <<>> <=> Len(trail) = 0
  OBVIOUS
<1>5. /\ \A i \in 1..Len(trail) :
           /\ trail[i] \in TransitionTable
           /\ \/ trail[i].from = "IDLE"
              \/ i > 1 /\ trail[i].from = trail[i-1].to
      /\ state = IF trail = <<>> THEN "IDLE" ELSE trail[Len(trail)].to
  BY DEF Explains
<1> HIDE DEF longer
<1>3. ASSUME NEW i \in 1..Len(longer)
      PROVE  /\ longer[i] \in TransitionTable
             /\ \/ longer[i].from = "IDLE"
                \/ i > 1 /\ longer[i].from = longer[i-1].to
  <2>1. CASE i \in 1..Len(trail)
    <3>1. /\ trail[i] \in TransitionTable
          /\ \/ trail[i].from = "IDLE"
             \/ i > 1 /\ trail[i].from = trail[i-1].to
      BY <1>5, <2>1
    <3>2. i > 1 => longer[i-1] = trail[i-1]
      BY <1>1, <2>1
    <3> QED
      BY <1>1, <2>1, <3>1, <3>2
  <2>2. CASE i = Len(trail) + 1
    <3>1. longer[i] = row
      BY <1>1, <2>2
    <3>2. CASE Len(trail) = 0
      BY <1>2, <1>5, <3>1, <3>2
    <3>3. CASE Len(trail) # 0
      <4>1. row.from = "IDLE" \/ row.from = trail[Len(trail)].to
        BY <1>2, <1>5, <3>3
      <4>2. i > 1 /\ longer[i-1] = trail[Len(trail)]
        BY <1>1, <2>2, <3>3
      <4> QED
        BY <3>1, <4>1, <4>2
    <3> QED
      BY <3>2, <3>3
  <2> QED
    BY <1>1, <2>1, <2>2
<1>4. longer # <<>> /\ longer[Len(longer)].to = row.to
  BY <1>1 DEF longer
<1> QED
  BY <1>3, <1>4 DEF Explains, longer

\* What is left of flow f when a stage has put its outputs into it and gone on
\* to state `to`.
Moved(f, g, pc, to, text, doc, findings, suggestions) ==
  /\ g \in Flow /\ g.pc = pc /\ g.req = f.req /\ g.path = f.path
  /\ g.store = f.store /\ g.used = f.used /\ g.spent = f.spent
  /\ g.run = f.run /\ g.state = to /\ g.text = text /\ g.doc = doc
  /\ g.findings = findings /\ g.suggestions = suggestions
  /\ Explains(f.trail, f.state) => Explains(g.trail, g.state)

\* The effect of a stage that puts new outputs into the flow and then takes a
\* row of the table.
LEMMA StageMove ==
  ASSUME NEW f \in Flow, NEW row \in TransitionTable,
         f.pc = "run", f.state = row.from,
         NEW text \in Text \cup {Nil}, NEW doc \in Doc \cup {Nil},
         NEW findings \in SUBSET Finding, NEW suggestions \in SUBSET Finding
  PROVE  LET g == Advance(WithOutputs(f, text, doc, findings, suggestions),
                          row.event)
         IN  /\ Moved(f, g, "run", row.to, text, doc, findings, suggestions)
             /\ Moved(f, Return(g), "returned", row.to, text, doc, findings,
                      suggestions)
             /\ Pass(WithOutputs(f, text, doc, findings, suggestions),
                  row.event) = g
<1> DEFINE w == WithOutputs(f, text, doc, findings, suggestions)
           g == Advance(w, row.event)
           longer == Append(f.trail, row)
<1>1. /\ w \in Flow /\ w.pc = "run" /\ w.req = f.req /\ w.path = f.path
      /\ w.store = f.store /\ w.used = f.used /\ w.spent = f.spent
      /\ w.run = f.run /\ w.state = row.from /\ w.trail = f.trail /\ w.text = text
      /\ w.doc = doc /\ w.findings = findings /\ w.suggestions = suggestions
  BY DEF WithOutputs, Flow
<1>2. /\ Transition(row.from, row.event) = row.to
      /\ row.to \in WorkflowState /\ row.to # NoState
      /\ row = Row(row.from, row.event, row.to)
  BY TransitionOfRow, RowTypes, NoStateIsNoState
<1>3. longer \in Seq(TransitionTable)
  BY DEF Flow
<1> HIDE DEF w
<1>4. g = [w EXCEPT !.state = row.to, !.trail = longer]
  BY <1>1, <1>2 DEF Advance
<1>5. Explains(f.trail, f.state) => Explains(longer, row.to)
  BY ExplainsAppend DEF Flow
<1> HIDE DEF longer, g
<1>6. /\ g \in Flow /\ g.pc = "run" /\ g.req = f.req /\ g.path = f.path
      /\ g.store = f.store /\ g.used = f.used /\ g.spent = f.spent
      /\ g.run = f.run /\ g.state = row.to /\ g.trail = longer
      /\ g.text = text
      /\ g.doc = doc /\ g.findings = findings /\ g.suggestions = suggestions
  <2>1. g.state = row.to /\ g.trail = longer
    BY <1>1, <1>4 DEF Flow
  <2>2. g \in Flow
    BY <1>1, <1>2, <1>3, <1>4 DEF Flow
  <2> QED
    BY <1>1, <1>4, <2>1, <2>2 DEF Flow
<1>7. /\ Return(g) \in Flow /\ Return(g).pc = "returned" /\ Return(g).req = f.req
      /\ Return(g).path = f.path /\ Return(g).store = f.store
      /\ Return(g).used = f.used /\ Return(g).spent = f.spent
      /\ Return(g).run = f.run
      /\ Return(g).state = row.to /\ Return(g).trail = longer
      /\ Return(g).text = text /\ Return(g).doc = doc
      /\ Return(g).findings = findings /\ Return(g).suggestions = suggestions
  BY <1>6 DEF Return, Flow
<1>8. Moved(f, g, "run", row.to, text, doc, findings, suggestions)
  BY <1>5, <1>6 DEF Moved
<1>9. Moved(f, Return(g), "returned", row.to, text, doc, findings, suggestions)
  BY <1>5, <1>7 DEF Moved
<1>10. Pass(w, row.event) = Advance(w, row.event)
  BY <1>1, <1>2 DEF Pass
<1> QED
  BY <1>8, <1>9, <1>10 DEF g, w

\* Where the stages stand in Order.
LEMMA Ranks ==
  /\ Rank("IDLE") = 1 /\ Rank("PREVIEWING") = 2 /\ Rank("INGESTING") = 3
  /\ Rank("PARSING") = 4 /\ Rank("PLANNING") = 5 /\ Rank("EXECUTING") = 6
  /\ Rank("AGGREGATING") = 7 /\ Rank("VERIFYING") = 8
  /\ Rank("IMPROVING") = 9 /\ Rank("REPORTING") = 10
  /\ Rank("DONE") = 11 /\ Rank("FAILED") = 12
<1>1. Len(Order) = 12
  BY DEF Order
<1>2. /\ Order[1] = "IDLE" /\ Order[2] = "PREVIEWING"
      /\ Order[3] = "INGESTING" /\ Order[4] = "PARSING"
      /\ Order[5] = "PLANNING" /\ Order[6] = "EXECUTING"
      /\ Order[7] = "AGGREGATING" /\ Order[8] = "VERIFYING"
      /\ Order[9] = "IMPROVING" /\ Order[10] = "REPORTING"
      /\ Order[11] = "DONE" /\ Order[12] = "FAILED"
  BY DEF Order
<1>3. ASSUME NEW i \in 1..12, NEW j \in 1..12, Order[i] = Order[j]
      PROVE  i = j
  BY <1>2, <1>3
<1>4. ASSUME NEW i \in 1..12
      PROVE  Rank(Order[i]) = i
  BY <1>1, <1>3 DEF Rank
<1> QED
  BY <1>2, <1>4

LEMMA RankIsNat == \A state \in WorkflowState : Rank(state) \in Nat
BY Ranks DEF WorkflowState

\* Such a step is a StageStep when the outputs fit the new stage.
LEMMA MovedOn ==
  ASSUME NEW f, NEW g, NEW to, NEW text, NEW doc, NEW findings, NEW suggestions,
         f.pc = "run",
         Moved(f, g, "run", to, text, doc, findings, suggestions),
         Sound(f) => Coherent(to, f.path, text, doc, findings, suggestions),
         Sound(f) /\ Chosen(f) => Picked(f.req, text, doc, findings),
         to # "FAILED", Rank(f.state) <= Rank(to)
  PROVE  StageStep(f, g)
BY DEF Moved, StageStep, Sound, Chosen

\* Such a step that ends the run is one when the new state is not resumable.
LEMMA MovedOut ==
  ASSUME NEW f, NEW g, NEW to, NEW text, NEW doc, NEW findings, NEW suggestions,
         Moved(f, g, "returned", to, text, doc, findings, suggestions),
         to \notin ResumableStates,
         findings = f.findings, Sound(f) => Ended(to, findings),
         to = "DONE" => f.state = "REPORTING",
         Sound(f) /\ Chosen(f) /\ to = "FAILED" => NothingWanted(f.req, doc)
  PROVE  StageStep(f, g)
BY DEF Moved, StageStep, Sound, Chosen

(* ----------------------------------------------------------------------- *)
(* One lemma per stage action: its flow object takes a StageStep.          *)

\* The outputs a run holds are typed.
LEMMA FlowTypes ==
  ASSUME TypeInv, NEW r \in Runner
  PROVE  /\ flow[r] \in Flow
         /\ flow[r].text \in Text \cup {Nil}
         /\ flow[r].doc \in Doc \cup {Nil}
         /\ flow[r].findings \in SUBSET Finding
         /\ flow[r].suggestions \in SUBSET Finding
         /\ flow[r].pc = "run" => flow[r].req \in Requests
<1>1. flow[r] \in Flow
  BY DEF TypeInv, TypeOK
<1> QED
  BY <1>1 DEF TypeInv, ReqKnown, Flow

\* None is neither a text nor a document.
LEMMA NilIsNone == Nil \notin Text /\ Nil \notin Doc
BY FlowAssumption

\* A request names a bill.
LEMMA RequestFile == \A req \in Requests : req.file \in File
BY FlowAssumption

LEMMA IngestStartStep ==
  ASSUME TypeInv, NEW r \in Runner, IngestStart(r)
  PROVE  \E g : Become(r, g) /\ StageStep(flow[r], g)
<1> DEFINE f == flow[r]
           row == Row("IDLE", "ingest_started", "INGESTING")
           g == Pass(WithOutputs(f, f.text, f.doc, f.findings,
                                 f.suggestions), row.event)
<1>1. row \in TransitionTable /\ row.from = "IDLE" /\ row.to = "INGESTING"
      /\ row.event = "ingest_started"
  BY DEF TransitionTable, Row
<1>2. /\ f \in Flow /\ f.text \in Text \cup {Nil} /\ f.doc \in Doc \cup {Nil}
      /\ f.findings \in SUBSET Finding /\ f.suggestions \in SUBSET Finding
  BY FlowTypes
<1>3. f.pc = "run" /\ f.state = row.from
  BY <1>1 DEF IngestStart, InStage
<1> HIDE DEF f, row
<1>4. f = WithOutputs(f, f.text, f.doc, f.findings, f.suggestions)
  BY <1>2 DEF WithOutputs, Flow
<1>5. Become(r, g)
  BY <1>1, <1>4 DEF IngestStart, f
<1>6. Moved(f, g, "run", "INGESTING", f.text, f.doc, f.findings, f.suggestions)
  BY <1>1, <1>2, <1>3, StageMove
<1>7. Sound(f) => Coherent("INGESTING", f.path, f.text, f.doc, f.findings,
                           f.suggestions)
  BY <1>1, <1>3 DEF Sound, Coherent, OutputsOf, ResumableStates
<1>8. Chosen(f) => Picked(f.req, f.text, f.doc, f.findings)
  BY <1>3 DEF Chosen
<1>9. StageStep(f, g)
  BY <1>1, <1>3, <1>6, <1>7, <1>8, Ranks, MovedOn
<1> QED
  BY <1>5, <1>9 DEF f

LEMMA IngestDoneStep ==
  ASSUME TypeInv, NEW r \in Runner, IngestDone(r)
  PROVE  \E g : Become(r, g) /\ StageStep(flow[r], g)
<1> DEFINE f == flow[r]
           row == Row("INGESTING", "ingest_completed", "PARSING")
           text == [file |-> f.req.file, arts |-> content[f.req.file]]
           g == Pass(WithOutputs(f, text, f.doc, f.findings, f.suggestions),
                     row.event)
<1>1. /\ row \in TransitionTable /\ row.from = "INGESTING"
      /\ row.to = "PARSING" /\ row.event = "ingest_completed"
  BY DEF TransitionTable, Row
<1>2. /\ f \in Flow /\ f.text \in Text \cup {Nil} /\ f.doc \in Doc \cup {Nil}
      /\ f.findings \in SUBSET Finding /\ f.suggestions \in SUBSET Finding
      /\ f.pc = "run" => f.req \in Requests
  BY FlowTypes
<1>3. f.pc = "run" /\ f.state = row.from
  BY <1>1 DEF IngestDone, InStage
<1>4. /\ f.req.file \in File /\ content[f.req.file] \in Contents
      /\ content[f.req.file] \in SUBSET Article
  <2>1. f.req.file \in File
    BY <1>2, <1>3, RequestFile
  <2>2. content \in [File -> Contents]
    BY DEF TypeInv, TypeOK
  <2> HIDE DEF f
  <2>3. content[f.req.file] \in Contents
    BY <2>1, <2>2
  <2>4. Contents \subseteq SUBSET Article
    BY FlowAssumption
  <2> QED
    BY <2>1, <2>3, <2>4
<1>5. /\ text \in Text /\ text # Nil /\ text.file = f.req.file
      /\ text.arts \in Contents
  BY <1>4, NilIsNone DEF Text
<1>6. Become(r, Pass([f EXCEPT !.text = text], "ingest_completed"))
  BY DEF IngestDone
<1> HIDE DEF f, row, text
<1>7. [f EXCEPT !.text = text] =
        WithOutputs(f, text, f.doc, f.findings, f.suggestions)
  BY <1>2 DEF WithOutputs, Flow
<1>8. Become(r, g)
  BY <1>1, <1>6, <1>7
<1>9. Moved(f, g, "run", "PARSING", text, f.doc, f.findings, f.suggestions)
  BY <1>1, <1>2, <1>3, <1>5, StageMove
<1>10. Sound(f) => Coherent("PARSING", f.path, text, f.doc, f.findings,
                            f.suggestions)
  BY <1>1, <1>3, <1>5 DEF Sound, Coherent, OutputsOf, ResumableStates
<1>11. Chosen(f) => Picked(f.req, text, f.doc, f.findings)
  BY <1>3, <1>5 DEF Chosen, Picked
<1>12. StageStep(f, g)
  BY <1>1, <1>3, <1>9, <1>10, <1>11, Ranks, MovedOn
<1> QED
  BY <1>8, <1>12 DEF f

LEMMA ParseDoneStep ==
  ASSUME TypeInv, NEW r \in Runner, ParseDone(r)
  PROVE  \E g : Become(r, g) /\ StageStep(flow[r], g)
<1> DEFINE f == flow[r]
           row == Row("PARSING", "parse_completed", "PLANNING")
           doc == Selected(Parsed(f), f.req)
           g == Pass(WithOutputs(f, Nil, doc, f.findings, f.suggestions),
                     row.event)
<1>1. /\ row \in TransitionTable /\ row.from = "PARSING"
      /\ row.to = "PLANNING" /\ row.event = "parse_completed"
  BY DEF TransitionTable, Row
<1>2. /\ f \in Flow /\ f.text \in Text \cup {Nil} /\ f.doc \in Doc \cup {Nil}
      /\ f.findings \in SUBSET Finding /\ f.suggestions \in SUBSET Finding
      /\ f.pc = "run" => f.req \in Requests
  BY FlowTypes
<1>3. f.pc = "run" /\ f.state = row.from
  BY <1>1 DEF ParseDone, InStage
<1>4. /\ doc \in Doc /\ doc # Nil
      /\ f.text = Nil => doc.file = f.req.file
      /\ f.text # Nil => /\ doc.file = f.text.file
                         /\ doc.src = f.text.arts
                         /\ doc.arts = Wanted(f.req, f.text.arts)
  BY <1>2, <1>3, ParsedDoc, SelectedDoc, NilIsNone
<1>5. Become(r, Pass([f EXCEPT !.doc = doc, !.text = Nil],
                     "parse_completed"))
  BY DEF ParseDone
<1> HIDE DEF f, row, doc
<1>6. [f EXCEPT !.doc = doc, !.text = Nil] =
        WithOutputs(f, Nil, doc, f.findings, f.suggestions)
  BY <1>2 DEF WithOutputs, Flow
<1>7. Become(r, g)
  BY <1>1, <1>5, <1>6
<1>8. Moved(f, g, "run", "PLANNING", Nil, doc, f.findings, f.suggestions)
  BY <1>1, <1>2, <1>3, <1>4, StageMove
<1>9. Sound(f) => Coherent("PLANNING", f.path, Nil, doc, f.findings,
                           f.suggestions)
  BY <1>1, <1>3, <1>4 DEF Sound, Coherent, OutputsOf, ResumableStates
<1>10. Sound(f) /\ Chosen(f) => Picked(f.req, Nil, doc, f.findings)
  <2>1. Sound(f) => f.text # Nil /\ f.findings = {}
    BY <1>1, <1>3 DEF Sound, Coherent, OutputsOf, ResumableStates
  <2> QED
    BY <1>3, <1>4, <2>1 DEF Chosen, Picked
<1>11. StageStep(f, g)
  BY <1>1, <1>3, <1>8, <1>9, <1>10, Ranks, MovedOn
<1> QED
  BY <1>7, <1>11 DEF f

LEMMA PlanStep ==
  ASSUME TypeInv, NEW r \in Runner, Plan(r)
  PROVE  \E g : Become(r, g) /\ StageStep(flow[r], g)
<1> DEFINE f == flow[r]
           row == Row("PLANNING", "plan_approved", "EXECUTING")
           g == Pass(WithOutputs(f, f.text, f.doc, f.findings,
                                 f.suggestions), row.event)
<1>1. /\ row \in TransitionTable /\ row.from = "PLANNING"
      /\ row.to = "EXECUTING" /\ row.event = "plan_approved"
  BY DEF TransitionTable, Row
<1>2. /\ f \in Flow /\ f.text \in Text \cup {Nil} /\ f.doc \in Doc \cup {Nil}
      /\ f.findings \in SUBSET Finding /\ f.suggestions \in SUBSET Finding
  BY FlowTypes
<1>3. f.pc = "run" /\ f.state = row.from /\ f.doc # Nil
  BY <1>1 DEF Plan, InStage
<1> HIDE DEF f, row
<1>4. f = WithOutputs(f, f.text, f.doc, f.findings, f.suggestions)
  BY <1>2 DEF WithOutputs, Flow
<1>5. Become(r, g)
  BY <1>1, <1>4 DEF Plan, f
<1>6. Moved(f, g, "run", "EXECUTING", f.text, f.doc, f.findings, f.suggestions)
  BY <1>1, <1>2, <1>3, StageMove
<1>7. Sound(f) => Coherent("EXECUTING", f.path, f.text, f.doc, f.findings,
                           f.suggestions)
  BY <1>1, <1>3 DEF Sound, Coherent, OutputsOf, ResumableStates
<1>8. Chosen(f) => Picked(f.req, f.text, f.doc, f.findings)
  BY <1>3 DEF Chosen
<1>9. StageStep(f, g)
  BY <1>1, <1>3, <1>6, <1>7, <1>8, Ranks, MovedOn
<1> QED
  BY <1>5, <1>9 DEF f

LEMMA NothingToExecuteStep ==
  ASSUME TypeInv, NEW r \in Runner, NothingToExecute(r)
  PROVE  \E g : Become(r, g) /\ StageStep(flow[r], g)
<1> DEFINE f == flow[r]
           row == Row("EXECUTING", "execution_failed", "FAILED")
           g == Return(Advance(WithOutputs(f, f.text, f.doc, f.findings,
                                           f.suggestions), row.event))
<1>1. /\ row \in TransitionTable /\ row.from = "EXECUTING"
      /\ row.to = "FAILED" /\ row.event = "execution_failed"
  BY DEF TransitionTable, Row
<1>2. /\ f \in Flow /\ f.text \in Text \cup {Nil} /\ f.doc \in Doc \cup {Nil}
      /\ f.findings \in SUBSET Finding /\ f.suggestions \in SUBSET Finding
  BY FlowTypes
<1>3. f.pc = "run" /\ f.state = row.from /\ ~HasArticles(f.doc)
  BY <1>1 DEF NothingToExecute, InStage
<1>4. Become(r, Return(Advance(f, "execution_failed")))
  BY DEF NothingToExecute
<1> HIDE DEF f, row
<1>5. f = WithOutputs(f, f.text, f.doc, f.findings, f.suggestions)
  BY <1>2 DEF WithOutputs, Flow
<1>6. Become(r, g)
  BY <1>1, <1>4, <1>5
<1>7. Moved(f, g, "returned", "FAILED", f.text, f.doc, f.findings, f.suggestions)
  BY <1>1, <1>2, <1>3, StageMove
<1>8. Sound(f) /\ Chosen(f) => NothingWanted(f.req, f.doc)
  <2>1. Sound(f) => f.doc # Nil
    BY <1>1, <1>3 DEF Sound, Coherent, OutputsOf, ResumableStates
  <2> QED
    BY <1>3, <2>1 DEF Chosen, Picked, NothingWanted, HasArticles
<1>9. Sound(f) => Ended("FAILED", f.findings)
  BY <1>1, <1>3 DEF Sound, Coherent, Ended
<1>10. StageStep(f, g)
  BY <1>7, <1>8, <1>9, MovedOut DEF ResumableStates
<1> QED
  BY <1>6, <1>10 DEF f

LEMMA ExecuteStep ==
  ASSUME TypeInv, NEW r \in Runner, Execute(r)
  PROVE  \E g : Become(r, g) /\ StageStep(flow[r], g)
<1> DEFINE f == flow[r]
           row == Row("EXECUTING", "execution_completed", "AGGREGATING")
<1>1. /\ row \in TransitionTable /\ row.from = "EXECUTING"
      /\ row.to = "AGGREGATING" /\ row.event = "execution_completed"
  BY DEF TransitionTable, Row
<1>2. /\ f \in Flow /\ f.text \in Text \cup {Nil} /\ f.doc \in Doc \cup {Nil}
      /\ f.findings \in SUBSET Finding /\ f.suggestions \in SUBSET Finding
  BY FlowTypes
<1>3. f.pc = "run" /\ f.state = row.from /\ f.doc \in Doc
  BY <1>1, <1>2 DEF Execute, InStage, HasArticles
<1>4. PICK arts \in SUBSET f.doc.arts :
        Become(r, Pass([f EXCEPT !.findings =
                          {[file |-> f.doc.file, src |-> f.doc.src,
                            art |-> a, status |-> "raw"] : a \in arts}],
                       "execution_completed"))
  BY DEF Execute
<1> DEFINE found == {[file |-> f.doc.file, src |-> f.doc.src,
                      art |-> a, status |-> "raw"] : a \in arts}
           g == Pass(WithOutputs(f, f.text, f.doc, found, f.suggestions),
                     row.event)
<1>5. /\ found \in SUBSET Finding
      /\ \A x \in found : /\ x.file = f.doc.file /\ x.src = f.doc.src
                          /\ x.status = "raw" /\ x.art \in f.doc.arts
  <2>1. /\ f.doc.file \in File /\ f.doc.src \in SUBSET Article
        /\ f.doc.arts \in SUBSET Article
    BY <1>3 DEF Doc
  <2> QED
    BY <2>1 DEF Finding, Status
<1> HIDE DEF f, row, found
<1>6. [f EXCEPT !.findings = found] =
        WithOutputs(f, f.text, f.doc, found, f.suggestions)
  BY <1>2 DEF WithOutputs, Flow
<1>7. Become(r, g)
  BY <1>1, <1>4, <1>6 DEF found
<1>8. Moved(f, g, "run", "AGGREGATING", f.text, f.doc, found, f.suggestions)
  BY <1>1, <1>2, <1>3, <1>5, StageMove
<1>9. Sound(f) => Coherent("AGGREGATING", f.path, f.text, f.doc, found,
                           f.suggestions)
  BY <1>1, <1>3, <1>5, NilIsNone
     DEF Sound, Coherent, OutputsOf, StatusAt, ResumableStates
<1>10. Chosen(f) => Picked(f.req, f.text, f.doc, found)
  BY <1>3, <1>5, NilIsNone DEF Chosen, Picked
<1>11. StageStep(f, g)
  BY <1>1, <1>3, <1>8, <1>9, <1>10, Ranks, MovedOn
<1> QED
  BY <1>7, <1>11 DEF f

LEMMA AggregateStep ==
  ASSUME TypeInv, NEW r \in Runner, Aggregate(r)
  PROVE  \E g : Become(r, g) /\ StageStep(flow[r], g)
<1> DEFINE f == flow[r]
           row == Row("AGGREGATING", "aggregation_completed", "VERIFYING")
           status == IF UseBlackboard THEN "verified" ELSE "deduped"
<1>1. /\ row \in TransitionTable /\ row.from = "AGGREGATING"
      /\ row.to = "VERIFYING" /\ row.event = "aggregation_completed"
  BY DEF TransitionTable, Row
<1>2. /\ f \in Flow /\ f.text \in Text \cup {Nil} /\ f.doc \in Doc \cup {Nil}
      /\ f.findings \in SUBSET Finding /\ f.suggestions \in SUBSET Finding
  BY FlowTypes
<1>3. f.pc = "run" /\ f.state = row.from
  BY <1>1 DEF Aggregate, InStage
<1>4. PICK kept \in SUBSET f.findings :
        Become(r, Pass([f EXCEPT !.findings = Marked(kept, status)],
                       "aggregation_completed"))
  BY DEF Aggregate
<1> DEFINE findings == Marked(kept, status)
           g == Pass(WithOutputs(f, f.text, f.doc, findings, f.suggestions),
                     row.event)
<1>5. kept \in SUBSET Finding /\ status \in Status
  BY <1>2 DEF Status
<1> HIDE DEF f, row
<1>6. /\ findings \in SUBSET Finding
      /\ \A x \in findings :
           /\ x.status = status
           /\ \E y \in kept : x.file = y.file /\ x.src = y.src /\ x.art = y.art
  BY <1>5, MarkedFindings
<1> HIDE DEF findings
<1>7. [f EXCEPT !.findings = findings] =
        WithOutputs(f, f.text, f.doc, findings, f.suggestions)
  BY <1>2 DEF WithOutputs, Flow
<1>8. Become(r, g)
  BY <1>1, <1>4, <1>7 DEF findings
<1>9. Moved(f, g, "run", "VERIFYING", f.text, f.doc, findings, f.suggestions)
  BY <1>1, <1>2, <1>3, <1>6, StageMove
<1>10. Sound(f) => Coherent("VERIFYING", f.path, f.text, f.doc, findings,
                            f.suggestions)
  BY <1>1, <1>3, <1>4, <1>6
     DEF Sound, Coherent, OutputsOf, StatusAt, ResumableStates
<1>11. Chosen(f) => Picked(f.req, f.text, f.doc, findings)
  BY <1>3, <1>4, <1>6 DEF Chosen, Picked
<1>12. StageStep(f, g)
  BY <1>1, <1>3, <1>9, <1>10, <1>11, Ranks, MovedOn
<1> QED
  BY <1>8, <1>12 DEF f

LEMMA VerifyStep ==
  ASSUME TypeInv, NEW r \in Runner, Verify(r)
  PROVE  \E g : Become(r, g) /\ StageStep(flow[r], g)
<1> DEFINE f == flow[r]
           row == Row("VERIFYING", "verify_passed", "IMPROVING")
           Checked(kept) == IF UseBlackboard THEN kept
                                             ELSE Marked(kept, "verified")
<1>1. /\ row \in TransitionTable /\ row.from = "VERIFYING"
      /\ row.to = "IMPROVING" /\ row.event = "verify_passed"
  BY DEF TransitionTable, Row
<1>2. /\ f \in Flow /\ f.text \in Text \cup {Nil} /\ f.doc \in Doc \cup {Nil}
      /\ f.findings \in SUBSET Finding /\ f.suggestions \in SUBSET Finding
  BY FlowTypes
<1>3. f.pc = "run" /\ f.state = row.from
  BY <1>1 DEF Verify, InStage
<1>4. PICK kept \in IF UseBlackboard THEN {f.findings} ELSE SUBSET f.findings :
        Become(r, Pass([f EXCEPT !.findings = Checked(kept)],
                       "verify_passed"))
  BY DEF Verify
<1> DEFINE findings == Checked(kept)
           g == Pass(WithOutputs(f, f.text, f.doc, findings, f.suggestions),
                     row.event)
<1> HIDE DEF f, row
<1>5. kept \in SUBSET f.findings /\ kept \in SUBSET Finding
  BY <1>2, <1>4
<1>6. UseBlackboard => findings = f.findings
  BY <1>4
<1>7. ~UseBlackboard =>
        /\ findings \in SUBSET Finding
        /\ \A x \in findings : /\ x.status = "verified"
                               /\ \E y \in kept : x.file = y.file
                                                  /\ x.src = y.src
                                                  /\ x.art = y.art
  BY <1>5, MarkedFindings DEF Status
<1>8. findings \in SUBSET Finding
  BY <1>2, <1>6, <1>7
<1> HIDE DEF findings
<1>9. [f EXCEPT !.findings = findings] =
        WithOutputs(f, f.text, f.doc, findings, f.suggestions)
  BY <1>2 DEF WithOutputs, Flow
<1>10. Become(r, g)
  BY <1>1, <1>4, <1>9 DEF findings
<1>11. Moved(f, g, "run", "IMPROVING", f.text, f.doc, findings, f.suggestions)
  BY <1>1, <1>2, <1>3, <1>8, StageMove
<1>12. Sound(f) => Coherent("IMPROVING", f.path, f.text, f.doc, findings,
                            f.suggestions)
  <2>1. CASE UseBlackboard
    BY <1>1, <1>3, <1>6, <2>1
       DEF Sound, Coherent, OutputsOf, StatusAt, ResumableStates
  <2>2. CASE ~UseBlackboard
    BY <1>1, <1>3, <1>5, <1>7, <2>2
       DEF Sound, Coherent, OutputsOf, StatusAt, ResumableStates
  <2> QED
    BY <2>1, <2>2
<1>13. Chosen(f) => Picked(f.req, f.text, f.doc, findings)
  BY <1>3, <1>5, <1>6, <1>7 DEF Chosen, Picked
<1>14. StageStep(f, g)
  BY <1>1, <1>3, <1>11, <1>12, <1>13, Ranks, MovedOn
<1> QED
  BY <1>10, <1>14 DEF f

LEMMA ImproveStep ==
  ASSUME TypeInv, NEW r \in Runner, Improve(r)
  PROVE  \E g : Become(r, g) /\ StageStep(flow[r], g)
<1> DEFINE f == flow[r]
           row == Row("IMPROVING", "improvement_completed", "REPORTING")
           made == IF f.findings = {} THEN f.suggestions ELSE f.findings
           g == Pass(WithOutputs(f, f.text, f.doc, f.findings, made),
                     row.event)
<1>1. /\ row \in TransitionTable /\ row.from = "IMPROVING"
      /\ row.to = "REPORTING" /\ row.event = "improvement_completed"
  BY DEF TransitionTable, Row
<1>2. /\ f \in Flow /\ f.text \in Text \cup {Nil} /\ f.doc \in Doc \cup {Nil}
      /\ f.findings \in SUBSET Finding /\ f.suggestions \in SUBSET Finding
  BY FlowTypes
<1>3. f.pc = "run" /\ f.state = row.from
  BY <1>1 DEF Improve, InStage
<1>4. Become(r, Pass([f EXCEPT !.suggestions = made],
                     "improvement_completed"))
  BY DEF Improve
<1> HIDE DEF f, row
<1>5. /\ made \in SUBSET Finding
      /\ f.suggestions = {} => made = f.findings
  BY <1>2
<1> HIDE DEF made
<1>6. [f EXCEPT !.suggestions = made] =
        WithOutputs(f, f.text, f.doc, f.findings, made)
  BY <1>2 DEF WithOutputs, Flow
<1>7. Become(r, g)
  BY <1>1, <1>4, <1>6
<1>8. Moved(f, g, "run", "REPORTING", f.text, f.doc, f.findings, made)
  <2>1. /\ Moved(f, Advance(WithOutputs(f, f.text, f.doc, f.findings, made),
                           row.event),
                 "run", row.to, f.text, f.doc, f.findings, made)
        /\ g = Advance(WithOutputs(f, f.text, f.doc, f.findings, made), row.event)
    BY <1>1, <1>2, <1>3, <1>5, StageMove
  <2> QED
    BY <1>1, <2>1
<1>9. Sound(f) => Coherent("REPORTING", f.path, f.text, f.doc, f.findings,
                           made)
  BY <1>1, <1>3, <1>5
     DEF Sound, Coherent, OutputsOf, StatusAt, ResumableStates
<1>10. Chosen(f) => Picked(f.req, f.text, f.doc, f.findings)
  BY <1>3 DEF Chosen
<1>11. StageStep(f, g)
  BY <1>1, <1>3, <1>8, <1>9, <1>10, Ranks, MovedOn
<1> QED
  BY <1>7, <1>11 DEF f

LEMMA WriteReportsStep ==
  ASSUME TypeInv, NEW r \in Runner, WriteReports(r)
  PROVE  \E g : Become(r, g) /\ StageStep(flow[r], g)
<1> DEFINE f == flow[r]
           row == Row("REPORTING", "report_completed", "DONE")
           g == Return(Advance(WithOutputs(f, f.text, f.doc, f.findings,
                                           f.suggestions), row.event))
<1>1. /\ row \in TransitionTable /\ row.from = "REPORTING"
      /\ row.to = "DONE" /\ row.event = "report_completed"
  BY DEF TransitionTable, Row
<1>2. /\ f \in Flow /\ f.text \in Text \cup {Nil} /\ f.doc \in Doc \cup {Nil}
      /\ f.findings \in SUBSET Finding /\ f.suggestions \in SUBSET Finding
  BY FlowTypes
<1>3. f.pc = "run" /\ f.state = row.from
  BY <1>1 DEF WriteReports, InStage
<1>4. Become(r, Return(Advance(f, "report_completed")))
  BY DEF WriteReports
<1> HIDE DEF f, row
<1>5. f = WithOutputs(f, f.text, f.doc, f.findings, f.suggestions)
  BY <1>2 DEF WithOutputs, Flow
<1>6. Become(r, g)
  BY <1>1, <1>4, <1>5
<1>7. Moved(f, g, "returned", "DONE", f.text, f.doc, f.findings, f.suggestions)
  BY <1>1, <1>2, <1>3, StageMove
<1>8. Sound(f) => Ended("DONE", f.findings)
  BY <1>1, <1>3 DEF Sound, Coherent, OutputsOf, ResumableStates, StatusAt, Ended
<1>9. StageStep(f, g)
  BY <1>1, <1>3, <1>7, <1>8, MovedOut DEF ResumableStates
<1> QED
  BY <1>6, <1>9 DEF f

(* ----------------------------------------------------------------------- *)
(* One lemma per other action: what it does to the flow object.            *)

\* An exception leaves run() or preview(): only pc and the document change.
LEMMA RaiseStep ==
  ASSUME TypeInv, NEW r \in Runner,
         ParseRaises(r) \/ AwaitRaises(r) \/ PreviewRaises(r)
  PROVE  /\ \E g \in Flow :
              /\ flow' = [flow EXCEPT ![r] = g]
              /\ g.pc = "idle"
              /\ g.trail = flow[r].trail /\ g.state = flow[r].state
              /\ g.run = flow[r].run
              /\ g.used = flow[r].used /\ g.spent = flow[r].spent
         /\ UNCHANGED <<disk, content, published, calls, edits>>
<1> DEFINE f == flow[r]
<1>1. f \in Flow /\ (f.pc = "run" => f.req \in Requests)
  BY FlowTypes
<1>2. ASSUME NEW doc \in Doc \cup {Nil}
      PROVE  LET g == Leave([f EXCEPT !.doc = doc])
             IN  /\ g \in Flow /\ g.pc = "idle"
                 /\ g.trail = f.trail /\ g.state = f.state
                 /\ g.run = f.run
                 /\ g.used = f.used /\ g.spent = f.spent
  <2> DEFINE w == [f EXCEPT !.doc = doc]
  <2> HIDE DEF f
  <2>1. /\ w \in Flow /\ w.trail = f.trail /\ w.state = f.state
        /\ w.run = f.run /\ w.used = f.used /\ w.spent = f.spent
    BY <1>1 DEF Flow
  <2> HIDE DEF w
  <2>2. /\ Leave(w) \in Flow /\ Leave(w).pc = "idle"
        /\ Leave(w).trail = w.trail /\ Leave(w).state = w.state
        /\ Leave(w).run = w.run /\ Leave(w).used = w.used /\ Leave(w).spent = w.spent
    BY <2>1 DEF Leave, Flow
  <2> QED
    BY <2>1, <2>2 DEF w
<1>3. f = [f EXCEPT !.doc = f.doc] /\ f.doc \in Doc \cup {Nil}
  <2> HIDE DEF f
  <2> QED
    BY <1>1 DEF Flow
<1>4. CASE flow' = [flow EXCEPT ![r] = Leave(f)]
  <2>1. flow' = [flow EXCEPT ![r] = Leave([f EXCEPT !.doc = f.doc])]
    BY <1>3, <1>4
  <2> HIDE DEF f
  <2> QED
    BY <1>2, <1>3, <2>1 DEF f, ParseRaises, AwaitRaises, PreviewRaises
<1>5. CASE /\ f.pc = "run"
           /\ flow' = [flow EXCEPT ![r] = Leave([f EXCEPT !.doc = Parsed(f)])]
  <2>1. Parsed(f) \in Doc \cup {Nil}
    BY <1>1, <1>5, ParsedDoc
  <2> HIDE DEF f
  <2> QED
    BY <1>2, <1>5, <2>1 DEF f, ParseRaises, AwaitRaises, PreviewRaises
<1> QED
  BY <1>4, <1>5 DEF ParseRaises, AwaitRaises, PreviewRaises, InStage

\* A charged call changes the two counters only.
LEMMA ChargeStep ==
  ASSUME TypeInv, NEW r \in Runner, ChargeCall(r)
  PROVE  \E g \in Flow :
           /\ flow' = [flow EXCEPT ![r] = g]
           /\ g.pc = flow[r].pc /\ g.store = flow[r].store
           /\ g.req = flow[r].req /\ g.path = flow[r].path
           /\ g.run = flow[r].run
           /\ g.text = flow[r].text /\ g.doc = flow[r].doc
           /\ g.findings = flow[r].findings
           /\ g.suggestions = flow[r].suggestions
           /\ g.trail = flow[r].trail /\ g.state = flow[r].state
           /\ g.used = flow[r].used + 1 /\ g.spent = flow[r].spent + 1
<1> DEFINE f == flow[r]
           more == f.used + 1
           most == f.spent + 1
           g == [f EXCEPT !.used = more, !.spent = most]
<1>1. f \in Flow
  BY FlowTypes
<1>2. flow' = [flow EXCEPT ![r] = g]
  BY DEF ChargeCall, Charged
<1>3. more \in Nat /\ most \in Nat
  BY <1>1 DEF Flow
<1> HIDE DEF f, more, most
<1>4. g \in Flow
  BY <1>1, <1>3 DEF Flow
<1>5. /\ g.pc = f.pc /\ g.store = f.store /\ g.req = f.req
      /\ g.path = f.path /\ g.run = f.run /\ g.text = f.text
      /\ g.doc = f.doc
      /\ g.findings = f.findings /\ g.suggestions = f.suggestions
      /\ g.trail = f.trail /\ g.state = f.state
      /\ g.used = more /\ g.spent = most
  BY <1>1 DEF Flow
<1> HIDE DEF g
<1> QED
  BY <1>2, <1>4, <1>5 DEF f, more, most

\* Moving along the table, row or no row, keeps a trail that explains.
LEMMA AdvanceExplains ==
  ASSUME NEW f \in Flow, NEW event, NEW state,
         Explains(f.trail, state), f.state = state \/ f.state = "IDLE",
         f.state = state \/ Transition(f.state, event) # NoState
  PROVE  Explains(Advance(f, event).trail, Advance(f, event).state)
<1> DEFINE next == Transition(f.state, event)
           row == Row(f.state, event, next)
           longer == Append(f.trail, row)
<1>1. CASE next = NoState
  BY <1>1 DEF Advance
<1>2. CASE next # NoState
  <2>1. row \in TransitionTable /\ row.from = f.state /\ row.to = next
    BY <1>2, TransitionIsRow DEF Row
  <2>2. Explains(longer, next)
    BY <2>1, ExplainsAppend DEF Flow
  <2>3. Advance(f, event) = [f EXCEPT !.state = next, !.trail = longer]
    BY <1>2 DEF Advance
  <2> HIDE DEF next, row, longer
  <2>4. Advance(f, event).state = next /\ Advance(f, event).trail = longer
    BY <2>3 DEF Flow
  <2> QED
    BY <2>2, <2>4
<1> QED
  BY <1>1, <1>2

\* No event preview() fires leads to FAILED.
LEMMA NoFailure ==
  ASSUME NEW f \in Flow, f.state # "FAILED",
         NEW event \in {"preview_started", "ingest_started",
                        "ingest_completed"}
  PROVE  Advance(f, event).state # "FAILED"
<1> DEFINE next == Transition(f.state, event)
<1>1. CASE next = NoState
  BY <1>1 DEF Advance
<1>2. CASE next # NoState
  <2>1. Row(f.state, event, next) \in TransitionTable
    BY <1>2, TransitionIsRow
  <2>2. next # "FAILED"
    <3> HIDE DEF next
    <3> QED
      BY <2>1 DEF TransitionTable, Row
  <2>3. Advance(f, event).state = next
    BY <1>2 DEF Advance, Flow
  <2> QED
    BY <2>2, <2>3
<1> QED
  BY <1>1, <1>2

\* preview() goes on with the trail it finds, from IDLE.
LEMMA PreviewStartStep ==
  ASSUME TypeInv, NEW r \in Runner, PreviewStart(r)
  PROVE  \E s \in Flow, g \in Flow :
           /\ flow' = [flow EXCEPT ![r] = g]
           /\ disk' \in {disk, Saved(s), Saved(g)}
           /\ disk' # disk => flow[r].store
           /\ flow[r].store => PreviewWithStore
           /\ g.pc = "preview" /\ g.store = flow[r].store
           /\ g.state # "FAILED"
           /\ s.run = flow[r].run /\ g.run = flow[r].run
           /\ s.used = flow[r].used /\ s.spent = flow[r].spent
           /\ g.used = flow[r].used /\ g.spent = flow[r].spent
           /\ Explains(flow[r].trail, flow[r].state) =>
                Explains(s.trail, s.state) /\ Explains(g.trail, g.state)
<1> DEFINE f == flow[r]
           idle == [f EXCEPT !.pc = "preview", !.state = "IDLE"]
           s == Advance(idle, "preview_started")
           g == Advance(s, "ingest_started")
<1>1. f \in Flow
  BY FlowTypes
<1>2. /\ flow' = [flow EXCEPT ![r] = g]
      /\ disk' \in {disk, Saved(s), Saved(g)}
      /\ disk' # disk => f.store
      /\ f.store => PreviewWithStore
  BY DEF PreviewStart
<1> HIDE DEF f
<1>3. /\ idle \in Flow /\ idle.pc = "preview" /\ idle.store = f.store
      /\ idle.used = f.used /\ idle.spent = f.spent
      /\ idle.run = f.run /\ idle.state = "IDLE" /\ idle.trail = f.trail
  BY <1>1 DEF Flow, WorkflowState
<1> HIDE DEF idle
<1>4. /\ s \in Flow /\ s.pc = "preview" /\ s.store = f.store
      /\ s.used = f.used /\ s.spent = f.spent /\ s.run = f.run
      /\ s.state # "FAILED"
  <2>1. s.state # "FAILED"
    BY <1>3, NoFailure
  <2> QED
    BY <1>3, <2>1, AdvanceType, AdvanceKeeps
<1>5. Explains(f.trail, f.state) => Explains(s.trail, s.state)
  <2>1. Transition("IDLE", "preview_started") = "PREVIEWING"
    <3>1. /\ Row("IDLE", "preview_started", "PREVIEWING") \in TransitionTable
          /\ Row("IDLE", "preview_started", "PREVIEWING").from = "IDLE"
          /\ Row("IDLE", "preview_started", "PREVIEWING").event
               = "preview_started"
          /\ Row("IDLE", "preview_started", "PREVIEWING").to = "PREVIEWING"
      BY DEF TransitionTable, Row
    <3> QED
      BY <3>1, TransitionOfRow
  <2>2. Transition(idle.state, "preview_started") # NoState
    BY <1>3, <2>1 DEF NoState
  <2> QED
    BY <1>3, <2>2, AdvanceExplains
<1> HIDE DEF s
<1>6. /\ g \in Flow /\ g.pc = "preview" /\ g.store = f.store
      /\ g.used = f.used /\ g.spent = f.spent /\ g.run = f.run
      /\ g.state # "FAILED"
  <2>1. g.state # "FAILED"
    BY <1>4, NoFailure
  <2> QED
    BY <1>4, <2>1, AdvanceType, AdvanceKeeps
<1>7. Explains(s.trail, s.state) => Explains(g.trail, g.state)
  BY <1>4, AdvanceExplains
<1> HIDE DEF g
<1> QED
  BY <1>2, <1>4, <1>5, <1>6, <1>7 DEF f

\* preview() ends with a transition, whether it can parse the text or not.
LEMMA PreviewDoneStep ==
  ASSUME TypeInv, NEW r \in Runner, NEW file \in File, PreviewDone(r, file)
  PROVE  \E g \in Flow, s \in Flow :
           /\ flow' = [flow EXCEPT ![r] = g]
           /\ disk' \in {disk, Saved(s)}
           /\ flow[r].pc = "preview"
           /\ ~flow[r].store => disk' = disk
           /\ g.pc = "idle" /\ g.store = flow[r].store
           /\ flow[r].state # "FAILED" => g.state # "FAILED"
           /\ g.run = flow[r].run /\ s.run = flow[r].run
           /\ g.used = flow[r].used /\ g.spent = flow[r].spent
           /\ s.used = flow[r].used /\ s.spent = flow[r].spent
           /\ Explains(flow[r].trail, flow[r].state) =>
                Explains(g.trail, g.state) /\ Explains(s.trail, s.state)
<1> DEFINE f == Advance(flow[r], "ingest_completed")
           arts == content[file]
           doc == [file |-> file, src |-> arts, arts |-> arts]
           parsed == IF Parses(arts) THEN [f EXCEPT !.doc = doc] ELSE f
           g == Leave(parsed)
<1>1. /\ f \in Flow /\ f.store = flow[r].store
      /\ f.used = flow[r].used /\ f.spent = flow[r].spent
      /\ f.run = flow[r].run
      /\ flow[r].state # "FAILED" => f.state # "FAILED"
  BY FlowTypes, AdvanceType, AdvanceKeeps, NoFailure
<1>2. Explains(flow[r].trail, flow[r].state) => Explains(f.trail, f.state)
  BY FlowTypes, AdvanceExplains
<1>3. doc \in Doc
  <2>1. arts \in Contents
    BY DEF TypeInv, TypeOK
  <2> HIDE DEF arts
  <2>2. arts \in SUBSET Article
    BY <2>1, FlowAssumption
  <2> QED
    BY <2>2 DEF Doc
<1>4. /\ flow' = [flow EXCEPT ![r] = g] /\ flow[r].pc = "preview"
      /\ disk' \in {disk, Saved(f)} /\ (~f.store => disk' = disk)
  BY DEF PreviewDone, SaveIfStored, Save
<1> HIDE DEF f, doc, arts
<1>5. /\ parsed \in Flow /\ parsed.store = f.store
      /\ parsed.used = f.used /\ parsed.spent = f.spent
      /\ parsed.trail = f.trail /\ parsed.state = f.state
      /\ parsed.run = f.run
  BY <1>1, <1>3 DEF Flow
<1> HIDE DEF parsed
<1>6. /\ g \in Flow /\ g.pc = "idle" /\ g.store = parsed.store
      /\ g.used = parsed.used /\ g.spent = parsed.spent
      /\ g.trail = parsed.trail /\ g.state = parsed.state
      /\ g.run = parsed.run
  BY <1>5 DEF Leave, Flow
<1> HIDE DEF g
<1> QED
  BY <1>1, <1>2, <1>4, <1>5, <1>6

\* The stage actions that end in a checkpoint.
Stage(r) ==
  \/ IngestStart(r) \/ IngestDone(r) \/ ParseDone(r) \/ Plan(r)
  \/ NothingToExecute(r) \/ Execute(r) \/ Aggregate(r) \/ Verify(r)
  \/ Improve(r)

LEMMA StageSteps ==
  ASSUME TypeInv, NEW r \in Runner, Stage(r) \/ WriteReports(r)
  PROVE  /\ flow[r].pc = "run"
         /\ \E g : Become(r, g) /\ StageStep(flow[r], g)
         /\ UNCHANGED <<content, calls, edits>>
         /\ Stage(r) => UNCHANGED published
<1>1. \E g : Become(r, g) /\ StageStep(flow[r], g)
  BY IngestStartStep, IngestDoneStep, ParseDoneStep, PlanStep,
     NothingToExecuteStep, ExecuteStep, AggregateStep, VerifyStep, ImproveStep,
     WriteReportsStep DEF Stage
<1>2. /\ flow[r].pc = "run"
      /\ UNCHANGED <<content, calls, edits>>
      /\ Stage(r) => UNCHANGED published
  BY DEF Stage, WriteReports, IngestStart, IngestDone, ParseDone, Plan,
         NothingToExecute, Execute, Aggregate, Verify, Improve, InStage
<1> QED
  BY <1>1, <1>2

(* ----------------------------------------------------------------------- *)
(* Type correctness.                                                       *)

LEMMA TypeInit == Init => TypeInv
<1> SUFFICES ASSUME Init PROVE TypeInv
  OBVIOUS
<1>1. flow \in [Runner -> Flow]
  BY NewFlowType DEF Init
<1>2. \A r \in Runner : flow[r].pc = "idle"
  BY DEF Init, NewFlow
<1> QED
  BY <1>1, <1>2 DEF Init, TypeInv, TypeOK, ReqKnown

LEMMA TypeStep == TypeInv /\ [Next]_vars => TypeInv'
<1> SUFFICES ASSUME TypeInv, [Next]_vars PROVE TypeInv'
  OBVIOUS
<1>0. calls \in Nat /\ edits \in Nat /\ disk \in Checkpoint \cup {Nil}
  BY DEF TypeInv, TypeOK
<1>1. ASSUME NEW r \in Runner, NEW req \in Requests, RunStart(r, req)
      PROVE  TypeInv'
  <2>1. PICK fresh \in Flow, g \in Flow :
          /\ Fresh(fresh, req)
          /\ flow' = [flow EXCEPT ![r] = g]
          /\ \/ g = fresh
             \/ disk \in Checkpoint /\ g = Narrowed(Load(fresh, disk), req)
    BY <1>1, RunStartCases
  <2>2. fresh.req = req
    BY <2>1 DEF Fresh
  <2>3. g.req = req
    BY <2>1, <2>2, LoadType, LoadKeeps, NarrowedType
  <2>4. calls' \in Nat /\ UNCHANGED <<disk, content, published, edits>>
    BY <1>0, <1>1 DEF RunStart
  <2> QED
    BY <1>0, <2>1, <2>3, <2>4, FlowStep
<1>2. ASSUME NEW r \in Runner, Stage(r) PROVE TypeInv'
  <2>1. PICK g : Become(r, g) /\ StageStep(flow[r], g)
    BY <1>2, StageSteps
  <2>2. g \in Flow /\ g.req \in Requests
    BY <1>2, <2>1, StageSteps, FlowTypes DEF StageStep
  <2>3. UNCHANGED <<content, published, calls, edits>>
    BY <1>2, StageSteps
  <2> QED
    BY <2>1, <2>2, <2>3, BecomeStep
<1>3. ASSUME NEW r \in Runner, WriteReports(r) PROVE TypeInv'
  <2>1. PICK g : Become(r, g) /\ StageStep(flow[r], g)
    BY <1>3, StageSteps
  <2>2. g \in Flow /\ g.req \in Requests /\ flow[r].pc = "run"
    BY <1>3, <2>1, StageSteps, FlowTypes DEF StageStep
  <2>3. disk' \in Checkpoint \cup {Nil}
    BY <1>0, <2>1, <2>2, SavedType DEF Become, SaveIfStored, Save
  <2>4. flow' \in [Runner -> Flow] /\ ReqKnown'
    BY <2>1, <2>2 DEF Become, TypeInv, TypeOK, ReqKnown
  <2>5. published' \in [File -> Report \cup {Nil}]
    <3> DEFINE f == flow[r]
               report == [req |-> f.req, doc |-> f.doc, findings |-> f.findings,
                          suggestions |-> f.suggestions]
    <3>1. /\ f.req \in Requests /\ f.doc \in Doc \cup {Nil}
          /\ f.findings \in SUBSET Finding /\ f.suggestions \in SUBSET Finding
      BY <2>2, FlowTypes
    <3>2. published' = IF f.doc # Nil /\ f.findings # {}
                         THEN [published EXCEPT ![f.req.file] = report]
                         ELSE published
      BY <1>3 DEF WriteReports
    <3> HIDE DEF f
    <3>3. f.doc # Nil => report \in Report
      BY <3>1 DEF Report
    <3> HIDE DEF report
    <3> QED
      BY <3>2, <3>3 DEF TypeInv, TypeOK
  <2>6. UNCHANGED <<content, calls, edits>>
    BY <1>3, StageSteps
  <2> QED
    BY <1>0, <2>3, <2>4, <2>5, <2>6 DEF TypeInv, TypeOK
<1>4. ASSUME NEW r \in Runner,
             ParseRaises(r) \/ AwaitRaises(r) \/ PreviewRaises(r)
      PROVE  TypeInv'
  BY <1>0, <1>4, RaiseStep, FlowStep
<1>5. ASSUME NEW r \in Runner, ChargeCall(r) PROVE TypeInv'
  <2>1. PICK g \in Flow : /\ flow' = [flow EXCEPT ![r] = g]
                          /\ g.pc = flow[r].pc /\ g.req = flow[r].req
    BY <1>5, ChargeStep
  <2>2. g.pc = "run" => g.req \in Requests
    BY <2>1, FlowTypes
  <2>3. UNCHANGED <<disk, content, published, calls, edits>>
    BY <1>5 DEF ChargeCall
  <2> QED
    BY <1>0, <2>1, <2>2, <2>3, FlowStep
<1>6. ASSUME NEW r \in Runner, PreviewStart(r) PROVE TypeInv'
  <2>1. PICK s \in Flow, g \in Flow :
          /\ flow' = [flow EXCEPT ![r] = g]
          /\ disk' \in {disk, Saved(s), Saved(g)}
          /\ g.pc = "preview"
    BY <1>6, PreviewStartStep
  <2>2. disk' \in Checkpoint \cup {Nil}
    BY <1>0, <2>1, SavedType
  <2>3. calls' \in Nat /\ UNCHANGED <<content, published, edits>>
    BY <1>0, <1>6 DEF PreviewStart
  <2> QED
    BY <2>1, <2>2, <2>3, FlowStep
<1>7. ASSUME NEW r \in Runner, NEW file \in File, PreviewDone(r, file)
      PROVE  TypeInv'
  <2>1. PICK g \in Flow, s \in Flow :
          /\ flow' = [flow EXCEPT ![r] = g] /\ g.pc = "idle"
          /\ disk' \in {disk, Saved(s)}
    BY <1>7, PreviewDoneStep
  <2>2. UNCHANGED <<content, published, calls, edits>>
    BY <1>7 DEF PreviewDone
  <2>3. disk' \in Checkpoint \cup {Nil} /\ calls' \in Nat
    BY <2>1, <2>2, SavedType DEF TypeInv, TypeOK
  <2> QED
    BY <2>1, <2>2, <2>3, FlowStep
<1>8. ASSUME NEW r \in Runner, Restart(r) PROVE TypeInv'
  <2>1. PICK hasStore \in BOOLEAN : flow' = [flow EXCEPT ![r] = NewFlow(hasStore)]
    BY <1>8 DEF Restart
  <2>2. NewFlow(hasStore) \in Flow /\ NewFlow(hasStore).pc = "idle"
    BY NewFlowType DEF NewFlow
  <2>3. UNCHANGED <<disk, content, published, calls, edits>>
    BY <1>8 DEF Restart
  <2> QED
    BY <1>0, <2>1, <2>2, <2>3, FlowStep
<1>9. ASSUME NEW file \in File, EditFile(file) PROVE TypeInv'
  BY <1>9 DEF EditFile, TypeInv, TypeOK, ReqKnown
<1>10. CASE UNCHANGED vars
  BY <1>10 DEF vars, TypeInv, TypeOK, ReqKnown
<1> QED
  BY <1>1, <1>2, <1>3, <1>4, <1>5, <1>6, <1>7, <1>8, <1>9, <1>10
     DEF Next, RunStep, Stage

\* Every variable keeps its type, whatever crashes, fails to be saved or is
\* restored: a restored checkpoint in particular gives a flow run() can go on
\* with.
THEOREM TypeCorrect == Spec => []TypeOK
<1>1. Spec => []TypeInv
  BY TypeInit, TypeStep, PTL DEF Spec
<1>2. TypeInv => TypeOK
  BY DEF TypeInv
<1> QED
  BY <1>1, <1>2, PTL

(* ----------------------------------------------------------------------- *)
(* The audit trail.                                                        *)

\* Replacing one flow by one whose trail explains its state, and the
\* checkpoint by one of such a flow, keeps AuditTrail.
LEMMA AuditChange ==
  ASSUME TypeInv, AuditTrail, NEW r \in Runner, NEW g \in Flow, NEW s \in Flow,
         Explains(g.trail, g.state), Explains(s.trail, s.state),
         flow' = [flow EXCEPT ![r] = g], disk' \in {disk, Saved(s), Saved(g)}
  PROVE  AuditTrail'
<1>1. \A q \in Runner : Explains(flow'[q].trail, flow'[q].state)
  BY DEF AuditTrail, TypeInv, TypeOK
<1>2. \A f \in Flow : Saved(f).trail = f.trail /\ Saved(f).stage = f.state
  BY DEF Saved
<1>3. disk' # Nil => Explains(disk'.trail, disk'.stage)
  <2>1. CASE disk' = disk
    BY <2>1 DEF AuditTrail
  <2>2. CASE disk' \in {Saved(s), Saved(g)}
    BY <1>2, <2>2
  <2> QED
    BY <2>1, <2>2
<1> QED
  BY <1>1, <1>3 DEF AuditTrail

\* The empty trail explains IDLE.
LEMMA ExplainsNothing == Explains(<<>>, "IDLE")
BY DEF Explains

LEMMA AuditInit == Init => AuditTrail
<1> SUFFICES ASSUME Init PROVE AuditTrail
  OBVIOUS
<1>1. \A r \in Runner : flow[r].trail = <<>> /\ flow[r].state = "IDLE"
  BY DEF Init, NewFlow
<1> QED
  BY <1>1, ExplainsNothing DEF Init, AuditTrail

LEMMA AuditStep == TypeInv /\ AuditTrail /\ [Next]_vars => AuditTrail'
<1> SUFFICES ASSUME TypeInv, AuditTrail, [Next]_vars PROVE AuditTrail'
  OBVIOUS
<1>0. \A r \in Runner : Explains(flow[r].trail, flow[r].state)
  BY DEF AuditTrail
<1>1. ASSUME NEW r \in Runner, NEW req \in Requests, RunStart(r, req)
      PROVE  AuditTrail'
  <2>1. PICK fresh \in Flow, g \in Flow :
          /\ Fresh(fresh, req)
          /\ flow' = [flow EXCEPT ![r] = g]
          /\ \/ g = fresh
             \/ /\ disk \in Checkpoint /\ Accepts(disk, req.file)
                /\ g = Narrowed(Load(fresh, disk), req)
    BY <1>1, RunStartCases
  <2>2. Explains(fresh.trail, fresh.state)
    BY <2>1, ExplainsNothing DEF Fresh
  <2>3. ASSUME disk \in Checkpoint, Accepts(disk, req.file),
               g = Narrowed(Load(fresh, disk), req)
        PROVE  Explains(g.trail, g.state)
    <3>1. g.trail = disk.trail /\ g.state = disk.stage
      BY <2>3, LoadType, LoadKeeps, NarrowedType
    <3> QED
      BY <2>3, <3>1 DEF Accepts, AuditTrail
  <2>4. disk' = disk
    BY <1>1 DEF RunStart
  <2> QED
    BY <2>1, <2>2, <2>3, <2>4, AuditChange
<1>2. ASSUME NEW r \in Runner, Stage(r) \/ WriteReports(r) PROVE AuditTrail'
  <2>1. PICK g : Become(r, g) /\ StageStep(flow[r], g)
    BY <1>2, StageSteps
  <2>2. g \in Flow /\ Explains(g.trail, g.state)
    BY <1>0, <2>1 DEF StageStep
  <2>3. flow' = [flow EXCEPT ![r] = g] /\ disk' \in {disk, Saved(g)}
    BY <2>1 DEF Become, SaveIfStored, Save
  <2> QED
    BY <2>2, <2>3, AuditChange
<1>3. ASSUME NEW r \in Runner,
             ParseRaises(r) \/ AwaitRaises(r) \/ PreviewRaises(r)
      PROVE  AuditTrail'
  <2>1. PICK g \in Flow : /\ flow' = [flow EXCEPT ![r] = g]
                          /\ g.trail = flow[r].trail /\ g.state = flow[r].state
                          /\ disk' = disk
    BY <1>3, RaiseStep
  <2> QED
    BY <1>0, <2>1, AuditChange
<1>4. ASSUME NEW r \in Runner, ChargeCall(r) PROVE AuditTrail'
  <2>1. PICK g \in Flow : /\ flow' = [flow EXCEPT ![r] = g]
                          /\ g.trail = flow[r].trail /\ g.state = flow[r].state
    BY <1>4, ChargeStep
  <2>2. disk' = disk
    BY <1>4 DEF ChargeCall
  <2> QED
    BY <1>0, <2>1, <2>2, AuditChange
<1>5. ASSUME NEW r \in Runner, PreviewStart(r) PROVE AuditTrail'
  <2>1. PICK s \in Flow, g \in Flow :
          /\ flow' = [flow EXCEPT ![r] = g]
          /\ disk' \in {disk, Saved(s), Saved(g)}
          /\ Explains(flow[r].trail, flow[r].state) =>
               Explains(s.trail, s.state) /\ Explains(g.trail, g.state)
    BY <1>5, PreviewStartStep
  <2> QED
    BY <1>0, <2>1, AuditChange
<1>6. ASSUME NEW r \in Runner, NEW file \in File, PreviewDone(r, file)
      PROVE  AuditTrail'
  <2>1. PICK g \in Flow, s \in Flow :
          /\ flow' = [flow EXCEPT ![r] = g] /\ disk' \in {disk, Saved(s)}
          /\ Explains(flow[r].trail, flow[r].state) =>
               Explains(g.trail, g.state) /\ Explains(s.trail, s.state)
    BY <1>6, PreviewDoneStep
  <2> QED
    BY <1>0, <2>1, AuditChange
<1>7. ASSUME NEW r \in Runner, Restart(r) PROVE AuditTrail'
  <2>1. PICK hasStore \in BOOLEAN : flow' = [flow EXCEPT ![r] = NewFlow(hasStore)]
    BY <1>7 DEF Restart
  <2>2. /\ NewFlow(hasStore) \in Flow
        /\ Explains(NewFlow(hasStore).trail, NewFlow(hasStore).state)
    BY NewFlowType, ExplainsNothing DEF NewFlow
  <2>3. disk' = disk
    BY <1>7 DEF Restart
  <2> QED
    BY <2>1, <2>2, <2>3, AuditChange
<1>8. CASE UNCHANGED <<flow, disk>>
  BY <1>8 DEF AuditTrail
<1>9. ASSUME NEW file \in File, EditFile(file) PROVE UNCHANGED <<flow, disk>>
  BY <1>9 DEF EditFile
<1> QED
  BY <1>1, <1>2, <1>3, <1>4, <1>5, <1>6, <1>7, <1>8, <1>9
     DEF Next, RunStep, Stage, vars

\* The audit trail of every flow object, and of the checkpoint a crash leaves
\* behind, is a path of the transition table to the state it stands for, for
\* any number of runs, previews, crashes and processes on the one file.
THEOREM AuditTrailSound == Spec => []AuditTrail
<1>1. Init => TypeInv /\ AuditTrail
  BY TypeInit, AuditInit
<1>2. TypeInv /\ AuditTrail /\ [Next]_vars => (TypeInv /\ AuditTrail)'
  BY TypeStep, AuditStep
<1> QED
  BY <1>1, <1>2, PTL DEF Spec

(* ----------------------------------------------------------------------- *)
(* The budget across crashes.                                              *)

\* With a guard the flow can see, no counter is ever below what the run was
\* charged, neither in an object nor in the checkpoint.
SpendInv ==
  /\ \A r \in Runner : flow[r].used >= flow[r].spent
  /\ disk # Nil => disk.budget \in Nat /\ disk.budget >= disk.spent

LEMMA SpendChange ==
  ASSUME GuardVisible, TypeInv, SpendInv, NEW r \in Runner,
         NEW g \in Flow, NEW s \in Flow, g.used >= g.spent, s.used >= s.spent,
         flow' = [flow EXCEPT ![r] = g], disk' \in {disk, Saved(s), Saved(g)}
  PROVE  SpendInv'
<1>1. \A q \in Runner : flow'[q].used >= flow'[q].spent
  BY DEF SpendInv, TypeInv, TypeOK
<1>2. \A f \in Flow : /\ Saved(f).budget = f.used /\ Saved(f).spent = f.spent
                      /\ f.used \in Nat
  BY GuardVisible DEF Saved, Flow
<1>3. disk' # Nil => disk'.budget \in Nat /\ disk'.budget >= disk'.spent
  <2>1. CASE disk' = disk
    BY <2>1 DEF SpendInv
  <2>2. CASE disk' \in {Saved(s), Saved(g)}
    BY <1>2, <2>2
  <2> QED
    BY <2>1, <2>2
<1> QED
  BY <1>1, <1>3 DEF SpendInv

LEMMA SpendStep ==
  ASSUME GuardVisible
  PROVE  TypeInv /\ SpendInv /\ [Next]_vars => SpendInv'
<1> SUFFICES ASSUME TypeInv, SpendInv, [Next]_vars PROVE SpendInv'
  OBVIOUS
<1>0. \A r \in Runner : flow[r].used >= flow[r].spent
  BY DEF SpendInv
<1>1. ASSUME NEW r \in Runner, NEW req \in Requests, RunStart(r, req)
      PROVE  SpendInv'
  <2>1. PICK fresh \in Flow, g \in Flow :
          /\ Fresh(fresh, req)
          /\ flow' = [flow EXCEPT ![r] = g]
          /\ \/ g = fresh
             \/ /\ disk \in Checkpoint /\ Accepts(disk, req.file)
                /\ g = Narrowed(Load(fresh, disk), req)
    BY <1>1, RunStartCases
  <2>2. fresh.used >= fresh.spent
    BY <2>1 DEF Flow, Fresh
  <2>3. ASSUME disk \in Checkpoint, Accepts(disk, req.file),
               g = Narrowed(Load(fresh, disk), req)
        PROVE  g.used >= g.spent
    <3>1. disk # Nil
      BY <2>3 DEF Accepts
    <3>2. disk.budget \in Nat /\ disk.budget >= disk.spent
      BY <3>1 DEF SpendInv
    <3>3. disk.budget # Nil
      BY <3>2, FlowAssumption
    <3>4. g.used = disk.budget /\ g.spent = disk.spent
      BY <2>3, <3>3, GuardVisible, LoadType, LoadKeeps, NarrowedType
    <3> QED
      BY <3>2, <3>4
  <2>4. disk' = disk
    BY <1>1 DEF RunStart
  <2> QED
    BY <2>1, <2>2, <2>3, <2>4, SpendChange
<1>2. ASSUME NEW r \in Runner, Stage(r) \/ WriteReports(r) PROVE SpendInv'
  <2>1. PICK g : Become(r, g) /\ StageStep(flow[r], g)
    BY <1>2, StageSteps
  <2>2. g \in Flow /\ g.used >= g.spent
    BY <1>0, <2>1 DEF StageStep
  <2>3. flow' = [flow EXCEPT ![r] = g] /\ disk' \in {disk, Saved(g)}
    BY <2>1 DEF Become, SaveIfStored, Save
  <2> QED
    BY <2>2, <2>3, SpendChange
<1>3. ASSUME NEW r \in Runner,
             ParseRaises(r) \/ AwaitRaises(r) \/ PreviewRaises(r)
      PROVE  SpendInv'
  <2>1. PICK g \in Flow : /\ flow' = [flow EXCEPT ![r] = g]
                          /\ g.used = flow[r].used /\ g.spent = flow[r].spent
                          /\ disk' = disk
    BY <1>3, RaiseStep
  <2> QED
    BY <1>0, <2>1, SpendChange
<1>4. ASSUME NEW r \in Runner, ChargeCall(r) PROVE SpendInv'
  <2>1. PICK g \in Flow :
          /\ flow' = [flow EXCEPT ![r] = g]
          /\ g.used = flow[r].used + 1 /\ g.spent = flow[r].spent + 1
    BY <1>4, ChargeStep
  <2>2. g.used >= g.spent
    <3>1. flow[r].used \in Nat /\ flow[r].spent \in Nat
      BY FlowTypes DEF Flow
    <3> QED
      BY <1>0, <2>1, <3>1
  <2>3. disk' = disk
    BY <1>4 DEF ChargeCall
  <2> QED
    BY <2>1, <2>2, <2>3, SpendChange
<1>5. ASSUME NEW r \in Runner, PreviewStart(r) PROVE SpendInv'
  <2>1. PICK s \in Flow, g \in Flow :
          /\ flow' = [flow EXCEPT ![r] = g]
          /\ disk' \in {disk, Saved(s), Saved(g)}
          /\ s.used = flow[r].used /\ s.spent = flow[r].spent
          /\ g.used = flow[r].used /\ g.spent = flow[r].spent
    BY <1>5, PreviewStartStep
  <2> QED
    BY <1>0, <2>1, SpendChange
<1>6. ASSUME NEW r \in Runner, NEW file \in File, PreviewDone(r, file)
      PROVE  SpendInv'
  <2>1. PICK g \in Flow, s \in Flow :
          /\ flow' = [flow EXCEPT ![r] = g] /\ disk' \in {disk, Saved(s)}
          /\ g.used = flow[r].used /\ g.spent = flow[r].spent
          /\ s.used = flow[r].used /\ s.spent = flow[r].spent
    BY <1>6, PreviewDoneStep
  <2> QED
    BY <1>0, <2>1, SpendChange
<1>7. ASSUME NEW r \in Runner, Restart(r) PROVE SpendInv'
  <2>1. PICK hasStore \in BOOLEAN : flow' = [flow EXCEPT ![r] = NewFlow(hasStore)]
    BY <1>7 DEF Restart
  <2>2. /\ NewFlow(hasStore) \in Flow
        /\ NewFlow(hasStore).used >= NewFlow(hasStore).spent
    BY NewFlowType DEF NewFlow
  <2>3. disk' = disk
    BY <1>7 DEF Restart
  <2> QED
    BY <2>1, <2>2, <2>3, SpendChange
<1>8. CASE UNCHANGED <<flow, disk>>
  BY <1>8 DEF SpendInv
<1>9. ASSUME NEW file \in File, EditFile(file) PROVE UNCHANGED <<flow, disk>>
  BY <1>9 DEF EditFile
<1> QED
  BY <1>1, <1>2, <1>3, <1>4, <1>5, <1>6, <1>7, <1>8, <1>9
     DEF Next, RunStep, Stage, vars

\* If the flow can see the budget guard, a crash and a resume never lose spend:
\* the guard counts at least what the run was charged up to its last
\* checkpoint.  (run flow_budget_lost shows the guard the container builds
\* cannot be seen.)
THEOREM SpendIsKept ==
  ASSUME GuardVisible
  PROVE  Spec => []SpendSurvives
<1>1. Init => TypeInv /\ SpendInv
  <2> SUFFICES ASSUME Init PROVE SpendInv
    BY TypeInit
  <2>1. \A r \in Runner : flow[r].used = 0 /\ flow[r].spent = 0
    BY DEF Init, NewFlow
  <2> QED
    BY <2>1 DEF Init, SpendInv
<1>2. TypeInv /\ SpendInv /\ [Next]_vars => (TypeInv /\ SpendInv)'
  BY GuardVisible, TypeStep, SpendStep
<1>3. SpendInv => SpendSurvives
  BY DEF SpendInv, SpendSurvives
<1> QED
  BY <1>1, <1>2, <1>3, PTL DEF Spec

(* ----------------------------------------------------------------------- *)
(* What a stage works with, across crashes and resumes.                    *)

\* A checkpoint run() can resume has the outputs its stage needs, all of the
\* bill it is for.
SoundCheckpoint(c) ==
  c.stage \in ResumableStates =>
    /\ c.file \in File
    /\ Coherent(c.stage, c.file, c.text, c.doc, c.findings, c.suggestions)

\* The inductive invariant behind the four properties: every flow object is
\* Sound, so is the checkpoint, and so are the reports.
Coherence ==
  /\ \A r \in Runner : Sound(flow[r])
  /\ disk # Nil => SoundCheckpoint(disk)
  /\ PublishedSound

\* A sound flow that has just gone on to its next stage, or ended, saves a sound
\* checkpoint.
LEMMA SavedSound ==
  ASSUME NEW g \in Flow, Sound(g), g.pc = "run" => g.req \in Requests,
         g.pc = "run" \/ g.state \notin ResumableStates
  PROVE  SoundCheckpoint(Saved(g))
<1>1. /\ Saved(g).stage = g.state /\ Saved(g).file = g.path
      /\ Saved(g).text = g.text /\ Saved(g).doc = g.doc
      /\ Saved(g).findings = g.findings
      /\ Saved(g).suggestions = g.suggestions
  BY DEF Saved
<1>2. g.pc = "run" => g.path \in File
  BY RequestFile DEF Sound
<1> QED
  BY <1>1, <1>2 DEF SoundCheckpoint, Sound

\* Replacing one flow by a sound one, with the checkpoint as it was, keeps
\* Coherence.
LEMMA SoundChange ==
  ASSUME TypeInv, Coherence, NEW r \in Runner, NEW g \in Flow, Sound(g),
         flow' = [flow EXCEPT ![r] = g], UNCHANGED <<disk, published>>
  PROVE  Coherence'
<1>1. \A q \in Runner : Sound(flow'[q])
  BY DEF Coherence, TypeInv, TypeOK
<1>2. PublishedSound'
  BY DEF Coherence, PublishedSound
<1> QED
  BY <1>1, <1>2 DEF Coherence

\* A stage leaves a sound flow and a sound checkpoint.
LEMMA SoundStage ==
  ASSUME TypeInv, Coherence, NEW r \in Runner, Stage(r) \/ WriteReports(r)
  PROVE  /\ \A q \in Runner : Sound(flow'[q])
         /\ disk' # Nil => SoundCheckpoint(disk')
<1>1. PICK g : Become(r, g) /\ StageStep(flow[r], g)
  BY StageSteps
<1>2. /\ g \in Flow /\ Sound(g) /\ g.req \in Requests
      /\ g.pc = "run" \/ g.state \notin ResumableStates
  BY <1>1, StageSteps, FlowTypes DEF StageStep, Coherence
<1>3. flow' = [flow EXCEPT ![r] = g] /\ disk' \in {disk, Saved(g)}
  BY <1>1 DEF Become, SaveIfStored, Save
<1>4. \A q \in Runner : Sound(flow'[q])
  BY <1>2, <1>3 DEF Coherence, TypeInv, TypeOK
<1>5. SoundCheckpoint(Saved(g))
  BY <1>2, SavedSound
<1> QED
  BY <1>3, <1>4, <1>5 DEF Coherence

\* What the last stage publishes is what a sound flow at REPORTING holds.
LEMMA SoundReports ==
  ASSUME TypeInv, Coherence, NEW r \in Runner, WriteReports(r)
  PROVE  PublishedSound'
<1> DEFINE f == flow[r]
           report == [req |-> f.req, doc |-> f.doc, findings |-> f.findings,
                      suggestions |-> f.suggestions]
<1>1. f.pc = "run" /\ f.state = "REPORTING" /\ Sound(f) /\ f \in Flow
  BY FlowTypes DEF WriteReports, InStage, Coherence
<1>2. /\ f.path = f.req.file
      /\ Coherent("REPORTING", f.path, f.text, f.doc, f.findings, f.suggestions)
  BY <1>1 DEF Sound
<1>3. /\ f.suggestions = f.findings
      /\ \A x \in f.findings : /\ x.status = "verified"
                               /\ x.file = f.req.file
                               /\ x.src = f.doc.src
  BY <1>2 DEF Coherent, OutputsOf, StatusAt, ResumableStates
<1>4. published' = IF f.doc # Nil /\ f.findings # {}
                     THEN [published EXCEPT ![f.req.file] = report]
                     ELSE published
  BY DEF WriteReports
<1> HIDE DEF f
<1>5. /\ report.suggestions = report.findings
      /\ \A x \in report.findings : /\ x.status = "verified"
                                    /\ x.file = f.req.file
                                    /\ x.src = report.doc.src
  BY <1>3
<1> HIDE DEF report
<1>6. ASSUME NEW file \in File, published'[file] # Nil
      PROVE  LET p == published'[file]
             IN  /\ p.suggestions = p.findings
                 /\ \A x \in p.findings : /\ x.status = "verified"
                                          /\ x.file = file
                                          /\ x.src = p.doc.src
  <2>1. \/ published'[file] = published[file]
        \/ published'[file] = report /\ file = f.req.file
    BY <1>4 DEF TypeInv, TypeOK
  <2>2. CASE published'[file] = published[file]
    BY <1>6, <2>2 DEF Coherence, PublishedSound
  <2>3. CASE published'[file] = report /\ file = f.req.file
    BY <1>5, <2>3
  <2> QED
    BY <2>1, <2>2, <2>3
<1> QED
  BY <1>6 DEF PublishedSound

\* A flow that has just been reset, or restored from a sound checkpoint of the
\* same bill and narrowed, is sound.
LEMMA SoundStart ==
  ASSUME TypeInv, Coherence, NEW r \in Runner, NEW req \in Requests,
         NEW fresh \in Flow, NEW g \in Flow,
         Fresh(fresh, req),
         \/ g = fresh
         \/ /\ disk \in Checkpoint /\ Accepts(disk, req.file)
            /\ g = Narrowed(Load(fresh, disk), req)
  PROVE  Sound(g)
<1>2. /\ fresh.pc = "run" /\ fresh.req = req /\ fresh.path = req.file
      /\ fresh.state = "IDLE" /\ fresh.text = Nil /\ fresh.doc = Nil
      /\ fresh.findings = {} /\ fresh.suggestions = {}
  BY DEF Fresh
<1>3. CASE g = fresh
  <2>1. Coherent("IDLE", req.file, Nil, Nil, {}, {})
    BY DEF Coherent, OutputsOf, ResumableStates
  <2> QED
    BY <1>2, <1>3, <2>1 DEF Sound
<1>4. CASE /\ disk \in Checkpoint /\ Accepts(disk, req.file)
           /\ g = Narrowed(Load(fresh, disk), req)
  <2>1. /\ disk # Nil /\ disk.stage \in ResumableStates
        /\ disk.file \in {Nil, req.file}
    BY <1>4 DEF Accepts
  <2>2. /\ disk.file = req.file
        /\ Coherent(disk.stage, disk.file, disk.text, disk.doc, disk.findings,
                    disk.suggestions)
    BY <2>1, FlowAssumption DEF Coherence, SoundCheckpoint
  <2> DEFINE l == Load(fresh, disk)
  <2>3. /\ l \in Flow /\ l.pc = "run" /\ l.req = req /\ l.path = req.file
        /\ l.state = disk.stage /\ l.text = disk.text /\ l.doc = disk.doc
        /\ l.findings = disk.findings /\ l.suggestions = disk.suggestions
    BY <1>2, <1>4, LoadType, LoadKeeps
  <2> HIDE DEF l
  <2>4. /\ g.req = l.req /\ g.path = l.path /\ g.state = l.state
        /\ g.text = l.text /\ g.findings = l.findings
        /\ g.suggestions = l.suggestions /\ g.pc \in {"run", "idle"}
        /\ l.doc = Nil => g.doc = Nil
        /\ l.doc # Nil => /\ g.doc \in Doc /\ g.doc.file = l.doc.file
                          /\ g.doc.src = l.doc.src
    BY <1>4, <2>3, NarrowedType DEF l
  <2>5. g.doc = Nil <=> l.doc = Nil
    BY <2>4, NilIsNone
  <2>6. Coherent(g.state, g.path, g.text, g.doc, g.findings, g.suggestions)
    BY <2>2, <2>3, <2>4, <2>5 DEF Coherent, OutputsOf
  <2> QED
    BY <2>3, <2>4, <2>6 DEF Sound
<1> QED
  BY <1>3, <1>4

LEMMA CoherenceInit == Init => Coherence
<1> SUFFICES ASSUME Init PROVE Coherence
  OBVIOUS
<1>1. \A r \in Runner : flow[r].pc = "idle"
  BY DEF Init, NewFlow
<1> QED
  BY <1>1 DEF Init, Coherence, Sound, PublishedSound

LEMMA CoherenceStep ==
  ASSUME ~PreviewWithStore
  PROVE  TypeInv /\ Coherence /\ [Next]_vars => Coherence'
<1> SUFFICES ASSUME TypeInv, Coherence, [Next]_vars PROVE Coherence'
  OBVIOUS
<1>1. ASSUME NEW r \in Runner, NEW req \in Requests, RunStart(r, req)
      PROVE  Coherence'
  <2>1. PICK fresh \in Flow, g \in Flow :
          /\ Fresh(fresh, req)
          /\ flow' = [flow EXCEPT ![r] = g]
          /\ \/ g = fresh
             \/ /\ disk \in Checkpoint /\ Accepts(disk, req.file)
                /\ g = Narrowed(Load(fresh, disk), req)
    BY <1>1, RunStartCases
  <2>2. Sound(g)
    BY <2>1, SoundStart
  <2>3. UNCHANGED <<disk, published>>
    BY <1>1 DEF RunStart
  <2> QED
    BY <2>1, <2>2, <2>3, SoundChange
<1>2. ASSUME NEW r \in Runner, Stage(r) PROVE Coherence'
  <2>1. published' = published
    BY <1>2, StageSteps
  <2>2. PublishedSound'
    BY <2>1 DEF Coherence, PublishedSound
  <2> QED
    BY <1>2, <2>2, SoundStage DEF Coherence
<1>3. ASSUME NEW r \in Runner, WriteReports(r) PROVE Coherence'
  BY <1>3, SoundStage, SoundReports DEF Coherence
<1>4. ASSUME NEW r \in Runner,
             ParseRaises(r) \/ AwaitRaises(r) \/ PreviewRaises(r)
      PROVE  Coherence'
  <2>1. PICK g \in Flow : flow' = [flow EXCEPT ![r] = g] /\ g.pc = "idle"
    BY <1>4, RaiseStep
  <2>2. Sound(g)
    BY <2>1 DEF Sound
  <2>3. UNCHANGED <<disk, published>>
    BY <1>4, RaiseStep
  <2> QED
    BY <2>1, <2>2, <2>3, SoundChange
<1>5. ASSUME NEW r \in Runner, ChargeCall(r) PROVE Coherence'
  <2>1. PICK g \in Flow :
          /\ flow' = [flow EXCEPT ![r] = g]
          /\ g.pc = flow[r].pc /\ g.store = flow[r].store
          /\ g.req = flow[r].req /\ g.path = flow[r].path
          /\ g.text = flow[r].text /\ g.doc = flow[r].doc
          /\ g.findings = flow[r].findings
          /\ g.suggestions = flow[r].suggestions /\ g.state = flow[r].state
    BY <1>5, ChargeStep
  <2>2. Sound(g)
    <3>1. Sound(flow[r])
      BY DEF Coherence
    <3> QED
      BY <2>1, <3>1 DEF Sound
  <2>3. UNCHANGED <<disk, published>>
    BY <1>5 DEF ChargeCall
  <2> QED
    BY <2>1, <2>2, <2>3, SoundChange
<1>6. ASSUME NEW r \in Runner, PreviewStart(r) PROVE Coherence'
  <2>1. PICK s \in Flow, g \in Flow :
          /\ flow' = [flow EXCEPT ![r] = g]
          /\ disk' # disk => flow[r].store
          /\ flow[r].store => PreviewWithStore
          /\ g.pc = "preview" /\ g.store = flow[r].store
    BY <1>6, PreviewStartStep
  <2>2. disk' = disk /\ ~g.store
    BY <2>1, ~PreviewWithStore
  <2>3. Sound(g)
    BY <2>1, <2>2 DEF Sound
  <2>4. published' = published
    BY <1>6 DEF PreviewStart
  <2> QED
    BY <2>1, <2>2, <2>3, <2>4, SoundChange
<1>7. ASSUME NEW r \in Runner, NEW file \in File, PreviewDone(r, file)
      PROVE  Coherence'
  <2>1. PICK g \in Flow :
          /\ flow' = [flow EXCEPT ![r] = g] /\ flow[r].pc = "preview"
          /\ ~flow[r].store => disk' = disk
          /\ g.pc = "idle"
    BY <1>7, PreviewDoneStep
  <2>2. ~flow[r].store
    BY <2>1 DEF Coherence, Sound
  <2>3. flow' = [flow EXCEPT ![r] = g] /\ disk' = disk
    BY <2>1, <2>2
  <2>4. Sound(g) /\ published' = published
    BY <1>7, <2>1 DEF Sound, PreviewDone
  <2> QED
    BY <2>3, <2>4, SoundChange
<1>8. ASSUME NEW r \in Runner, Restart(r) PROVE Coherence'
  <2>1. PICK hasStore \in BOOLEAN : flow' = [flow EXCEPT ![r] = NewFlow(hasStore)]
    BY <1>8 DEF Restart
  <2>2. NewFlow(hasStore) \in Flow /\ Sound(NewFlow(hasStore))
    BY NewFlowType DEF NewFlow, Sound
  <2>3. UNCHANGED <<disk, published>>
    BY <1>8 DEF Restart
  <2> QED
    BY <2>1, <2>2, <2>3, SoundChange
<1>9. CASE UNCHANGED <<flow, disk, published>>
  BY <1>9 DEF Coherence, PublishedSound
<1>10. ASSUME NEW file \in File, EditFile(file)
       PROVE  UNCHANGED <<flow, disk, published>>
  BY <1>10 DEF EditFile
<1> QED
  BY <1>1, <1>2, <1>3, <1>4, <1>5, <1>6, <1>7, <1>8, <1>9, <1>10
     DEF Next, RunStep, Stage, vars

LEMMA CoherenceHolds ==
  ASSUME ~PreviewWithStore
  PROVE  Spec => []Coherence
<1>1. Init => TypeInv /\ Coherence
  BY TypeInit, CoherenceInit
<1>2. TypeInv /\ Coherence /\ [Next]_vars => (TypeInv /\ Coherence)'
  BY ~PreviewWithStore, TypeStep, CoherenceStep
<1> QED
  BY <1>1, <1>2, PTL DEF Spec

\* Where preview() is called on flows without a store only (as the CLI does),
\* every resumable checkpoint holds the outputs of all prior stages.
THEOREM CheckpointsComplete ==
  ASSUME ~PreviewWithStore
  PROVE  Spec => []CheckpointComplete
<1>1. Coherence => CheckpointComplete
  BY DEF Coherence, SoundCheckpoint, Coherent, CheckpointComplete, OutputsOf,
         ResumableStates
<1> QED
  BY <1>1, ~PreviewWithStore, CoherenceHolds, PTL

\* There, no stage of run() is entered without the outputs of the stages before,
\* step by step or by a resume.
THEOREM StagesHaveInputs ==
  ASSUME ~PreviewWithStore
  PROVE  Spec => []StageOutputs
<1>1. Coherence => StageOutputs
  BY DEF Coherence, Sound, Coherent, StageOutputs
<1> QED
  BY <1>1, ~PreviewWithStore, CoherenceHolds, PTL

\* There, a run works with one text of the bill it was called for: no other
\* process's checkpoint and no edited file gets mixed in.
THEOREM OneSourceOnly ==
  ASSUME ~PreviewWithStore
  PROVE  Spec => []OneSource
<1>1. Coherence => OneSource
  BY DEF Coherence, Sound, Coherent, OneSource
<1> QED
  BY <1>1, ~PreviewWithStore, CoherenceHolds, PTL

\* There, what is published went through the whole chain, is about the bill it
\* is published for, and has suggestions for exactly the findings shown.
THEOREM ReportsAreSound ==
  ASSUME ~PreviewWithStore
  PROVE  Spec => []PublishedSound
<1>1. Coherence => PublishedSound
  BY DEF Coherence
<1> QED
  BY <1>1, ~PreviewWithStore, CoherenceHolds, PTL

(* ----------------------------------------------------------------------- *)
(* Where run() returns.                                                    *)

\* A run that has returned completed, and still knows its request.
Completion ==
  /\ RunCompletes
  /\ \A r \in Runner : flow[r].pc = "returned" => flow[r].req \in Requests

\* A flow object that is not at a return, put in the place of another, and
\* reports that stay where they are.
LEMMA CompletesChange ==
  ASSUME TypeInv, Completion, NEW r \in Runner, NEW g \in Flow,
         g.pc # "returned", flow' = [flow EXCEPT ![r] = g], UNCHANGED published
  PROVE  Completion'
BY DEF Completion, RunCompletes, TypeInv, TypeOK

\* The flow objects run() and preview() start with have not returned.
LEMMA StartedRuns ==
  ASSUME TypeInv, NEW r \in Runner, NEW req \in Requests, RunStart(r, req)
  PROVE  \E g \in Flow : flow' = [flow EXCEPT ![r] = g] /\ g.pc # "returned"
<1>1. PICK fresh \in Flow, g \in Flow :
        /\ Fresh(fresh, req)
        /\ flow' = [flow EXCEPT ![r] = g]
        /\ \/ g = fresh
           \/ /\ disk \in Checkpoint /\ Accepts(disk, req.file)
              /\ g = Narrowed(Load(fresh, disk), req)
  BY RunStartCases
<1>2. fresh.pc = "run"
  BY <1>1 DEF Fresh
<1>3. CASE g = fresh
  BY <1>1, <1>2, <1>3
<1>4. CASE /\ disk \in Checkpoint
           /\ g = Narrowed(Load(fresh, disk), req)
  <2> DEFINE l == Load(fresh, disk)
  <2>1. l \in Flow /\ l.pc = "run"
    BY <1>2, <1>4, LoadType, LoadKeeps
  <2> HIDE DEF l
  <2>2. g.pc \in {"run", "idle"}
    BY <1>4, <2>1, NarrowedType DEF l
  <2> QED
    BY <1>1, <2>2
<1> QED
  BY <1>1, <1>3, <1>4

\* A stage that ends run() ends it at FAILED or DONE; at DONE the reports of the
\* findings are there, and no stage takes a report away.
LEMMA CompletesStage ==
  ASSUME TypeInv, Coherence, Completion, NEW r \in Runner,
         Stage(r) \/ WriteReports(r)
  PROVE  Completion'
<1> DEFINE f == flow[r]
<1>1. PICK g : Become(r, g) /\ StageStep(f, g)
  BY StageSteps
<1>2. /\ f \in Flow /\ Sound(f) /\ f.pc = "run" /\ f.req \in Requests
  BY StageSteps, FlowTypes DEF Coherence
<1>3. flow' = [flow EXCEPT ![r] = g]
  BY <1>1 DEF Become
<1> DEFINE report == [req |-> f.req, doc |-> f.doc, findings |-> f.findings,
                      suggestions |-> f.suggestions]
<1>4. /\ Stage(r) => published' = published
      /\ WriteReports(r) =>
           published' = IF f.doc # Nil /\ f.findings # {}
                          THEN [published EXCEPT ![f.req.file] = report]
                          ELSE published
  BY StageSteps DEF WriteReports
<1>5. f.doc # Nil => report \in Report /\ report # Nil
  <2>1. f.doc # Nil => f.doc \in Doc
    BY <1>2 DEF Flow
  <2>2. f.findings \in SUBSET Finding /\ f.suggestions \in SUBSET Finding
    BY <1>2 DEF Flow
  <2> QED
    BY <1>2, <2>1, <2>2, ReportAssumption DEF Report
<1>6. f.state = "REPORTING" => WriteReports(r) /\ f.doc # Nil
  <2>1. f.state = "REPORTING" => WriteReports(r)
    BY DEF Stage, IngestStart, IngestDone, ParseDone, Plan, NothingToExecute,
           Execute, Aggregate, Verify, Improve, InStage
  <2>2. f.state = "REPORTING" => f.doc # Nil
    BY <1>2 DEF Sound, Coherent, OutputsOf, ResumableStates
  <2> QED
    BY <2>1, <2>2
<1>7. f.req.file \in File
  BY <1>2, RequestFile
<1>8. published \in [File -> Report \cup {Nil}] /\ flow \in [Runner -> Flow]
  BY DEF TypeInv, TypeOK
<1> HIDE DEF f, report
<1>9. \A file \in File : published[file] # Nil => published'[file] # Nil
  BY <1>4, <1>5, <1>7, <1>8
<1>10. f.state = "REPORTING" /\ f.findings # {} => published'[f.req.file] # Nil
  BY <1>4, <1>5, <1>6, <1>7, <1>8
<1>11. ASSUME NEW q \in Runner, flow'[q].pc = "returned"
       PROVE  LET h == flow'[q]
              IN  /\ h.req \in Requests
                  /\ Ended(h.state, h.findings)
                  /\ h.state = "DONE" /\ h.findings # {} =>
                       published'[h.req.file] # Nil
  <2>1. CASE q = r
    <3>1. flow'[q] = g
      BY <1>3, <1>8, <2>1
    <3>2. /\ g.req = f.req /\ g.findings = f.findings
          /\ Ended(g.state, g.findings)
          /\ g.state = "DONE" => f.state = "REPORTING"
      BY <1>1, <1>2, <1>11, <3>1 DEF StageStep
    <3> QED
      BY <1>2, <1>10, <3>1, <3>2
  <2>2. CASE q # r
    <3>1. flow'[q] = flow[q] /\ flow[q] \in Flow
      BY <1>3, <1>8, <2>2
    <3>2. /\ Ended(flow[q].state, flow[q].findings)
          /\ flow[q].state = "DONE" /\ flow[q].findings # {} =>
               published[flow[q].req.file] # Nil
          /\ flow[q].req \in Requests
      BY <1>11, <3>1 DEF Completion, RunCompletes, Ended
    <3>3. flow[q].req.file \in File
      BY <3>2, RequestFile
    <3> QED
      BY <1>9, <3>1, <3>2, <3>3
  <2> QED
    BY <2>1, <2>2
<1> QED
  BY <1>11 DEF Completion, RunCompletes, Ended

\* The other steps touch neither a run that has returned nor a report.
LEMMA CompletionStep ==
  ASSUME ~PreviewWithStore
  PROVE  TypeInv /\ Coherence /\ Completion /\ [Next]_vars => Completion'
<1> SUFFICES ASSUME TypeInv, Coherence, Completion, [Next]_vars
             PROVE  Completion'
  OBVIOUS
<1>1. ASSUME NEW r \in Runner, NEW req \in Requests, RunStart(r, req)
      PROVE  Completion'
  BY <1>1, StartedRuns, CompletesChange DEF RunStart
<1>2. ASSUME NEW r \in Runner, Stage(r) \/ WriteReports(r) PROVE Completion'
  BY <1>2, CompletesStage
<1>3. ASSUME NEW r \in Runner,
             ParseRaises(r) \/ AwaitRaises(r) \/ PreviewRaises(r)
      PROVE  Completion'
  <2>1. PICK g \in Flow : flow' = [flow EXCEPT ![r] = g] /\ g.pc = "idle"
    BY <1>3, RaiseStep
  <2>2. published' = published
    BY <1>3, RaiseStep
  <2> QED
    BY <2>1, <2>2, CompletesChange
<1>4. ASSUME NEW r \in Runner, ChargeCall(r) PROVE Completion'
  <2>1. PICK g \in Flow : flow' = [flow EXCEPT ![r] = g] /\ g.pc = flow[r].pc
    BY <1>4, ChargeStep
  <2>2. flow[r].pc = "run" /\ published' = published
    BY <1>4 DEF ChargeCall
  <2> QED
    BY <2>1, <2>2, CompletesChange
<1>5. ASSUME NEW r \in Runner, PreviewStart(r) PROVE Completion'
  <2>1. PICK g \in Flow : flow' = [flow EXCEPT ![r] = g] /\ g.pc = "preview"
    BY <1>5, PreviewStartStep
  <2>2. published' = published
    BY <1>5 DEF PreviewStart
  <2> QED
    BY <2>1, <2>2, CompletesChange
<1>6. ASSUME NEW r \in Runner, NEW file \in File, PreviewDone(r, file)
      PROVE  Completion'
  <2>1. PICK g \in Flow : flow' = [flow EXCEPT ![r] = g] /\ g.pc = "idle"
    BY <1>6, PreviewDoneStep
  <2>2. published' = published
    BY <1>6 DEF PreviewDone
  <2> QED
    BY <2>1, <2>2, CompletesChange
<1>7. ASSUME NEW r \in Runner, Restart(r) PROVE Completion'
  <2>1. PICK hasStore \in BOOLEAN : flow' = [flow EXCEPT ![r] = NewFlow(hasStore)]
    BY <1>7 DEF Restart
  <2>2. NewFlow(hasStore) \in Flow /\ NewFlow(hasStore).pc # "returned"
    BY NewFlowType DEF NewFlow
  <2>3. published' = published
    BY <1>7 DEF Restart
  <2> QED
    BY <2>1, <2>2, <2>3, CompletesChange
<1>8. CASE UNCHANGED <<flow, published>>
  BY <1>8 DEF Completion, RunCompletes
<1>9. ASSUME NEW file \in File, EditFile(file)
      PROVE  UNCHANGED <<flow, published>>
  BY <1>9 DEF EditFile
<1> QED
  BY <1>1, <1>2, <1>3, <1>4, <1>5, <1>6, <1>7, <1>8, <1>9
     DEF Next, RunStep, Stage, vars

\* There, run() returns at the end of the pipeline and nowhere else: no stage
\* fires an event its state has no row for.
THEOREM RunsComplete ==
  ASSUME ~PreviewWithStore
  PROVE  Spec => []RunCompletes
<1>1. Init => Completion
  BY DEF Init, NewFlow, Completion, RunCompletes
<1>2. Completion => RunCompletes
  BY DEF Completion
<1> QED
  BY <1>1, <1>2, ~PreviewWithStore, TypeInit, TypeStep, CoherenceInit,
     CoherenceStep, CompletionStep, PTL DEF Spec

(* ----------------------------------------------------------------------- *)
(* What a request selects, across crashes and resumes.                     *)

\* A resume narrows the document and not the findings: what follows needs that
\* a bill is always called for with one selection.
OneSelection == \A p, q \in Requests : p.file = q.file => p = q

\* A checkpoint holds only what the request for its bill asks for.
ChosenCheckpoint(c) ==
  c.stage \in ResumableStates =>
    \A req \in Requests :
      req.file = c.file => Picked(req, c.text, c.doc, c.findings)

\* The inductive invariant behind the two properties.
Choice ==
  /\ \A r \in Runner : Chosen(flow[r])
  /\ disk # Nil => ChosenCheckpoint(disk)
  /\ SelectionRespected

\* The articles a request asks for are asked for again.
LEMMA WantedTwice ==
  ASSUME NEW req, NEW arts
  PROVE  Wanted(req, Wanted(req, arts)) = Wanted(req, arts)
BY DEF Wanted

\* Replacing one flow by one that keeps to its request, with the checkpoint as
\* it was, keeps Choice.
LEMMA ChoiceChange ==
  ASSUME TypeInv, Choice, NEW r \in Runner, NEW g \in Flow, Chosen(g),
         flow' = [flow EXCEPT ![r] = g], UNCHANGED <<disk, published>>
  PROVE  Choice'
<1>1. \A q \in Runner : Chosen(flow'[q])
  BY DEF Choice, TypeInv, TypeOK
<1>2. SelectionRespected'
  BY DEF Choice, SelectionRespected
<1> QED
  BY <1>1, <1>2 DEF Choice

\* A stage keeps to the request, and so does the checkpoint it leaves.
LEMMA ChoiceStage ==
  ASSUME OneSelection, TypeInv, Coherence, Choice, NEW r \in Runner,
         Stage(r) \/ WriteReports(r)
  PROVE  /\ \A q \in Runner : Chosen(flow'[q])
         /\ disk' # Nil => ChosenCheckpoint(disk')
<1>1. PICK g : Become(r, g) /\ StageStep(flow[r], g)
  BY StageSteps
<1>2. /\ g \in Flow /\ Sound(g) /\ Chosen(g) /\ g.req \in Requests
      /\ g.pc = "run" \/ g.state \notin ResumableStates
  BY <1>1, StageSteps, FlowTypes DEF StageStep, Coherence, Choice
<1>3. flow' = [flow EXCEPT ![r] = g] /\ disk' \in {disk, Saved(g)}
  BY <1>1 DEF Become, SaveIfStored, Save
<1>4. \A q \in Runner : Chosen(flow'[q])
  BY <1>2, <1>3 DEF Choice, TypeInv, TypeOK
<1>5. ChosenCheckpoint(Saved(g))
  <2>1. /\ Saved(g).stage = g.state /\ Saved(g).file = g.path
        /\ Saved(g).text = g.text /\ Saved(g).doc = g.doc
        /\ Saved(g).findings = g.findings
    BY DEF Saved
  <2> SUFFICES ASSUME g.state \in ResumableStates,
                      NEW req \in Requests, req.file = g.path
               PROVE  Picked(req, g.text, g.doc, g.findings)
    BY <2>1 DEF ChosenCheckpoint
  <2>2. g.pc = "run" /\ req.file = g.req.file
    BY <1>2 DEF Sound
  <2>3. req = g.req
    BY <1>2, <2>2 DEF OneSelection
  <2> QED
    BY <1>2, <2>2, <2>3 DEF Chosen
<1> QED
  BY <1>3, <1>4, <1>5 DEF Choice

\* The last stage publishes what a flow that keeps to its request holds.
LEMMA ChosenReports ==
  ASSUME TypeInv, Choice, NEW r \in Runner, WriteReports(r)
  PROVE  SelectionRespected'
<1> DEFINE f == flow[r]
           report == [req |-> f.req, doc |-> f.doc, findings |-> f.findings,
                      suggestions |-> f.suggestions]
<1>1. f.pc = "run" /\ Chosen(f)
  BY DEF WriteReports, InStage, Choice
<1>2. \A x \in f.findings : x.art \in Wanted(f.req, f.doc.src)
  BY <1>1 DEF Chosen, Picked
<1>3. published' = IF f.doc # Nil /\ f.findings # {}
                     THEN [published EXCEPT ![f.req.file] = report]
                     ELSE published
  BY DEF WriteReports
<1> HIDE DEF f
<1>4. \A x \in report.findings : x.art \in Wanted(report.req, report.doc.src)
  BY <1>2
<1> HIDE DEF report
<1>5. ASSUME NEW file \in File, published'[file] # Nil
      PROVE  LET p == published'[file]
             IN  \A x \in p.findings : x.art \in Wanted(p.req, p.doc.src)
  <2>1. published'[file] \in {published[file], report}
    BY <1>3 DEF TypeInv, TypeOK
  <2>2. CASE published'[file] = published[file]
    BY <1>5, <2>2 DEF Choice, SelectionRespected
  <2>3. CASE published'[file] = report
    BY <1>4, <2>3
  <2> QED
    BY <2>1, <2>2, <2>3
<1> QED
  BY <1>5 DEF SelectionRespected

\* A flow that has just been reset, or restored and narrowed, keeps to the
\* request run() was called with.
LEMMA ChosenStart ==
  ASSUME TypeInv, Coherence, Choice, NEW req \in Requests,
         NEW fresh \in Flow, NEW g \in Flow, Fresh(fresh, req),
         \/ g = fresh
         \/ /\ disk \in Checkpoint /\ Accepts(disk, req.file)
            /\ g = Narrowed(Load(fresh, disk), req)
  PROVE  Chosen(g)
<1>1. CASE g = fresh
  BY <1>1 DEF Fresh, Chosen, Picked
<1>2. CASE /\ disk \in Checkpoint /\ Accepts(disk, req.file)
           /\ g = Narrowed(Load(fresh, disk), req)
  <2>1. /\ disk # Nil /\ disk.stage \in ResumableStates
        /\ disk.file = req.file
    BY <1>2, FlowAssumption DEF Accepts, Coherence, SoundCheckpoint
  <2>2. Picked(req, disk.text, disk.doc, disk.findings)
    BY <2>1 DEF Choice, ChosenCheckpoint
  <2> DEFINE l == Load(fresh, disk)
  <2>3. /\ l \in Flow /\ l.req = req /\ l.state = disk.stage
        /\ l.text = disk.text /\ l.doc = disk.doc
        /\ l.findings = disk.findings
    BY <1>2, LoadType, LoadKeeps DEF Fresh
  <2> HIDE DEF l
  <2>4. /\ g.req = l.req /\ g.state = l.state /\ g.text = l.text
        /\ g.findings = l.findings
        /\ l.doc = Nil => g.doc = Nil
        /\ l.doc # Nil => /\ g.doc # Nil /\ g.doc.src = l.doc.src
                          /\ g.doc.arts \in {l.doc.arts,
                                             Wanted(req, l.doc.arts)}
    BY <1>2, <2>3, NarrowedType, NilIsNone DEF l
  <2>5. l.doc # Nil => g.doc.arts = l.doc.arts
    BY <2>2, <2>3, <2>4, WantedTwice DEF Picked
  <2>6. Picked(g.req, g.text, g.doc, g.findings)
    BY <2>2, <2>3, <2>4, <2>5 DEF Picked
  <2>7. g.state # "FAILED"
    BY <2>1, <2>3, <2>4 DEF ResumableStates
  <2> QED
    BY <2>6, <2>7 DEF Chosen
<1> QED
  BY <1>1, <1>2

LEMMA ChoiceInit == Init => Choice
<1> SUFFICES ASSUME Init PROVE Choice
  OBVIOUS
<1>1. \A r \in Runner : flow[r].pc = "idle" /\ flow[r].state = "IDLE"
  BY DEF Init, NewFlow
<1> QED
  BY <1>1 DEF Init, Choice, Chosen, SelectionRespected

LEMMA ChoiceStep ==
  ASSUME ~PreviewWithStore, OneSelection
  PROVE  TypeInv /\ Coherence /\ Choice /\ [Next]_vars => Choice'
<1> SUFFICES ASSUME TypeInv, Coherence, Choice, [Next]_vars PROVE Choice'
  OBVIOUS
<1>1. ASSUME NEW r \in Runner, NEW req \in Requests, RunStart(r, req)
      PROVE  Choice'
  <2>1. PICK fresh \in Flow, g \in Flow :
          /\ Fresh(fresh, req)
          /\ flow' = [flow EXCEPT ![r] = g]
          /\ \/ g = fresh
             \/ /\ disk \in Checkpoint /\ Accepts(disk, req.file)
                /\ g = Narrowed(Load(fresh, disk), req)
    BY <1>1, RunStartCases
  <2>2. Chosen(g)
    BY <2>1, ChosenStart
  <2>3. UNCHANGED <<disk, published>>
    BY <1>1 DEF RunStart
  <2> QED
    BY <2>1, <2>2, <2>3, ChoiceChange
<1>2. ASSUME NEW r \in Runner, Stage(r) PROVE Choice'
  <2>1. published' = published
    BY <1>2, StageSteps
  <2>2. SelectionRespected'
    BY <2>1 DEF Choice, SelectionRespected
  <2> QED
    BY <1>2, <2>2, OneSelection, ChoiceStage DEF Choice
<1>3. ASSUME NEW r \in Runner, WriteReports(r) PROVE Choice'
  BY <1>3, OneSelection, ChoiceStage, ChosenReports DEF Choice
<1>4. ASSUME NEW r \in Runner,
             ParseRaises(r) \/ AwaitRaises(r) \/ PreviewRaises(r)
      PROVE  Choice'
  <2>1. PICK g \in Flow :
          /\ flow' = [flow EXCEPT ![r] = g] /\ g.pc = "idle"
          /\ g.state = flow[r].state
    BY <1>4, RaiseStep
  <2>2. flow[r].pc # "returned"
    BY <1>4 DEF ParseRaises, AwaitRaises, PreviewRaises, InStage
  <2>3. Chosen(g)
    BY <2>1, <2>2 DEF Chosen, Choice
  <2>4. UNCHANGED <<disk, published>>
    BY <1>4, RaiseStep
  <2> QED
    BY <2>1, <2>3, <2>4, ChoiceChange
<1>5. ASSUME NEW r \in Runner, ChargeCall(r) PROVE Choice'
  <2>1. PICK g \in Flow :
          /\ flow' = [flow EXCEPT ![r] = g]
          /\ g.pc = flow[r].pc /\ g.req = flow[r].req
          /\ g.text = flow[r].text /\ g.doc = flow[r].doc
          /\ g.findings = flow[r].findings /\ g.state = flow[r].state
    BY <1>5, ChargeStep
  <2>2. Chosen(g)
    <3>1. Chosen(flow[r])
      BY DEF Choice
    <3> QED
      BY <2>1, <3>1 DEF Chosen
  <2>3. UNCHANGED <<disk, published>>
    BY <1>5 DEF ChargeCall
  <2> QED
    BY <2>1, <2>2, <2>3, ChoiceChange
<1>6. ASSUME NEW r \in Runner, PreviewStart(r) PROVE Choice'
  <2>1. PICK s \in Flow, g \in Flow :
          /\ flow' = [flow EXCEPT ![r] = g]
          /\ disk' # disk => flow[r].store
          /\ flow[r].store => PreviewWithStore
          /\ g.pc = "preview" /\ g.state # "FAILED"
    BY <1>6, PreviewStartStep
  <2>2. disk' = disk
    BY <2>1, ~PreviewWithStore
  <2>3. Chosen(g)
    BY <2>1 DEF Chosen
  <2>4. published' = published
    BY <1>6 DEF PreviewStart
  <2> QED
    BY <2>1, <2>2, <2>3, <2>4, ChoiceChange
<1>7. ASSUME NEW r \in Runner, NEW file \in File, PreviewDone(r, file)
      PROVE  Choice'
  <2>1. PICK g \in Flow :
          /\ flow' = [flow EXCEPT ![r] = g] /\ flow[r].pc = "preview"
          /\ ~flow[r].store => disk' = disk
          /\ g.pc = "idle"
          /\ flow[r].state # "FAILED" => g.state # "FAILED"
    BY <1>7, PreviewDoneStep
  <2>2. ~flow[r].store
    BY <2>1 DEF Coherence, Sound
  <2>3. flow[r].state # "FAILED"
    BY <2>1 DEF Choice, Chosen
  <2>4. Chosen(g) /\ published' = published
    BY <1>7, <2>1, <2>3 DEF Chosen, PreviewDone
  <2>5. flow' = [flow EXCEPT ![r] = g] /\ disk' = disk
    BY <2>1, <2>2
  <2> QED
    BY <2>4, <2>5, ChoiceChange
<1>8. ASSUME NEW r \in Runner, Restart(r) PROVE Choice'
  <2>1. PICK hasStore \in BOOLEAN : flow' = [flow EXCEPT ![r] = NewFlow(hasStore)]
    BY <1>8 DEF Restart
  <2>2. NewFlow(hasStore) \in Flow /\ Chosen(NewFlow(hasStore))
    BY NewFlowType DEF NewFlow, Chosen
  <2>3. UNCHANGED <<disk, published>>
    BY <1>8 DEF Restart
  <2> QED
    BY <2>1, <2>2, <2>3, ChoiceChange
<1>9. CASE UNCHANGED <<flow, disk, published>>
  BY <1>9 DEF Choice, SelectionRespected
<1>10. ASSUME NEW file \in File, EditFile(file)
       PROVE  UNCHANGED <<flow, disk, published>>
  BY <1>10 DEF EditFile
<1> QED
  BY <1>1, <1>2, <1>3, <1>4, <1>5, <1>6, <1>7, <1>8, <1>9, <1>10
     DEF Next, RunStep, Stage, vars

LEMMA ChoiceHolds ==
  ASSUME ~PreviewWithStore, OneSelection
  PROVE  Spec => []Choice
<1>1. Init => TypeInv /\ Coherence /\ Choice
  BY TypeInit, CoherenceInit, ChoiceInit
<1>2. TypeInv /\ Coherence /\ Choice /\ [Next]_vars
        => (TypeInv /\ Coherence /\ Choice)'
  BY ~PreviewWithStore, OneSelection, TypeStep, CoherenceStep, ChoiceStep
<1> QED
  BY <1>1, <1>2, PTL DEF Spec

\* There, and where every bill is analyzed with one selection, a report shows
\* only findings on articles that selection asks for, however often the run
\* crashed and was resumed.
THEOREM SelectionIsKept ==
  ASSUME ~PreviewWithStore, OneSelection
  PROVE  Spec => []SelectionRespected
<1>1. Choice => SelectionRespected
  BY DEF Choice
<1> QED
  BY <1>1, ~PreviewWithStore, OneSelection, ChoiceHolds, PTL

\* There, a run ends FAILED only when the text it read has none of the articles
\* asked for: no crash, resume or edit of the file can bring it there.
THEOREM FailuresAreReal ==
  ASSUME ~PreviewWithStore, OneSelection
  PROVE  Spec => []FailureIsReal
<1>1. Choice => FailureIsReal
  BY DEF Choice, Chosen, NothingWanted, FailureIsReal
<1> QED
  BY <1>1, ~PreviewWithStore, OneSelection, ChoiceHolds, PTL

(* ----------------------------------------------------------------------- *)
(* Stages that are never paid for twice.                                   *)

\* The checkpoint file is used by one process.
OneRunner == \A q, r \in Runner : q = r

\* The run id of a fresh run is one that no flow and no checkpoint has yet: with
\* that, NeverBehindCheckpoint is inductive.
ProgressInv ==
  /\ \A r \in Runner : flow[r].run <= calls
  /\ disk # Nil => disk.run <= calls
  /\ NeverBehindCheckpoint

\* The invariant after a step of the one runner there is: its run id and the
\* checkpoint's are old ones, and it is not behind the checkpoint.
LEMMA ProgressChange ==
  ASSUME OneRunner, TypeInv, NEW r \in Runner, NEW g \in Flow,
         flow' = [flow EXCEPT ![r] = g],
         g.run <= calls', disk' # Nil => disk'.run <= calls',
         (g.pc = "run" /\ disk' # Nil /\ disk'.run = g.run) =>
           Rank(disk'.stage) <= Rank(g.state)
  PROVE  ProgressInv'
<1>1. \A q \in Runner : q = r /\ flow'[q] = g
  BY DEF OneRunner, TypeInv, TypeOK
<1> QED
  BY <1>1 DEF ProgressInv, NeverBehindCheckpoint

\* What is saved of a flow has its stage and its run id.
LEMMA SavedProgress ==
  ASSUME NEW f \in Flow
  PROVE  Saved(f) # Nil => Saved(f).run = f.run /\ Saved(f).stage = f.state
BY DEF Saved

\* A resumed run stands where its checkpoint does; a fresh one has no
\* checkpoint yet.
LEMMA ProgressStart ==
  ASSUME OneRunner, TypeInv, ProgressInv, NEW r \in Runner,
         NEW req \in Requests, RunStart(r, req)
  PROVE  ProgressInv'
<1>1. PICK fresh \in Flow, g \in Flow :
        /\ fresh.run = calls + 1
        /\ flow' = [flow EXCEPT ![r] = g]
        /\ \/ g = fresh
           \/ /\ disk \in Checkpoint /\ Accepts(disk, req.file)
              /\ g = Narrowed(Load(fresh, disk), req)
  BY RunStartCases
<1>2. disk' = disk /\ calls' = calls + 1 /\ calls \in Nat
  BY DEF RunStart, TypeInv, TypeOK
<1>3. disk \in Checkpoint \cup {Nil} /\ (disk \in Checkpoint => disk.run \in Nat)
  BY DEF TypeInv, TypeOK, Checkpoint
<1>4. disk # Nil => disk.run <= calls /\ disk.run \in Nat
  BY <1>3 DEF ProgressInv
<1>5. CASE g = fresh
  <2>1. g.run <= calls' /\ (disk' # Nil => disk'.run <= calls')
    BY <1>1, <1>2, <1>4, <1>5
  <2>2. ~(disk' # Nil /\ disk'.run = g.run)
    BY <1>1, <1>2, <1>4, <1>5
  <2> QED
    BY <1>1, <2>1, <2>2, ProgressChange
<1>6. CASE /\ disk \in Checkpoint /\ Accepts(disk, req.file)
           /\ g = Narrowed(Load(fresh, disk), req)
  <2>1. /\ g.run = IF disk.run = 0 THEN fresh.run ELSE disk.run
        /\ g.state = disk.stage
    BY <1>6, LoadType, LoadKeeps, NarrowedType
  <2>2. disk # Nil
    BY <1>6 DEF Accepts
  <2>3. g.run <= calls' /\ disk'.run <= calls'
    BY <1>1, <1>2, <1>4, <2>1, <2>2
  <2>4. Rank(disk.stage) \in Nat
    BY <1>6, RankIsNat DEF Checkpoint
  <2>5. Rank(disk'.stage) <= Rank(g.state)
    BY <1>2, <2>1, <2>4
  <2> QED
    BY <1>1, <2>3, <2>5, ProgressChange
<1> QED
  BY <1>1, <1>5, <1>6

\* A stage goes forward, and saves where it got to if it saves anything.
LEMMA ProgressStage ==
  ASSUME OneRunner, TypeInv, ProgressInv, NEW r \in Runner,
         Stage(r) \/ WriteReports(r)
  PROVE  ProgressInv'
<1>1. PICK g : Become(r, g) /\ StageStep(flow[r], g)
  BY StageSteps
<1>2. /\ g \in Flow /\ g.run = flow[r].run
      /\ g.pc = "run" => Rank(flow[r].state) <= Rank(g.state)
  BY <1>1 DEF StageStep
<1>3. flow' = [flow EXCEPT ![r] = g] /\ disk' \in {disk, Saved(g)}
  BY <1>1 DEF Become, SaveIfStored, Save
<1>4. calls' = calls /\ flow[r].pc = "run" /\ flow[r].run <= calls
  BY StageSteps DEF ProgressInv
<1>5. Rank(g.state) \in Nat /\ Rank(flow[r].state) \in Nat
  BY <1>2, FlowTypes, RankIsNat DEF Flow
<1>6. CASE disk' = disk
  <2>1. disk' # Nil => disk'.run <= calls'
    BY <1>4, <1>6 DEF ProgressInv
  <2>2. ASSUME g.pc = "run", disk # Nil, disk.run = g.run
        PROVE  Rank(disk.stage) <= Rank(g.state)
    <3>1. Rank(disk.stage) <= Rank(flow[r].state)
      BY <1>2, <1>4, <2>2 DEF ProgressInv, NeverBehindCheckpoint
    <3>2. Rank(disk.stage) \in Nat
      BY <2>2, RankIsNat DEF TypeInv, TypeOK, Checkpoint
    <3> QED
      BY <1>2, <1>5, <2>2, <3>1, <3>2
  <2> QED
    BY <1>2, <1>3, <1>4, <1>6, <2>1, <2>2, ProgressChange
<1>7. CASE disk' = Saved(g)
  <2>1. disk' # Nil => disk'.run = g.run /\ disk'.stage = g.state
    BY <1>2, <1>7, SavedProgress
  <2>2. g.run <= calls'
    BY <1>2, <1>4
  <2>3. disk' # Nil => /\ disk'.run <= calls'
                       /\ Rank(disk'.stage) <= Rank(g.state)
    BY <1>5, <2>1, <2>2
  <2> QED
    BY <1>2, <1>3, <2>2, <2>3, ProgressChange
<1> QED
  BY <1>3, <1>6, <1>7

\* So is any step that leaves the runner outside run(), with the run id it has.
LEMMA ProgressOutside ==
  ASSUME OneRunner, TypeInv, ProgressInv, NEW r \in Runner, NEW g \in Flow,
         flow' = [flow EXCEPT ![r] = g], g.pc # "run",
         g.run = flow[r].run \/ g.run = 0,
         \/ disk' = disk
         \/ \E s \in Flow : disk' = Saved(s) /\ s.run = flow[r].run,
         calls' \in {calls, calls + 1}
  PROVE  ProgressInv'
<1>1. calls \in Nat /\ calls <= calls'
  BY DEF TypeInv, TypeOK
<1>2. flow[r].run <= calls /\ flow[r].run \in Nat
  BY FlowTypes DEF ProgressInv, Flow
<1>3. g.run <= calls'
  BY <1>1, <1>2
<1>4. ASSUME disk' # Nil PROVE disk'.run <= calls'
  <2>1. CASE disk' = disk
    <3>1. disk.run <= calls /\ disk.run \in Nat
      BY <1>4, <2>1 DEF ProgressInv, TypeInv, TypeOK, Checkpoint
    <3> QED
      BY <1>1, <2>1, <3>1
  <2>2. ASSUME NEW s \in Flow, disk' = Saved(s), s.run = flow[r].run
        PROVE  disk'.run <= calls'
    <3>1. disk'.run = flow[r].run
      BY <1>4, <2>2, SavedProgress
    <3> QED
      BY <1>1, <1>2, <3>1
  <2> QED
    BY <2>1, <2>2
<1> QED
  BY <1>3, <1>4, ProgressChange

LEMMA ProgressInit == Init => ProgressInv
<1> SUFFICES ASSUME Init PROVE ProgressInv
  OBVIOUS
<1>1. \A r \in Runner : flow[r].pc = "idle" /\ flow[r].run = 0
  BY DEF Init, NewFlow
<1> QED
  BY <1>1 DEF Init, ProgressInv, NeverBehindCheckpoint

LEMMA ProgressStep ==
  ASSUME OneRunner
  PROVE  TypeInv /\ ProgressInv /\ [Next]_vars => ProgressInv'
<1> SUFFICES ASSUME TypeInv, ProgressInv, [Next]_vars PROVE ProgressInv'
  OBVIOUS
<1>1. ASSUME NEW r \in Runner, NEW req \in Requests, RunStart(r, req)
      PROVE  ProgressInv'
  BY <1>1, OneRunner, ProgressStart
<1>2. ASSUME NEW r \in Runner, Stage(r) \/ WriteReports(r) PROVE ProgressInv'
  BY <1>2, OneRunner, ProgressStage
<1>3. ASSUME NEW r \in Runner,
             ParseRaises(r) \/ AwaitRaises(r) \/ PreviewRaises(r)
      PROVE  ProgressInv'
  <2>1. PICK g \in Flow :
          /\ flow' = [flow EXCEPT ![r] = g] /\ g.pc = "idle"
          /\ g.run = flow[r].run
    BY <1>3, RaiseStep
  <2>2. disk' = disk /\ calls' = calls
    BY <1>3, RaiseStep
  <2> QED
    BY <2>1, <2>2, OneRunner, ProgressOutside
<1>4. ASSUME NEW r \in Runner, ChargeCall(r) PROVE ProgressInv'
  <2>1. PICK g \in Flow :
          /\ flow' = [flow EXCEPT ![r] = g]
          /\ g.pc = flow[r].pc /\ g.run = flow[r].run
          /\ g.state = flow[r].state
    BY <1>4, ChargeStep
  <2>2. disk' = disk /\ calls' = calls
    BY <1>4 DEF ChargeCall
  <2>3. /\ flow[r].run <= calls /\ (disk # Nil => disk.run <= calls)
        /\ (flow[r].pc = "run" /\ disk # Nil /\ disk.run = flow[r].run) =>
             Rank(disk.stage) <= Rank(flow[r].state)
    BY DEF ProgressInv, NeverBehindCheckpoint
  <2> QED
    BY <2>1, <2>2, <2>3, OneRunner, ProgressChange
<1>5. ASSUME NEW r \in Runner, PreviewStart(r) PROVE ProgressInv'
  <2>1. PICK s \in Flow, g \in Flow :
          /\ flow' = [flow EXCEPT ![r] = g]
          /\ disk' \in {disk, Saved(s), Saved(g)}
          /\ g.pc = "preview"
          /\ s.run = flow[r].run /\ g.run = flow[r].run
    BY <1>5, PreviewStartStep
  <2>2. calls' = calls + 1
    BY <1>5 DEF PreviewStart
  <2> QED
    BY <2>1, <2>2, OneRunner, ProgressOutside
<1>6. ASSUME NEW r \in Runner, NEW file \in File, PreviewDone(r, file)
      PROVE  ProgressInv'
  <2>1. PICK g \in Flow, s \in Flow :
          /\ flow' = [flow EXCEPT ![r] = g]
          /\ disk' \in {disk, Saved(s)}
          /\ g.pc = "idle"
          /\ g.run = flow[r].run /\ s.run = flow[r].run
    BY <1>6, PreviewDoneStep
  <2>2. calls' = calls
    BY <1>6 DEF PreviewDone
  <2> QED
    BY <2>1, <2>2, OneRunner, ProgressOutside
<1>7. ASSUME NEW r \in Runner, Restart(r) PROVE ProgressInv'
  <2>1. PICK hasStore \in BOOLEAN : flow' = [flow EXCEPT ![r] = NewFlow(hasStore)]
    BY <1>7 DEF Restart
  <2>2. /\ NewFlow(hasStore) \in Flow /\ NewFlow(hasStore).pc # "run"
        /\ NewFlow(hasStore).run = 0
    BY NewFlowType DEF NewFlow
  <2>3. disk' = disk /\ calls' = calls
    BY <1>7 DEF Restart
  <2> QED
    BY <2>1, <2>2, <2>3, OneRunner, ProgressOutside
<1>8. CASE UNCHANGED <<flow, disk, calls>>
  BY <1>8 DEF ProgressInv, NeverBehindCheckpoint
<1>9. ASSUME NEW file \in File, EditFile(file)
      PROVE  UNCHANGED <<flow, disk, calls>>
  BY <1>9 DEF EditFile
<1> QED
  BY <1>1, <1>2, <1>3, <1>4, <1>5, <1>6, <1>7, <1>8, <1>9
     DEF Next, RunStep, Stage, vars

\* Where one process uses the checkpoint file, a run is never at a stage before
\* the one its own checkpoint has reached: no crash, failed save or resume makes
\* it pay again for a stage whose completion was saved.
THEOREM SavedStagesAreNotRedone ==
  ASSUME OneRunner
  PROVE  Spec => []NeverBehindCheckpoint
<1>1. Init => TypeInv /\ ProgressInv
  BY TypeInit, ProgressInit
<1>2. TypeInv /\ ProgressInv /\ [Next]_vars => (TypeInv /\ ProgressInv)'
  BY OneRunner, TypeStep, ProgressStep
<1>3. ProgressInv => NeverBehindCheckpoint
  BY DEF ProgressInv
<1> QED
  BY <1>1, <1>2, <1>3, PTL DEF Spec
=============================================================================
