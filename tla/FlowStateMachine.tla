-------------------------- MODULE FlowStateMachine --------------------------
(***************************************************************************)
(* The transition table of leggie/application/workflow/                    *)
(* flow_state_machine.py, as data.  The machine holds no state of its own: *)
(* BillAnalysisFlow keeps the current state and asks this table for the    *)
(* next one.                                                               *)
(***************************************************************************)

WorkflowState ==
  {"IDLE", "PREVIEWING", "INGESTING", "PARSING", "PLANNING", "EXECUTING",
   "AGGREGATING", "VERIFYING", "IMPROVING", "REPORTING", "DONE", "FAILED"}

\* What transition() returns when the table has no row.
NoState == "None"

Row(from, event, to) == [from |-> from, event |-> event, to |-> to]

TransitionTable ==
  { Row("IDLE", "preview_started", "PREVIEWING"),
    Row("PREVIEWING", "ingest_started", "INGESTING"),
    Row("IDLE", "ingest_started", "INGESTING"),
    Row("INGESTING", "ingest_completed", "PARSING"),
    Row("PARSING", "parse_completed", "PLANNING"),
    Row("PLANNING", "plan_approved", "EXECUTING"),
    Row("EXECUTING", "execution_completed", "AGGREGATING"),
    Row("AGGREGATING", "aggregation_completed", "VERIFYING"),
    Row("VERIFYING", "verify_passed", "IMPROVING"),
    Row("VERIFYING", "verify_failed", "EXECUTING"),
    Row("IMPROVING", "improvement_completed", "REPORTING"),
    Row("REPORTING", "report_completed", "DONE"),
    Row("PREVIEWING", "preview_failed", "FAILED"),
    Row("INGESTING", "ingest_failed", "FAILED"),
    Row("PARSING", "parse_failed", "FAILED"),
    Row("PLANNING", "plan_failed", "FAILED"),
    Row("EXECUTING", "execution_failed", "FAILED"),
    Row("AGGREGATING", "aggregation_failed", "FAILED"),
    Row("VERIFYING", "verify_failed_abort", "FAILED"),
    Row("IMPROVING", "improvement_failed", "FAILED"),
    Row("REPORTING", "report_failed", "FAILED") }

RowsFor(current, event) ==
  {row \in TransitionTable : row.from = current /\ row.event = event}

\* FlowStateMachine.transition()
Transition(current, event) ==
  IF RowsFor(current, event) = {}
    THEN NoState
    ELSE (CHOOSE row \in RowsFor(current, event) : TRUE).to

\* FlowStateMachine.terminal_states()
TerminalStates ==
  WorkflowState \ {row.from : row \in TransitionTable}

\* FlowStateMachine.resumable_states()
ResumableStates ==
  {"PARSING", "PLANNING", "EXECUTING", "AGGREGATING", "VERIFYING",
   "IMPROVING", "REPORTING"}
=============================================================================
