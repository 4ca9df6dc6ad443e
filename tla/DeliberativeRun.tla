--------------------------- MODULE DeliberativeRun ---------------------------
(***************************************************************************)
(* `leggie analyze --pipeline deliberative` (workflow/deliberative_flow.py,*)
(* reasoner/adapter.py and AnalyzeBillHandler._handle_deliberative): make  *)
(* sure a Reasoner is up, ingest and parse the bill, ask for the critique  *)
(* (stage 1) and its audit (stage 2), write the report, and in every case  *)
(* release the server that was spawned for it.  Several processes run it   *)
(* at once against one port.  A signal unwinds the run through the same    *)
(* `finally`; a SIGKILL does not.                                          *)
(*                                                                         *)
(* Prompts, syntheses and citations are data no property looks at.  The    *)
(* deterministic pipeline a run may fall back to is specified in module    *)
(* BillAnalysisFlow: here it only succeeds or fails.                       *)
(***************************************************************************)
EXTENDS ReasonerServer, Sequences

CONSTANTS Settings,      \* the settings and flags the processes may have
          MaxRetries,   \* attempts of one Reasoner request
          MaxSignals,   \* signals delivered to one process
          Disturbed     \* the processes that get signals or are killed

ASSUME SettingsAssumption == Settings \subseteq [Runner -> Options]
ASSUME RetriesAssumption == MaxRetries \in Nat \ {0}

VARIABLES
  pc,       \* where each command is
  stage,    \* the deliberation stage it asks for
  attempt,  \* requests sent for that stage
  outcome,  \* how flow.run ended: "pending", "ok" or what was raised:
            \* "ReasonerUnavailableError", "Interrupt" or any other "Error"
  trail,    \* the events the flow recorded
  report,   \* the report file this run wrote is on disk
  signals,  \* signals delivered so far
  cut       \* a signal broke the blocking wait of shutdown

runVars == <<pc, stage, attempt, outcome, trail, report, signals, cut>>
vars == <<options, port, child, handle, manager, polls,
          pc, stage, attempt, outcome, trail, report, signals, cut>>

InFlow == {"ensuring", "reading", "asking", "writing"}
Ended == {"ok", "failed", "interrupted", "killed"}

Init ==
  /\ options \in Settings
  /\ ServerInit
  /\ pc = [r \in Runner |-> "start"]
  /\ stage = [r \in Runner |-> 1]
  /\ attempt = [r \in Runner |-> 0]
  /\ outcome = [r \in Runner |-> "pending"]
  /\ trail = [r \in Runner |-> <<>>]
  /\ report = [r \in Runner |-> FALSE]
  /\ signals = [r \in Runner |-> 0]
  /\ cut = [r \in Runner |-> FALSE]

At(r, place) == pc[r] = place
Move(r, place) == pc' = [pc EXCEPT ![r] = place]
Record(r, event) == trail' = [trail EXCEPT ![r] = Append(@, event)]

\* What a finished stage records.
StageEvent(n) == IF n = 1 THEN "stage_1" ELSE "stage_2"

\* What is recorded when the estimate is over the ceiling.
OverBudget == <<"analysis_started", "budget_tripped">>

\* An exception leaves flow.run: the handler's `finally` is next.
Unwind(r, exception) ==
  /\ outcome' = [outcome EXCEPT ![r] = exception]
  /\ Move(r, "finally")

-----------------------------------------------------------------------------
(* flow.run                                                                *)

\* LEGGIE_REASONER__ENABLED is off: refused before anything is built.
Disabled(r) ==
  /\ At(r, "start")
  /\ ~options[r].enabled
  /\ outcome' = [outcome EXCEPT ![r] = "Error"]
  /\ Move(r, "failed")
  /\ UNCHANGED <<options, serverVars, stage, attempt, trail, report, signals, cut>>

\* mkdir of the output directory, then ensure_running().
Start(r) ==
  /\ At(r, "start")
  /\ options[r].enabled
  /\ \/ /\ Move(r, "ensuring")
        /\ GoTo(r, "probing")
        /\ UNCHANGED outcome
     \/ Unwind(r, "Error") /\ UNCHANGED manager
  /\ UNCHANGED <<options, port, child, handle, polls,
                 stage, attempt, trail, report, signals, cut>>

Ensured(r) ==
  /\ At(r, "ensuring")
  /\ \/ manager[r] = "ready" /\ Move(r, "reading") /\ UNCHANGED outcome
     \/ manager[r] = "failed" /\ Unwind(r, "ReasonerUnavailableError")
  /\ UNCHANGED <<options, serverVars, stage, attempt, trail, report, signals, cut>>

\* Ingest and parse, record the start, then the token estimate.
Read(r) ==
  /\ At(r, "reading")
  /\ \/ /\ Unwind(r, "Error")
        /\ UNCHANGED <<trail, attempt>>
     \/ /\ trail' = [trail EXCEPT ![r] = @ \o OverBudget]
        /\ Unwind(r, "Error")
        /\ UNCHANGED attempt
     \/ /\ Record(r, "analysis_started")
        /\ Move(r, "asking")
        /\ attempt' = [attempt EXCEPT ![r] = 1]
        /\ UNCHANGED outcome
  /\ UNCHANGED <<options, serverVars, stage, report, signals, cut>>

\* A 200 with a usable object: the stage is recorded, the next one is asked.
StageDone(r) ==
  /\ At(r, "asking")
  /\ ReasonerAnswers
  /\ Record(r, StageEvent(stage[r]))
  /\ IF stage[r] = 1
       THEN /\ stage' = [stage EXCEPT ![r] = 2]
            /\ attempt' = [attempt EXCEPT ![r] = 1]
            /\ UNCHANGED pc
       ELSE Move(r, "writing") /\ UNCHANGED <<stage, attempt>>
  /\ UNCHANGED <<options, serverVars, outcome, report, signals, cut>>

\* Mutant of RetryStage: the stage recorded when it is asked for, not when it answers.
RetryStageRecorded(r) ==
  /\ At(r, "asking")
  /\ attempt[r] < MaxRetries
  /\ attempt' = [attempt EXCEPT ![r] = @ + 1]
  /\ Record(r, StageEvent(stage[r]))
  /\ UNCHANGED <<options, serverVars, pc, outcome, stage, report, signals, cut>>

\* A timeout, a retryable status, malformed or non-object JSON: sleep and
\* send the same request again, while attempts are left.
RetryStage(r) ==
  /\ At(r, "asking")
  /\ IF attempt[r] < MaxRetries
       THEN /\ attempt' = [attempt EXCEPT ![r] = @ + 1]
            /\ UNCHANGED <<pc, outcome>>
       ELSE Unwind(r, "ReasonerUnavailableError") /\ UNCHANGED attempt
  /\ UNCHANGED <<options, serverVars, stage, trail, report, signals, cut>>

\* Connection refused or reset, 401, 403 or any other status: no retry.  An
\* object whose fields have the wrong shape raises out of _parse_result.
StageFails(r) ==
  /\ At(r, "asking")
  /\ \/ Unwind(r, "ReasonerUnavailableError")
     \/ ReasonerAnswers /\ Unwind(r, "Error")
  /\ UNCHANGED <<options, serverVars, stage, attempt, trail, report, signals, cut>>

\* The report, then the completion event.
WriteReport(r) ==
  /\ At(r, "writing")
  /\ \/ /\ report' = [report EXCEPT ![r] = TRUE]
        /\ Record(r, "workflow_completed")
        /\ Unwind(r, "ok")
     \/ /\ Unwind(r, "Error")
        /\ UNCHANGED <<report, trail>>
  /\ UNCHANGED <<options, serverVars, stage, attempt, signals, cut>>

-----------------------------------------------------------------------------
(* The handler around it.                                                  *)

\* Mutant of Finally: `except Exception` in place of `finally`.
FinallyOnErrors(r) ==
  /\ At(r, "finally")
  /\ Move(r, "releasing")
  /\ GoTo(r, IF outcome[r] = "Interrupt" THEN "stopped" ELSE "stop")
  /\ UNCHANGED <<options, port, child, handle, polls,
                 stage, attempt, outcome, trail, report, signals, cut>>

\* finally: await server_manager.shutdown()
Finally(r) ==
  /\ At(r, "finally")
  /\ Move(r, "releasing")
  /\ GoTo(r, "stop")
  /\ UNCHANGED <<options, port, child, handle, polls,
                 stage, attempt, outcome, trail, report, signals, cut>>

Return(r) ==
  /\ At(r, "releasing")
  /\ manager[r] = "stopped"
  /\ CASE outcome[r] = "ok" -> Move(r, "ok")
       [] outcome[r] = "Interrupt" -> Move(r, "interrupted")
       [] outcome[r] = "ReasonerUnavailableError" /\ options[r].fallback ->
            Move(r, "fallback")
       [] OTHER -> Move(r, "failed")
  /\ UNCHANGED <<options, serverVars, stage, attempt, outcome, trail,
                 report, signals, cut>>

\* _handle_deterministic: whatever it returns is the command's result.
Fallback(r) ==
  /\ At(r, "fallback")
  /\ Move(r, "ok") \/ Move(r, "failed")
  /\ UNCHANGED <<options, serverVars, stage, attempt, outcome, trail,
                 report, signals, cut>>

-----------------------------------------------------------------------------
(* Signals and crashes.                                                    *)

\* SIGINT or SIGTERM raises KeyboardInterrupt, the loop cancels the run, and
\* neither is an Exception: only the `finally` sees it.
Interrupt(r) ==
  /\ r \in Disturbed
  /\ signals[r] < MaxSignals
  /\ pc[r] \notin Ended
  /\ signals' = [signals EXCEPT ![r] = @ + 1]
  /\ \/ /\ pc[r] \in InFlow
        /\ Unwind(r, "Interrupt")
        /\ UNCHANGED <<manager, cut>>
     \/ /\ pc[r] \in {"start", "fallback"}
        /\ Move(r, "interrupted")
        /\ UNCHANGED <<outcome, manager, cut>>
     \/ /\ pc[r] = "releasing" /\ manager[r] = "stopping"
        /\ Move(r, "interrupted")
        /\ cut' = [cut EXCEPT ![r] = TRUE]
        /\ GoTo(r, "stopped")
        /\ UNCHANGED outcome
  /\ UNCHANGED <<options, port, child, handle, polls,
                 stage, attempt, trail, report>>

\* SIGKILL, or the machine's own end: no `finally`.
Crash(r) ==
  /\ r \in Disturbed
  /\ pc[r] \notin Ended
  /\ Move(r, "killed")
  /\ UNCHANGED <<options, serverVars, stage, attempt, outcome, trail,
                 report, signals, cut>>

-----------------------------------------------------------------------------
FlowStep(r) ==
  \/ Disabled(r) \/ Start(r) \/ Ensured(r) \/ Read(r) \/ StageDone(r)
  \/ RetryStage(r) \/ StageFails(r) \/ WriteReport(r) \/ Finally(r)
  \/ Return(r) \/ Fallback(r)

ServerStep(r) ==
  /\ pc[r] \in {"ensuring", "releasing"}
  /\ ManagerStep(r)
  /\ UNCHANGED <<options, runVars>>

Next ==
  \/ \E r \in Runner : FlowStep(r) \/ ServerStep(r) \/ Interrupt(r) \/ Crash(r)
  \/ Environment /\ UNCHANGED <<options, runVars>>

Spec == Init /\ [][Next]_vars

-----------------------------------------------------------------------------
(* Properties.                                                             *)

\* A command that ended by itself or on a signal leaves no server process
\* behind, unless a further signal broke the wait of its shutdown: the
\* `finally` of _handle_deliberative releases what ensure_running spawned,
\* however far the run had come.
NoOrphanServer ==
  \A r \in Runner :
    pc[r] \in {"ok", "failed", "interrupted"} /\ ~cut[r]
      => child[r] \in {"none", "gone"}

\* A deliberative success stands on a report on disk and on both stages, in
\* order; whatever else the run met, retries included, a stage is recorded
\* once and a completion only after both; and a success without a report is
\* the fallback's.
ReportBacked ==
  \A r \in Runner :
    /\ "workflow_completed" \in {trail[r][i] : i \in DOMAIN trail[r]}
         => /\ report[r]
            /\ trail[r] = <<"analysis_started", "stage_1", "stage_2",
                            "workflow_completed">>
    /\ At(r, "ok") => report[r] # (outcome[r] = "ReasonerUnavailableError")
=============================================================================
