------------------------ MODULE DeliberativeRunProofs ------------------------
(***************************************************************************)
(* The two promises of a deliberative run, for any number of processes,    *)
(* polls, retries and signals.  Each has an inductive invariant of its     *)
(* own: ServerInv says who may still have a child, RunInv what a run has   *)
(* recorded at each place of its program.                                  *)
(* EndInv, on top of RunInv, says what a run can have come to: the command *)
(* line's exit code rests on it.                                           *)
(***************************************************************************)
EXTENDS DeliberativeRun, SequenceTheorems, TLAPS

Child == {"none", "starting", "serving", "terminating", "gone"}
Place == {"start", "fallback", "finally", "releasing"} \cup InFlow \cup Ended

-----------------------------------------------------------------------------
(* The server.                                                             *)

ServerTypes ==
  /\ child \in [Runner -> Child]
  /\ handle \in [Runner -> BOOLEAN]
  /\ DOMAIN manager = Runner /\ manager = [r \in Runner |-> manager[r]]
  /\ pc \in [Runner -> Place]
  /\ cut \in [Runner -> BOOLEAN]

\* A live child is known to its manager; it cannot outlive a shutdown that
\* ran to its end; and a run that is over has been through that shutdown.
ServerOf(r) ==
  /\ Alive(r) => handle[r]
  /\ manager[r] = "stopped" /\ ~cut[r] => ~Alive(r)
  /\ pc[r] = "start" => ~Alive(r) /\ manager[r] = "idle"
  /\ pc[r] \in {"ok", "failed", "interrupted", "fallback"} /\ ~cut[r] => ~Alive(r)

ServerInv == ServerTypes /\ \A r \in Runner : ServerOf(r)

\* At first no process has a child.
LEMMA ServerStarts == Init => ServerInv
  BY DEF Init, ServerInit, ServerInv, ServerTypes, ServerOf, Alive, Child, Place,
         InFlow, Ended

\* Places move, the server does not: steps of the flow that the server's
\* invariant sees as a change of pc alone.
LEMMA ServerKeptByMoves ==
  ASSUME ServerInv, NEW r \in Runner,
         \/ Disabled(r) \/ Ensured(r) \/ Read(r) \/ StageDone(r) \/ RetryStage(r)
         \/ StageFails(r) \/ WriteReport(r) \/ Return(r) \/ Fallback(r) \/ Crash(r)
  PROVE  ServerInv'
<1>1. UNCHANGED <<child, handle, manager, cut>>
  BY DEF Disabled, Ensured, Read, StageDone, RetryStage, StageFails, WriteReport,
         Return, Fallback, Crash, serverVars
<1>2. \/ UNCHANGED pc
      \/ \E place \in Place \ {"start"} :
           /\ pc' = [pc EXCEPT ![r] = place]
           /\ place \in {"ok", "failed", "interrupted", "fallback"} /\ ~cut[r] => ~Alive(r)
  <2>1. CASE Disabled(r)
    BY <2>1 DEF Disabled, ServerInv, ServerOf, At, Move, Place, Ended
  <2>2. CASE Ensured(r) \/ Read(r) \/ StageDone(r) \/ RetryStage(r) \/ StageFails(r)
             \/ WriteReport(r) \/ Crash(r)
    BY <2>2 DEF Ensured, Read, StageDone, RetryStage, StageFails, WriteReport, Crash,
                Unwind, Move, Place, InFlow, Ended
  <2>3. CASE Return(r)
    BY <2>3 DEF Return, ServerInv, ServerOf, Move, Place, Ended
  <2>4. CASE Fallback(r)
    BY <2>4 DEF Fallback, ServerInv, ServerOf, At, Move, Place, Ended
  <2>. QED BY <2>1, <2>2, <2>3, <2>4
<1>. QED BY <1>1, <1>2 DEF ServerInv, ServerTypes, ServerOf, Alive

\* What the manager does leaves pc alone.
LEMMA ServerKeptByManager ==
  ASSUME ServerInv, NEW r \in Runner, ServerStep(r)
  PROVE  ServerInv'
<1>1. UNCHANGED <<pc, cut>> /\ pc[r] \in {"ensuring", "releasing"}
  BY DEF ServerStep, runVars
<1>2. CASE ProbeHealthy(r) \/ ProbeForeign(r) \/ WaitTimeout(r) \/ WaitPoll(r)
           \/ WaitHealthy(r) \/ WaitAgain(r)
  <2>1. /\ UNCHANGED <<child, handle>>
        /\ \E place \in {"ready", "failed", "polling", "waiting"} :
             manager' = [manager EXCEPT ![r] = place]
    BY <1>2 DEF ProbeHealthy, ProbeForeign, WaitTimeout, WaitPoll, WaitHealthy,
                WaitAgain, GoTo
  <2>. QED BY <1>1, <2>1 DEF ServerInv, ServerTypes, ServerOf, Alive
<1>3. CASE Spawn(r)
  <2>1. CASE /\ child' = [child EXCEPT ![r] = "starting"]
             /\ handle' = [handle EXCEPT ![r] = TRUE]
             /\ manager' = [manager EXCEPT ![r] = "waiting"]
    BY <1>1, <2>1 DEF ServerInv, ServerTypes, ServerOf, Alive, Child
  <2>2. CASE /\ UNCHANGED <<child, handle>>
             /\ manager' = [manager EXCEPT ![r] = "failed"]
    BY <1>1, <2>2 DEF ServerInv, ServerTypes, ServerOf, Alive
  <2>. QED BY <1>3, <2>1, <2>2 DEF Spawn, GoTo
<1>4. CASE Shutdown(r)
  <2>1. CASE /\ child' = [child EXCEPT ![r] = "terminating"]
             /\ handle[r] /\ UNCHANGED handle
             /\ manager' = [manager EXCEPT ![r] = "stopping"]
    BY <1>1, <2>1 DEF ServerInv, ServerTypes, ServerOf, Alive, Child
  <2>2. CASE /\ ~(handle[r] /\ Alive(r)) /\ UNCHANGED child
             /\ handle' = [handle EXCEPT ![r] = FALSE]
             /\ manager' = [manager EXCEPT ![r] = "stopped"]
    <3>1. ~Alive(r)
      BY <2>2 DEF ServerInv, ServerOf
    <3>. QED BY <1>1, <2>2, <3>1 DEF ServerInv, ServerTypes, ServerOf, Alive
  <2>. QED BY <1>4, <2>1, <2>2 DEF Shutdown, GoTo
<1>5. CASE Reaped(r)
  BY <1>1, <1>5 DEF Reaped, GoTo, ServerInv, ServerTypes, ServerOf, Alive, Child
<1>6. CASE Kill(r)
  BY <1>1, <1>6 DEF Kill, GoTo, ServerInv, ServerTypes, ServerOf, Alive, Child
<1>. QED BY <1>2, <1>3, <1>4, <1>5, <1>6 DEF ServerStep, ManagerStep

\* Start, the `finally` and a signal move both.
LEMMA ServerKeptByTurns ==
  ASSUME ServerInv, NEW r \in Runner, Start(r) \/ Finally(r) \/ Interrupt(r)
  PROVE  ServerInv'
<1>1. CASE Start(r)
  BY <1>1 DEF Start, At, Move, Unwind, GoTo, ServerInv, ServerTypes, ServerOf, Alive,
              Place, InFlow
<1>2. CASE Finally(r)
  BY <1>2 DEF Finally, At, Move, GoTo, ServerInv, ServerTypes, ServerOf, Alive, Place
<1>3. CASE Interrupt(r)
  <2>1. CASE pc[r] \in InFlow /\ Unwind(r, "Interrupt") /\ UNCHANGED <<manager, cut>>
    BY <1>3, <2>1 DEF Interrupt, Unwind, Move, ServerInv, ServerTypes, ServerOf, Alive,
                      Place, InFlow
  <2>2. CASE /\ pc[r] \in {"start", "fallback"} /\ Move(r, "interrupted")
             /\ UNCHANGED <<outcome, manager, cut>>
    BY <1>3, <2>2 DEF Interrupt, Move, ServerInv, ServerTypes, ServerOf, Alive, Place,
                      Ended
  <2>3. CASE /\ Move(r, "interrupted") /\ cut' = [cut EXCEPT ![r] = TRUE]
             /\ GoTo(r, "stopped")
    BY <1>3, <2>3 DEF Interrupt, Move, GoTo, ServerInv, ServerTypes, ServerOf, Alive,
                      Place, Ended
  <2>. QED BY <1>3, <2>1, <2>2, <2>3 DEF Interrupt
<1>. QED BY <1>1, <1>2, <1>3

\* The environment starts nothing: a child binds or goes.
LEMMA ServerKeptByEnvironment ==
  ASSUME ServerInv, Environment, UNCHANGED <<options, runVars>>
  PROVE  ServerInv'
<1>1. PICK r \in Runner : ChildBinds(r) \/ ChildExits(r)
  BY DEF Environment
<1>2. UNCHANGED <<handle, manager, pc, cut>>
  BY <1>1 DEF ChildBinds, ChildExits, runVars
<1>3. /\ Alive(r)
      /\ child' = [child EXCEPT ![r] = "serving"] \/ child' = [child EXCEPT ![r] = "gone"]
  BY <1>1 DEF ChildBinds, ChildExits, Alive
<1>. QED BY <1>2, <1>3 DEF ServerInv, ServerTypes, ServerOf, Alive, Child

LEMMA ServerKept == ServerInv /\ [Next]_vars => ServerInv'
<1>. SUFFICES ASSUME ServerInv, [Next]_vars PROVE ServerInv'
  OBVIOUS
<1>1. CASE UNCHANGED vars
  BY <1>1 DEF vars, ServerInv, ServerTypes, ServerOf, Alive
<1>2. ASSUME NEW r \in Runner, FlowStep(r) \/ ServerStep(r) \/ Interrupt(r) \/ Crash(r)
      PROVE  ServerInv'
  BY <1>2, ServerKeptByMoves, ServerKeptByManager, ServerKeptByTurns DEF FlowStep
<1>3. CASE Environment /\ UNCHANGED <<options, runVars>>
  BY <1>3, ServerKeptByEnvironment
<1>. QED BY <1>1, <1>2, <1>3 DEF Next

\* No command that ended by itself, or on a first signal, leaves a server
\* behind, however many processes compete for the port and whenever the
\* signal came: the `finally` of _handle_deliberative.
THEOREM ServersAreReleased == Spec => []NoOrphanServer
<1>1. ServerInv => NoOrphanServer
  BY DEF ServerInv, ServerTypes, ServerOf, NoOrphanServer, Alive, Child
<1>. QED BY <1>1, ServerStarts, ServerKept, PTL DEF Spec

-----------------------------------------------------------------------------
(* The record.                                                             *)

Full == <<"analysis_started", "stage_1", "stage_2", "workflow_completed">>
Partial == {<<>>, OverBudget, <<"analysis_started">>, <<"analysis_started", "stage_1">>,
            <<"analysis_started", "stage_1", "stage_2">>}

RunTypes ==
  /\ pc \in [Runner -> Place]
  /\ report \in [Runner -> BOOLEAN]
  /\ DOMAIN outcome = Runner /\ outcome = [r \in Runner |-> outcome[r]]
  /\ trail \in [Runner -> Partial \cup {Full}]
  /\ stage \in [Runner -> {1, 2}]

\* What is recorded at each place; the report, the full trail and the
\* outcome "ok" come together, and a run that is over succeeded by itself
\* or fell back.
RunOf(r) ==
  /\ report[r] <=> outcome[r] = "ok"
  /\ report[r] <=> trail[r] = Full
  /\ pc[r] \in {"start"} \cup InFlow => outcome[r] = "pending"
  /\ pc[r] \in {"start", "ensuring", "reading"} => trail[r] = <<>> /\ stage[r] = 1
  /\ pc[r] = "asking" => trail[r] = IF stage[r] = 1 THEN <<"analysis_started">>
                                    ELSE <<"analysis_started", "stage_1">>
  /\ pc[r] = "writing" => trail[r] = <<"analysis_started", "stage_1", "stage_2">>
  /\ pc[r] = "ok" => outcome[r] \in {"ok", "ReasonerUnavailableError"}
  /\ pc[r] = "fallback" => outcome[r] = "ReasonerUnavailableError"

RunInv == RunTypes /\ \A r \in Runner : RunOf(r)

\* A trail short of Full completes nothing.
LEMMA PartialTrails ==
  /\ Full \notin Partial
  /\ \A t \in Partial : "workflow_completed" \notin {t[i] : i \in DOMAIN t}
<1>1. ASSUME NEW t \in Partial PROVE t # Full /\ \A i \in DOMAIN t : t[i] # "workflow_completed"
  <2>1. CASE t = <<>> BY <2>1 DEF Full
  <2>2. CASE t = OverBudget BY <2>2 DEF Full, OverBudget
  <2>3. CASE t = <<"analysis_started">> BY <2>3 DEF Full
  <2>4. CASE t = <<"analysis_started", "stage_1">> BY <2>4 DEF Full
  <2>5. CASE t = <<"analysis_started", "stage_1", "stage_2">> BY <2>5 DEF Full
  <2>. QED BY <1>1, <2>1, <2>2, <2>3, <2>4, <2>5 DEF Partial
<1>. QED BY <1>1

\* At first nothing is recorded.
LEMMA RunStarts == Init => RunInv
<1>. SUFFICES ASSUME Init PROVE RunInv
  OBVIOUS
<1>1. <<>> \in Partial /\ <<>> # Full
  BY PartialTrails DEF Partial
<1>. QED BY <1>1 DEF Init, RunInv, RunTypes, RunOf, Place, InFlow

\* Steps that leave the record and the outcome alone and do not enter the
\* flow.
LEMMA RunKeptByMoves ==
  ASSUME RunInv, NEW r \in Runner,
         UNCHANGED <<report, outcome, trail, stage>>,
         NEW place \in Place \ {"start", "asking", "writing"},
         pc' = [pc EXCEPT ![r] = place],
         place = "ensuring" => pc[r] = "start",
         place = "reading" => pc[r] = "ensuring",
         place = "ok" => outcome[r] \in {"ok", "ReasonerUnavailableError"},
         place = "fallback" => outcome[r] = "ReasonerUnavailableError"
  PROVE  RunInv'
BY DEF RunInv, RunTypes, RunOf, Place, InFlow

\* An exception, in the flow, that is not a completion.
LEMMA RunKeptByExceptions ==
  ASSUME RunInv, NEW r \in Runner, pc[r] \in {"start"} \cup InFlow,
         NEW exception, exception # "ok",
         Unwind(r, exception) \/ (/\ outcome' = [outcome EXCEPT ![r] = exception]
                                  /\ pc' = [pc EXCEPT ![r] = "failed"]),
         UNCHANGED <<report, stage>>,
         trail' = trail \/ trail' = [trail EXCEPT ![r] = OverBudget]
  PROVE  RunInv'
<1>1. OverBudget \in Partial /\ OverBudget # Full
  BY PartialTrails DEF Partial
<1>. QED BY <1>1 DEF Unwind, Move, RunInv, RunTypes, RunOf, Place, InFlow, Ended

\* A sequence with one element more is what Append makes of it.
LEMMA AppendIs ==
  ASSUME NEW S, NEW s \in Seq(S), NEW t \in Seq(S), NEW e \in S,
         Len(t) = Len(s) + 1, t[Len(s) + 1] = e, \A i \in 1..Len(s) : t[i] = s[i]
  PROVE  Append(s, e) = t
<1>1. \A i \in 1..Len(t) : i \in 1..Len(s) \/ i = Len(s) + 1
  OBVIOUS
<1>2. /\ Append(s, e) \in Seq(S) /\ Len(Append(s, e)) = Len(t)
      /\ \A i \in 1..Len(s) : Append(s, e)[i] = t[i]
      /\ Append(s, e)[Len(s) + 1] = t[Len(s) + 1]
  BY AppendProperties
<1>. QED BY <1>1, <1>2, SeqEqual

\* The same for the trails, which are this long.
LEMMA ShortAppends ==
  ASSUME NEW S, NEW a \in S, NEW b \in S, NEW c \in S, NEW d \in S
  PROVE  /\ Append(<<a>>, b) = <<a, b>>
         /\ Append(<<a, b>>, c) = <<a, b, c>>
         /\ Append(<<a, b, c>>, d) = <<a, b, c, d>>
<1>1. PICK one \in Seq(S) : one = <<a>> /\ Len(one) = 1 /\ one[1] = a
  <2>1. <<a>> \in Seq(S) /\ Len(<<a>>) = 1 /\ <<a>>[1] = a
    OBVIOUS
  <2>. QED BY <2>1, Zenon
<1>2. PICK two \in Seq(S) : two = <<a, b>> /\ Len(two) = 2 /\ two[1] = a /\ two[2] = b
  <2>1. <<a, b>> \in Seq(S) /\ Len(<<a, b>>) = 2 /\ <<a, b>>[1] = a /\ <<a, b>>[2] = b
    OBVIOUS
  <2>. QED BY <2>1, Zenon
<1>3. PICK three \in Seq(S) : /\ three = <<a, b, c>> /\ Len(three) = 3
                             /\ three[1] = a /\ three[2] = b /\ three[3] = c
  <2>1. /\ <<a, b, c>> \in Seq(S) /\ Len(<<a, b, c>>) = 3
        /\ <<a, b, c>>[1] = a /\ <<a, b, c>>[2] = b /\ <<a, b, c>>[3] = c
    OBVIOUS
  <2>. QED BY <2>1, Zenon
<1>4. PICK four \in Seq(S) :
        /\ four = <<a, b, c, d>> /\ Len(four) = 4
        /\ four[1] = a /\ four[2] = b /\ four[3] = c /\ four[4] = d
  <2>1. /\ <<a, b, c, d>> \in Seq(S) /\ Len(<<a, b, c, d>>) = 4
        /\ <<a, b, c, d>>[1] = a /\ <<a, b, c, d>>[2] = b
        /\ <<a, b, c, d>>[3] = c /\ <<a, b, c, d>>[4] = d
    OBVIOUS
  <2>. QED BY <2>1, Zenon
<1>5. Append(one, b) = two
  <2>1. Len(two) = Len(one) + 1 /\ two[Len(one) + 1] = b /\ \A i \in 1..Len(one) : one[i] = two[i]
    BY <1>1, <1>2
  <2>. QED BY <2>1, AppendIs
<1>6. Append(two, c) = three
  <2>1. /\ Len(three) = Len(two) + 1 /\ three[Len(two) + 1] = c
        /\ \A i \in 1..Len(two) : two[i] = three[i]
    BY <1>2, <1>3
  <2>. QED BY <2>1, AppendIs
<1>7. Append(three, d) = four
  <2>1. /\ Len(four) = Len(three) + 1 /\ four[Len(three) + 1] = d
        /\ \A i \in 1..Len(three) : three[i] = four[i]
    BY <1>3, <1>4
  <2>. QED BY <2>1, AppendIs
<1>8. Append(<<a>>, b) = <<a, b>>
  BY <1>1, <1>2, <1>5, Zenon
<1>9. Append(<<a, b>>, c) = <<a, b, c>>
  BY <1>2, <1>3, <1>6, Zenon
<1>10. Append(<<a, b, c>>, d) = <<a, b, c, d>>
  BY <1>3, <1>4, <1>7, Zenon
<1>. QED BY <1>8, <1>9, <1>10, Zenon

\* What each event makes of the trail it is appended to.
LEMMA TrailsGrow ==
  /\ Append(<<>>, "analysis_started") = <<"analysis_started">>
  /\ <<>> \o OverBudget = OverBudget
  /\ Append(<<"analysis_started">>, "stage_1") = <<"analysis_started", "stage_1">>
  /\ Append(<<"analysis_started", "stage_1">>, "stage_2")
       = <<"analysis_started", "stage_1", "stage_2">>
  /\ Append(<<"analysis_started", "stage_1", "stage_2">>, "workflow_completed") = Full
<1>. DEFINE E == {"analysis_started", "budget_tripped", "stage_1", "stage_2",
                  "workflow_completed"}
<1>1. <<>> \in Seq(E) /\ <<"analysis_started">> \in Seq(E) /\ OverBudget \in Seq(E)
  BY DEF OverBudget
<1>2. Append(<<>>, "analysis_started") = <<"analysis_started">>
  BY <1>1, AppendIs
<1>3. <<>> \o OverBudget = OverBudget
  <2>. HIDE DEF E
  <2>. QED BY <1>1, ConcatEmptySeq
<1>4. /\ "analysis_started" \in E /\ "stage_1" \in E /\ "stage_2" \in E
      /\ "workflow_completed" \in E
  OBVIOUS
<1>. HIDE DEF E
<1>5. ASSUME NEW a \in E, NEW b \in E, NEW c \in E, NEW d \in E
      PROVE  /\ Append(<<a>>, b) = <<a, b>>
             /\ Append(<<a, b>>, c) = <<a, b, c>>
             /\ Append(<<a, b, c>>, d) = <<a, b, c, d>>
  BY ShortAppends
<1>6. Append(<<"analysis_started">>, "stage_1") = <<"analysis_started", "stage_1">>
  BY <1>4, <1>5, Zenon
<1>7. Append(<<"analysis_started", "stage_1">>, "stage_2")
        = <<"analysis_started", "stage_1", "stage_2">>
  BY <1>4, <1>5, Zenon
<1>8. Append(<<"analysis_started", "stage_1", "stage_2">>, "workflow_completed")
        = <<"analysis_started", "stage_1", "stage_2", "workflow_completed">>
  <2>1. PICK a \in E, b \in E, c \in E, d \in E :
          /\ a = "analysis_started" /\ b = "stage_1"
          /\ c = "stage_2" /\ d = "workflow_completed"
    BY <1>4, Zenon
  <2>2. /\ Append(<<a>>, b) = <<a, b>>
        /\ Append(<<a, b>>, c) = <<a, b, c>>
        /\ Append(<<a, b, c>>, d) = <<a, b, c, d>>
    BY <1>5
  <2>. QED BY <2>1, <2>2, Zenon
<1>9. Full = <<"analysis_started", "stage_1", "stage_2", "workflow_completed">>
  BY DEF Full
<1>. QED BY <1>2, <1>3, <1>6, <1>7, <1>8, <1>9, Zenon

\* The steps that record something.
LEMMA RunKeptByRecords ==
  ASSUME RunInv, NEW r \in Runner, Read(r) \/ StageDone(r) \/ WriteReport(r)
  PROVE  RunInv'
<1>. USE DEF At, Move
<1>1. /\ pc[r] \in InFlow /\ outcome[r] = "pending" /\ ~report[r]
      /\ stage[r] \in {1, 2} /\ trail[r] \in Partial \cup {Full}
  BY DEF Read, StageDone, WriteReport, InFlow, RunInv, RunTypes, RunOf
<1>2. CASE Read(r)
  <2>1. trail[r] = <<>> /\ stage[r] = 1
    BY <1>2 DEF Read, RunInv, RunOf
  <2>2. CASE Unwind(r, "Error") /\ UNCHANGED <<trail, attempt>>
    BY <1>1, <1>2, <2>2, RunKeptByExceptions DEF Read
  <2>3. CASE trail' = [trail EXCEPT ![r] = @ \o OverBudget] /\ Unwind(r, "Error")
    <3>1. trail' = [trail EXCEPT ![r] = OverBudget]
      BY <2>1, <2>3, TrailsGrow DEF RunInv, RunTypes
    <3>. QED BY <1>1, <1>2, <2>3, <3>1, RunKeptByExceptions DEF Read
  <2>4. CASE /\ Record(r, "analysis_started") /\ pc' = [pc EXCEPT ![r] = "asking"]
             /\ UNCHANGED outcome
    <3>1. trail' = [trail EXCEPT ![r] = <<"analysis_started">>]
      BY <2>1, <2>4, TrailsGrow DEF Record, RunInv, RunTypes
    <3>2. <<"analysis_started">> \in Partial /\ <<"analysis_started">> # Full
      BY PartialTrails DEF Partial
    <3>3. UNCHANGED <<report, stage>>
      BY <1>2 DEF Read
    <3>. QED BY <1>1, <2>1, <2>4, <3>1, <3>2, <3>3
             DEF RunInv, RunTypes, RunOf, Place, InFlow
  <2>. QED BY <1>2, <2>2, <2>3, <2>4 DEF Read
<1>3. CASE StageDone(r)
  <2>1. UNCHANGED <<report, outcome>> /\ pc[r] = "asking"
    BY <1>3 DEF StageDone
  <2>2. CASE stage[r] = 1
    <3>1. trail[r] = <<"analysis_started">>
      BY <2>1, <2>2 DEF RunInv, RunOf
    <3>2. trail' = [trail EXCEPT ![r] = <<"analysis_started", "stage_1">>]
      BY <1>3, <2>2, <3>1, TrailsGrow DEF StageDone, Record, StageEvent, RunInv, RunTypes
    <3>3. stage' = [stage EXCEPT ![r] = 2] /\ UNCHANGED pc
      BY <1>3, <2>2 DEF StageDone
    <3>4. /\ <<"analysis_started", "stage_1">> \in Partial
          /\ <<"analysis_started", "stage_1">> # Full
      BY PartialTrails DEF Partial
    <3>. QED BY <1>1, <2>1, <3>2, <3>3, <3>4 DEF RunInv, RunTypes, RunOf, InFlow
  <2>3. CASE stage[r] = 2
    <3>1. trail[r] = <<"analysis_started", "stage_1">>
      BY <2>1, <2>3 DEF RunInv, RunOf
    <3>2. trail' = [trail EXCEPT ![r] = <<"analysis_started", "stage_1", "stage_2">>]
      <4>1. StageEvent(stage[r]) = "stage_2"
        BY <2>3 DEF StageEvent
      <4>. QED BY <1>3, <3>1, <4>1, TrailsGrow DEF StageDone, Record, RunInv, RunTypes
    <3>3. pc' = [pc EXCEPT ![r] = "writing"] /\ UNCHANGED stage
      BY <1>3, <2>3 DEF StageDone
    <3>4. /\ <<"analysis_started", "stage_1", "stage_2">> \in Partial
          /\ <<"analysis_started", "stage_1", "stage_2">> # Full
      BY PartialTrails DEF Partial
    <3>. QED BY <1>1, <2>1, <3>2, <3>3, <3>4 DEF RunInv, RunTypes, RunOf, Place, InFlow
  <2>. QED BY <1>1, <2>2, <2>3
<1>4. CASE WriteReport(r)
  <2>1. UNCHANGED stage /\ pc[r] = "writing"
    BY <1>4 DEF WriteReport
  <2>2. CASE /\ report' = [report EXCEPT ![r] = TRUE]
             /\ Record(r, "workflow_completed") /\ Unwind(r, "ok")
    <3>1. trail[r] = <<"analysis_started", "stage_1", "stage_2">>
      BY <2>1 DEF RunInv, RunOf
    <3>2. trail' = [trail EXCEPT ![r] = Full]
      BY <2>2, <3>1, TrailsGrow DEF Record, RunInv, RunTypes
    <3>. QED BY <2>1, <2>2, <3>2 DEF Unwind, RunInv, RunTypes, RunOf, Place, InFlow
  <2>3. CASE Unwind(r, "Error") /\ UNCHANGED <<report, trail>>
    BY <1>1, <2>1, <2>3, RunKeptByExceptions
  <2>. QED BY <1>4, <2>2, <2>3 DEF WriteReport
<1>. QED BY <1>2, <1>3, <1>4

\* The steps that only move on, or raise.
LEMMA RunKeptByFlow ==
  ASSUME RunInv, NEW r \in Runner,
         \/ Disabled(r) \/ Start(r) \/ Ensured(r) \/ RetryStage(r) \/ StageFails(r)
         \/ Finally(r) \/ Return(r) \/ Fallback(r) \/ Interrupt(r) \/ Crash(r)
  PROVE  RunInv'
<1>. USE DEF At
<1>1. UNCHANGED <<report, stage, trail>>
  BY DEF Disabled, Start, Ensured, RetryStage, StageFails, Finally, Return, Fallback,
         Interrupt, Crash
<1>2. CASE Disabled(r)
  BY <1>1, <1>2, RunKeptByExceptions DEF Disabled, Move
<1>3. CASE Start(r)
  <2>1. CASE Unwind(r, "Error")
    BY <1>1, <1>3, <2>1, RunKeptByExceptions DEF Start
  <2>2. CASE Move(r, "ensuring") /\ UNCHANGED outcome
    BY <1>1, <1>3, <2>2, RunKeptByMoves DEF Start, Move, Place, InFlow
  <2>. QED BY <1>3, <2>1, <2>2 DEF Start
<1>4. CASE Ensured(r)
  <2>1. CASE Unwind(r, "ReasonerUnavailableError")
    BY <1>1, <1>4, <2>1, RunKeptByExceptions DEF Ensured, InFlow
  <2>2. CASE Move(r, "reading") /\ UNCHANGED outcome
    BY <1>1, <1>4, <2>2, RunKeptByMoves DEF Ensured, Move, Place, InFlow
  <2>. QED BY <1>4, <2>1, <2>2 DEF Ensured
<1>5. CASE RetryStage(r) \/ StageFails(r)
  <2>1. pc[r] \in InFlow
    BY <1>5 DEF RetryStage, StageFails, InFlow
  <2>2. CASE UNCHANGED <<pc, outcome>>
    BY <1>1, <2>2 DEF RunInv, RunTypes, RunOf
  <2>3. CASE Unwind(r, "ReasonerUnavailableError") \/ Unwind(r, "Error")
    BY <1>1, <2>1, <2>3, RunKeptByExceptions
  <2>. QED BY <1>5, <2>2, <2>3 DEF RetryStage, StageFails
<1>6. CASE Finally(r)
  BY <1>1, <1>6, RunKeptByMoves DEF Finally, Move, Place
<1>7. CASE Return(r)
  <2>1. PICK place \in {"ok", "interrupted", "fallback", "failed"} :
          /\ pc' = [pc EXCEPT ![r] = place]
          /\ place = "ok" => outcome[r] = "ok"
          /\ place = "fallback" => outcome[r] = "ReasonerUnavailableError"
    BY <1>7 DEF Return, Move
  <2>2. UNCHANGED outcome
    BY <1>7 DEF Return
  <2>. QED BY <1>1, <2>1, <2>2, RunKeptByMoves DEF Place, Ended
<1>8. CASE Fallback(r)
  <2>1. outcome[r] = "ReasonerUnavailableError" /\ UNCHANGED outcome
    BY <1>8 DEF Fallback, RunInv, RunOf
  <2>. QED BY <1>1, <1>8, <2>1, RunKeptByMoves DEF Fallback, Move, Place, Ended
<1>9. CASE Interrupt(r)
  <2>1. CASE pc[r] \in InFlow /\ Unwind(r, "Interrupt")
    BY <1>1, <2>1, RunKeptByExceptions
  <2>2. CASE Move(r, "interrupted") /\ UNCHANGED outcome
    BY <1>1, <2>2, RunKeptByMoves DEF Move, Place, Ended
  <2>. QED BY <1>9, <2>1, <2>2 DEF Interrupt
<1>10. CASE Crash(r)
  BY <1>1, <1>10, RunKeptByMoves DEF Crash, Move, Place, Ended
<1>. QED BY <1>2, <1>3, <1>4, <1>5, <1>6, <1>7, <1>8, <1>9, <1>10

LEMMA RunKept == RunInv /\ [Next]_vars => RunInv'
<1>. SUFFICES ASSUME RunInv, [Next]_vars PROVE RunInv'
  OBVIOUS
<1>1. CASE UNCHANGED runVars
  BY <1>1 DEF runVars, RunInv, RunTypes, RunOf
<1>2. ASSUME NEW r \in Runner, FlowStep(r) \/ Interrupt(r) \/ Crash(r)
      PROVE  RunInv'
  BY <1>2, RunKeptByRecords, RunKeptByFlow DEF FlowStep
<1>. QED BY <1>1, <1>2 DEF Next, ServerStep, vars, runVars

\* A deliberative run that says it completed has both stages, in order, once
\* each, and its report on disk; a success without a report is the fallback's
\* (DeliberativeFlow.run and AnalyzeBillHandler._handle_deliberative).
THEOREM ReportsAreBacked == Spec => []ReportBacked
<1>1. RunInv => ReportBacked
  <2>. SUFFICES ASSUME RunInv, NEW r \in Runner
       PROVE /\ "workflow_completed" \in {trail[r][i] : i \in DOMAIN trail[r]}
                  => report[r] /\ trail[r] = Full
             /\ At(r, "ok") => report[r] # (outcome[r] = "ReasonerUnavailableError")
    BY DEF ReportBacked, Full
  <2>1. trail[r] \in Partial \cup {Full} /\ report[r] \in BOOLEAN /\ RunOf(r)
    BY DEF RunInv, RunTypes
  <2>. QED BY <2>1, PartialTrails DEF RunOf, At
<1>. QED BY <1>1, RunStarts, RunKept, PTL DEF Spec

-----------------------------------------------------------------------------
(* What a run comes to.                                                    *)

\* Only an enabled run gets past its start; an unavailable Reasoner is found
\* out before or after the estimate, never by it; a success is the run's own
\* or a fallback somebody asked for; and nobody fails who succeeded.
EndOf(r) ==
  /\ options[r].enabled \/ pc[r] \in {"start", "failed", "interrupted", "killed"}
  /\ ~options[r].enabled => trail[r] = <<>> /\ outcome[r] # "ReasonerUnavailableError"
  /\ outcome[r] = "ReasonerUnavailableError" => trail[r] # OverBudget
  /\ pc[r] = "fallback" => options[r].fallback
  /\ pc[r] = "ok" /\ outcome[r] = "ReasonerUnavailableError" => options[r].fallback
  /\ pc[r] = "failed" => outcome[r] # "ok"

EndInv == \A r \in Runner : EndOf(r)

LEMMA EndKept == RunInv /\ EndInv /\ [Next]_vars => EndInv'
<1>. SUFFICES ASSUME RunInv, EndInv, [Next]_vars PROVE EndInv'
  OBVIOUS
<1>. USE DEF EndInv, EndOf
<1>1. CASE UNCHANGED <<options, runVars>>
  BY <1>1 DEF runVars
<1>2. ASSUME NEW r \in Runner, FlowStep(r) \/ Interrupt(r) \/ Crash(r)
      PROVE  EndInv'
  <2>. /\ DOMAIN pc = Runner /\ DOMAIN outcome = Runner /\ DOMAIN trail = Runner
       /\ UNCHANGED options
    BY <1>2 DEF RunInv, RunTypes, FlowStep, Disabled, Start, Ensured, Read, StageDone,
                RetryStage, StageFails, WriteReport, Finally, Return, Fallback,
                Interrupt, Crash
  <2>. USE DEF At, Move, Unwind, InFlow, Ended
  <2>1. CASE Disabled(r)
    BY <2>1 DEF Disabled, RunInv, RunOf
  <2>2. CASE Start(r)
    BY <2>2 DEF Start, RunInv, RunOf
  <2>3. CASE Ensured(r)
    <3>1. trail[r] = <<>> /\ <<>> # OverBudget
      BY <2>3 DEF Ensured, RunInv, RunOf, OverBudget
    <3>. QED BY <2>3, <3>1 DEF Ensured
  <2>4. CASE Read(r)
    BY <2>4 DEF Read, Record, RunInv, RunOf
  <2>5. CASE StageDone(r)
    BY <2>5 DEF StageDone, Record, RunInv, RunOf
  <2>6. CASE RetryStage(r) \/ StageFails(r)
    <3>1. trail[r] # OverBudget /\ pc[r] = "asking"
      BY <2>6 DEF RetryStage, StageFails, RunInv, RunOf, OverBudget
    <3>. QED BY <2>6, <3>1 DEF RetryStage, StageFails
  <2>7. CASE WriteReport(r)
    BY <2>7 DEF WriteReport, Record, RunInv, RunOf
  <2>8. CASE Finally(r)
    BY <2>8 DEF Finally
  <2>9. CASE Return(r)
    BY <2>9 DEF Return
  <2>10. CASE Fallback(r)
    BY <2>10 DEF Fallback, RunInv, RunOf
  <2>11. CASE Interrupt(r)
    BY <2>11 DEF Interrupt
  <2>12. CASE Crash(r)
    BY <2>12 DEF Crash
  <2>. QED BY <1>2, <2>1, <2>2, <2>3, <2>4, <2>5, <2>6, <2>7, <2>8, <2>9, <2>10, <2>11,
              <2>12 DEF FlowStep
<1>. QED BY <1>1, <1>2 DEF Next, ServerStep, vars, runVars

\* At first nobody has come to anything.
LEMMA EndStarts == Init => EndInv
  BY DEF Init, EndInv, EndOf
=============================================================================
