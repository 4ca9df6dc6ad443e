-------------------------- MODULE CommandLineProofs --------------------------
(***************************************************************************)
(* The whole invocation keeps what its parts promise.  The shell moves the *)
(* deliberative run and the event store only by their own actions, so      *)
(* every behaviour of the command line is one of DeliberativeRun and one   *)
(* of EventStore, and the invariants of both carry over.  What the shell   *)
(* says in the end, its exit code and its one document, follows from what  *)
(* its handler met: the file, the store or the run.                        *)
(***************************************************************************)
EXTENDS CommandLine, DeliberativeRunProofs, BillParserProofs

-----------------------------------------------------------------------------
(* The event store.  Why ordering by seq gives back the order in which one  *)
(* process published, for any number of runs, processes and lost events:   *)
(* within a life the numbers of a run rise with the calls, and the counter *)
(* of the process that has the store open is never behind its own rows.    *)
(* Of the rows of earlier lives it knows nothing.                          *)

StoreTypes ==
  /\ rows \subseteq StoredEvent
  /\ next \in [Run -> Nat]
  /\ calls \in Nat /\ lives \in Nat

Numbered ==
  /\ \A x \in rows : x.id <= calls /\ x.life <= lives
  /\ \A x, y \in rows : x.id = y.id => x = y
  /\ \A x, y \in rows :
       x.run = y.run /\ x.life = y.life /\ x.id < y.id => x.seq < y.seq
  /\ \A x \in rows : x.life = lives => x.seq <= next[x.run]

StoreInv == StoreTypes /\ Numbered

\* An empty table is numbered.
LEMMA StoreStarts == StoreInit => StoreInv
  BY DEF StoreInit, StoreInv, StoreTypes, Numbered

\* The new row has the greatest id of all, and the greatest seq its process
\* gave its run.
LEMMA PublishKeeps ==
  ASSUME StoreInv, NEW u \in Run, NEW type \in EventType, Publish(u, type)
  PROVE  StoreInv'
<1>. DEFINE new == NewRow(u, type)
<1>1. /\ rows' = rows \cup {new} /\ calls' = calls + 1 /\ lives' = lives
      /\ next' = [next EXCEPT ![u] = @ + 1]
  BY DEF Publish
<1>2. /\ calls \in Nat /\ lives \in Nat /\ next \in [Run -> Nat]
      /\ rows \subseteq StoredEvent
  BY DEF StoreInv, StoreTypes
<1>3. /\ new \in StoredEvent /\ new.life = lives
      /\ new.id = calls + 1 /\ new.run = u /\ new.seq = next[u] + 1
  BY <1>2 DEF NewRow, StoredEvent
<1>. HIDE DEF new
<1>4. ASSUME NEW x \in rows
      PROVE  /\ x.id \in Nat /\ x.seq \in Nat /\ x.life \in Nat /\ x.run \in Run
             /\ x.id < new.id /\ x.life <= lives
             /\ x.life = lives => x.seq <= next[x.run]
  BY <1>2, <1>3 DEF StoreInv, Numbered, StoredEvent
<1>5. StoreTypes'
  BY <1>1, <1>2, <1>3 DEF StoreTypes
<1>6. \A x \in rows' : x.id <= calls' /\ x.life <= lives'
  BY <1>1, <1>2, <1>3, <1>4
<1>7. \A x, y \in rows' : x.id = y.id => x = y
  BY <1>1, <1>2, <1>3, <1>4 DEF StoreInv, Numbered
<1>8. ASSUME NEW x \in rows', NEW y \in rows', x.run = y.run, x.life = y.life, x.id < y.id
      PROVE  x.seq < y.seq
  <2>1. CASE x \in rows /\ y \in rows
    BY <1>8, <2>1 DEF StoreInv, Numbered
  <2>2. CASE x \in rows /\ y = new
    BY <1>2, <1>3, <1>4, <1>8, <2>2
  <2>3. x # new
    BY <1>1, <1>2, <1>3, <1>4, <1>8
  <2>. QED BY <1>1, <2>1, <2>2, <2>3
<1>9. ASSUME NEW x \in rows', x.life = lives' PROVE x.seq <= next'[x.run]
  <2>1. CASE x = new
    BY <1>1, <1>2, <1>3, <2>1
  <2>2. CASE x \in rows
    BY <1>1, <1>2, <1>4, <1>9, <2>2
  <2>. QED BY <1>1, <2>1, <2>2
<1>. QED BY <1>5, <1>6, <1>7, <1>8, <1>9 DEF StoreInv, Numbered

LEMMA StoreKept == StoreInv /\ [StoreStep]_storeVars => StoreInv'
<1>. SUFFICES ASSUME StoreInv, [StoreStep]_storeVars PROVE StoreInv'
  OBVIOUS
<1>1. CASE CloseStore \/ UNCHANGED storeVars
  BY <1>1 DEF CloseStore, storeVars, StoreInv, StoreTypes, Numbered
<1>2. CASE OpenStore
  <2>1. \A x \in rows : x.life \in Nat
    BY DEF StoreInv, StoreTypes, StoredEvent
  <2>. QED BY <1>2, <2>1 DEF OpenStore, StoreInv, StoreTypes, Numbered
<1>3. CASE ClearStore
  BY <1>3 DEF ClearStore, StoreInv, StoreTypes, Numbered
<1>4. ASSUME NEW u \in Run, PublishLost(u) PROVE StoreInv'
  <2>1. /\ rows' = rows /\ calls' = calls + 1 /\ lives' = lives
        /\ next' = [next EXCEPT ![u] = @ + 1]
    BY <1>4 DEF PublishLost
  <2>2. \A x \in rows : x.id \in Nat /\ x.seq \in Nat /\ x.run \in Run
    BY DEF StoreInv, StoreTypes, StoredEvent
  <2>. QED BY <2>1, <2>2 DEF StoreInv, StoreTypes, Numbered
<1>5. ASSUME NEW u \in Run, NEW type \in EventType, Publish(u, type) PROVE StoreInv'
  BY <1>5, PublishKeeps
<1>. QED BY <1>1, <1>2, <1>3, <1>4, <1>5 DEF StoreStep

\* Rows that are numbered come back, life by life, in the order of their ids.
LEMMA NumberedReplays == StoreInv => ReplayInOrder
<1>. SUFFICES ASSUME StoreInv, NEW u \in Run, NEW s \in Replay(u),
                     NEW i \in DOMAIN s, NEW j \in DOMAIN s,
                     i < j, s[i].life = s[j].life
              PROVE  s[i].id < s[j].id
  BY DEF ReplayInOrder
<1>1. s[i] \in OfRun(u) /\ s[j] \in OfRun(u) /\ s[i] # s[j] /\ s[i].seq <= s[j].seq
  BY DEF Replay
<1>2. s[i] \in rows /\ s[j] \in rows /\ s[i].run = s[j].run
  BY <1>1 DEF OfRun
<1>3. /\ s[i].id \in Nat /\ s[j].id \in Nat /\ s[i].seq \in Nat /\ s[j].seq \in Nat
  BY <1>2 DEF StoreInv, StoreTypes, StoredEvent
<1>. QED BY <1>1, <1>2, <1>3 DEF StoreInv, Numbered

\* replay() gives back the events of a run, those of each process that published
\* for it in the order it published them, whatever was lost, cleared or published
\* for other runs in between and however many processes a run had
\* (SqliteEventStore.publish and replay).
THEOREM ReplaysAreOrdered == StoreSpec => []ReplayInOrder
<1>. USE StoreStarts, StoreKept, NumberedReplays
<1>. QED BY PTL DEF StoreSpec

-----------------------------------------------------------------------------
(* The parts in the whole.                                                 *)

\* A step of the command line is a step of the deliberative runs, or leaves
\* them alone.
LEMMA RunsStep == [CLINext]_allVars => [Next]_vars
<1>. SUFFICES ASSUME [CLINext]_allVars PROVE [Next]_vars
  OBVIOUS
<1>1. CASE UNCHANGED allVars
  BY <1>1 DEF allVars
<1>2. CASE \/ Arguments \/ RejectSettings \/ Main \/ BeginDocument \/ HandleDocument
           \/ FinishParse \/ FinishPreview \/ FinishAnalyze
           \/ HandleEval \/ HandleReplay \/ Present \/ Interrupted
  BY <1>2 DEF Arguments, RejectSettings, Main, BeginDocument, HandleDocument,
              FinishParse, FinishPreview, FinishAnalyze,
              HandleEval, HandleReplay, Present, Interrupted
<1>3. CASE HandleDeliberative
  BY <1>3, ShellAssumption DEF HandleDeliberative, Next
<1>4. CASE InterruptCLI
  BY <1>4, ShellAssumption DEF InterruptCLI, Next
<1>5. CASE CrashCLI
  BY <1>5, ShellAssumption DEF CrashCLI, Next
<1>6. CASE Extraction \/ Publishers
  BY <1>6 DEF Extraction, Publishers
<1>7. CASE Reasoner
  BY <1>7 DEF Reasoner, Next
<1>8. ASSUME NEW r \in Runner, Competitor(r) PROVE [Next]_vars
  BY <1>8 DEF Competitor, Next
<1>. QED BY <1>1, <1>2, <1>3, <1>4, <1>5, <1>6, <1>7, <1>8 DEF CLINext, ShellStep

\* The same for the event store: only the publishers around a replay touch
\* it, and a replay does not.
LEMMA StoreSteps == [CLINext]_allVars => [StoreStep]_storeVars
<1>. SUFFICES ASSUME [CLINext]_allVars PROVE [StoreStep]_storeVars
  OBVIOUS
<1>1. CASE UNCHANGED allVars
  BY <1>1 DEF allVars
<1>2. CASE ShellStep
  BY <1>2 DEF ShellStep, Arguments, RejectSettings, Main, BeginDocument, HandleDocument,
              FinishParse, FinishPreview, FinishAnalyze, HandleEval, HandleReplay,
              HandleDeliberative, Present, Interrupted
<1>3. CASE InterruptCLI \/ CrashCLI \/ Extraction \/ Reasoner
  BY <1>3 DEF InterruptCLI, CrashCLI, Extraction, Reasoner
<1>4. CASE Publishers
  BY <1>4 DEF Publishers
<1>5. ASSUME NEW r \in Runner, Competitor(r) PROVE [StoreStep]_storeVars
  BY <1>5 DEF Competitor
<1>. QED BY <1>1, <1>2, <1>3, <1>4, <1>5 DEF CLINext

\* Whatever invocation runs, among whatever other processes, is a behaviour
\* of the deliberative runs: no interleaving with the shell, its signals and
\* its end adds one (AnalyzeBillHandler and entry_point).
THEOREM InvocationsRun == CLISpec => Spec
<1>1. CLIInit => Init
  BY DEF CLIInit
<1>. QED BY <1>1, RunsStep, PTL DEF CLISpec, Spec

\* No invocation leaves a Reasoner server behind (the `finally` of
\* _handle_deliberative, under the signals entry_point lets through).
THEOREM InvocationsReleaseServers == CLISpec => []NoOrphanServer
  BY InvocationsRun, ServersAreReleased, PTL

\* No invocation claims a deliberative report it did not write.
THEOREM InvocationsBackReports == CLISpec => []ReportBacked
  BY InvocationsRun, ReportsAreBacked, PTL

\* What `leggie replay` reads never turns round two events of one publisher,
\* whichever publishers come, die and go on with a run around it.
THEOREM InvocationsReplayInOrder == CLISpec => []ReplayInOrder
<1>1. CLIInit => StoreInit
  BY DEF CLIInit
<1>2. StoreSpec => []ReplayInOrder
  BY ReplaysAreOrdered
<1>. QED BY <1>1, <1>2, StoreSteps, PTL DEF CLISpec, StoreSpec

-----------------------------------------------------------------------------
(* The extraction.                                                         *)

\* Nothing runs before the wait; an answer means the worker is done; and the
\* wait is for a file the checks before it let through.
IngestInv ==
  /\ ingest = "idle" => future = "none" /\ worker = "none"
  /\ future \in {"text", "IngestError", "Error"} => worker = "ended"
  /\ ingest = "waiting" =>
       invocation.file.supported /\ invocation.file.exists /\ ~invocation.file.oversize

\* What one step may do to the future and to the verdict.
IngestAction ==
  /\ future \notin {"none", "pending"} => future' = future
  /\ verdict' # verdict /\ verdict' = "text"
       => ~Refused(invocation.file) /\ future = "text" /\ worker = "ended"

LEMMA IngestKept ==
  IngestInv /\ [CLINext]_allVars => IngestInv' /\ IngestAction
<1>. SUFFICES ASSUME IngestInv, [CLINext]_allVars PROVE IngestInv' /\ IngestAction
  OBVIOUS
<1>. DEFINE file == invocation.file
<1>1. CASE UNCHANGED <<ingestVars, invocation>>
  BY <1>1 DEF ingestVars, IngestInv, IngestAction
<1>2. CASE IngestStep(file) /\ UNCHANGED invocation
  <2>1. CASE RefuseFormat(file) \/ RefuseMissing(file) \/ RefuseSize(file)
    BY <1>2, <2>1 DEF RefuseFormat, RefuseMissing, RefuseSize, Verdict, IngestInv,
                      IngestAction
  <2>2. CASE Dispatch(file) \/ Deadline(file)
    BY <1>2, <2>2 DEF Dispatch, Deadline, Verdict, IngestInv, IngestAction
  <2>3. CASE Take(file) \/ RefuseLength(file)
    BY <1>2, <2>3 DEF Take, RefuseLength, Verdict, IngestInv, IngestAction, Refused
  <2>. QED BY <1>2, <2>1, <2>2, <2>3 DEF IngestStep, Progress, Refusal
<1>3. CASE CancelIngest /\ UNCHANGED invocation
  BY <1>3 DEF CancelIngest, IngestInv, IngestAction
<1>4. CASE Extracted(cli # "exited") /\ UNCHANGED invocation
  BY <1>4 DEF Extracted, IngestInv, IngestAction
<1>5. CASE Settle(file) /\ UNCHANGED invocation
  BY <1>5 DEF Settle, IngestInv, IngestAction
<1>6. CASE ShellStep
  <2>1. CASE HandleDocument
    BY <1>1, <1>2, <2>1 DEF HandleDocument, IngestStep
  <2>2. CASE \/ Arguments \/ RejectSettings \/ Main \/ BeginDocument
             \/ FinishParse \/ FinishPreview \/ FinishAnalyze \/ HandleEval
             \/ HandleReplay \/ HandleDeliberative \/ Present \/ Interrupted
    BY <1>1, <2>2 DEF Arguments, RejectSettings, Main, BeginDocument, FinishParse,
                      FinishPreview, FinishAnalyze, HandleEval, HandleReplay,
                      HandleDeliberative, Present, Interrupted, cliVars
  <2>. QED BY <1>6, <2>1, <2>2 DEF ShellStep
<1>7. CASE InterruptCLI
  BY <1>1, <1>3, <1>7 DEF InterruptCLI
<1>8. CASE CrashCLI \/ Publishers \/ Reasoner
  BY <1>1, <1>8 DEF CrashCLI, Publishers, Reasoner, cliVars
<1>9. CASE Extraction
  BY <1>4, <1>5, <1>9 DEF Extraction, cliVars
<1>10. ASSUME NEW r \in Runner, Competitor(r) PROVE IngestInv' /\ IngestAction
  BY <1>1, <1>10 DEF Competitor, cliVars
<1>11. CASE UNCHANGED allVars
  BY <1>1, <1>11 DEF allVars, cliVars
<1>. QED BY <1>6, <1>7, <1>8, <1>9, <1>10, <1>11 DEF CLINext

\* A late extraction changes nothing, and a text comes only out of a file
\* within every cap whose extraction had answered (run_off_loop and
\* BoundedIngestor.ingest), for every file and whatever else happens.
THEOREM LateAnswersAreLost == CLISpec => IngestVerdict
<1>1. CLIInit => IngestInv
  BY DEF CLIInit, IngestInit, IngestInv
<1>. QED BY <1>1, IngestKept, PTL DEF CLISpec, IngestVerdict, IngestAction
-----------------------------------------------------------------------------
(* The output.                                                             *)

\* What OneEnvelope says of the documents.
Enveloped ==
  LET document == IF exit = 0 THEN "ok" ELSE "error"
  IN  invocation.json /\ exit \in 0..5 /\ ~Runs("help") /\ ~Runs("bare") =>
        \/ stdout = <<document>>
        \/ Runs("eval") /\ stdout = <<"text", document>>
        \/ stdout = <<>> /\ result = "none" /\ exit = 2

\* Nothing but eval prints before its end, and nobody has an exit code or,
\* before the handler returned, a result.
PrintInv ==
  /\ cli # "exited" => exit = -1
  /\ cli # "exited" => stdout = <<>> \/ (cli = "presenting" /\ Runs("eval") /\ stdout = <<"text">>)
  /\ cli \in {"ready", "handling", "ingesting", "parsed"} => result = "none"
  /\ Enveloped

\* Nothing is logged at CRITICAL but what is printed before the log is set up.
LogInv == exit # 6 /\ logged => ~invocation.settings \/ invocation.loglevel # CRITICAL

\* Only a success exits with 0.
LEMMA ZeroIsSuccess == \A type : ExitFor(type) = 0 <=> type = "ok"
  BY DEF ExitFor

\* What a success prints in JSON mode.
LEMMA JSONPrintsOne ==
  /\ invocation.json => Printed = <<"ok">>
  /\ Append(<<>>, "ok") = <<"ok">> /\ Append(<<>>, "text") = <<"text">>
  /\ <<>> \o <<"ok">> = <<"ok">>
  /\ <<>> \o <<"error">> = <<"error">>
  /\ <<"text">> \o <<"ok">> = <<"text", "ok">>
  /\ <<"text">> \o <<"error">> = <<"text", "error">>
<1>1. <<"ok">> \o <<>> = <<"ok">>
  OBVIOUS
<1>2. invocation.json => Printed = <<"ok">>
  BY <1>1 DEF Printed
<1>3. /\ Append(<<>>, "ok") = <<"ok">> /\ Append(<<>>, "text") = <<"text">>
      /\ <<>> \o <<"ok">> = <<"ok">>
      /\ <<>> \o <<"error">> = <<"error">>
  OBVIOUS
<1>4. ASSUME NEW document \in {"ok", "error"}
      PROVE  <<"text">> \o <<document>> = <<"text", document>>
  <2>. DEFINE S == {"text", "ok", "error"}
  <2>1. "text" \in S /\ document \in S
    OBVIOUS
  <2>2. <<"text">> \in Seq(S)
    OBVIOUS
  <2>. HIDE DEF S
  <2>3. Append(<<"text">>, document) = <<"text", document>>
    BY <2>1, ShortAppends
  <2>. QED BY <2>1, <2>2, <2>3, AppendIsConcat
<1>. QED BY <1>2, <1>3, <1>4

LEMMA PrintKept == PrintInv /\ [CLINext]_allVars => PrintInv'
<1>. SUFFICES ASSUME PrintInv, [CLINext]_allVars PROVE PrintInv'
  OBVIOUS
<1>. USE DEF PrintInv, Enveloped, Runs
<1>1. CASE UNCHANGED <<invocation, cli, result, stdout, exit>>
  BY <1>1
<1>2. CASE ShellStep
  <2>1. CASE Arguments \/ RejectSettings \/ Main
    BY <2>1, JSONPrintsOne DEF Arguments, RejectSettings, Main, Exit, Say, Flags
  <2>2. CASE BeginDocument
    BY <2>2 DEF BeginDocument, Result
  <2>3. CASE HandleDocument
    BY <1>1, <2>3 DEF HandleDocument, Result
  <2>4. CASE FinishParse \/ FinishPreview \/ FinishAnalyze
    BY <2>4 DEF FinishParse, FinishPreview, FinishAnalyze, Result
  <2>5. CASE HandleEval
    BY <2>5, JSONPrintsOne DEF HandleEval, Result, Say
  <2>6. CASE HandleReplay
    BY <2>6 DEF HandleReplay, Result
  <2>7. CASE HandleDeliberative
    BY <1>1, <2>7 DEF HandleDeliberative, Result, cliVars
  <2>8. CASE Present
    <3>1. exit' = ExitFor(result) /\ (exit' = 0 <=> result = "ok")
          /\ cli' = "exited" /\ UNCHANGED <<invocation, result>>
      BY <2>8, ZeroIsSuccess DEF Present, Exit
    <3>2. invocation.json => stdout' = stdout \o (IF result = "ok" THEN <<"ok">> ELSE <<"error">>)
      BY <2>8, JSONPrintsOne DEF Present
    <3>3. stdout = <<>> \/ (Runs("eval") /\ stdout = <<"text">>)
      BY <2>8 DEF Present
    <3>. QED BY <3>1, <3>2, <3>3, JSONPrintsOne
  <2>9. CASE Interrupted
    BY <2>9 DEF Interrupted, Exit
  <2>. QED BY <1>2, <2>1, <2>2, <2>3, <2>4, <2>5, <2>6, <2>7, <2>8, <2>9 DEF ShellStep
<1>3. CASE InterruptCLI
  BY <1>1, <1>3 DEF InterruptCLI, Exit
<1>4. CASE CrashCLI
  BY <1>4 DEF CrashCLI, Exit
<1>5. CASE Extraction \/ Publishers \/ Reasoner
  BY <1>1, <1>5 DEF Extraction, Publishers, Reasoner, cliVars
<1>6. ASSUME NEW r \in Runner, Competitor(r) PROVE PrintInv'
  BY <1>1, <1>6 DEF Competitor, cliVars
<1>7. CASE UNCHANGED allVars
  BY <1>1, <1>7 DEF allVars, cliVars
<1>. QED BY <1>2, <1>3, <1>4, <1>5, <1>6, <1>7 DEF CLINext

\* No line of the code is logged at CRITICAL.
LEMMA CriticalIsSilent ==
  ASSUME NEW levels \in SUBSET {INFO, WARNING, ERROR}, Log(levels),
         invocation.loglevel = CRITICAL, logged'
  PROVE  logged
<1>1. ~\E l \in levels : l >= invocation.loglevel
  BY DEF INFO, WARNING, ERROR, CRITICAL
<1>2. logged' = (logged \/ \E l \in levels : l >= invocation.loglevel)
  BY DEF Log
<1>. QED BY <1>1, <1>2, Zenon

LEMMA LogKept == PrintInv /\ LogInv /\ [CLINext]_allVars => LogInv'
<1>. SUFFICES ASSUME PrintInv, LogInv, [CLINext]_allVars PROVE LogInv'
  OBVIOUS
<1>. USE DEF LogInv
<1>1. CASE UNCHANGED <<invocation, logged>> /\ (exit = 6 => exit' = 6)
  BY <1>1
<1>2. ASSUME NEW levels \in SUBSET {INFO, WARNING, ERROR}, Log(levels),
             UNCHANGED invocation, exit # 6
      PROVE  LogInv'
  BY <1>2, CriticalIsSilent
<1>3. cli # "exited" => exit # 6
  BY DEF PrintInv
<1>4. CASE ShellStep
  <2>1. CASE Arguments \/ Main \/ FinishParse \/ FinishPreview \/ FinishAnalyze
             \/ HandleReplay \/ HandleDeliberative \/ Interrupted
    BY <1>1, <1>3, <2>1 DEF Arguments, Main, FinishParse, FinishPreview, FinishAnalyze,
                            HandleReplay, HandleDeliberative, Interrupted, cliVars
  <2>2. CASE RejectSettings
    BY <2>2 DEF RejectSettings
  <2>3. CASE BeginDocument
    <3>. DEFINE levels == (IF ~Runs("parse") /\ ~invocation.keyed THEN {WARNING} ELSE {})
            \cup (IF Runs("analyze") /\ invocation.output # "blocked" THEN {INFO} ELSE {})
    <3>1. Log(levels) /\ UNCHANGED invocation /\ exit # 6
      BY <1>3, <2>3 DEF BeginDocument
    <3>2. levels \in SUBSET {INFO, WARNING, ERROR}
      OBVIOUS
    <3>. HIDE DEF levels
    <3>. QED BY <1>2, <3>1, <3>2
  <2>4. CASE HandleDocument
    BY <1>1, <1>2, <1>3, <2>4 DEF HandleDocument
  <2>5. CASE HandleEval
    <3>. DEFINE levels == IF invocation.gold = "good" /\ ~invocation.keyed THEN {WARNING} ELSE {}
    <3>1. Log(levels) /\ UNCHANGED invocation /\ exit # 6
      BY <1>3, <2>5 DEF HandleEval
    <3>2. levels \in SUBSET {INFO, WARNING, ERROR}
      OBVIOUS
    <3>. HIDE DEF levels
    <3>. QED BY <1>2, <3>1, <3>2
  <2>6. CASE Present
    <3>1. (Log({}) \/ Log({ERROR})) /\ UNCHANGED invocation /\ exit # 6
      BY <1>3, <2>6 DEF Present, LogOnTheWay
    <3>. QED BY <1>2, <3>1
  <2>. QED BY <1>4, <2>1, <2>2, <2>3, <2>4, <2>5, <2>6 DEF ShellStep
<1>5. CASE InterruptCLI
  <2>1. CASE exit' = 6
    BY <2>1
  <2>2. CASE exit' # 6
    <3>1. Log({WARNING}) /\ UNCHANGED invocation /\ exit # 6
      BY <1>3, <1>5, <2>2 DEF InterruptCLI, Exit
    <3>. QED BY <1>2, <3>1
  <2>. QED BY <2>1, <2>2
<1>6. CASE CrashCLI
  BY <1>1, <1>3, <1>6 DEF CrashCLI
<1>7. CASE Extraction \/ Publishers \/ Reasoner
  BY <1>1, <1>7 DEF Extraction, Publishers, Reasoner, cliVars
<1>8. ASSUME NEW r \in Runner, Competitor(r) PROVE LogInv'
  BY <1>1, <1>8 DEF Competitor, cliVars
<1>9. CASE UNCHANGED allVars
  BY <1>1, <1>9 DEF allVars, cliVars
<1>. QED BY <1>4, <1>5, <1>6, <1>7, <1>8, <1>9 DEF CLINext

\* In JSON mode a command prints one document, which agrees with its exit code,
\* and only log lines may surround it, none at CRITICAL (_fail, the _handle_*
\* functions and configure_logging), for every invocation, file, bill and signal.
THEOREM JSONIsOneEnvelope == CLISpec => []OneEnvelope
<1>1. CLIInit => PrintInv /\ LogInv
  BY DEF CLIInit, PrintInv, Enveloped, LogInv
<1>2. PrintInv /\ LogInv => OneEnvelope
  BY DEF PrintInv, Enveloped, LogInv, OneEnvelope
<1>. QED BY <1>1, <1>2, PrintKept, LogKept, PTL DEF CLISpec
-----------------------------------------------------------------------------
(* The exit code.                                                          *)

\* What the ingest of the file says of the file.
FileInv ==
  LET file == invocation.file
  IN  /\ ingest # "done" => verdict = "pending"
      /\ cli \in {"ready", "handling"} => ingest = "idle"
      /\ cli = "ingesting" /\ ingest = "done" => verdict # "pending"
      /\ verdict = "UnsupportedFormatError" <=>
           ingest = "done" /\ verdict # "pending" /\ ~file.supported
      /\ verdict = "InputNotFoundError" <=>
           ingest = "done" /\ verdict # "pending" /\ file.supported /\ ~file.exists
      /\ verdict \in {"pending", "text", "IngestError", "Error", "UnsupportedFormatError",
                      "InputNotFoundError"}
      /\ verdict = "text" => ~Refused(file) /\ future = "text"

\* analyze could not make its output directory.
Blocked == Runs("analyze") /\ invocation.output = "blocked"

\* What the handler of a document may have returned.
DocumentAnswers(type) ==
  IF Blocked THEN type = "OSError" /\ verdict = "pending"
  ELSE IF verdict # "text" /\ ~Resumes THEN type = verdict /\ verdict # "pending"
  ELSE /\ Resumes => verdict = "pending"
       /\ IF Unclean THEN type = "ParseIntegrityError"
          ELSE IF Runs("analyze")
            THEN type \in {"ok", "ValueError", "Error", "OSError"}
                 /\ (type = "ok" => invocation.articles)
            ELSE type = Written

\* What any handler may have returned, given what it met.
Answers(type) ==
  /\ invocation.settings
  /\ invocation.command \in DocumentCommand \cup {"eval", "replay", "deliberative"}
  /\ invocation.command \in DocumentCommand => DocumentAnswers(type)
  /\ Runs("eval") =>
       /\ type \in {"ok", "FileNotFoundError", "OSError", "KeyError", "IngestError",
                    "ParseIntegrityError", "Error"}
       /\ type = "FileNotFoundError" => invocation.gold = "missing" \/ invocation.output = "missing"
       /\ invocation.gold = "missing" => type = "FileNotFoundError"
  /\ Runs("replay") =>
       IF invocation.durable THEN type \in {"ok", "RunNotFoundError"}
       ELSE type = "ConfigurationError"
  /\ Runs("deliberative") => type \in DeliberativeResults(Shell)

\* How an invocation ends that never reached a handler.
Unhandled ==
  /\ pc[Shell] = "start"
  /\ verdict = "pending"
  /\ \/ exit = 2 /\ (Runs("misused") \/ (~invocation.settings /\ ~Runs("help")))
     \/ exit = 0 /\ (Runs("help") \/ (invocation.command \in Flags /\ invocation.settings))

CauseInv ==
  /\ cli \in {"ready", "handling", "ingesting", "parsed", "presenting", "exited"}
  /\ cli = "ready" => pc[Shell] = "start"
  /\ cli \in {"handling", "ingesting", "parsed"} =>
       /\ invocation.settings
       /\ invocation.command \notin Flags \cup {"help", "misused"}
  /\ cli \in {"ingesting", "parsed"} => invocation.command \in DocumentCommand /\ ~Blocked
  /\ cli = "ingesting" => ~Resumes
  /\ cli = "parsed" => IF Resumes THEN verdict = "pending" ELSE verdict = "text"
  /\ cli = "presenting" => result # "none" /\ Answers(result)
  /\ cli = "exited" /\ exit \notin {6, 9} =>
       IF result = "none" THEN Unhandled ELSE Answers(result) /\ exit = ExitFor(result)

\* The ingest, step by step.
LEMMA FileKept ==
  IngestInv /\ FileInv /\ PrintInv /\ [CLINext]_allVars => FileInv'
<1>. SUFFICES ASSUME IngestInv, FileInv, PrintInv, [CLINext]_allVars PROVE FileInv'
  OBVIOUS
<1>. DEFINE file == invocation.file
<1>. USE DEF FileInv, IngestInv, Refused, Verdict
<1>1. CASE /\ UNCHANGED <<ingestVars, invocation>>
           /\ cli' = cli \/ cli \in {"ready", "handling"} \/ cli' \in {"parsed", "presenting", "exited"}
           /\ cli' \in {"ready", "handling"} => cli \in {"ready", "handling"}
  BY <1>1 DEF ingestVars
<1>2. CASE IngestStep(file) /\ UNCHANGED <<invocation, cli>> /\ cli = "ingesting"
  <2>1. CASE RefuseFormat(file) \/ RefuseMissing(file) \/ RefuseSize(file)
    BY <1>2, <2>1 DEF RefuseFormat, RefuseMissing, RefuseSize
  <2>2. CASE Dispatch(file) \/ Deadline(file)
    BY <1>2, <2>2 DEF Dispatch, Deadline
  <2>3. CASE Take(file) \/ RefuseLength(file)
    BY <1>2, <2>3 DEF Take, RefuseLength
  <2>. QED BY <1>2, <2>1, <2>2, <2>3 DEF IngestStep, Progress, Refusal
<1>3. CASE CancelIngest /\ UNCHANGED invocation /\ cli' = "exited"
  BY <1>3 DEF CancelIngest
<1>4. CASE Extraction
  BY <1>4 DEF Extraction, Extracted, Settle, cliVars
<1>5. CASE HandleDocument
  BY <1>1, <1>2, <1>5 DEF HandleDocument, IngestStep, Result
<1>6. CASE \/ Arguments \/ RejectSettings \/ Main \/ BeginDocument
           \/ FinishParse \/ FinishPreview \/ FinishAnalyze \/ HandleEval
           \/ HandleReplay \/ HandleDeliberative \/ Present \/ Interrupted
  BY <1>1, <1>6 DEF Arguments, RejectSettings, Main, BeginDocument, FinishParse,
                    FinishPreview, FinishAnalyze, HandleEval, HandleReplay,
                    HandleDeliberative, Present, Interrupted, Result, Exit, cliVars
<1>7. CASE InterruptCLI
  BY <1>1, <1>3, <1>7 DEF InterruptCLI, Exit
<1>8. CASE CrashCLI \/ Publishers \/ Reasoner
  BY <1>1, <1>8 DEF CrashCLI, Publishers, Reasoner, Exit, cliVars
<1>9. ASSUME NEW r \in Runner, Competitor(r) PROVE FileInv'
  BY <1>1, <1>9 DEF Competitor, cliVars
<1>10. CASE UNCHANGED allVars
  BY <1>1, <1>10 DEF allVars, cliVars
<1>. QED BY <1>4, <1>5, <1>6, <1>7, <1>8, <1>9, <1>10 DEF CLINext, ShellStep

\* What a handler met does not change behind its answer.
LEMMA AnswersStay ==
  ASSUME UNCHANGED <<invocation, verdict, options>>,
         pc'[Shell] = pc[Shell], trail'[Shell] = trail[Shell],
         outcome'[Shell] = outcome[Shell]
  PROVE  /\ \A type : Answers(type)' <=> Answers(type)
         /\ (Unhandled /\ exit' = exit) => Unhandled'
<1>1. DeliberativeResults(Shell)' = DeliberativeResults(Shell)
  BY DEF DeliberativeResults
<1>2. /\ Unclean' = Unclean /\ Written' = Written /\ Resumes' = Resumes
      /\ Blocked' = Blocked
  BY DEF Unclean, Report, Runs, Written, Resumes, Blocked
<1>3. \A type : DocumentAnswers(type)' <=> DocumentAnswers(type)
  BY <1>2 DEF DocumentAnswers, Runs
<1>. QED BY <1>1, <1>2, <1>3 DEF Answers, Unhandled, Runs

\* The other processes leave the shell's own run alone.
LEMMA ShellsOwn ==
  ASSUME RunInv, NEW r \in Runner \ {Shell}, Competitor(r)
  PROVE  /\ UNCHANGED options
         /\ pc'[Shell] = pc[Shell] /\ trail'[Shell] = trail[Shell]
         /\ outcome'[Shell] = outcome[Shell]
<1>. USE ShellAssumption DEF At, Move, Unwind, Record
<1>. DOMAIN pc = Runner /\ DOMAIN outcome = Runner /\ DOMAIN trail = Runner
  BY DEF RunInv, RunTypes
<1>1. CASE ServerStep(r)
  BY <1>1 DEF ServerStep, runVars
<1>2. CASE Disabled(r) \/ Start(r) \/ Ensured(r) \/ Read(r)
  BY <1>2 DEF Disabled, Start, Ensured, Read
<1>3. CASE StageDone(r) \/ RetryStage(r) \/ StageFails(r) \/ WriteReport(r)
  BY <1>3 DEF StageDone, RetryStage, StageFails, WriteReport
<1>4. CASE Finally(r) \/ Return(r) \/ Fallback(r)
  BY <1>4 DEF Finally, Return, Fallback
<1>. QED BY <1>1, <1>2, <1>3, <1>4 DEF Competitor, FlowStep

\* The invocation's own steps, one by one, and what moves around it.
LEMMA CauseKept ==
  RunInv /\ FileInv /\ PrintInv /\ CauseInv /\ [CLINext]_allVars => CauseInv'
<1>. SUFFICES ASSUME RunInv, FileInv, PrintInv, CauseInv, [CLINext]_allVars
              PROVE  CauseInv'
  OBVIOUS
\* A step that leaves the shell alone and what its handler met.
<1>1. ASSUME UNCHANGED <<cliVars, verdict, options>>,
             pc'[Shell] = pc[Shell], trail'[Shell] = trail[Shell],
             outcome'[Shell] = outcome[Shell]
      PROVE  CauseInv'
  <2>1. UNCHANGED <<invocation, cli, result, exit>> /\ (ExitFor(result)' = ExitFor(result))
    BY <1>1 DEF cliVars
  <2>2. Answers(result)' <=> Answers(result)
    BY <1>1, <2>1, AnswersStay
  <2>3. Unhandled => Unhandled'
    BY <1>1, <2>1, AnswersStay
  <2>4. Blocked' = Blocked /\ Resumes' = Resumes
    BY <2>1 DEF Blocked, Resumes, Runs
  <2>. QED BY <1>1, <2>1, <2>2, <2>3, <2>4 DEF CauseInv, Runs
<1>. USE DEF CauseInv, Runs
<1>2. CASE Arguments \/ RejectSettings \/ Main
  <2>1. verdict = "pending" /\ result = "none" /\ pc[Shell] = "start"
    BY <1>2 DEF Arguments, RejectSettings, Main, FileInv, PrintInv
  <2>. QED BY <1>2, <2>1 DEF Arguments, RejectSettings, Main, Exit, Unhandled, Flags, vars,
                             ingestVars
<1>3. CASE BeginDocument
  <2>1. /\ verdict = "pending" /\ cli = "handling" /\ invocation.command \in DocumentCommand
        /\ UNCHANGED <<invocation, verdict, exit>>
    BY <1>3 DEF BeginDocument, FileInv, ingestVars
  <2>2. /\ Blocked' = Blocked /\ Resumes' = Resumes
    BY <2>1 DEF Blocked, Resumes
  <2>. QED BY <1>3, <2>1, <2>2 DEF BeginDocument, Result, Answers, DocumentAnswers, Blocked,
                                  DocumentCommand
<1>4. CASE HandleDocument
  <2>1. cli = "ingesting" /\ UNCHANGED <<invocation, exit>>
    BY <1>4 DEF HandleDocument
  <2>2. /\ Blocked' = Blocked /\ Resumes' = Resumes /\ ~Blocked /\ ~Resumes
    BY <2>1 DEF Blocked, Resumes
  <2>3. CASE UNCHANGED cli
    BY <2>1, <2>2, <2>3
  <2>4. CASE /\ ingest = "done" /\ UNCHANGED verdict
             /\ IF verdict = "text" THEN cli' = "parsed" ELSE Result(verdict)
    <3>1. verdict \notin {"pending", "none"}
      BY <2>1, <2>4 DEF FileInv
    <3>. QED BY <2>1, <2>2, <2>4, <3>1 DEF Result, Answers, DocumentAnswers, DocumentCommand
  <2>. QED BY <1>4, <2>3, <2>4 DEF HandleDocument, ingestVars
<1>5. CASE FinishParse \/ FinishPreview \/ FinishAnalyze
  <2>1. /\ cli = "parsed" /\ cli' = "presenting" /\ UNCHANGED <<invocation, verdict, exit>>
        /\ ~Blocked /\ invocation.command \in DocumentCommand
    BY <1>5 DEF FinishParse, FinishPreview, FinishAnalyze, Result, ingestVars
  <2>2. /\ Unclean' = Unclean /\ Written' = Written /\ Resumes' = Resumes
        /\ Blocked' = Blocked
    BY <2>1 DEF Unclean, Report, Written, Resumes, Blocked
  <2>3. /\ result' # "none"
        /\ IF Unclean THEN result' = "ParseIntegrityError"
           ELSE IF Runs("analyze")
             THEN result' \in {"ok", "ValueError", "Error", "OSError"}
                  /\ (result' = "ok" => invocation.articles)
             ELSE result' = Written
    BY <1>5 DEF FinishParse, FinishPreview, FinishAnalyze, Result, Unclean, Written
  <2>4. verdict = "text" \/ Resumes
    BY <2>1
  <2>5. Resumes => verdict = "pending"
    BY <2>1
  <2>6. DocumentAnswers(result)'
    BY <2>1, <2>2, <2>3, <2>4, <2>5 DEF DocumentAnswers
  <2>. QED BY <2>1, <2>3, <2>6 DEF Answers, DocumentCommand
<1>6. CASE HandleEval
  BY <1>6 DEF HandleEval, Result, Answers, DocumentCommand, Written
<1>7. CASE HandleReplay
  BY <1>7 DEF HandleReplay, Result, Answers, DocumentCommand
<1>8. CASE HandleDeliberative
  <2>1. CASE UNCHANGED cliVars
    BY <1>8, <2>1 DEF HandleDeliberative, cliVars
  <2>2. ASSUME NEW type \in DeliberativeResults(Shell), Result(type),
               UNCHANGED <<invocation, stdout, logged, exit, vars>>
        PROVE  CauseInv'
    <3>1. type # "none"
      BY <2>2 DEF DeliberativeResults
    <3>2. DeliberativeResults(Shell)' = DeliberativeResults(Shell)
      BY <2>2 DEF DeliberativeResults, vars
    <3>. QED BY <1>8, <2>2, <3>1, <3>2 DEF HandleDeliberative, Result, Answers,
                                          DocumentCommand
  <2>. QED BY <1>8, <2>1, <2>2 DEF HandleDeliberative
<1>9. CASE Present
  <2>1. UNCHANGED <<invocation, verdict, options, pc, trail, outcome, result>>
    BY <1>9 DEF Present, vars, ingestVars
  <2>2. Answers(result)'
    BY <1>9, <2>1, AnswersStay DEF Present
  <2>. QED BY <1>9, <2>1, <2>2 DEF Present, Exit, ExitFor
<1>10. CASE InterruptCLI
  BY <1>10 DEF InterruptCLI, Exit
<1>11. CASE Interrupted \/ CrashCLI
  BY <1>11 DEF Interrupted, CrashCLI, Exit
<1>12. CASE Extraction \/ Publishers
  BY <1>1, <1>12 DEF Extraction, Extracted, Settle, Publishers, vars, ingestVars
<1>13. CASE Reasoner
  BY <1>1, <1>13 DEF Reasoner, runVars, ingestVars
<1>14. ASSUME NEW r \in Runner \ {Shell}, Competitor(r) PROVE CauseInv'
  BY <1>1, <1>14, ShellsOwn DEF Competitor, ingestVars
<1>15. CASE UNCHANGED allVars
  BY <1>1, <1>15 DEF allVars, vars, ingestVars
<1>. QED BY <1>2, <1>3, <1>4, <1>5, <1>6, <1>7, <1>8, <1>9, <1>10, <1>11, <1>12, <1>13,
            <1>14, <1>15 DEF CLINext, ShellStep
\* Only the estimate trips the budget.
LEMMA TrippedByEstimate ==
  \A t \in Partial \cup {Full} : "budget_tripped" \in ToSet(t) => t = OverBudget
<1>1. ASSUME NEW t \in Partial \cup {Full}, t # OverBudget
      PROVE  \A k \in DOMAIN t : t[k] # "budget_tripped"
  <2>1. CASE t = <<>> BY <2>1
  <2>2. CASE t = <<"analysis_started">> BY <2>2
  <2>3. CASE t = <<"analysis_started", "stage_1">> BY <2>3
  <2>4. CASE t = <<"analysis_started", "stage_1", "stage_2">> BY <2>4
  <2>5. CASE t = Full BY <2>5 DEF Full
  <2>. QED BY <1>1, <2>1, <2>2, <2>3, <2>4, <2>5 DEF Partial
<1>. QED BY <1>1 DEF ToSet

\* What a deliberative run may come to, by what happened to it.
LEMMA RunsReturn ==
  ASSUME RunInv, EndInv, NEW type \in DeliberativeResults(Shell)
  PROVE  /\ ~options[Shell].enabled => type = "ConfigurationError"
         /\ report[Shell] => type = "ok"
         /\ type = "ok" => report[Shell] \/ options[Shell].fallback
         /\ outcome[Shell] = "ReasonerUnavailableError" /\ ~options[Shell].fallback
              => type = "ReasonerUnavailableError"
<1>. USE ShellAssumption
<1>1. trail[Shell] \in Partial \cup {Full} /\ RunOf(Shell) /\ EndOf(Shell)
  BY DEF RunInv, RunTypes, EndInv
<1>2. CASE pc[Shell] = "ok"
  <2>1. type = "ok"
    BY <1>2 DEF DeliberativeResults
  <2>. QED BY <1>1, <1>2, <2>1 DEF RunOf, EndOf
<1>3. CASE pc[Shell] = "failed"
  <2>1. ~report[Shell] /\ type # "ok"
    BY <1>1, <1>3 DEF RunOf, EndOf, DeliberativeResults
  <2>2. /\ ~options[Shell].enabled \/ outcome[Shell] = "ReasonerUnavailableError"
             => "budget_tripped" \notin ToSet(trail[Shell])
        /\ outcome[Shell] = "ReasonerUnavailableError" => options[Shell].enabled
    BY <1>1, TrippedByEstimate DEF EndOf, OverBudget
  <2>3. CASE ~options[Shell].enabled
    BY <1>1, <1>3, <2>1, <2>2, <2>3 DEF EndOf, DeliberativeResults
  <2>4. CASE options[Shell].enabled
    BY <1>3, <2>1, <2>2, <2>4 DEF DeliberativeResults
  <2>. QED BY <2>3, <2>4
<1>. QED BY <1>2, <1>3 DEF DeliberativeResults

\* The exit code, from what the handler met.
LEMMA CauseIsTold ==
  RunInv /\ EndInv /\ FileInv /\ PrintInv /\ CauseInv => ExitTellsCause
<1>. SUFFICES ASSUME RunInv, EndInv, FileInv, PrintInv, CauseInv, exit \notin {-1, 6, 9}
              PROVE  ExitTellsCause
  BY DEF ExitTellsCause
<1>. USE ShellAssumption DEF Runs
<1>1. cli = "exited" /\ IF result = "none" THEN Unhandled
                        ELSE Answers(result) /\ exit = ExitFor(result)
  BY DEF PrintInv, CauseInv
<1>2. CASE result = "none"
  <2>1. outcome[Shell] = "pending" /\ ~report[Shell] /\ Unhandled
    BY <1>1, <1>2 DEF Unhandled, RunInv, RunOf
  <2>. QED BY <2>1 DEF Unhandled, Flags, ExitTellsCause, DocumentCommand
<1>3. CASE result # "none" /\ invocation.command \in DocumentCommand
  <2>1. /\ Answers(result) /\ exit = ExitFor(result) /\ DocumentAnswers(result)
        /\ invocation.settings
    BY <1>1, <1>3 DEF Answers
  <2>2. CASE Blocked
    BY <1>3, <2>1, <2>2 DEF DocumentAnswers, Blocked, ExitFor, DocumentCommand,
                            ExitTellsCause
  <2>3. CASE ~Blocked /\ verdict # "text" /\ ~Resumes
    BY <1>3, <2>1, <2>3 DEF DocumentAnswers, Blocked, Resumes, ExitFor, FileInv,
                            DocumentCommand, ExitTellsCause
  <2>4. CASE ~Blocked /\ Resumes
    <3>1. Runs("analyze") /\ verdict = "pending"
      BY <2>1, <2>4 DEF DocumentAnswers, Resumes
    <3>. QED BY <1>3, <2>1, <2>4, <3>1 DEF DocumentAnswers, Blocked, ExitFor,
                                           DocumentCommand, ExitTellsCause
  <2>5. CASE ~Blocked /\ verdict = "text" /\ ~Resumes
    BY <1>3, <2>1, <2>5 DEF DocumentAnswers, Blocked, ExitFor, FileInv, Refused, Written,
                            DocumentCommand, ExitTellsCause
  <2>. QED BY <2>2, <2>3, <2>4, <2>5
<1>4. CASE result # "none" /\ Runs("deliberative")
  BY <1>1, <1>4, RunsReturn DEF Answers, ExitFor, DocumentCommand, ExitTellsCause
<1>5. CASE result # "none" /\ (Runs("eval") \/ Runs("replay"))
  BY <1>1, <1>5 DEF Answers, ExitFor, DocumentCommand, ExitTellsCause
<1>. QED BY <1>1, <1>2, <1>3, <1>4, <1>5 DEF Answers

\* An exit code of 2, 4, 5 or 0 tells what it says of the settings, the file, the
\* parse and the artifact, for every invocation, file, bill, checkpoint, run and store,
\* and whichever other processes compete for the Reasoner (_ERROR_TYPE_EXITS and
\* what the handlers return).
THEOREM ExitsTellCauses == CLISpec => []ExitTellsCause
<1>1. CLIInit => Init /\ IngestInv /\ FileInv /\ PrintInv /\ CauseInv
  <2>. SUFFICES ASSUME CLIInit PROVE IngestInv /\ FileInv /\ PrintInv /\ CauseInv
    BY DEF CLIInit
  <2>1. cli = "ready" /\ exit = -1 /\ stdout = <<>> /\ result = "none"
        /\ ingest = "idle" /\ verdict = "pending" /\ future = "none" /\ worker = "none"
        /\ pc[Shell] = "start"
    BY ShellAssumption DEF CLIInit, Init, IngestInit
  <2>. QED BY <2>1 DEF IngestInv, FileInv, PrintInv, Enveloped, CauseInv
<1>2. IngestInv /\ [CLINext]_allVars => IngestInv'
  BY IngestKept
<1>. QED BY <1>1, <1>2, RunStarts, EndStarts, RunsStep, RunKept, EndKept, FileKept,
            PrintKept, CauseKept, CauseIsTold, PTL DEF CLISpec
-----------------------------------------------------------------------------
(* The score of a gold set.                                                *)

\* The first of some findings is one of them.
LEMMA ForemostIsOne ==
  ASSUME NEW n \in Nat, NEW S \in SUBSET (1..n)
  PROVE  (S = {} /\ Foremost(S) = 0) \/ Foremost(S) \in S
<1>1. CASE S = {}
  BY <1>1 DEF Foremost
<1>2. CASE S # {}
  <2>1. S \in SUBSET Nat
    OBVIOUS
  <2>2. \E i \in S : \A j \in S : i <= j
    BY <1>2, <2>1, LeastNumber
  <2>. QED BY <1>2, <2>2 DEF Foremost
<1>. QED BY <1>1, <1>2

\* Matching() does what its recursion says: each label has the first of the
\* findings that match it and that no label before it has.
LEMMA MatchingRecursion ==
  ASSUME NEW labels, NEW findings, Len(labels) \in Nat, Len(findings) \in Nat
  PROVE  /\ Matching(labels, findings) \in [1..Len(labels) -> 0..Len(findings)]
         /\ \A gi \in 1..Len(labels) :
              LET free == {fi \in 1..Len(findings) :
                             /\ Matches(labels[gi], findings[fi])
                             /\ \A g \in 1..(gi - 1) : Matching(labels, findings)[g] # fi}
              IN  \/ free = {} /\ Matching(labels, findings)[gi] = 0
                  \/ Matching(labels, findings)[gi] \in free
<1>. DEFINE n == Len(labels)
            Free(p, gi) == {fi \in 1..Len(findings) :
                              /\ Matches(labels[gi], findings[fi])
                              /\ \A g \in 1..(gi - 1) : p[g] # fi}
            Solves(p, m) == p = [gi \in 1..m |-> Foremost(Free(p, gi))]
            Bad == {m \in 0..n : ~\E p : Solves(p, m)}
            M == Matching(labels, findings)
<1>1. \E p : Solves(p, n)
  <2>. SUFFICES ASSUME ~\E p : Solves(p, n) PROVE FALSE
    OBVIOUS
  <2>1. Bad \in SUBSET Nat /\ n \in Bad
    <3>. HIDE DEF Solves
    <3>. QED OBVIOUS
  <2>2. PICK m \in Bad : \A k \in Bad : m <= k
    <3>. HIDE DEF Bad
    <3>. QED BY <2>1, LeastNumber
  <2>3. m \in 0..n /\ ~\E p : Solves(p, m)
    BY <2>2
  <2>4. m # 0
    <3>1. 1..0 = {}
      OBVIOUS
    <3>2. Solves([gi \in 1..0 |-> 0], 0)
      BY <3>1
    <3>. QED BY <2>3, <3>2
  <2>5. m - 1 \in 0..n /\ ~(m <= m - 1)
    BY <2>3, <2>4
  <2>6. m - 1 \notin Bad
    <3>. HIDE DEF Bad
    <3>. QED BY <2>2, <2>5
  <2>7. PICK p : Solves(p, m - 1)
    BY <2>5, <2>6
  <2>. DEFINE q == [gi \in 1..m |-> IF gi = m THEN Foremost(Free(p, m)) ELSE p[gi]]
  <2>8. \A gi \in 1..(m - 1) : gi \in 1..m /\ gi # m /\ q[gi] = p[gi]
    <3>. HIDE DEF Solves, Free
    <3>. QED BY <2>3
  <2>9. \A gi \in 1..m : Free(q, gi) = Free(p, gi)
    <3>. SUFFICES ASSUME NEW gi \in 1..m PROVE Free(q, gi) = Free(p, gi)
      OBVIOUS
    <3>1. \A g \in 1..(gi - 1) : g \in 1..(m - 1)
      BY <2>3
    <3>2. \A g \in 1..(gi - 1) : q[g] = p[g]
      BY <2>8, <3>1
    <3>. HIDE DEF q
    <3>. QED BY <3>2
  <2>. HIDE DEF Free
  <2>10. \A gi \in 1..m : q[gi] = Foremost(Free(q, gi))
    <3>. SUFFICES ASSUME NEW gi \in 1..m PROVE q[gi] = Foremost(Free(q, gi))
      OBVIOUS
    <3>1. CASE gi = m
      BY <2>9, <3>1
    <3>2. CASE gi # m
      <4>1. gi \in 1..(m - 1)
        BY <2>3, <3>2
      <4>2. q[gi] = p[gi] /\ p[gi] = Foremost(Free(p, gi))
        BY <2>7, <2>8, <4>1
      <4>. QED BY <2>9, <4>2
    <3>. QED BY <3>1, <3>2
  <2>11. q = [gi \in 1..m |-> q[gi]]
    OBVIOUS
  <2>12. Solves(q, m)
    <3>. HIDE DEF q
    <3>. QED BY <2>10, <2>11
  <2>. QED BY <2>3, <2>12
<1>2. PICK p : Solves(p, n)
  BY <1>1
<1>3. M = CHOOSE q : q = [gi \in 1..n |-> Foremost(Free(q, gi))]
  BY DEF Matching
<1>4. M = [gi \in 1..n |-> Foremost(Free(M, gi))]
  <2>. HIDE DEF Free, M
  <2>. QED BY <1>2, <1>3
<1>5. \A gi \in 1..n : (Free(M, gi) = {} /\ M[gi] = 0) \/ M[gi] \in Free(M, gi)
  <2>. SUFFICES ASSUME NEW gi \in 1..n
                PROVE  (Free(M, gi) = {} /\ M[gi] = 0) \/ M[gi] \in Free(M, gi)
    OBVIOUS
  <2>1. Free(M, gi) \in SUBSET (1..Len(findings))
    OBVIOUS
  <2>. HIDE DEF Free, M
  <2>2. M[gi] = Foremost(Free(M, gi))
    BY <1>4
  <2>. QED BY <2>1, <2>2, ForemostIsOne
<1>6. M \in [1..n -> 0..Len(findings)]
  <2>1. \A gi \in 1..n : M[gi] \in 0..Len(findings)
    <3>. HIDE DEF M
    <3>. QED BY <1>5
  <2>2. \E f : M = [gi \in 1..n |-> f[gi]]
    <3>. HIDE DEF Free, M
    <3>. QED BY <1>4
  <2>. HIDE DEF M
  <2>. QED BY <2>1, <2>2
<1>. QED BY <1>5, <1>6

\* The invocation does not change.
LEMMA InvocationStays == [CLINext]_allVars => invocation' = invocation
BY DEF CLINext, ShellStep, Arguments, RejectSettings, Main, BeginDocument,
       HandleDocument, FinishParse, FinishPreview, FinishAnalyze, HandleEval,
       HandleReplay, HandleDeliberative, Present, Interrupted, InterruptCLI, CrashCLI, Extraction, Publishers, Competitor,
       Reasoner, cliVars, allVars

\* Matching() is a matching that nothing can extend.
LEMMA MatchingIsMaximal ==
  ASSUME NEW labels, NEW findings, Len(labels) \in Nat, Len(findings) \in Nat,
         NEW M, M = Matching(labels, findings)
  PROVE  /\ M \in [1..Len(labels) -> 0..Len(findings)]
         /\ \A g \in 1..Len(labels) : M[g] # 0 => Matches(labels[g], findings[M[g]])
         /\ \A g, h \in 1..Len(labels) : M[g] # 0 /\ M[g] = M[h] => g = h
         /\ \A g \in 1..Len(labels), f \in 1..Len(findings) :
              M[g] = 0 /\ (\A h \in 1..Len(labels) : M[h] # f)
                => ~Matches(labels[g], findings[f])
<1>1. /\ M \in [1..Len(labels) -> 0..Len(findings)]
      /\ \A gi \in 1..Len(labels) :
           LET free == {fi \in 1..Len(findings) :
                          /\ Matches(labels[gi], findings[fi])
                          /\ \A g \in 1..(gi - 1) : M[g] # fi}
           IN  (free = {} /\ M[gi] = 0) \/ M[gi] \in free
  BY MatchingRecursion
<1>2. ASSUME NEW g \in 1..Len(labels), M[g] # 0
      PROVE  /\ Matches(labels[g], findings[M[g]])
             /\ \A h \in 1..(g - 1) : M[h] # M[g]
  BY <1>1, <1>2
<1>3. ASSUME NEW g \in 1..Len(labels), NEW h \in 1..Len(labels), M[g] # 0, M[g] = M[h], g # h
      PROVE  FALSE
  <2>1. h \in 1..(g - 1) \/ g \in 1..(h - 1)
    BY <1>3
  <2>. QED BY <1>2, <1>3, <2>1
<1>4. ASSUME NEW g \in 1..Len(labels), NEW f \in 1..Len(findings), M[g] = 0,
             \A h \in 1..Len(labels) : M[h] # f, Matches(labels[g], findings[f])
      PROVE  FALSE
  <2>1. {fi \in 1..Len(findings) :
           /\ Matches(labels[g], findings[fi])
           /\ \A h \in 1..(g - 1) : M[h] # fi} = {}
    BY <1>1, <1>4
  <2>2. \A h \in 1..(g - 1) : h \in 1..Len(labels)
    OBVIOUS
  <2>. QED BY <1>4, <2>1, <2>2
<1>. QED BY <1>1, <1>2, <1>3, <1>4

\* A part of a finite set and the rest of it count as the whole.
LEMMA PartAndRest ==
  ASSUME NEW S, IsFiniteSet(S), NEW T
  PROVE  Cardinality(S \cap T) + Cardinality(S \ T) = Cardinality(S)
<1>1. IsFiniteSet(S \cap T)
  BY FS_Subset
<1>2. Cardinality(S) \in Nat /\ Cardinality(S \cap T) \in Nat
  BY <1>1, FS_CardinalityType
<1>3. Cardinality(S \ T) = Cardinality(S) - Cardinality(S \cap T)
  BY FS_Difference
<1>. QED BY <1>2, <1>3

\* In each type true positives and the errors of either side add up.
LEMMA MetricsAddUp ==
  ASSUME NEW labels, NEW findings, Len(labels) \in Nat, Len(findings) \in Nat,
         NEW M, M = Matching(labels, findings), NEW type
  PROVE  LET metrics == TypeMetrics(labels, findings, M, type)
         IN  /\ metrics.tp + metrics.fp = Cardinality(Of(findings, type))
             /\ metrics.tp + metrics.fn = Cardinality(Of(labels, type))
<1>. DEFINE n == Len(labels)
            F == Of(findings, type)
            G == Of(labels, type)
            hits == {gi \in DOMAIN M : M[gi] \in F}
<1>1. /\ M \in [1..n -> 0..Len(findings)]
      /\ \A g \in 1..n : M[g] # 0 => Matches(labels[g], findings[M[g]])
      /\ \A g, h \in 1..n : M[g] # 0 /\ M[g] = M[h] => g = h
  BY MatchingIsMaximal
<1>2. F \subseteq 1..Len(findings) /\ G \subseteq 1..n
  BY DEF Of
<1>3. IsFiniteSet(F) /\ IsFiniteSet(G)
  <2>1. IsFiniteSet(1..Len(findings)) /\ IsFiniteSet(1..n)
    BY FS_Interval
  <2>. HIDE DEF F, G
  <2>. QED BY <1>2, <2>1, FS_Subset
<1>4. hits = G \ Missed(M)
  <2>1. ASSUME NEW g \in 1..n, M[g] # 0 PROVE M[g] \in F <=> g \in G
    <3>1. labels[g].type = findings[M[g]].type
      BY <1>1, <2>1 DEF Matches
    <3>2. M[g] \in 1..Len(findings)
      BY <1>1, <2>1
    <3>. QED BY <3>1, <3>2 DEF Of
  <2>2. \A g \in 1..n : M[g] = 0 => M[g] \notin F
    BY DEF Of
  <2>. HIDE DEF F, G
  <2>. QED BY <1>1, <1>2, <2>1, <2>2 DEF Missed
<1>5. Cardinality(hits) = Cardinality(F \cap Taken(M))
  <2>. DEFINE take == [g \in hits |-> M[g]]
  <2>1. take \in Bijection(hits, F \cap Taken(M))
    <3>1. \A g \in hits : g \in 1..n /\ M[g] \in F /\ M[g] # 0
      BY <1>1 DEF Of
    <3>. HIDE DEF F, hits
    <3>2. take \in [hits -> F \cap Taken(M)]
      BY <1>1, <3>1 DEF Taken
    <3>3. \A g, h \in hits : take[g] = take[h] => g = h
      BY <1>1, <3>1
    <3>4. \A f \in F \cap Taken(M) : \E g \in hits : take[g] = f
      BY <1>1 DEF Taken, hits
    <3>. HIDE DEF take
    <3>. QED BY <3>2, <3>3, <3>4 DEF Bijection, Injection, Surjection, IsInjective
  <2>2. IsFiniteSet(hits)
    <3>. HIDE DEF G
    <3>. QED BY <1>3, <1>4, FS_Subset
  <2>. HIDE DEF take, hits, F
  <2>. QED BY <2>1, <2>2, FS_Bijection DEF ExistsBijection
<1>6. Cardinality(F \cap Taken(M)) + Cardinality(F \ Taken(M)) = Cardinality(F)
  <2>. HIDE DEF F
  <2>. QED BY <1>3, PartAndRest
<1>7. Cardinality(hits) + Cardinality(G \cap Missed(M)) = Cardinality(G)
  <2>. HIDE DEF G, hits
  <2>1. Cardinality(G \cap Missed(M)) + Cardinality(G \ Missed(M)) = Cardinality(G)
    BY <1>3, PartAndRest
  <2>2. Cardinality(G \cap Missed(M)) \in Nat /\ Cardinality(G \ Missed(M)) \in Nat
    BY <1>3, FS_Subset, FS_CardinalityType
  <2>. QED BY <1>4, <2>1, <2>2
<1>8. /\ TypeMetrics(labels, findings, M, type).tp = Cardinality(hits)
      /\ TypeMetrics(labels, findings, M, type).fp = Cardinality(F \ Taken(M))
      /\ TypeMetrics(labels, findings, M, type).fn = Cardinality(G \cap Missed(M))
  BY DEF TypeMetrics
<1>. QED BY <1>5, <1>6, <1>7, <1>8

\* The score of a gold set is a matching that nothing can extend, for any lists
\* of labels and findings (EvalScorer.score).
THEOREM ScoresAreMatchings == CLISpec => []ScoreIsMatching
<1>1. CLIInit => invocation \in Invocations
  BY DEF CLIInit
<1>2. invocation \in Invocations /\ [CLINext]_allVars => (invocation \in Invocations)'
  BY InvocationStays
<1>3. invocation \in Invocations => ScoreIsMatching
  <2>. SUFFICES ASSUME invocation \in Invocations PROVE ScoreIsMatching
    OBVIOUS
  <2>. DEFINE labels == invocation.labels
              findings == invocation.findings
              M == Matching(labels, findings)
              scored == Score(labels, findings, {"A", "B"})
  <2>1. Len(labels) \in Nat /\ Len(findings) \in Nat
    BY InvocationAssumption
  <2>2. /\ scored.missed = Missed(M) /\ scored.spurious = (1..Len(findings)) \ Taken(M)
        /\ \A t \in {"A", "B"} : scored.metrics[t] = TypeMetrics(labels, findings, M, t)
    BY DEF Score
  <2>. HIDE DEF scored, M
  <2>3. ASSUME NEW t \in {"A", "B"}
        PROVE  /\ scored.metrics[t].tp + scored.metrics[t].fp = Cardinality(Of(findings, t))
               /\ scored.metrics[t].tp + scored.metrics[t].fn = Cardinality(Of(labels, t))
    <3>1. LET metrics == TypeMetrics(labels, findings, M, t)
          IN  /\ metrics.tp + metrics.fp = Cardinality(Of(findings, t))
              /\ metrics.tp + metrics.fn = Cardinality(Of(labels, t))
      BY <2>1, MetricsAddUp DEF M
    <3>. QED BY <2>2, <3>1
  <2>4. ASSUME NEW g \in scored.missed, NEW f \in scored.spurious
        PROVE  ~Matches(labels[g], findings[f])
    <3>1. /\ M \in [1..Len(labels) -> 0..Len(findings)]
          /\ \A h \in 1..Len(labels), e \in 1..Len(findings) :
               M[h] = 0 /\ (\A k \in 1..Len(labels) : M[k] # e)
                 => ~Matches(labels[h], findings[e])
      BY <2>1, MatchingIsMaximal DEF M
    <3>2. g \in 1..Len(labels) /\ M[g] = 0
      BY <2>2, <3>1 DEF Missed
    <3>3. f \in 1..Len(findings) /\ \A k \in 1..Len(labels) : M[k] # f
      BY <2>2, <3>1 DEF Taken
    <3>. QED BY <3>1, <3>2, <3>3
  <2>. QED BY <2>3, <2>4 DEF ScoreIsMatching, scored
<1>. QED BY <1>1, <1>2, <1>3, PTL DEF CLISpec

-----------------------------------------------------------------------------
(* The body behind its front matter.                                       *)

\* For any bill, however long, and whatever cites or repeats its headings: a clean
\* report has the articles of the enacting body, and a titled front matter leaves
\* the report clean exactly when it can be told from the body (find_body_start,
\* the monotonic guard and validate_parse_integrity).
THEOREM ParserFindsTheBody == CLISpec => []ParserRecovers
<1>1. CLIInit => invocation \in Invocations
  BY DEF CLIInit
<1>2. invocation \in Invocations /\ [CLINext]_allVars => (invocation \in Invocations)'
  BY InvocationStays
<1>3. invocation \in Invocations => ParserRecovers
  <2>. SUFFICES ASSUME invocation \in Invocations PROVE ParserRecovers
    OBVIOUS
  <2>. DEFINE text == invocation.bill
              parsed == ParseWithIntegrity(text)
  <2>1. text \in Seq(TextLine)
    BY InvocationAssumption
  <2>2. Report = parsed
    BY DEF Report, Reports
  <2>. HIDE DEF text, parsed
  <2>3. ASSUME Drafted(text), Rising(text, HeadingsIn(text, Body)), IsClean(parsed)
        PROVE  ArticleLines(parsed) = EnactedAt(text)
    BY <2>1, <2>3, CleanIsEnacted DEF ArticleLines, parsed
  <2>4. ASSUME Drafted(text), Titled(text), IsClean(parsed) PROVE Separable(text)
    <3>1. Rising(text, HeadingsIn(text, Body))
      BY <2>1, <2>4, TitledRises
    <3>2. BodyHeadings(text, FALSE) = EnactedAt(text)
      BY <2>1, <2>4, <3>1, CleanIsEnacted DEF parsed
    <3>. QED BY <2>1, <2>4, <3>2, CleanIsSeparable
  <2>5. ASSUME Drafted(text), Titled(text), Separable(text) PROVE IsClean(parsed)
    <3>1. BodyHeadings(text, FALSE) = EnactedAt(text)
      BY <2>1, <2>5, SeparableIsFound
    <3>2. BodyHeadings(text, TRUE) = {}
      BY <2>1, <2>5, TitledRises
    <3>. QED BY <2>1, <2>5, <3>1, <3>2, EnactedIsClean DEF parsed
  <2>. QED BY <2>2, <2>3, <2>4, <2>5 DEF ParserRecovers, text
<1>. QED BY <1>1, <1>2, <1>3, PTL DEF CLISpec
=============================================================================
