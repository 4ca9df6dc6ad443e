----------------------------- MODULE CommandLine -----------------------------
(***************************************************************************)
(* The `leggie` command line (interfaces/cli, application/cqrs and the     *)
(* container): one invocation is a process that parses its arguments,      *)
(* wires the container, sends one command through the mediator and turns   *)
(* what the handler returned into stdout and an exit code.  The handlers   *)
(* ingest and parse (BoundedIngest, BillParser), replay a run (EventStore),*)
(* score findings (EvalScorer), or run the deliberative pipeline           *)
(* (DeliberativeRun), for which other processes compete.                   *)
(*                                                                         *)
(* The deterministic analysis, specified in BillAnalysisFlow, here only    *)
(* succeeds or fails once its document has passed the integrity gate.      *)
(***************************************************************************)
EXTENDS DeliberativeRun, BoundedIngest, BillParser, EventStore, EvalScorer

CONSTANTS Shell,        \* the process of the invocation's deliberative command
          Invocations   \* the invocations to explore

ASSUME ShellAssumption == Shell \in Runner

\* The levels of Python's logging that the code uses.
INFO == 20
WARNING == 30
ERROR == 40
CRITICAL == 50

\* A bill is a text, a gold set a list of labels, a report a list of findings.
ASSUME InvocationAssumption ==
  \A i \in Invocations :
    /\ i.bill \in Seq(TextLine) /\ i.labels \in Seq(Item) /\ i.findings \in Seq(Item)
    /\ i.loglevel \in {INFO, WARNING, ERROR, CRITICAL}

VARIABLES
  invocation,  \* the arguments, and the world they meet
  cli,         \* "ready", "handling", "ingesting", "parsed", "presenting", "exited"
  result,      \* error_type of the CommandResult: "none", "ok" or a name
  stdout,      \* what was printed: "ok" and "error" documents, "text"
  logged,      \* whether log lines went to stdout too
  exit         \* the exit code; -1 before there is one, 9 after a SIGKILL

cliVars == <<invocation, cli, result, stdout, logged, exit>>
allVars == <<vars, ingestVars, storeVars, cliVars>>

DocumentCommand == {"parse", "preview", "analyze"}
\* argparse itself answers --help and a misuse; a bare `leggie` reaches main().
Flags == {"version", "bare"}
Commands == DocumentCommand \cup Flags
              \cup {"help", "misused", "deliberative", "eval", "replay"}

Runs(command) == invocation.command = command
Reports == [text \in {i.bill : i \in Invocations} |-> ParseWithIntegrity(text)]
Report == Reports[invocation.bill]
ArticleLines(parsed) == {a.line : a \in parsed.articles}

CLIInit ==
  /\ invocation \in Invocations
  /\ cli = "ready" /\ result = "none" /\ stdout = <<>> /\ logged = FALSE /\ exit = -1
  /\ IngestInit /\ StoreInit /\ Init
  \* Only a deliberative command looks at the port and at its settings.
  /\ ~Runs("deliberative") =>
       port = "nobody" /\ \A r \in Runner : ~options[r].enabled /\ ~options[r].fallback

-----------------------------------------------------------------------------
\* The end of the process: its loop is closed, its threads are not joined.
Exit(code) == cli' = "exited" /\ exit' = code
Say(what) == stdout' = Append(stdout, what)
Result(type) == cli' = "presenting" /\ result' = type

\* configure_logging() sends the log to stdout, from the invocation's level on.
Log(levels) == logged' = (logged \/ \E l \in levels : l >= invocation.loglevel)

\* argparse exits by itself.
Arguments ==
  /\ cli = "ready"
  /\ \/ Runs("help") /\ Say("text") /\ Exit(0)
     \/ Runs("misused") /\ Exit(2) /\ UNCHANGED stdout
  /\ UNCHANGED <<invocation, result, logged, ingestVars, vars, storeVars>>

\* main(): configure_logging reads the settings before anything else.  When they
\* are rejected the exception reaches entry_point, whose "cli.fatal" line
\* finds the log unconfigured and is printed at any level.
RejectSettings ==
  /\ cli = "ready" /\ ~Runs("help") /\ ~Runs("misused")
  /\ ~invocation.settings
  /\ logged' = TRUE
  /\ Exit(2)
  /\ UNCHANGED <<invocation, result, stdout, ingestVars, vars, storeVars>>

\* Then --version, no command at all, or the container and the mediator.
Main ==
  /\ cli = "ready" /\ ~Runs("help") /\ ~Runs("misused")
  /\ invocation.settings
  /\ IF invocation.command \in Flags
       THEN /\ Say(IF invocation.json /\ Runs("version") THEN "ok" ELSE "text")
            /\ Exit(0)
       ELSE cli' = "handling" /\ UNCHANGED <<stdout, exit>>
  /\ UNCHANGED <<invocation, result, logged, ingestVars, vars, storeVars>>

-----------------------------------------------------------------------------
(* The handlers.                                                           *)

\* The store holds a checkpoint of this file that analyze goes on from: its
\* text, about to be parsed, or its parsed document.
Resumes == Runs("analyze") /\ invocation.checkpoint # "none"

\* preview and analyze look for an LLM and warn when none is configured; analyze
\* makes its output directory, logs the start and loads its checkpoint.
BeginDocument ==
  /\ cli = "handling" /\ invocation.command \in DocumentCommand
  /\ Log((IF ~Runs("parse") /\ ~invocation.keyed THEN {WARNING} ELSE {})
          \cup (IF Runs("analyze") /\ invocation.output # "blocked" THEN {INFO} ELSE {}))
  /\ IF Runs("analyze") /\ invocation.output = "blocked"
       THEN Result("OSError")
       ELSE cli' = (IF Resumes THEN "parsed" ELSE "ingesting") /\ UNCHANGED result
  /\ UNCHANGED <<invocation, stdout, exit, vars, ingestVars, storeVars>>

\* IngestPort, then ParsePort on what it returns.
HandleDocument ==
  /\ cli = "ingesting"
  /\ \/ /\ \/ Progress(invocation.file) /\ UNCHANGED logged
           \/ Refusal(invocation.file) /\ Log({WARNING})
        /\ UNCHANGED <<cli, result>>
     \/ /\ ingest = "done"
        /\ IF verdict = "text"
             THEN cli' = "parsed" /\ UNCHANGED result
             ELSE Result(verdict)
        /\ UNCHANGED <<logged, ingestVars>>
  /\ UNCHANGED <<invocation, stdout, exit, vars, storeVars>>

\* write_text of the artifact, when --output names one.
Written ==
  CASE invocation.output = "good" -> "ok"
    [] invocation.output = "missing" -> "FileNotFoundError"
    [] OTHER -> "OSError"

\* _do_parse refuses an unclean report; a document out of a checkpoint is not
\* parsed again, and only analyze can be told to go on.
Unclean ==
  /\ ~IsClean(Report)
  /\ \/ Runs("preview")
     \/ Runs("analyze") /\ ~invocation.degraded /\ invocation.checkpoint # "document"

FinishParse ==
  /\ cli = "parsed" /\ Runs("parse")
  /\ Result(Written)
  /\ UNCHANGED <<invocation, stdout, logged, exit, vars, ingestVars, storeVars>>

FinishPreview ==
  /\ cli = "parsed" /\ Runs("preview")
  /\ Result(IF Unclean THEN "ParseIntegrityError" ELSE Written)
  /\ UNCHANGED <<invocation, stdout, logged, exit, vars, ingestVars, storeVars>>

\* The flow behind the gate: the selection of articles may not fit the document,
\* a stage may raise, and a report without findings is not written.
FinishAnalyze ==
  /\ cli = "parsed" /\ Runs("analyze")
  /\ \/ Unclean /\ Result("ParseIntegrityError")
     \/ ~Unclean /\ ~invocation.articles /\ Result("ValueError")
     \/ ~Unclean /\ invocation.articles /\ (Result("ok") \/ Result("Error"))
     \/ /\ ~Unclean /\ invocation.articles /\ invocation.output = "full"
        /\ Result("OSError")
  /\ UNCHANGED <<invocation, stdout, logged, exit, vars, ingestVars, storeVars>>

\* EvalGoldSetHandler prints a line per bill on its way to the results; with an
\* LLM each bill it finds is analyzed first.
HandleEval ==
  /\ cli = "handling" /\ Runs("eval")
  /\ \/ invocation.gold = "good" /\ Say("text") /\ Result(Written)
     \/ /\ invocation.gold = "good" /\ invocation.keyed
        /\ \E type \in {"IngestError", "ParseIntegrityError", "OSError", "Error"} :
             Result(type)
        /\ UNCHANGED stdout
     \/ invocation.gold = "missing" /\ Result("FileNotFoundError") /\ UNCHANGED stdout
     \/ invocation.gold = "malformed" /\ Result("KeyError") /\ UNCHANGED stdout
  /\ Log(IF invocation.gold = "good" /\ ~invocation.keyed THEN {WARNING} ELSE {})
  /\ UNCHANGED <<invocation, exit, vars, ingestVars, storeVars>>

\* ReplayRunHandler: a store that can replay, and a run it knows.
HandleReplay ==
  /\ cli = "handling" /\ Runs("replay")
  /\ Result(CASE ~invocation.durable -> "ConfigurationError"
              [] invocation.durable /\ OfRun(invocation.run) = {} -> "RunNotFoundError"
              [] OTHER -> "ok")
  /\ UNCHANGED <<invocation, stdout, logged, exit, vars, ingestVars, storeVars>>

\* AnalyzeBillHandler._handle_deliberative: what its run may come to.
DeliberativeResults(r) ==
  CASE pc[r] = "ok" -> {"ok"}
    [] pc[r] = "failed" /\ ~options[r].enabled -> {"ConfigurationError"}
    [] pc[r] = "failed" /\ "budget_tripped" \in ToSet(trail[r]) ->
         {"DeliberativeBudgetExceededError"}
    [] pc[r] = "failed" /\ outcome[r] = "ReasonerUnavailableError" /\ ~options[r].fallback ->
         {"ReasonerUnavailableError"}
    [] pc[r] = "failed" /\ outcome[r] = "ReasonerUnavailableError" /\ options[r].fallback ->
         {"InputNotFoundError", "UnsupportedFormatError", "IngestError",
          "ParseIntegrityError", "ValueError", "OSError", "Error"}
    [] pc[r] \notin {"ok", "failed"} -> {}
    [] OTHER -> {"InputNotFoundError", "UnsupportedFormatError", "IngestError", "OSError"}

HandleDeliberative ==
  /\ cli = "handling" /\ Runs("deliberative")
  /\ \/ (FlowStep(Shell) \/ ServerStep(Shell)) /\ UNCHANGED cliVars
     \/ /\ \E type \in DeliberativeResults(Shell) : Result(type)
        /\ UNCHANGED <<invocation, stdout, logged, exit, vars>>
  /\ UNCHANGED <<ingestVars, storeVars>>

-----------------------------------------------------------------------------
(* Exit codes and output.                                                  *)

\* Mutant of ExitFor: the table has not heard of a new exception.
ExitForDrifted(type) ==
  CASE type = "ok" -> 0
    [] type \in {"ConfigurationError", "UnsupportedFormatError", "FileNotFoundError"} -> 2
    [] type \in {"BudgetExceededError", "DeliberativeBudgetExceededError"} -> 3
    [] type = "ParseIntegrityError" -> 4
    [] type \in {"ReasonerUnavailableError", "IngestError"} -> 5
    [] OTHER -> 1

\* _ERROR_TYPE_EXITS: by the exact name; a name it does not list is unknown.
ExitFor(type) ==
  CASE type = "ok" -> 0
    [] type \in {"LLMConfigurationError", "ConfigurationError", "UnsupportedFormatError",
                 "InputNotFoundError", "FileNotFoundError", "ValidationError"} -> 2
    [] type \in {"BudgetExceededError", "DeliberativeBudgetExceededError"} -> 3
    [] type = "ParseIntegrityError" -> 4
    [] type \in {"ReasonerUnavailableError", "LLMError", "LLMRateLimitError",
                 "LLMTimeoutError", "IngestError"} -> 5
    [] OTHER -> 1

\* What the _handle_* functions print of a success: one document (parse,
\* preview and replay in any mode), or text; and the informational lines,
\* which JSON mode suppresses.
Printed ==
  (IF invocation.json \/ invocation.command \notin {"analyze", "deliberative", "eval"}
     THEN <<"ok">> ELSE <<"text">>)
  \o (IF invocation.json \/ Runs("replay") THEN <<>> ELSE <<"text">>)

\* Wiring, the LLM stack, the stages and the Reasoner's adapter log on their way
\* to an end; one choice here stands for all of it.
LogOnTheWay == Log({}) \/ Log({ERROR})

\* Mutant of Present: the informational lines are printed in every mode.
PresentTalkative ==
  /\ cli = "presenting"
  /\ Exit(ExitFor(result))
  /\ stdout' = stdout \o <<IF result = "ok" THEN "ok" ELSE "error", "text">>
  /\ LogOnTheWay
  /\ UNCHANGED <<invocation, result, vars, ingestVars, storeVars>>

\* _fail() prints the envelope in JSON mode, and to stderr otherwise.
Present ==
  /\ cli = "presenting"
  /\ Exit(ExitFor(result))
  /\ stdout' = stdout \o (IF result = "ok" THEN Printed
                         ELSE IF invocation.json THEN <<"error">> ELSE <<>>)
  /\ LogOnTheWay
  /\ UNCHANGED <<invocation, result, vars, ingestVars, storeVars>>

\* SIGINT or SIGTERM: the handler logs (at any level, before main() configures
\* the log) and KeyboardInterrupt reaches entry_point(); the loop is cancelled
\* and closed, and a deliberative run unwinds first.
InterruptCLI ==
  /\ cli # "exited"
  /\ IF cli = "handling" /\ Runs("deliberative")
       THEN Interrupt(Shell) /\ UNCHANGED <<cli, exit, ingestVars>>
       ELSE Exit(6) /\ CancelIngest /\ UNCHANGED vars
  /\ IF cli = "ready" THEN logged' = TRUE ELSE Log({WARNING})
  /\ UNCHANGED <<invocation, result, stdout, storeVars>>

Interrupted ==
  /\ cli = "handling" /\ Runs("deliberative") /\ pc[Shell] = "interrupted"
  /\ Exit(6)
  /\ UNCHANGED <<invocation, result, stdout, logged, vars, ingestVars, storeVars>>

\* SIGKILL during the deliberative run: no exit code, no output.
CrashCLI ==
  /\ cli = "handling" /\ Runs("deliberative")
  /\ Crash(Shell)
  /\ Exit(9)
  /\ UNCHANGED <<invocation, result, stdout, logged, ingestVars, storeVars>>

-----------------------------------------------------------------------------
(* Everything else that moves: the extraction's thread and the callback it *)
(* queued, the publishers that fill the store around a replay, the other   *)
(* deliberative processes and the Reasoner they share.                     *)

Extraction ==
  /\ Extracted(cli # "exited") \/ (cli # "exited" /\ Settle(invocation.file))
  /\ UNCHANGED <<vars, storeVars, cliVars>>

Publishers ==
  /\ Runs("replay") /\ cli # "exited"
  /\ StoreStep
  /\ UNCHANGED <<vars, ingestVars, cliVars>>

Competitor(r) ==
  /\ Runs("deliberative")
  /\ FlowStep(r) \/ ServerStep(r)
  /\ UNCHANGED <<ingestVars, storeVars, cliVars>>

Reasoner ==
  /\ Runs("deliberative")
  /\ Environment
  /\ UNCHANGED <<options, runVars, ingestVars, storeVars, cliVars>>

ShellStep ==
  \/ Arguments \/ RejectSettings \/ Main
  \/ BeginDocument \/ HandleDocument \/ FinishParse \/ FinishPreview \/ FinishAnalyze
  \/ HandleEval \/ HandleReplay \/ HandleDeliberative \/ Present \/ Interrupted

CLINext ==
  \/ ShellStep \/ InterruptCLI \/ CrashCLI
  \/ Extraction \/ Publishers \/ Reasoner
  \/ \E r \in Runner \ {Shell} : Competitor(r)

\* The invocation keeps running; extractions, publishers, the Reasoner and
\* the other processes need not.
CLISpec == CLIInit /\ [][CLINext]_allVars /\ WF_allVars(ShellStep)

-----------------------------------------------------------------------------
(* Properties.                                                             *)

\* What the factory or BoundedIngestor refuses, whatever the extraction does.
Refused(file) == ~file.supported \/ ~file.exists \/ file.oversize \/ file.toolong

\* Late answers change nothing: once the future is settled or cancelled the
\* worker's call leaves it alone, and a text comes only out of a file within
\* every cap whose extraction answered before the deadline (run_off_loop and
\* BoundedIngestor.ingest).
IngestVerdict ==
  [][/\ future \notin {"none", "pending"} => future' = future
     /\ verdict' # verdict /\ verdict' = "text"
          => ~Refused(invocation.file) /\ future = "text" /\ worker = "ended"]_allVars

\* What an exit code says of its cause, whatever the order of checks on the way:
\* 2 for what the caller got wrong, settings before any flag of main() and the
\* file unless a checkpoint stands for it; 4 exactly for an unclean text that this
\* invocation parsed itself and was not told to accept; 5, of a document, exactly
\* for a refused ingest; and 0 only when the text was read here, or a checkpoint
\* of it resumed, and the artifact is written (_ERROR_TYPE_EXITS and what
\* the handlers return).
ExitTellsCause ==
  LET i == invocation
      documents == i.command \in DocumentCommand
      writes == i.command \in {"parse", "preview", "eval"}
      blocked == Runs("analyze") /\ i.output = "blocked"
      looks == documents /\ ~blocked /\ ~Resumes
      callersFault ==
        \/ i.command = "misused"
        \/ i.command \notin {"help", "misused"} /\ ~i.settings
        \/ looks /\ (~i.file.supported \/ ~i.file.exists)
        \/ i.command = "eval" /\ i.gold = "missing"
        \/ i.command = "replay" /\ ~i.durable
        \/ i.command = "deliberative" /\ ~options[Shell].enabled
  IN  exit \notin {-1, 6, 9} =>
        /\ callersFault => exit = 2
        /\ i.command # "deliberative" /\ exit = 2
             => callersFault \/ (writes /\ i.output = "missing")
        /\ documents => (exit = 4 <=> /\ verdict = "text" \/ Resumes
                                      /\ i.settings /\ ~blocked /\ Unclean)
        /\ documents => (exit = 5 <=> verdict = "IngestError")
        /\ documents /\ exit = 0 =>
             /\ Resumes \/ (~Refused(i.file) /\ future = "text")
             /\ IF writes THEN i.output = "good" ELSE i.articles
        /\ i.command = "deliberative" =>
             /\ report[Shell] => exit = 0
             /\ exit = 0 => report[Shell] \/ options[Shell].fallback
             /\ (outcome[Shell] = "ReasonerUnavailableError" /\ ~options[Shell].fallback)
                  => exit = 5

\* What a program that asked for JSON can rely on.  Log lines aside, an invocation
\* that reached a handler prints one document, which says "ok" exactly when the
\* exit code is 0 (eval prints its lines before it, and then the document), and
\* one that did not prints none; and the log is silent at --log-level CRITICAL
\* unless the settings are rejected (_fail and the _handle_* functions).
OneEnvelope ==
  LET document == IF exit = 0 THEN "ok" ELSE "error"
  IN  invocation.json /\ exit \in 0..5 /\ ~Runs("help") /\ ~Runs("bare") =>
        /\ \/ stdout = <<document>>
           \/ Runs("eval") /\ stdout = <<"text", document>>
           \/ stdout = <<>> /\ result = "none" /\ exit = 2
        /\ logged => ~invocation.settings \/ invocation.loglevel # CRITICAL

\* "stdout carries exactly one JSON document and nothing else"
\* (docs/HEADLESS_CLI.md:34), of a command that has something to say.
OneDocument ==
  invocation.json /\ exit \in 0..5 /\ result # "none" => Len(stdout) = 1 /\ ~logged

\* The parser finds the body behind its front matter: when the report on a
\* bill is clean, the articles are those of the enacting body, unless the numbers
\* of the body's own headings fall (a citation before an inserted article); and
\* a bill without citations whose front matter is titled is clean exactly when
\* its body can be told apart.
ParserRecovers ==
  Runs("parse") /\ cli = "presenting" /\ result = "ok" =>
    \A text \in {invocation.bill}, parsed \in {Report} :
      Drafted(text) =>
        /\ Rising(text, HeadingsIn(text, Body)) =>
             (IsClean(parsed) => ArticleLines(parsed) = EnactedAt(text))
        /\ Titled(text) => (IsClean(parsed) <=> Separable(text))

\* A clean report drops no article: "No silent drops: every rejected
\* candidate is recorded." (ParseIntegrityReport).
CleanIsFaithful ==
  Runs("parse") /\ cli = "presenting" /\ result = "ok" =>
    \A parsed \in {Report} :
      IsClean(parsed) => ArticleLines(parsed) = EnactedAt(invocation.bill)

\* The score is a matching nothing can extend: every finding and every label
\* counts once, in its own type, and what is left on one side matches nothing
\* left on the other.
ScoreIsMatching ==
  Runs("eval") /\ cli = "presenting" /\ result = "ok" =>
    LET i == invocation
        scored == Score(i.labels, i.findings, {"A", "B"})
    IN  /\ \A t \in {"A", "B"} :
             /\ scored.metrics[t].tp + scored.metrics[t].fp = Cardinality(Of(i.findings, t))
             /\ scored.metrics[t].tp + scored.metrics[t].fn = Cardinality(Of(i.labels, t))
        /\ \A g \in scored.missed, f \in scored.spurious :
             ~Matches(i.labels[g], i.findings[f])

\* Every invocation ends, whatever the Reasoner and the other processes do:
\* the only thing it waits for without a bound is an extraction whose
\* deadline is switched off.
EveryCommandEnds == invocation.file.deadline => <>(cli = "exited")
=============================================================================
