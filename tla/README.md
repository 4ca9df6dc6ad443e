# A TLA+ model of Leggie

Leggie analyses Greek bills: it ingests a file, parses it into articles, sends
every article through five LLM "lenses", verifies what they find, and writes
reports. A run costs money and takes long, so the program checkpoints after
every step, holds a budget, and limits its request rate. This directory models
that core: the durable workflow with its checkpoints, the store that keeps
them, the LLM stack that spends the budget, the fan-out of the lenses, the
chain that verifies their findings; and around it the command line, with the
ingest, the parser, the event store, the evaluation and the second pipeline,
which drives an external Reasoner. TLC checks the models on small
instances, and TLAPS proves the main safety properties for every instance.

## The system

| Component | State | Operations | Talks to |
|---|---|---|---|
| `BillAnalysisFlow` (application/workflow) | workflow state, document, source text, findings, suggestions, events, run id, checkpoint store | `run`, `preview`, `_transition`, `_save_checkpoint`, `_load_checkpoint`, `_filter_document`, `_select_article_ids` | every component below |
| `FlowStateMachine` | none: a transition table | `transition`, `terminal_states`, `resumable_states` | the flow |
| `CheckpointStore` (persistence) | one file, one temporary file per save | `save`, `load`, `delete` | the flow; other processes through the shared default path |
| `BudgetGuard` | tokens, cost, degraded flag | `check`, `record_usage`, `apply_degrade`, `save_state`, `load_state` | the decorator; the flow, when it can find it |
| `BudgetGuardDecorator`, `with_retry`, `StructuredOutputDecorator` (llm) | a reservation per call, a lock | `generate`, `generate_structured` | guard, transport |
| `OpenRouterProvider`, `RateLimiter` | time of the last call, a lock | `generate`, `acquire` | the provider |
| `Orchestrator`, lenses, router | two semaphores, the model of each attempt | `analyze_document`, `analyze_article`, `_run_lens_with_cascade` | LLM stack |
| Skeptic, CoVe, reranker, blackboard aggregator | a semaphore per batch, blackboard rounds, events | `review`, `verify_batch`, `rerank`, `aggregate` | LLM stack, citation parser |
| Reasoner server manager, adapter, `DeliberativeFlow` | one external process, its handle, the port all processes share | `ensure_running`, `shutdown`, `reason`, `run` | an external server; other `leggie` processes through the port |
| `BoundedIngestor`, ingesters, `run_off_loop` | a future and a daemon thread per file | `ingest`, `get_ingestor` | the CLI's handlers, both flows |
| `MarkdownParser`, table of contents | none that survives a call | `parse_with_integrity`, `extract_articles` | handlers, both flows |
| `SqliteEventStore` | a table of events, sequence numbers per process | `publish`, `replay`, `clear`, `close` | `leggie replay`; nothing publishes in production |
| `EvalScorer` | none | `score` | `leggie eval` |
| CLI, mediator, handlers, settings, logging | one invocation: result, output, log, exit code | `main`, the `_handle_*` functions, `entry_point` | everything above |
| Citations, reports, container | none that a decision reads | pure functions, output, wiring | the flow |

What is hard here, and what makes it correct:

* **Crash and resume.** A process may die anywhere, a save may fail, and the
  next process starts from a file it did not write. Correct means: the resumed
  run is one that could have happened without the crash. Its audit trail is a
  path of the state machine, every stage has its inputs, its data stem from one
  text, money already spent is still counted.
* **Sharing.** All processes without `--checkpoint` use one checkpoint file.
  Correct means: a run never works on another bill's data, and the file is
  never torn.
* **Concurrent spending.** Many tasks call the LLM at once; any call may fail,
  be retried, or be cancelled at an await. Correct means: the guard's counter
  is exactly usage plus open reservations, it passes the ceiling only by what
  answers used beyond their estimates, requests keep their distance, and no
  call waits for ever.
* **Fan-out.** Lenses, reviews and verifications run in parallel under
  semaphores; one failure must not cost the others their results, and the
  result must not depend on the order of completion.
* **Processes outside the process.** A run may spawn a server on a port that
  other processes probe, use and spawn for at the same time; a signal may come
  at any await. Correct means: nobody leaves a server behind, and a report is
  claimed only when it was written.
* **Answers that come too late.** An extraction runs in a thread nobody can
  stop; its answer may come after the deadline, or when the loop is gone.
  Correct means: the late answer changes nothing.
* **What a caller can rely on.** Exit codes and the JSON document are an
  interface. Correct means: the code tells the cause, whatever the order of
  checks on the way, one document says the same as the code, and the log does
  not get between the two.

## Modules

| Module | Models | Checked by | Proved in |
|---|---|---|---|
| `FlowStateMachine` | `flow_state_machine.py` as data | through the flow | through the flow |
| `BillAnalysisFlow` | `bill_analysis_flow.py`, composed with an abstract store and guard | `flow_*` (`MCBillAnalysisFlow`) | `BillAnalysisFlowProofs` |
| `CheckpointRegister` | nothing in the code: what the store promises | as a property | |
| `CheckpointStore` | `checkpoint_store.py` over a file system | `checkpoint_store` | `CheckpointStoreProofs` |
| `LLMStack` | ladder, guard decorator, retries, transport, rate limiter | `llm_*` (`MCLLMStack`) | `LLMStackProofs` |
| `LensTable` | nothing in the code: what the fan-out promises | as a property | |
| `LensFanOut` | `orchestrator.py`, `lens.py`, the router | `lens_*` (`MCLensFanOut`) | `LensFanOutProofs` |
| `FindingFates` | nothing in the code: what the verification chain promises | as a property | |
| `VerificationChain` | `skeptic.py`, `cove_verifier.py`, `rerank.py`, `blackboard_aggregator.py`, the inline pair of the flow | `verification_*` (`MCVerificationChain`) | `VerificationChainProofs` |
| `ReasonerServer` | `server_manager.py` and the port | through the next two | through the next |
| `DeliberativeRun` | `deliberative_flow.py`, `adapter.py`, `_handle_deliberative`; extends `ReasonerServer` | through the command line | `DeliberativeRunProofs` |
| `BoundedIngest` | `ingest/bounded.py`, the factory, `run_off_loop` | through the command line | `CommandLineProofs` |
| `BillParser` | `parse/` as operators on lines | through the command line | `BillParserProofs`, `CommandLineProofs` |
| `EventStore` | `sqlite_event_store.py` | through the command line | `CommandLineProofs` |
| `EvalScorer` | `score()` of `eval_harness.py` as operators | through the command line | `CommandLineProofs` |
| `CommandLine` | `interfaces/cli`, `application/cqrs`; composes the six above | `command_line`, `parse_clean`, `json_stdout` (`MCCommandLine`) | `CommandLineProofs` |

### BillAnalysisFlow

`flow[r]` is one `BillAnalysisFlow` object, a record of its fields; `disk` is
the checkpoint file; `content` the bills on disk; `published` the report files.
A step is what the coroutine does between two awaits, so the body of a stage,
its `_transition()` and the checkpoint inside it are one action, and a crash
(`Restart`) can only fall between actions. A save may fail in every action:
`_save_checkpoint` swallows `OSError`. The store appears as one atomic
variable; `CheckpointStore` justifies that. Two history variables carry what
properties speak about and the code does not store: `spent`, and the run id
drawn from `calls`.

`run()` is a chain of `if self._state == ...` blocks, one action each. An event
the transition table does not have leaves the state behind all the blocks that
follow, so `Pass` then lets `run()` return where it stands, quietly, as the code
does; `RunCompletes` says that this never happens. `pc` tells a run that
returned from a flow that raised or was never called. The five writes of a
report are one step, although a crash may fall between them: `published` is what
a run that got through them left.

A bill is a set of article numbers, and a text with a gap in its numbers is one
whose parse is not clean. A finding is the article it is about, the text that
article came from, and how far it went down the verification chain. What the
lenses find and what the chain keeps is nondeterministic within what the code
allows. Of the events, only STAGE_COMPLETED is kept.

`PreviewWithStore` and `GuardVisible` are constants because the code leaves
them to the composition: the CLI's preview handler builds a flow without a
store, and whether the guard is found depends on the LLM port that is injected.
They are TRUE or FALSE in different runs.

### CheckpointStore

A directory maps names to inodes, so that a rename is one step while a reader
keeps the inode it opened. Any number of processes save, load, delete, fail and
die. The module implements `CheckpointRegister` under the mapping: the value is
what the inode behind the checkpoint's name holds; a save is pending until its
rename; a load has seen what its inode holds.

### LLMStack

`used` is the guard's counter, `lock` and `last` the limiter, `call[c]` the
call of a task: where it is, its rung of the ladder, its try. A failed rung
reaches the next reservation without an await, so `Proceed` does both in one
step. One counter stands for tokens and cost, which the code moves together.
`spent` and `overrun` are history variables.

### LensFanOut

`article[a]` is the task of an article, `task[p]` the task of a lens for an
article, `free` and `articleFree` the two semaphores, `events` the DEGRADED
events. A step is what one task does between two awaits; the router never
suspends, so a route or a cascade belongs to the step it is in. `setting` is
one configuration, drawn at the start: the route's first tier, whether it
cascades, whether the router may raise, whether lenses sample first, and the
sizes of the semaphores. The findings of a pair are one value, there are some
or there are none; their order is left out because the results are read from
the tasks in the order in which these were created. A TaskGroup cancels its
siblings when a task raises; the model keeps that rule, although the code
catches every failure before it gets there, which is part of what
`ImplementsTable` and its proof say. The module implements `LensTable`: each
(article, lens) pair is decided once and for itself.

### VerificationChain

`list` holds the findings the driver has, `task[i]` the review or verification
of `list[i]`, `free` the semaphore, which is new for every batch; `stage` says
where the driver is: collected, review, verify, rerank, done. `case` is drawn
at the start: which driver (`BlackboardAggregator.aggregate()` or the flow's
`_aggregate_inline_dedup()` and `_aggregate_inline_verify()`), whether there is
an LLM port, which reranker, whether the citation parser may raise, the
semaphore, the threshold of similarity, and the raw findings. `events` and
`rounds` are what the driver records. `accused` is a history variable: the ids
of findings somebody had something against.

A step is what one task does between two awaits. Citation lookups, the router
and the composite reranker never suspend, so a gate or a deterministic
verification is one step. Results are folded in the order of the input, as the
code does it.

The data are abstracted to what decides: a quote is the article its text was
copied from, the words of an issue are a set, scores are integers (a confidence
of 1.0 is 20, a composite score of 1.0 is 200), the typed gates of the skeptic
give a constant boost, a corrected conclusion is left out because nothing in
the chain reads it, and a cross-check without a verdict is a confirmation that
changes nothing. Findings of equal confidence have random ids, so
deduplication may keep any of them. The module implements `FindingFates`: each
finding is kept or removed once and for good, and exactly those kept are
published, each once.

The flow model keeps its own, coarser view of the same chain (a finding moves
one stage further or is gone). The two modules are not composed.

### ReasonerServer and DeliberativeRun

`child[r]` is the process runner `r` spawned as the operating system sees it,
`handle[r]` whether its manager still knows it, `manager[r]` where the manager
is in `ensure_running()` or `shutdown()`, and `port` who listens. A manager
spawns after a failed probe, which is not atomic: two processes may both find
nobody and both spawn, and the child that binds second leaves at once. The
manager polls until any Reasoner answers, so one process may use the server of
another, which that other shuts down under it. `shutdown()` waits inside the
event loop's thread, so nothing else of that process moves meanwhile, and a
signal there breaks the wait (`cut`).

`pc[r]` is where the command is, `outcome[r]` how `flow.run` ended, `trail[r]`
the events it recorded. A signal raises an exception that is not an
`Exception`; a SIGKILL runs no `finally`. What a stage answers, and the
deterministic pipeline a run may fall back to, are outcomes only.

### BoundedIngest, BillParser, EventStore, EvalScorer

`BoundedIngest` has the future and the worker thread of one extraction: the
worker queues a call on the loop, the call settles the future unless the
deadline or a cancellation did, and a file is described by what the checks and
the extraction make of it. `BillParser` works on lines of a few kinds, those
the regular expressions tell apart: a heading with a number and a letter, a
title of the front matter, the start of a paragraph, prose, the rest of a line a
page break cut off. `ParseWithIntegrity` is the whole call: where the body starts,
which headings are articles, what the report says. A line also carries the part of
the bill its drafter put it in; no parser reads it, and the properties compare it
with what the parser found. `Drafted` says how bills are laid out: front matter
that repeats headings of the body, and a body that begins with its Article 1 and
numbers its articles on. `MCCommandLine` builds such bills from layouts (a
rationale, a table of contents that is titled, untitled or missing, articles, an
inserted article, a citation that looks like a heading) and checks that they are
`Drafted`. `EventStore` numbers events per run with a counter that lives as
long as a process, over a table that lives longer; a row carries the life that
wrote it, and any number of lives may publish for one run. `EvalScorer` is the greedy matching of findings to labels.

### CommandLine

One invocation: `cli` says how far it is, `result` what the handler returned,
`stdout` the documents it printed, `logged` whether log lines went to stdout
beside them, `exit` its code. `invocation` is drawn at the start: the command and
its flags, the settings, the log level, the file and the bill in it, where the
artifact is to go, whether a checkpoint of the file is found and how far it is,
whether the selection of articles fits, whether an LLM is configured, what the
gold set and the event store are like.

The order of the checks is the code's. `Arguments` is argparse, which ends
`--help` and a misuse by itself; then `configure_logging()` reads the settings
(`RejectSettings`), before `Main` looks at `--version`. `BeginDocument` makes
the output directory of `analyze`, logs its start and looks for the checkpoint:
a resumed one skips the ingest, and, past parsing, the integrity gate too. The
other handlers are `HandleDocument`, `FinishParse`, `FinishPreview`,
`FinishAnalyze`, `HandleEval`, `HandleReplay` and `HandleDeliberative`;
`Present` is the presenter with the exit code. The worker thread, other
deliberative processes, the Reasoner, publishers that fill the store around a
replay, signals and SIGKILL interleave with it. The deterministic analysis is
`BillAnalysisFlow`'s; here it succeeds or fails once its document has passed the
parse gate, and a checkpoint is a fact of the invocation.

Of the log it is kept whether a line reached stdout. The lines the main path
writes stand at their places with their level (the start of a flow, a refused
ingest, a missing LLM, a signal); what wiring, stages and adapters log is one
choice at the end (`LogOnTheWay`).

A signal becomes an exception at an await. The real handler may raise it at any
bytecode: between `Popen` and the assignment of the process
(server_manager.py:81), or inside the `finally` before `terminate()` (lines 88
and 89), the child would be left behind, and `NoOrphanServer` is not claimed
there.

## Runs

| Run | Asks | Bounds |
|---|---|---|
| `flow_crash` | Does any crash, failed save or failed load leave a run, a trail, a stage, a spend or a selection that no uninterrupted run has? | one process, two bills, two articles, three calls, one charged call |
| `flow_two_runners` | Do two processes on one checkpoint file disturb each other, or return before the end of the pipeline? | two processes, two bills, two calls, one edit, no blackboard, degraded parses allowed |
| `flow_budget_lost` | Is spend kept with the LLM stack of the container? (It is not.) | as `flow_crash`, one bill |
| `llm_stack` | Accounting, ceiling, spacing, number of requests, termination | two tasks, two tries, a ceiling of two estimates, answers below and above the estimate |
| `llm_budget_stop` | Does a refused structured call raise BudgetExceededError? (It does not.) | the same |
| `checkpoint_store` | Is the store an atomic register? | three processes, three saves, three rename tries instead of five |
| `lens_fan_out` | Is each lens decided independently, with no slot lost and no silent failure, and does every analysis end? | two articles, two lenses, three settings |
| `verification_chain` | Does each finding meet one fate whatever the order of answers and failures, is every removal recorded, is what is published ranked by what is published, does the chain end? | three findings, nine cases, two questions, confidence adjustments of 0 and -8 of 20, threshold 60 % |
| `verification_quotes` | Does a finding with a real quote pass the gates? (Not when articles have letters.) | two findings, articles 5, 5Α and 6 |
| `command_line` | Does every invocation end, with the code and the envelope its cause calls for, whatever the settings, the file, the bill, the checkpoint, the artifact's place, the store, the Reasoner, a competing process or a signal do? | two processes on one port, one health poll, two tries, one signal; two runs, three events, two lives of the store; four log levels; bills of two or three articles; gold sets of two labels and two findings |
| `parse_clean` | Is a clean parse faithful? (Not when a citation is taken for a heading.) | the same bills |
| `json_stdout` | Is the JSON document alone on stdout? (Not at the default log level.) | one `analyze` of a good bill |

The bounds are small but not too small: one call crashes and a second resumes,
and a third (`flow_crash`) resumes the checkpoint of a resumed run or finds the
checkpoint of another bill. Two articles separate "selected" from "not
selected" and a clean bill from one with a gap. Two tasks suffice for every
race about one lock and one counter; the ceiling admits two estimates and not
three, so calls are refused, and later answers cost more than was reserved.
Three processes allow a reader while two writers race. Three rename tries show
first, middle and last. Two articles and two lenses give siblings inside a
group and groups beside each other; the three settings make either semaphore
the scarce one, and include a cascade with a working router, one with a router
that raises, and a run with sampling and no cascade. Three findings are the
fewest for which similarity is not transitive and for which the rank of two
depends on a third; the nine cases pair each set of findings with both drivers,
both rerankers, with and without a model, and with one and two slots, and the
adjustment of -8 is large enough to change an order and small enough not to
reach zero at once. Two processes on the port are a spawner and a competitor
that may spawn first, second or together; one poll and two tries show the last
one; a file that fails each check, alone, shows which check answers; two events
of a run and one of another, one of them lost, show that order is not count.
`CHECK_DEADLOCK FALSE` stands in the `llm`, `lens`,
`verification` and `command_line` runs because every call, analysis, chain and
invocation ends there and no new one starts; the flow and the store never stop.

`Accounting`, `CeilingHeld` and `CallsBounded` hold at every state of
`llm_stack`; `EveryCallEnds`, `SaveEnds`, `DocumentEnds`,
`ChainEnds` and `EveryCommandEnds` are the liveness properties.

### Fairness

* `BillAnalysisFlow`: none. Its properties are about safety; that a run ends
  rests on its awaits, which `DocumentEnds`, `ChainEnds`, `EveryCallEnds` and
  `EveryCommandEnds` are about.
* `LLMStack`: weak fairness of each task and of time. Cancellation has none, so
  no call relies on it.
* `LensFanOut`: weak fairness of each task, of each article and of the end of
  the document; the LLM port ends every call, which `EveryCallEnds` shows of
  the stack. Cancellation has none.
* `VerificationChain`: weak fairness of each review, of each verification and of
  the driver; the LLM port and the rerank port end every call, with an answer or
  an error. Cancellation has none.
* `CommandLine`: weak fairness of the invocation's own steps, and of nothing
  else: not of the extraction's thread, the Reasoner, the other processes or
  signals. `EveryCommandEnds` therefore says that the deadlines, the poll limit
  and the retry limit suffice; it excludes the one configuration that switches
  the extraction's deadline off.
* `CheckpointStore`: weak fairness of a save's steps, which are synchronous
  code with a bounded loop.

### What the runs found

1. **Spend is not kept** (`flow_budget_lost`). `_budget_guard()` looks for an
   attribute that the container's `StructuredOutputDecorator` does not have.
   `docs/HEADLESS_CLI.md` promises that a restart does not double-spend.
2. **A budget stop is hidden** (`llm_budget_stop`). The ladder catches
   `BudgetExceededError` as an `LLMError` and raises its own.
3. **Lettered articles share an index key** (`verification_quotes`). The index
   CoVe gets is keyed by the digits of a heading, so 5 and 5Α have one entry and
   the later text wins: a real quote from article 5 is dropped as fabricated,
   and a finding on 5Α has no text to be checked against.
4. **A clean parse may have lost an article** (`parse_clean`). The table of
   contents is told from the body by a descent in the numbers of lines that look
   like headings, citations among them. A citation of article 552 in article 1,
   before an inserted article 1Α, cuts the body at 1Α; article 1 is dropped and
   the report is clean.

5. **The log shares stdout with the document** (`json_stdout`).
   `docs/HEADLESS_CLI.md:34` promises that stdout carries one JSON document and
   nothing else. The log goes to stdout at INFO by default, and `analyze` logs
   its start. What does hold is `OneEnvelope`: log lines aside there is one
   document, and `--log-level CRITICAL` silences the log.

Met while modelling, and stated here because no run is about them:

* A resume narrows only the document to the requested articles, not the restored
  findings, so `SelectionRespected` needs one request per bill
  (bill_analysis_flow.py:252).
* A retry for Greek that raises loses the first answer (lens.py:198).
* `preview()` on a flow with a store saves a PARSING checkpoint without its text
  (the CLI builds no such flow); an aggregation without findings returns before
  it records AGGREGATION_COMPLETED; without a model, a citation lookup that
  raises drops its finding, while with a model it does not.
* `eval --json` prints a line per bill before its document
  (cli_handlers.py:354).
* Rejected settings end every command with 2, `--version` and a bare `leggie`
  included, because logging is configured first; the exception is printed to
  stdout as a raw log line at any log level, because logging is not. No envelope
  follows (`docs/HEADLESS_CLI.md:54`: "Failure is uniform across every command"),
  nor does one follow an interrupt.
* A file that is too large, too long or of too many pages exits 5, which the
  document calls transient, and stays so on every retry; a missing API key falls
  back and exits 0, where the document says 2; a budget stop of `analyze` does
  not exit 3 (see 2); an unknown run, or a selection of articles that does not
  fit, exits 1.
* A directory of `--output` that does not exist is made by `analyze`, and ends
  `parse`, `preview` and `eval` with 2, after their work.
* `analyze` without `--checkpoint` resumes the default checkpoint, so it may exit
  0 for a file that is no longer there, or whose parse it would refuse today.
* A run without findings writes no reports, and those of an earlier run on the
  same bill stay.
* Nothing in `src/` publishes to the event store, so `leggie replay` finds no
  run. Its numbers restart with each process: a run published by two processes
  is replayed with its two lives interleaved, where the store's docstring speaks
  of a monotonic sequence per run. `ReplayInOrder` therefore speaks of the events
  of one life.
* A server one process spawned and others use is shut down with that process;
  the others' next request fails, without a retry.
* Two deliberative runs of one bill write one report path.

## Proofs

TLAPS proves these for every value of the constants that satisfies the modules'
ASSUMEs: any number of processes, bills, articles, tasks, tries and saves.

* **BillAnalysisFlow.** `TypeInv` adds to `TypeOK` that a running flow has a
  request. `AuditTrail` is inductive with it. `SpendInv` adds to
  `SpendSurvives` the same fact about the checkpoint (what is not true of the
  file cannot be true of the flow that loads it); it assumes `GuardVisible`.
  `Coherence` is the core: every running flow, and every checkpoint at a
  resumable stage, is *sound*: it has the outputs of the stages before it, all
  from one text of the file it names, suggestions matching its findings.
  `CheckpointComplete`, `StageOutputs`, `OneSource` and `PublishedSound` follow
  from it, and so does `RunCompletes`, with two facts about a run that has
  returned: its state is DONE or FAILED, and what it found is published. It assumes `~PreviewWithStore`, and it has to: the checkpoint
  `preview()` writes when its flow has a store lacks the text. The stages are
  first shown, one lemma each, to move a sound flow to a sound flow; a crash or
  a load then only moves soundness between flow and file. On top of it, `Choice`
  says that a run, and a checkpoint its bill's request can resume, hold a text
  some file held, the articles asked for of that text, and findings about those:
  `SelectionRespected` and `FailureIsReal`, assuming one request per bill
  (`OneSelection`), without which the first is false. `ProgressInv`: a fresh
  run's id is new to every flow and checkpoint, and a flow's stage is at or past
  its checkpoint's; so `NeverBehindCheckpoint`, with one process per checkpoint
  file (`OneRunner`).
* **CheckpointStore.** `StoreInv`: names own their inodes alone, an inode is
  torn only while its writer writes, and the inode behind the checkpoint's name
  is sealed. From it follow `WholeCheckpoint`, `NoLeftovers` and the refinement
  `StoreIsRegister`, one step of the register, or a stutter, for each action.
* **LLMStack.** `StackInv`: types, the requests a call has sent counted by
  rung and try, and the limiter (exactly the task that sleeps holds the lock,
  and its sleep is the rest of the interval). From it follow `RequestsBounded` and
  `RequestsSpaced`. `CounterIsCharged` counts: each caller owns as many *units* as
  it is charged for, the units of two callers are disjoint, so a step that changes
  one caller's charge changes the number of units by the difference, and the
  guard's counter by the same.
* **LensFanOut.** `FanOutInv`: types, what an attempt number says about where a
  task is, that no task raises, that lens tasks run only inside open articles
  and that a closed document has no task left. From it follow
  `SilentMeansAnswered` and the refinement `FanOutIsTable`. `OnLadder` adds which
  tier each attempt is at, whence `GivesUpLate`. `SlotsConserved`
  needs only the types: each step moves one task or article into or out of the
  set that holds slots, and the library's facts on cardinality do the sum.
* **VerificationChain.** `BatchInv` says what a batch relies on: a task that
  still waits has removed nothing, and calls and free slots make up the
  semaphore. One lemma shows it for any move of any task, and
  `FanOutsAreBounded` follows. `RealQuotesPassWithoutLetters` is the other side of
  finding 3: if no two headings begin with the same number, the last text under
  a number is the article's own (a set of positions has a last one, by the
  well-foundedness of the naturals), and only what a gate condemns is dropped
  there.
  `ChainInv` is about the findings: those the driver holds stem from the raw
  ones, none twice; each has its task; a task removes its finding only when it
  is over, and with a model only after an accusation. It stands on lemmas about
  the operators: a finite set of numbers has an ascending list and a list of
  scores a stable order, each naming every position once (`AscendingLists`,
  `RankedLists`); every finding is in the cluster of one pivot
  (`ClustersCover`, `ClustersApart`); a batch leaves what was not removed
  (`ResultsKept`); and the composite score of a finding does not depend on the
  order of the others (`CompositeIgnoresOrder`). So `NothingLostByFailure`,
  `StrongestIsKept` and `PublishedByScore`. `EventsAddUp` needs `EventsInv` as
  well: until the chain ends its events record what is no longer held, and no
  end. `ChainDecidesFates` maps each step to a decision, a publication or an
  abort of `FindingFates`; that what is published is what was kept comes from
  `ResultsKept` and from the ranks being permutations.
* **DeliberativeRun.** Two invariants, for any number of processes, polls, tries
  and signals. `ServerInv`: a live child is known to its manager, cannot outlive
  a shutdown that ran to its end, and a run that is over has been through one;
  so `ServersAreReleased`. `RunInv`: what is recorded at each place of the
  program, with the report, the full trail and the outcome "ok" coming together;
  so `ReportsAreBacked`.
* **EventStore.** `StoreInv`: ids and numbers rise together within a run and a
  life, and the process that has the store open has counted every row of its own
  life, and of no other. So `ReplaysAreOrdered`, for any number of processes that
  publish for one run.
* **CommandLine.** `InvocationsRun`: every behaviour of the command line is one of
  `DeliberativeRun`, because the shell moves the run only by its own actions;
  the same holds of the event store. The theorems of both carry over to whole
  invocations. `LateAnswersAreLost` proves `IngestVerdict` from a small invariant
  about who may have settled the future. `JSONIsOneEnvelope` rests on what may
  have been printed at each place of the program (only `eval` prints before its
  end), and on the log being silent at CRITICAL from the moment it is configured.
  `ExitsTellCauses` joins the parts: what the ingest's
  verdict says of the file (`FileInv`), what a deliberative run comes to
  (`EndInv`, on top of `RunInv`) and what each handler may then return
  (`Answers`), which no other process can change behind its back; the exit code
  follows from the answer. `ScoresAreMatchings` is about the operator alone: the
  recursion of `Matching` has a solution (`MatchingRecursion`, by the least length
  that had none), no finding is taken twice, and the hits of a type are in
  bijection with the findings of that type that were taken.
  `ParserFindsTheBody` is `ParserRecovers` for bills of any length. The body's
  Article 1 is an early descent whenever a later one could be taken for the
  beginning, so the body is never cut behind it while its headings do not fall
  (`BodyIsBehind`); a clean report then has every enacted article, and no other
  heading, because one of the front matter would repeat an id (`CleanIsEnacted`).
  In a titled front matter a number above 1 in the part before the body makes
  Article 1 the first descent after that part's title (`BodyIsFound`); without
  one, the last heading that is 1 is read as the body's (`CleanIsSeparable`). That
  the report is clean when the body was found rests on the guard's recursion,
  whose solution is given outright (`GuardKeepsEnacted`). It assumes what
  `JumpAssumption` says of the largest jump, that it is not 0; in the code it is
  50.
  `ParagraphsCut` is about `Paragraphs` alone: no line of an article is in two
  paragraphs, and only those before the first number are in none.

Induction over data is done by least counterexample: a set of numbers that is
not empty has a least member (`LeastNumber`, from the library's
`NatLessThanWellFounded`), and of some subsets of a finite set one is smallest.
That reaches definitions by `CHOOSE` and recursive functions, which is how the
modules state the loops of the code; folds are out of reach, for tlapm does not
expand the recursion they are made of.

Every safety property the passing runs check is proved. Only model-checked are
the liveness properties (`EveryCallEnds`, `SaveEnds`,
`DocumentEnds`, `ChainEnds`, `EveryCommandEnds`): liveness under fairness and ENABLED are outside what the installed provers do.

## Not modelled

`PROJECT.json` lists every component with the reason. In short: citations, JSON
repair, rendering and wiring have no state that outlives a call; of the
parser, titles, preambles, subparagraphs and the spelling of a line are left out;
of the evaluation, ratios and files; a loss of power below the file system and
the provider's own billing are not visible to the code; old budget-only
checkpoint files are left out, as is the `reports` field of a checkpoint, which
is empty in every checkpoint a run can resume from. The branch of
`ensure_running()` for a manager that has already spawned and the `async with`
form of the manager have no caller in `src/`.

## Plan

What would come next, in this order:

1. `Dedup`: the keep strategies the chain does not use, against a reference
   definition over all small inputs.
2. The flow composed with the chain: the flow's coarse view of a verification
   as a refinement mapping from `VerificationChain`; and with the command line,
   so that an exit code speaks of a checkpoint.
3. The container's wiring as a table from settings to the stacks the modules
   take as constants.
