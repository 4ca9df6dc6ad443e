---------------------------- MODULE BoundedIngest ----------------------------
(***************************************************************************)
(* Ingest of one file (infrastructure/ingest): the factory picks the       *)
(* ingestor of the format and wraps it in BoundedIngestor, which checks    *)
(* the size, gives the extraction a deadline and checks what came out.     *)
(* The extraction runs in a daemon thread (run_off_loop) that hands its    *)
(* outcome to the event loop; past the deadline nobody waits for it, and   *)
(* its answer may arrive when the run has moved on, or the loop is gone.   *)
(***************************************************************************)
EXTENDS Integers

VARIABLES
  ingest,   \* "idle", "waiting" for the worker, "done"
  verdict,  \* "pending", "text" or the name of the exception raised
  future,   \* the future the worker settles
  worker    \* "none", "running", "handed" (its call is queued), "ended"

ingestVars == <<ingest, verdict, future, worker>>

\* The extraction's own outcome: "text", "IngestError" (page cap, bad or
\* bombing archive, missing library) or any other exception, "Error".
Files == [supported : BOOLEAN, exists : BOOLEAN, oversize : BOOLEAN,
          yields : {"text", "IngestError", "Error"}, toolong : BOOLEAN,
          deadline : BOOLEAN]

Readable == [supported |-> TRUE, exists |-> TRUE, oversize |-> FALSE,
             yields |-> "text", toolong |-> FALSE, deadline |-> TRUE]

IngestInit ==
  /\ ingest = "idle" /\ verdict = "pending"
  /\ future = "none" /\ worker = "none"

Verdict(v) == ingest' = "done" /\ verdict' = v

-----------------------------------------------------------------------------
\* get_ingestor: the format is refused before the file is looked at.
RefuseFormat(file) ==
  /\ ingest = "idle"
  /\ ~file.supported
  /\ Verdict("UnsupportedFormatError")
  /\ UNCHANGED <<future, worker>>

\* stat() fails, or the file vanishes before the ingestor's own check.
RefuseMissing(file) ==
  /\ ingest = "idle"
  /\ file.supported /\ ~file.exists
  /\ Verdict("InputNotFoundError")
  /\ UNCHANGED <<future, worker>>

RefuseSize(file) ==
  /\ ingest = "idle"
  /\ file.supported /\ file.exists /\ file.oversize
  /\ Verdict("IngestError")
  /\ UNCHANGED <<future, worker>>

\* run_off_loop: a fresh future, a daemon thread, and the wait.
Dispatch(file) ==
  /\ ingest = "idle"
  /\ file.supported /\ file.exists /\ ~file.oversize
  /\ ingest' = "waiting"
  /\ future' = "pending"
  /\ worker' = "running"
  /\ UNCHANGED verdict

\* The thread is done: call_soon_threadsafe, on a loop that may be closed.
Extracted(loopOpen) ==
  /\ worker = "running"
  /\ worker' = IF loopOpen THEN "handed" ELSE "ended"
  /\ UNCHANGED <<ingest, verdict, future>>

\* Mutant of Settle: the late answer replaces the cancellation.
SettleAlways(file) ==
  /\ worker = "handed"
  /\ worker' = "ended"
  /\ future' = file.yields
  /\ UNCHANGED <<verdict, ingest>>

\* The loop runs the queued call: it settles the future unless it is done.
Settle(file) ==
  /\ worker = "handed"
  /\ worker' = "ended"
  /\ future' = IF future = "pending" THEN file.yields ELSE future
  /\ UNCHANGED <<ingest, verdict>>

\* wait_for gives up: a future still pending is cancelled, one that settled
\* before its awaiter resumed is not looked at; the thread is abandoned.
Deadline(file) ==
  /\ ingest = "waiting"
  /\ file.deadline
  /\ future' = IF future = "pending" THEN "cancelled" ELSE future
  /\ Verdict("IngestError")
  /\ UNCHANGED worker

\* The awaiting side takes the outcome, unless it is a text that is too long.
Take(file) ==
  /\ ingest = "waiting"
  /\ future \in {"text", "IngestError", "Error"}
  /\ ~(future = "text" /\ file.toolong)
  /\ Verdict(future)
  /\ UNCHANGED <<future, worker>>

RefuseLength(file) ==
  /\ ingest = "waiting"
  /\ future = "text" /\ file.toolong
  /\ Verdict("IngestError")
  /\ UNCHANGED <<future, worker>>

\* The run is cancelled while it waits.
CancelIngest ==
  /\ ingest' = IF ingest = "waiting" THEN "done" ELSE ingest
  /\ future' = IF future = "pending" THEN "cancelled" ELSE future
  /\ UNCHANGED <<verdict, worker>>

\* The steps that go through _refuse, which logs a warning, and the others.
Refusal(file) == RefuseSize(file) \/ Deadline(file) \/ RefuseLength(file)

Progress(file) ==
  RefuseFormat(file) \/ RefuseMissing(file) \/ Dispatch(file) \/ Take(file)

IngestStep(file) == Progress(file) \/ Refusal(file)
=============================================================================
