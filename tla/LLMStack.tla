------------------------------- MODULE LLMStack -------------------------------
(***************************************************************************)
(* The LLM port the container builds: StructuredOutputDecorator (the       *)
(* ladder of four attempts) over BudgetGuardDecorator (reserve, await,     *)
(* settle) over the OpenRouter transport (retries behind one rate          *)
(* limiter), used by several concurrent callers.                           *)
(*                                                                         *)
(* A step is what one task does between two awaits.  A failed attempt goes *)
(* on to the next reservation without an await, and a refused reservation  *)
(* to the one after: that is one step here too.                            *)
(*                                                                         *)
(* Abstractions.  One counter stands for tokens_used and cost_used, which  *)
(* record_usage() always moves together; an answer is what the ladder can  *)
(* tell of it: whether it parses, whether it was cut (finish_reason        *)
(* "length") and whether it has a JSON skeleton.                           *)
(***************************************************************************)
EXTENDS Integers, FiniteSets

CONSTANTS
  Caller,       \* concurrent tasks
  Estimate,     \* Estimate[k]: what attempt k reserves
  Actual,       \* Actual[k]: the usages an answer to attempt k may report
  Ceiling,      \* the guard's max_tokens (or max_cost)
  Interval,     \* ticks between two calls of the rate limiter
  MaxTries,     \* max_retries of with_retry
  Nil

Attempts == 1..4

ASSUME StackAssumption ==
  /\ Estimate \in [Attempts -> Nat] /\ Actual \in [Attempts -> SUBSET Nat]
  /\ Ceiling \in Nat /\ Interval \in Nat /\ MaxTries \in Nat \ {0}
  /\ IsFiniteSet(Caller) /\ Nil \notin Caller

Response == [parses : BOOLEAN, cut : BOOLEAN, skeleton : BOOLEAN]
Error == {"LLMError", "LLMRateLimitError", "LLMTimeoutError",
          "BudgetExceededError", "CancelledError"}

VARIABLES
  used,       \* the guard's counter
  degraded,   \* the guard's degraded flag
  lock,       \* the limiter's lock: the caller that holds it, or Nil
  last,       \* the limiter: ticks since _last_call, at most Interval
  call,       \* call[c]: the call caller c is making
  spent,      \* history: spent[c] is what c's answers reported as usage
  overrun     \* history: by how much answers used more than was reserved

vars == <<used, degraded, lock, last, call, spent, overrun>>

\* One call of generate() ("plain") or generate_structured().
NewCall(kind) ==
  [kind |-> kind, pc |-> "new", attempt |-> 0, try |-> 0, response |-> Nil,
   sleep |-> 0, sent |-> 0, outcome |-> Nil]

Init ==
  /\ used = 0 /\ degraded = FALSE /\ lock = Nil /\ last = Interval
  /\ call \in [Caller -> {NewCall("plain"), NewCall("structured")}]
  /\ spent = [c \in Caller |-> 0] /\ overrun = 0
-----------------------------------------------------------------------------
(* The guard.                                                              *)

\* Mutant of Fits: the proposed call itself is not counted.
FitsBefore(u, estimate) == u <= Ceiling

\* check() does not BLOCK.
Fits(u, estimate) == u + estimate <= Ceiling

\* check() warns above 80% of the ceiling, until apply_degrade() was called.
Warns(u, estimate) == 5 * (u + estimate) > 4 * Ceiling

\* Does the caller hold a reservation?
Reserves(c) == call[c].pc \in {"limiter", "holding", "sent", "backoff"}
-----------------------------------------------------------------------------
(* The ladder.                                                             *)

\* The attempts that may still follow: the truncation retry only after a cut
\* answer, the repair only with something to repair.
Candidates(cl) ==
  IF cl.kind = "plain"
    THEN {1} \ 1..cl.attempt
    ELSE {k \in Attempts \ 1..cl.attempt :
            /\ k = 3 => cl.response # Nil /\ cl.response.cut
            /\ k = 4 => cl.response # Nil /\ cl.response.skeleton}

First(set) == CHOOSE k \in set : \A other \in set : k <= other

\* What a call without further attempts raises.  The ladder catches every
\* LLMError, the refusal of a reservation too, and ends with one of its own.
Verdict(cl, error) ==
  IF cl.kind = "structured"
    THEN "LLMError"
    ELSE IF Candidates(cl) = {} THEN error ELSE "BudgetExceededError"

\* With counter u, the call takes the first attempt the guard admits, and
\* reserves for it; it ends when there is none.
Proceed(c, cl, u, error) ==
  LET admitted == {k \in Candidates(cl) : Fits(u, Estimate[k])}
      k == First(admitted)
  IN  IF admitted = {}
        THEN /\ call' = [call EXCEPT ![c] = [cl EXCEPT !.pc = "done",
                                               !.outcome = Verdict(cl, error)]]
             /\ used' = u
             /\ UNCHANGED degraded
        ELSE /\ call' = [call EXCEPT ![c] = [cl EXCEPT !.pc = "limiter",
                                               !.attempt = k, !.try = 1]]
             /\ used' = u + Estimate[k]
             /\ degraded' = (degraded \/ Warns(u, Estimate[k]))

Start(c) ==
  /\ call[c].pc = "new"
  /\ Proceed(c, call[c], used, Nil)
  /\ UNCHANGED <<lock, last, spent, overrun>>
-----------------------------------------------------------------------------
(* The transport.                                                          *)

\* The request leaves, and nobody holds the limiter's lock any more.
Send(c) ==
  /\ call' = [call EXCEPT ![c].pc = "sent", ![c].sent = @ + 1]
  /\ lock' = Nil
  /\ last' = 0
  /\ UNCHANGED <<used, degraded, spent, overrun>>

\* acquire() sleeps under the lock when the last call is too recent.
Hold(c) ==
  /\ last < Interval
  /\ call' = [call EXCEPT ![c].pc = "holding", ![c].sleep = Interval - last]
  /\ lock' = c
  /\ UNCHANGED <<used, degraded, last, spent, overrun>>

\* Mutant of Acquire: the limiter without its lock.
AcquireUnlocked(c) ==
  /\ call[c].pc = "limiter"
  /\ Hold(c) \/ (last = Interval /\ Send(c))

\* acquire() when the lock is free.
Acquire(c) ==
  /\ call[c].pc = "limiter"
  /\ lock = Nil
  /\ Hold(c) \/ (last = Interval /\ Send(c))

Wake(c) ==
  /\ call[c].pc = "holding"
  /\ call[c].sleep = 0
  /\ Send(c)

\* Mutant of Settle: the estimate is not refunded.
SettleOnTop(c, actual) == used + actual

\* _settle(): the estimate is refunded, the actual usage charged.
Settle(c, actual) == used - Estimate[call[c].attempt] + actual

\* An answer that parses ends the call; any other goes on down the ladder.
Answer(c, response, actual) ==
  LET cl == [call[c] EXCEPT !.response = response]
      u == Settle(c, actual)
      excess == actual - Estimate[cl.attempt]
  IN  /\ spent' = [spent EXCEPT ![c] = @ + actual]
      /\ overrun' = IF excess > 0 THEN overrun + excess ELSE overrun
      /\ IF cl.kind = "plain" \/ response.parses
           THEN /\ call' = [call EXCEPT ![c] =
                              [cl EXCEPT !.pc = "done", !.outcome = "ok"]]
                /\ used' = u
                /\ UNCHANGED degraded
           ELSE Proceed(c, cl, u, "ValueError")
      /\ UNCHANGED <<lock, last>>

\* A failed attempt gives its whole reservation back.
Release(c) == used - Estimate[call[c].attempt]

\* A rate limit or a timeout is tried again after a sleep.
Retry(c) ==
  /\ call[c].try < MaxTries
  /\ call' = [call EXCEPT ![c].pc = "backoff"]
  /\ UNCHANGED <<used, degraded, lock, last, spent, overrun>>

\* Mutant of Backoff: the tries are not counted.
BackoffForever(c) ==
  /\ call[c].pc = "backoff"
  /\ call' = [call EXCEPT ![c].pc = "limiter"]
  /\ UNCHANGED <<used, degraded, lock, last, spent, overrun>>

Backoff(c) ==
  /\ call[c].pc = "backoff"
  /\ call' = [call EXCEPT ![c].pc = "limiter", ![c].try = @ + 1]
  /\ UNCHANGED <<used, degraded, lock, last, spent, overrun>>

\* Any other error ends the attempt at once, those two after the last try.
Fail(c, error) ==
  /\ error # "LLMError" => call[c].try = MaxTries
  /\ Proceed(c, call[c], Release(c), error)
  /\ UNCHANGED <<lock, last, spent, overrun>>

\* Mutant of Cancel: the limiter's lock is not given back.
CancelKeepsLock(c) ==
  /\ Reserves(c)
  /\ call' = [call EXCEPT ![c].pc = "done", ![c].outcome = "CancelledError",
                          ![c].sleep = 0]
  /\ used' = Release(c)
  /\ UNCHANGED <<degraded, lock, last, spent, overrun>>

\* The task is cancelled at an await: `except BaseException` releases the
\* reservation, `async with` the lock.
Cancel(c) ==
  /\ Reserves(c)
  /\ call' = [call EXCEPT ![c].pc = "done", ![c].outcome = "CancelledError",
                          ![c].sleep = 0]
  /\ used' = Release(c)
  /\ lock' = IF lock = c THEN Nil ELSE lock
  /\ UNCHANGED <<degraded, last, spent, overrun>>

\* Time passes for the limiter and for the one task that sleeps in it.
Tick ==
  /\ last < Interval
  /\ last' = last + 1
  /\ call' = [c \in Caller |->
                [call[c] EXCEPT !.sleep = IF @ > 0 THEN @ - 1 ELSE 0]]
  /\ UNCHANGED <<used, degraded, lock, spent, overrun>>

\* What the transport makes of a request.
Reply(c) ==
  /\ call[c].pc = "sent"
  /\ \/ \E response \in Response, actual \in Actual[call[c].attempt] :
          /\ response.parses => response.skeleton
          /\ Answer(c, response, actual)
     \/ \E error \in {"LLMError", "LLMRateLimitError", "LLMTimeoutError"} :
          Fail(c, error)
     \/ Retry(c)

TaskStep(c) == Start(c) \/ Acquire(c) \/ Wake(c) \/ Reply(c) \/ Backoff(c)

Next == Tick \/ \E c \in Caller : TaskStep(c) \/ Cancel(c)

Spec == Init /\ [][Next]_vars

\* The loop runs every task that can go on, the transport has timeouts, and
\* time passes; nobody need be cancelled.
FairSpec == Spec /\ WF_vars(Tick) /\ \A c \in Caller : WF_vars(TaskStep(c))
-----------------------------------------------------------------------------
(* Properties.                                                             *)

Call ==
  [kind : {"plain", "structured"},
   pc : {"new", "limiter", "holding", "sent", "backoff", "done"},
   attempt : 0..4, try : 0..MaxTries, response : Response \cup {Nil},
   sleep : 0..Interval, sent : Nat, outcome : Error \cup {"ok", Nil}]

StackTypeOK ==
  /\ used \in Int /\ degraded \in BOOLEAN
  /\ lock \in Caller \cup {Nil} /\ last \in 0..Interval
  /\ call \in [Caller -> Call]
  /\ spent \in [Caller -> Nat] /\ overrun \in Nat

Reserved(c) == IF Reserves(c) THEN Estimate[call[c].attempt] ELSE 0

\* What each caller is charged: the usage its answers reported and what it
\* has reserved.
Charges == [c \in Caller |-> spent[c] + Reserved(c)]

\* The units that are charged, each with the caller it is charged to: there are
\* as many as the sum of the charges.
Units(charges) == UNION {{c} \X (1..charges[c]) : c \in Caller}

\* The guard's counter is what the answers really used plus the reservations
\* still open: no failure, retry, cancellation or overlap of calls leaks or
\* forgets one.
Accounting == used = Cardinality(Units(Charges))

\* Calls admitted together stay under the ceiling together: the counter passes
\* it only by what answers used beyond their own estimates (PROD-08).
CeilingHeld == used <= Ceiling + overrun

\* Two requests never leave closer together than the limiter's interval,
\* whichever callers send them and whether they are first tries or retries.
RateSpacing ==
  [][(\E c \in Caller : call'[c].sent > call[c].sent) => last = Interval]_vars

\* A structured call costs at most MaxTries requests per rung of the ladder.
CallsBounded == \A c \in Caller : call[c].sent <= MaxTries * call[c].attempt

\* Every call returns or raises: nobody waits for the limiter or for another
\* caller's reservation for ever.
EveryCallEnds == \A c \in Caller : <>(call[c].pc = "done")

\* A call the budget refused before any request left raises
\* BudgetExceededError (BudgetGuardDecorator: "on BLOCK BudgetExceededError is
\* raised").
BudgetStopRaised ==
  \A c \in Caller :
    (call[c].outcome \in Error \ {"CancelledError"} /\ call[c].sent = 0) =>
      call[c].outcome = "BudgetExceededError"
=============================================================================
