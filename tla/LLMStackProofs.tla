---------------------------- MODULE LLMStackProofs ----------------------------
(***************************************************************************)
(* Proofs about LLMStack, for any number of callers, any estimates and     *)
(* usages, any rate and any number of retries.                             *)
(*                                                                         *)
(*   StackTypes       every variable keeps its type                        *)
(*   RequestsSpaced   two requests never leave too close together          *)
(*   RequestsBounded  a call sends at most MaxTries requests per rung      *)
(*   CeilingIsHeld    the counter passes the ceiling by overruns only      *)
(*   CounterIsCharged the counter is what the callers are charged          *)
(*                                                                         *)
(* They rest on StackInv: the caller that sleeps in the limiter holds its  *)
(* lock and sleeps exactly until the interval is over, and every call has  *)
(* sent what its rung and its try explain.                                 *)
(***************************************************************************)
EXTENDS LLMStack, FiniteSetTheorems, TLAPS

\* What a call may have sent, by where it is.
SentOK(cl) ==
  /\ cl.pc = "new" => cl.attempt = 0 /\ cl.sent = 0
  /\ cl.pc \in {"limiter", "holding"} =>
       /\ cl.attempt >= 1 /\ cl.try >= 1
       /\ cl.sent <= MaxTries * (cl.attempt - 1) + cl.try - 1
  /\ cl.pc \in {"sent", "backoff"} =>
       /\ cl.attempt >= 1 /\ cl.try >= 1
       /\ cl.sent <= MaxTries * (cl.attempt - 1) + cl.try
  /\ cl.pc = "backoff" => cl.try < MaxTries
  /\ cl.pc = "done" => cl.sent <= MaxTries * cl.attempt

Tries == \A c \in Caller : SentOK(call[c])

\* The limiter: who sleeps in it holds the lock, and wakes when it is time.
Limiter ==
  \A c \in Caller :
    /\ call[c].pc = "holding" <=> lock = c
    /\ call[c].sleep = IF call[c].pc = "holding" THEN Interval - last ELSE 0

StackInv == StackTypeOK /\ Tries /\ Limiter
-----------------------------------------------------------------------------
\* The first of some attempts is one of them.
LEMMA FirstIsMember ==
  ASSUME NEW set, set \subseteq Attempts, set # {}
  PROVE  First(set) \in set
<1>1. \E k \in set : \A other \in set : k <= other
  <2>1. CASE 1 \in set
    BY <2>1 DEF Attempts
  <2>2. CASE 1 \notin set /\ 2 \in set
    BY <2>2 DEF Attempts
  <2>3. CASE 1 \notin set /\ 2 \notin set /\ 3 \in set
    BY <2>3 DEF Attempts
  <2>4. CASE 1 \notin set /\ 2 \notin set /\ 3 \notin set
    <3>1. PICK k \in set : TRUE
      OBVIOUS
    <3>2. \A other \in set : other = 4
      BY <2>4 DEF Attempts
    <3> QED
      BY <3>1, <3>2
  <2> QED
    BY <2>1, <2>2, <2>3, <2>4
<1> QED
  BY <1>1 DEF First

\* The attempts that may follow come after the ones made.
LEMMA CandidatesFollow ==
  ASSUME NEW cl \in Call, NEW k \in Candidates(cl)
  PROVE  k \in Attempts /\ k > cl.attempt
BY DEF Candidates, Attempts, Call

\* What a rung may have sent, a later rung may have sent before its first try.
LEMMA RungsAdd ==
  ASSUME NEW a \in 0..4, NEW k \in 1..4, a < k
  PROVE  MaxTries * a <= MaxTries * (k - 1)
<1>1. MaxTries \in Nat /\ k - 1 \in Nat /\ a <= k - 1
  BY StackAssumption
<1>2. CASE k = 1
  BY <1>1, <1>2
<1>3. CASE k = 2
  BY <1>1, <1>3
<1>4. CASE k = 3
  BY <1>1, <1>4
<1>5. CASE k = 4
  BY <1>1, <1>5
<1> QED
  BY <1>2, <1>3, <1>4, <1>5

\* What Proceed makes of a call that has used up its rung: one that waits for
\* the limiter, or one that is over.
LEMMA ProceedGives ==
  ASSUME NEW c \in Caller, NEW cl \in Call, NEW u \in Int, NEW error,
         Proceed(c, cl, u, error), degraded \in BOOLEAN,
         cl.sleep = 0, cl.sent <= MaxTries * cl.attempt,
         \/ error \in Error
         \/ cl.kind = "structured"
         \/ cl.attempt = 0
  PROVE  /\ used' \in Int /\ degraded' \in BOOLEAN
         /\ \E new \in Call :
              /\ call' = [call EXCEPT ![c] = new]
              /\ new.pc \in {"limiter", "done"} /\ new.sleep = 0
              /\ new.sent = cl.sent /\ SentOK(new)
<1> DEFINE admitted == {k \in Candidates(cl) : Fits(u, Estimate[k])}
           k == First(admitted)
<1>1. CASE admitted = {}
  <2> DEFINE new == [cl EXCEPT !.pc = "done", !.outcome = Verdict(cl, error)]
  <2>1. used' = u /\ degraded' = degraded /\ call' = [call EXCEPT ![c] = new]
    BY <1>1 DEF Proceed
  <2>2. Verdict(cl, error) \in Error \cup {"ok", Nil}
    <3>1. CASE cl.kind = "structured"
      BY <3>1 DEF Verdict, Error
    <3>2. CASE cl.kind # "structured" /\ cl.attempt = 0
      <4>1. 1 \in Candidates(cl)
        BY <3>2 DEF Candidates, Call
      <4> QED
        BY <3>2, <4>1 DEF Verdict, Error
    <3>3. CASE cl.kind # "structured" /\ error \in Error
      BY <3>3 DEF Verdict, Error
    <3> QED
      BY <3>1, <3>2, <3>3
  <2>3. new \in Call
    BY <2>2 DEF Call
  <2>4. new.pc = "done" /\ new.sleep = 0 /\ new.sent = cl.sent /\ SentOK(new)
    BY DEF SentOK, Call
  <2> QED
    BY <2>1, <2>3, <2>4
<1>2. CASE admitted # {}
  <2> DEFINE new == [cl EXCEPT !.pc = "limiter", !.attempt = k, !.try = 1]
  <2>1. /\ used' = u + Estimate[k]
        /\ degraded' = (degraded \/ Warns(u, Estimate[k]))
        /\ call' = [call EXCEPT ![c] = new]
    BY <1>2 DEF Proceed
  <2>2. k \in admitted
    <3>1. admitted \subseteq Attempts
      BY CandidatesFollow
    <3> QED
      BY <1>2, <3>1, FirstIsMember
  <2>3. k \in Attempts /\ k > cl.attempt
    BY <2>2, CandidatesFollow
  <2> HIDE DEF k
  <2>4. used' \in Int
    BY <2>1, <2>3, StackAssumption
  <2>5. degraded' \in BOOLEAN
    BY <2>1 DEF Warns
  <2>6. new \in Call
    <3>1. k \in 0..4 /\ 1 \in 0..MaxTries
      BY <2>3, StackAssumption DEF Attempts
    <3> QED
      BY <3>1 DEF Call
  <2>7. new.pc = "limiter" /\ new.sleep = 0 /\ new.sent = cl.sent
    BY DEF Call
  <2>8. new.attempt = k /\ new.try = 1
    BY DEF Call
  <2>9. MaxTries * cl.attempt <= MaxTries * (k - 1)
    BY <2>3, RungsAdd DEF Call, Attempts
  <2>10. SentOK(new)
    <3>1. new.sent <= MaxTries * (k - 1)
      <4>1. cl.sent \in Int /\ MaxTries * cl.attempt \in Int /\ MaxTries * (k - 1) \in Int
        BY <2>3, StackAssumption DEF Call, Attempts
      <4> QED
        BY <4>1, <2>7, <2>9
    <3> HIDE DEF new
    <3>2. new.sent <= MaxTries * (new.attempt - 1) + new.try - 1
      <4>1. MaxTries * (k - 1) \in Int
        BY <2>3, StackAssumption DEF Attempts
      <4> QED
        BY <3>1, <2>6, <2>8, <4>1 DEF Call
    <3> QED
      BY <3>2, <2>3, <2>7, <2>8 DEF SentOK, Attempts
  <2> QED
    BY <2>1, <2>4, <2>5, <2>6, <2>7, <2>10
<1> QED
  BY <1>1, <1>2


\* An attempt that is over stays within its rung.
LEMMA RungOver ==
  ASSUME NEW cl \in Call, SentOK(cl), cl.pc \in {"sent", "backoff", "limiter", "holding"}
  PROVE  cl.sent <= MaxTries * cl.attempt
<1>1. /\ MaxTries \in Nat /\ cl.attempt \in 1..4 /\ cl.try \in 0..MaxTries
      /\ cl.sent \in Nat
  BY StackAssumption DEF SentOK, Call
<1>2. MaxTries * cl.attempt = MaxTries * (cl.attempt - 1) + MaxTries
  <2>1. CASE cl.attempt = 1
    BY <1>1, <2>1
  <2>2. CASE cl.attempt = 2
    BY <1>1, <2>2
  <2>3. CASE cl.attempt = 3
    BY <1>1, <2>3
  <2>4. CASE cl.attempt = 4
    BY <1>1, <2>4
  <2> QED
    BY <1>1, <2>1, <2>2, <2>3, <2>4
<1>3. MaxTries * (cl.attempt - 1) \in Int
  BY <1>1
<1>4. cl.sent <= MaxTries * (cl.attempt - 1) + cl.try
  BY <1>1, <1>3 DEF SentOK
<1> QED
  BY <1>1, <1>2, <1>3, <1>4

\* A step that changes the call of one caller.
LEMMA OneCall ==
  ASSUME StackInv, NEW c \in Caller, NEW new \in Call, SentOK(new),
         call' = [call EXCEPT ![c] = new]
  PROVE  /\ call' \in [Caller -> Call] /\ Tries'
         /\ call'[c] = new /\ \A d \in Caller : d # c => call'[d] = call[d]
<1>1. /\ call' \in [Caller -> Call]
      /\ call'[c] = new /\ \A d \in Caller : d # c => call'[d] = call[d]
  BY DEF StackInv, StackTypeOK
<1>2. SentOK(call[c])' /\ \A d \in Caller : d # c => SentOK(call[d])'
  BY <1>1 DEF StackInv, Tries, SentOK
<1>3. Tries'
  BY <1>2 DEF Tries
<1> QED
  BY <1>1, <1>3

\* A step of a caller that has nothing to do with the limiter.
LEMMA LimiterKept ==
  ASSUME StackInv, NEW c \in Caller, NEW new \in Call, SentOK(new),
         call' = [call EXCEPT ![c] = new], UNCHANGED <<lock, last>>,
         call[c].pc # "holding", new.pc # "holding", new.sleep = 0
  PROVE  Limiter'
<1>1. call'[c] = new /\ \A d \in Caller : d # c => call'[d] = call[d]
  BY OneCall
<1> QED
  BY <1>1 DEF StackInv, Limiter

\* A call that goes on down its ladder, or ends.
LEMMA ProceedKeeps ==
  ASSUME StackInv, NEW c \in Caller, NEW cl \in Call, NEW u \in Int, NEW error,
         Proceed(c, cl, u, error), UNCHANGED <<lock, last>>,
         spent' \in [Caller -> Nat], overrun' \in Nat,
         call[c].pc # "holding", cl.sleep = 0, cl.sent <= MaxTries * cl.attempt,
         error \in Error \/ cl.kind = "structured" \/ cl.attempt = 0
  PROVE  StackInv'
<1>1. PICK new \in Call :
        /\ call' = [call EXCEPT ![c] = new]
        /\ new.pc \in {"limiter", "done"} /\ new.sleep = 0 /\ SentOK(new)
  BY ProceedGives DEF StackInv, StackTypeOK
<1>2. used' \in Int /\ degraded' \in BOOLEAN
  BY ProceedGives DEF StackInv, StackTypeOK
<1>3. call' \in [Caller -> Call] /\ Tries'
  BY <1>1, OneCall
<1>4. Limiter'
  BY <1>1, LimiterKept
<1> QED
  BY <1>2, <1>3, <1>4 DEF StackInv, StackTypeOK
-----------------------------------------------------------------------------
LEMMA InitStack == Init => StackInv
<1> SUFFICES ASSUME Init PROVE StackInv
  OBVIOUS
<1>1. \A c \in Caller : call[c] = NewCall("plain") \/ call[c] = NewCall("structured")
  BY DEF Init
<1>2. NewCall("plain") \in Call /\ NewCall("structured") \in Call
  BY StackAssumption DEF NewCall, Call
<1>3. StackTypeOK
  <2>1. call \in [Caller -> Call]
    <3>1. call = [c \in Caller |-> call[c]]
      BY DEF Init
    <3>2. \A c \in Caller : call[c] \in Call
      BY <1>1, <1>2
    <3> QED
      BY <3>1, <3>2
  <2>2. /\ used = 0 /\ degraded = FALSE /\ lock = Nil /\ last = Interval
        /\ spent = [c \in Caller |-> 0] /\ overrun = 0
    BY DEF Init
  <2>3. used \in Int /\ last \in 0..Interval /\ overrun \in Nat
    BY <2>2, StackAssumption
  <2>4. spent \in [Caller -> Nat]
    BY <2>2
  <2>5. degraded \in BOOLEAN /\ lock \in Caller \cup {Nil}
    BY <2>2
  <2> QED
    BY <2>1, <2>3, <2>4, <2>5 DEF StackTypeOK
<1>4. Tries
  BY <1>1 DEF Tries, SentOK, NewCall
<1>5. Limiter
  BY <1>1, StackAssumption DEF Init, Limiter, NewCall
<1> QED
  BY <1>3, <1>4, <1>5 DEF StackInv

LEMMA StartKeeps ==
  ASSUME StackInv, NEW c \in Caller, Start(c)
  PROVE  StackInv'
<1>1. /\ call[c] \in Call /\ call[c].pc = "new" /\ call[c].attempt = 0
      /\ call[c].sent = 0 /\ call[c].sleep = 0
  BY DEF Start, StackInv, StackTypeOK, Tries, SentOK, Limiter
<1>2. call[c].sent <= MaxTries * call[c].attempt
  BY <1>1, StackAssumption
<1> QED
  BY <1>1, <1>2, ProceedKeeps DEF Start, StackInv, StackTypeOK

\* Nobody sends before the interval is over, and the lock is free afterwards.
LEMMA SendKeeps ==
  ASSUME StackInv, NEW c \in Caller, Send(c),
         \/ call[c].pc = "limiter" /\ lock = Nil
         \/ call[c].pc = "holding" /\ call[c].sleep = 0
  PROVE  StackInv'
<1> DEFINE new == [call[c] EXCEPT !.pc = "sent", !.sent = @ + 1]
<1>1. call[c] \in Call /\ SentOK(call[c]) /\ call[c].sleep = 0
  BY DEF StackInv, StackTypeOK, Tries, Limiter
<1>2. new \in Call /\ new.sleep = 0 /\ new.pc = "sent"
  <2>1. call[c].sent + 1 \in Nat
    BY <1>1 DEF Call
  <2> QED
    BY <1>1, <2>1 DEF Call
<1>3. SentOK(new)
  <2>1. /\ new.sent = call[c].sent + 1 /\ new.attempt = call[c].attempt
        /\ new.try = call[c].try
    BY <1>1 DEF Call
  <2>2. MaxTries * (call[c].attempt - 1) \in Int /\ call[c].sent \in Int
        /\ call[c].try \in Int
    BY <1>1, StackAssumption DEF Call
  <2> HIDE DEF new
  <2> QED
    BY <1>1, <1>2, <2>1, <2>2 DEF SentOK
<1>4. call' = [call EXCEPT ![c] = new]
  BY DEF Send
<1> HIDE DEF new
<1>5. /\ call' \in [Caller -> Call] /\ Tries' /\ call'[c] = new
      /\ \A d \in Caller : d # c => call'[d] = call[d]
  BY <1>2, <1>3, <1>4, OneCall
<1>6. \A d \in Caller : d # c => call[d].pc # "holding"
  BY StackAssumption DEF StackInv, Limiter
<1>7. Limiter'
  BY <1>2, <1>5, <1>6, StackAssumption DEF Send, StackInv, Limiter
<1> QED
  BY <1>5, <1>7, StackAssumption DEF Send, StackInv, StackTypeOK

LEMMA AcquireKeeps ==
  ASSUME StackInv, NEW c \in Caller, Acquire(c)
  PROVE  StackInv'
<1>1. CASE Send(c)
  BY <1>1, SendKeeps DEF Acquire
<1>2. CASE Hold(c)
  <2> DEFINE new == [call[c] EXCEPT !.pc = "holding", !.sleep = Interval - last]
  <2>1. call[c] \in Call /\ SentOK(call[c]) /\ call[c].pc = "limiter" /\ lock = Nil
    BY DEF Acquire, StackInv, StackTypeOK, Tries
  <2>2. Interval - last \in 0..Interval
    BY <1>2, StackAssumption DEF Hold, StackInv, StackTypeOK
  <2>3. /\ new \in Call /\ new.pc = "holding" /\ new.sleep = Interval - last
        /\ SentOK(new)
    BY <2>1, <2>2 DEF Call, SentOK
  <2>4. call' = [call EXCEPT ![c] = new]
    BY <1>2 DEF Hold
  <2> HIDE DEF new
  <2>5. /\ call' \in [Caller -> Call] /\ Tries' /\ call'[c] = new
        /\ \A d \in Caller : d # c => call'[d] = call[d]
    BY <2>3, <2>4, OneCall
  <2>6. Limiter'
    BY <1>2, <2>1, <2>3, <2>5, StackAssumption DEF Hold, StackInv, Limiter
  <2> QED
    BY <1>2, <2>5, <2>6 DEF Hold, StackInv, StackTypeOK
<1> QED
  BY <1>1, <1>2 DEF Acquire

LEMMA AnswerKeeps ==
  ASSUME StackInv, NEW c \in Caller, call[c].pc = "sent",
         NEW response \in Response, NEW actual \in Actual[call[c].attempt],
         Answer(c, response, actual)
  PROVE  StackInv'
<1> DEFINE cl == [call[c] EXCEPT !.response = response]
           u == Settle(c, actual)
           done == [cl EXCEPT !.pc = "done", !.outcome = "ok"]
<1>1. call[c] \in Call /\ SentOK(call[c]) /\ call[c].sleep = 0
  BY DEF StackInv, StackTypeOK, Tries, Limiter
<1>2. call[c].attempt \in Attempts /\ actual \in Nat /\ Estimate[call[c].attempt] \in Nat
  BY <1>1, StackAssumption DEF SentOK, Call, Attempts
<1>3. cl \in Call /\ cl.sleep = 0 /\ cl.pc = "sent" /\ cl.attempt = call[c].attempt
      /\ cl.sent = call[c].sent /\ cl.kind = call[c].kind
  BY <1>1 DEF Call
<1>4. cl.sent <= MaxTries * cl.attempt
  BY <1>1, <1>3, RungOver
<1>5. u \in Int
  BY <1>2 DEF Settle, StackInv, StackTypeOK
<1>6. spent' \in [Caller -> Nat] /\ overrun' \in Nat
  BY <1>2, <1>3 DEF Answer, StackInv, StackTypeOK
<1>7. CASE cl.kind = "plain" \/ response.parses
  <2>1. /\ call' = [call EXCEPT ![c] = done] /\ used' = u
        /\ UNCHANGED <<degraded, lock, last>>
    BY <1>7 DEF Answer
  <2>2. done \in Call /\ done.pc = "done" /\ done.sleep = 0 /\ SentOK(done)
    BY <1>3, <1>4 DEF Call, SentOK
  <2> HIDE DEF done
  <2>3. call' \in [Caller -> Call] /\ Tries'
    BY <2>1, <2>2, OneCall
  <2>4. Limiter'
    BY <2>1, <2>2, LimiterKept
  <2> QED
    BY <1>5, <1>6, <2>1, <2>3, <2>4 DEF StackInv, StackTypeOK
<1>8. CASE ~(cl.kind = "plain" \/ response.parses)
  <2>1. Proceed(c, cl, u, "ValueError") /\ UNCHANGED <<lock, last>>
    BY <1>8 DEF Answer
  <2>2. cl.kind = "structured"
    BY <1>3, <1>8 DEF Call
  <2> HIDE DEF cl, u
  <2> QED
    BY <1>3, <1>4, <1>5, <1>6, <2>1, <2>2, ProceedKeeps
<1> QED
  BY <1>7, <1>8

LEMMA FailKeeps ==
  ASSUME StackInv, NEW c \in Caller, call[c].pc = "sent",
         NEW error \in {"LLMError", "LLMRateLimitError", "LLMTimeoutError"},
         Fail(c, error)
  PROVE  StackInv'
<1>1. call[c] \in Call /\ SentOK(call[c]) /\ call[c].sleep = 0
  BY DEF StackInv, StackTypeOK, Tries, Limiter
<1>2. Release(c) \in Int
  BY <1>1, StackAssumption DEF Release, StackInv, StackTypeOK, SentOK, Call, Attempts
<1>3. call[c].sent <= MaxTries * call[c].attempt
  BY <1>1, RungOver
<1>4. error \in Error
  BY DEF Error
<1> QED
  BY <1>1, <1>2, <1>3, <1>4, ProceedKeeps DEF Fail, StackInv, StackTypeOK

LEMMA RetryKeeps ==
  ASSUME StackInv, NEW c \in Caller, call[c].pc = "sent", Retry(c)
  PROVE  StackInv'
<1> DEFINE new == [call[c] EXCEPT !.pc = "backoff"]
<1>1. call[c] \in Call /\ SentOK(call[c]) /\ call[c].sleep = 0
  BY DEF StackInv, StackTypeOK, Tries, Limiter
<1>2. new \in Call /\ new.pc = "backoff" /\ new.sleep = 0 /\ SentOK(new)
  BY <1>1 DEF Retry, Call, SentOK
<1>3. call' = [call EXCEPT ![c] = new]
  BY DEF Retry
<1> HIDE DEF new
<1>4. call' \in [Caller -> Call] /\ Tries'
  BY <1>2, <1>3, OneCall
<1>5. Limiter'
  BY <1>2, <1>3, LimiterKept DEF Retry
<1> QED
  BY <1>4, <1>5 DEF Retry, StackInv, StackTypeOK

LEMMA BackoffKeeps ==
  ASSUME StackInv, NEW c \in Caller, Backoff(c)
  PROVE  StackInv'
<1> DEFINE new == [call[c] EXCEPT !.pc = "limiter", !.try = @ + 1]
<1>1. /\ call[c] \in Call /\ SentOK(call[c]) /\ call[c].sleep = 0
      /\ call[c].pc = "backoff"
  BY DEF Backoff, StackInv, StackTypeOK, Tries, Limiter
<1>2. call[c].try + 1 \in 0..MaxTries
  BY <1>1, StackAssumption DEF Call, SentOK
<1>3. /\ new \in Call /\ new.pc = "limiter" /\ new.sleep = 0
      /\ new.try = call[c].try + 1 /\ new.attempt = call[c].attempt
      /\ new.sent = call[c].sent
  BY <1>1, <1>2 DEF Call
<1>4. call' = [call EXCEPT ![c] = new]
  BY DEF Backoff
<1> HIDE DEF new
<1>5. SentOK(new)
  <2>1. MaxTries * (call[c].attempt - 1) \in Int
    BY <1>1, StackAssumption DEF Call
  <2> QED
    BY <1>1, <1>3, <2>1 DEF SentOK, Call
<1>6. call' \in [Caller -> Call] /\ Tries'
  BY <1>3, <1>4, <1>5, OneCall
<1>7. Limiter'
  BY <1>1, <1>3, <1>4, <1>5, LimiterKept DEF Backoff
<1> QED
  BY <1>6, <1>7 DEF Backoff, StackInv, StackTypeOK

LEMMA CancelKeeps ==
  ASSUME StackInv, NEW c \in Caller, Cancel(c)
  PROVE  StackInv'
<1> DEFINE new == [call[c] EXCEPT !.pc = "done", !.outcome = "CancelledError",
                                  !.sleep = 0]
<1>1. /\ call[c] \in Call /\ SentOK(call[c])
      /\ call[c].pc \in {"limiter", "holding", "sent", "backoff"}
  BY DEF Cancel, Reserves, StackInv, StackTypeOK, Tries
<1>2. Release(c) \in Int
  BY <1>1, StackAssumption DEF Release, StackInv, StackTypeOK, SentOK, Call, Attempts
<1>3. call[c].sent <= MaxTries * call[c].attempt
  BY <1>1, RungOver
<1>4. new \in Call /\ new.pc = "done" /\ new.sleep = 0 /\ SentOK(new)
  <2>1. 0 \in 0..Interval /\ "CancelledError" \in Error
    BY StackAssumption DEF Error
  <2>2. new \in Call /\ new.pc = "done" /\ new.sleep = 0
    BY <1>1, <2>1 DEF Call
  <2>3. new.sent = call[c].sent /\ new.attempt = call[c].attempt
    BY <1>1 DEF Call
  <2> QED
    BY <1>3, <2>2, <2>3 DEF SentOK
<1>5. call' = [call EXCEPT ![c] = new]
  BY DEF Cancel
<1> HIDE DEF new
<1>6. /\ call' \in [Caller -> Call] /\ Tries' /\ call'[c] = new
      /\ \A d \in Caller : d # c => call'[d] = call[d]
  BY <1>4, <1>5, OneCall
<1>7. Limiter'
  BY <1>4, <1>6, StackAssumption DEF Cancel, StackInv, Limiter
<1> QED
  BY <1>2, <1>6, <1>7 DEF Cancel, StackInv, StackTypeOK

LEMMA TickKeeps ==
  ASSUME StackInv, Tick
  PROVE  StackInv'
<1> DEFINE new(c) == [call[c] EXCEPT !.sleep = IF @ > 0 THEN @ - 1 ELSE 0]
<1>1. \A c \in Caller : call'[c] = new(c)
  BY DEF Tick
<1>2. last' = last + 1 /\ last \in 0..Interval /\ last < Interval
  BY DEF Tick, StackInv, StackTypeOK
<1>3. ASSUME NEW c \in Caller
      PROVE  /\ new(c) \in Call /\ SentOK(new(c)) /\ new(c).pc = call[c].pc
             /\ new(c).sleep = IF call[c].pc = "holding" THEN Interval - last' ELSE 0
  <2>1. call[c] \in Call /\ SentOK(call[c])
        /\ call[c].sleep = IF call[c].pc = "holding" THEN Interval - last ELSE 0
    BY DEF StackInv, StackTypeOK, Tries, Limiter
  <2>2. new(c).sleep = IF call[c].pc = "holding" THEN Interval - last' ELSE 0
    BY <1>2, <2>1, StackAssumption DEF Call
  <2>3. new(c).sleep \in 0..Interval
    BY <1>2, <2>2, StackAssumption
  <2> QED
    BY <2>1, <2>2, <2>3 DEF Call, SentOK
<1> HIDE DEF new
<1>4. call' \in [Caller -> Call]
  BY <1>1, <1>3 DEF Tick
<1>5. Tries'
  BY <1>1, <1>3 DEF Tries, SentOK
<1>6. Limiter'
  BY <1>1, <1>3 DEF Tick, StackInv, Limiter
<1> QED
  BY <1>2, <1>4, <1>5, <1>6, StackAssumption DEF Tick, StackInv, StackTypeOK

\* StackInv is inductive.
LEMMA StackInductive == StackInv /\ [Next]_vars => StackInv'
<1> SUFFICES ASSUME StackInv, [Next]_vars
             PROVE  StackInv'
  OBVIOUS
<1>1. CASE UNCHANGED vars
  BY <1>1 DEF vars, StackInv, StackTypeOK, Tries, SentOK, Limiter
<1>2. ASSUME NEW c \in Caller, Wake(c)
      PROVE  StackInv'
  BY <1>2, SendKeeps DEF Wake
<1>3. ASSUME NEW c \in Caller, Reply(c)
      PROVE  StackInv'
  BY <1>3, AnswerKeeps, FailKeeps, RetryKeeps DEF Reply
<1> QED
  BY <1>1, <1>2, <1>3, TickKeeps, StartKeeps, AcquireKeeps, BackoffKeeps,
     CancelKeeps DEF Next, TaskStep

LEMMA StackInvariant == Spec => []StackInv
<1> QED
  BY InitStack, StackInductive, PTL DEF Spec
-----------------------------------------------------------------------------
\* Types: a call's rung, try and sleep stay in their ranges.
THEOREM StackTypes == Spec => []StackTypeOK
<1>1. StackInv => StackTypeOK
  BY DEF StackInv
<1> QED
  BY <1>1, StackInvariant, PTL

\* A call sends at most MaxTries requests per rung of the ladder it has reached
\* (with_retry() under StructuredOutputDecorator).
THEOREM RequestsBounded == Spec => []CallsBounded
<1>1. StackInv => CallsBounded
  <2> SUFFICES ASSUME StackInv, NEW c \in Caller
               PROVE  call[c].sent <= MaxTries * call[c].attempt
    BY DEF CallsBounded
  <2>1. call[c] \in Call /\ SentOK(call[c])
    BY DEF StackInv, StackTypeOK, Tries
  <2>2. CASE call[c].pc = "new"
    BY <2>1, <2>2, StackAssumption DEF SentOK
  <2>3. CASE call[c].pc = "done"
    BY <2>1, <2>3 DEF SentOK
  <2>4. CASE call[c].pc \in {"sent", "backoff", "limiter", "holding"}
    BY <2>1, <2>4, RungOver
  <2> QED
    BY <2>1, <2>2, <2>3, <2>4 DEF Call
<1> QED
  BY <1>1, StackInvariant, PTL

\* Going on down the ladder sends nothing.
LEMMA SentKept ==
  ASSUME call \in [Caller -> Call], NEW c \in Caller, NEW cl \in Call, NEW u,
         NEW error, Proceed(c, cl, u, error), cl.sent = call[c].sent
  PROVE  \A d \in Caller : call'[d].sent = call[d].sent
<1> DEFINE admitted == {k \in Candidates(cl) : Fits(u, Estimate[k])}
<1>1. \/ call'[c] = [cl EXCEPT !.pc = "done", !.outcome = Verdict(cl, error)]
      \/ call'[c] = [cl EXCEPT !.pc = "limiter", !.attempt = First(admitted),
                              !.try = 1]
  BY DEF Proceed
<1>2. \A d \in Caller : d # c => call'[d] = call[d]
  BY DEF Proceed
<1>3. call'[c].sent = cl.sent
  <2>1. ASSUME NEW v PROVE [cl EXCEPT !.pc = "done", !.outcome = v].sent = cl.sent
    BY DEF Call
  <2>2. ASSUME NEW k
        PROVE  [cl EXCEPT !.pc = "limiter", !.attempt = k, !.try = 1].sent = cl.sent
    BY DEF Call
  <2> QED
    BY <1>1, <2>1, <2>2
<1> QED
  BY <1>2, <1>3

\* Two requests never leave closer together than the interval: the limiter's
\* lock keeps every other caller out while one sleeps in it (RateLimiter).
THEOREM RequestsSpaced == Spec => RateSpacing
<1>1. StackInv /\ [Next]_vars =>
        [(\E c \in Caller : call'[c].sent > call[c].sent) => last = Interval]_vars
  <2> SUFFICES ASSUME StackInv, Next, NEW c \in Caller,
                      call'[c].sent > call[c].sent
               PROVE  last = Interval
    OBVIOUS
  <2>1. \A d \in Caller : /\ call[d] \in Call /\ SentOK(call[d])
                          /\ call[d].sent \in Nat
    BY DEF StackInv, StackTypeOK, Tries, Call
  <2>2. ASSUME NEW d \in Caller, Start(d) \/ Reply(d)
        PROVE  call'[c].sent = call[c].sent
    <3>1. CASE Start(d)
      BY <2>1, <3>1, SentKept DEF Start, StackInv, StackTypeOK
    <3>2. ASSUME NEW response, NEW actual, response \in Response,
                 Answer(d, response, actual)
          PROVE  call'[c].sent = call[c].sent
      <4> DEFINE cl == [call[d] EXCEPT !.response = response]
                 over == [cl EXCEPT !.pc = "done", !.outcome = "ok"]
      <4>1. cl \in Call /\ cl.sent = call[d].sent
        BY <2>1, <3>2 DEF Call
      <4>2. over \in Call /\ over.sent = call[d].sent
        BY <4>1 DEF Call, Error
      <4>3. CASE call' = [call EXCEPT ![d] = over]
        <5> HIDE DEF over
        <5> QED
          BY <4>2, <4>3 DEF StackInv, StackTypeOK
      <4>4. CASE Proceed(d, cl, Settle(d, actual), "ValueError")
        <5> HIDE DEF cl
        <5> QED
          BY <4>1, <4>4, SentKept DEF StackInv, StackTypeOK
      <4> QED
        BY <3>2, <4>3, <4>4 DEF Answer
    <3>3. ASSUME NEW error, Fail(d, error)
          PROVE  call'[c].sent = call[c].sent
      BY <2>1, <3>3, SentKept DEF Fail, StackInv, StackTypeOK
    <3>4. CASE Retry(d)
      <4>1. call'[d] = [call[d] EXCEPT !.pc = "backoff"]
            /\ \A q \in Caller : q # d => call'[q] = call[q]
        BY <3>4 DEF Retry, StackInv, StackTypeOK
      <4> QED
        BY <2>1, <4>1 DEF Call
    <3> QED
      BY <2>2, <3>1, <3>2, <3>3, <3>4 DEF Reply
  <2>3. ASSUME NEW d \in Caller, Backoff(d) \/ Cancel(d)
        PROVE  call'[c].sent = call[c].sent
    <3>1. /\ \/ call'[d] = [call[d] EXCEPT !.pc = "limiter", !.try = @ + 1]
             \/ call'[d] = [call[d] EXCEPT !.pc = "done", !.outcome = "CancelledError",
                                           !.sleep = 0]
          /\ \A q \in Caller : q # d => call'[q] = call[q]
      BY <2>3 DEF Backoff, Cancel, StackInv, StackTypeOK
    <3>2. \A cl \in Call :
            /\ [cl EXCEPT !.pc = "limiter", !.try = @ + 1].sent = cl.sent
            /\ [cl EXCEPT !.pc = "done", !.outcome = "CancelledError",
                          !.sleep = 0].sent = cl.sent
      BY DEF Call
    <3> QED
      BY <2>1, <3>1, <3>2
  <2>4. ASSUME Tick
        PROVE  call'[c].sent = call[c].sent
    BY <2>1, <2>4 DEF Tick, Call
  <2>5. ASSUME NEW d \in Caller, Acquire(d)
        PROVE  last = Interval \/ call'[c].sent = call[c].sent
    <3>1. CASE Hold(d)
      <4>1. /\ call'[d] = [call[d] EXCEPT !.pc = "holding", !.sleep = Interval - last]
            /\ \A q \in Caller : q # d => call'[q] = call[q]
        BY <3>1 DEF Hold, StackInv, StackTypeOK
      <4>2. \A cl \in Call :
              [cl EXCEPT !.pc = "holding", !.sleep = Interval - last].sent = cl.sent
        BY DEF Call
      <4> QED
        BY <2>1, <4>1, <4>2
    <3> QED
      BY <2>5, <3>1 DEF Acquire
  <2>6. ASSUME NEW d \in Caller, Wake(d)
        PROVE  last = Interval
    <3>1. Interval - last = 0
      BY <2>6 DEF Wake, StackInv, Limiter
    <3> QED
      BY <3>1, StackAssumption DEF StackInv, StackTypeOK
  <2> QED
    BY <2>1, <2>2, <2>3, <2>4, <2>5, <2>6 DEF Next, TaskStep
<1> QED
  BY <1>1, StackInvariant, PTL DEF Spec, RateSpacing
-----------------------------------------------------------------------------
\* What is reserved fits, whatever the counter was before.
LEMMA ProceedFits ==
  ASSUME NEW c \in Caller, NEW cl \in Call, NEW u \in Int, NEW error,
         Proceed(c, cl, u, error), overrun' \in Nat, u <= Ceiling + overrun'
  PROVE  used' <= Ceiling + overrun'
<1> DEFINE admitted == {k \in Candidates(cl) : Fits(u, Estimate[k])}
<1>1. CASE admitted = {}
  BY <1>1 DEF Proceed
<1>2. CASE admitted # {}
  <2>1. used' = u + Estimate[First(admitted)]
    BY <1>2 DEF Proceed
  <2>2. admitted \subseteq Attempts
    BY CandidatesFollow
  <2>3. First(admitted) \in admitted
    BY <1>2, <2>2, FirstIsMember
  <2>4. First(admitted) \in Attempts /\ Fits(u, Estimate[First(admitted)])
    BY <2>2, <2>3
  <2> HIDE DEF admitted
  <2> QED
    BY <2>1, <2>4, StackAssumption DEF Fits
<1> QED
  BY <1>1, <1>2

\* A settled answer adds at most what it used beyond its estimate.
LEMMA AnswerFits ==
  ASSUME StackInv, CeilingHeld, NEW c \in Caller, call[c].pc = "sent",
         NEW response \in Response, NEW actual \in Actual[call[c].attempt],
         Answer(c, response, actual)
  PROVE  CeilingHeld'
<1> DEFINE cl == [call[c] EXCEPT !.response = response]
           u == Settle(c, actual)
<1>1. call[c] \in Call /\ SentOK(call[c])
  BY DEF StackInv, StackTypeOK, Tries
<1>2. call[c].attempt \in Attempts /\ actual \in Nat /\ Estimate[call[c].attempt] \in Nat
  BY <1>1, StackAssumption DEF SentOK, Call, Attempts
<1>3. cl \in Call /\ cl.attempt = call[c].attempt
  BY <1>1 DEF Call
<1>4. /\ overrun' \in Nat /\ u \in Int
      /\ overrun' >= overrun /\ overrun' >= overrun + (actual - Estimate[call[c].attempt])
  BY <1>2, <1>3 DEF Answer, Settle, StackInv, StackTypeOK
<1>5. u <= Ceiling + overrun'
  BY <1>2, <1>4, StackAssumption DEF Settle, CeilingHeld, StackInv, StackTypeOK
<1>6. used' = u \/ Proceed(c, cl, u, "ValueError")
  BY DEF Answer
<1> HIDE DEF cl, u
<1> QED
  BY <1>3, <1>4, <1>5, <1>6, ProceedFits DEF CeilingHeld

\* A reservation that is given back leaves the counter where it was, or lower.
LEMMA ReleaseFits ==
  ASSUME StackInv, CeilingHeld, NEW c \in Caller, Reserves(c)
  PROVE  Release(c) \in Int /\ Release(c) <= Ceiling + overrun
<1>1. call[c] \in Call /\ SentOK(call[c])
  BY DEF StackInv, StackTypeOK, Tries
<1>2. Estimate[call[c].attempt] \in Nat
  BY <1>1, StackAssumption DEF Reserves, SentOK, Call, Attempts
<1> QED
  BY <1>2, StackAssumption DEF Release, CeilingHeld, StackInv, StackTypeOK

\* CeilingHeld is inductive relative to StackInv.
LEMMA CeilingKept == StackInv /\ CeilingHeld /\ [Next]_vars => CeilingHeld'
<1> SUFFICES ASSUME StackInv, CeilingHeld, [Next]_vars PROVE CeilingHeld'
  OBVIOUS
<1>1. ASSUME UNCHANGED <<used, overrun>> PROVE CeilingHeld'
  BY <1>1 DEF CeilingHeld
<1>2. \A c \in Caller : call[c] \in Call
  BY DEF StackInv, StackTypeOK
<1>3. ASSUME NEW c \in Caller, Start(c) PROVE CeilingHeld'
  BY <1>2, <1>3, ProceedFits DEF Start, CeilingHeld, StackInv, StackTypeOK
<1>4. ASSUME NEW c \in Caller, Reply(c) PROVE CeilingHeld'
  <2>1. ASSUME NEW error, Fail(c, error) PROVE CeilingHeld'
    <3>1. Release(c) \in Int /\ Release(c) <= Ceiling + overrun
      BY <1>4, ReleaseFits DEF Reply, Reserves
    <3>2. UNCHANGED overrun /\ overrun \in Nat
      BY <2>1 DEF Fail, StackInv, StackTypeOK
    <3> QED
      BY <1>2, <2>1, <3>1, <3>2, ProceedFits DEF Fail, CeilingHeld
  <2> QED
    BY <1>1, <1>4, <2>1, AnswerFits DEF Reply, Retry
<1>5. ASSUME NEW c \in Caller, Acquire(c) \/ Wake(c) \/ Backoff(c) PROVE CeilingHeld'
  BY <1>1, <1>5 DEF Acquire, Wake, Backoff, Hold, Send
<1>6. ASSUME NEW c \in Caller, Cancel(c) PROVE CeilingHeld'
  BY <1>6, ReleaseFits DEF Cancel, CeilingHeld
<1>7. CASE Tick \/ UNCHANGED vars
  BY <1>1, <1>7 DEF Tick, vars
<1> QED
  BY <1>3, <1>4, <1>5, <1>6, <1>7 DEF Next, TaskStep

\* Calls admitted together stay under the ceiling together, but for what their
\* answers used beyond the estimates (BudgetGuard.reserve and _settle): for
\* any number of callers, estimates and usages.
THEOREM CeilingIsHeld == Spec => []CeilingHeld
<1>1. Init => CeilingHeld
  BY StackAssumption DEF Init, CeilingHeld
<1> QED
  BY <1>1, StackInvariant, CeilingKept, PTL DEF Spec

-----------------------------------------------------------------------------
(* The guard's counter.                                                    *)

\* One caller's units are as many as its charge.
LEMMA OwnUnits ==
  ASSUME NEW c \in Caller, NEW n \in Nat
  PROVE  IsFiniteSet({c} \X (1..n)) /\ Cardinality({c} \X (1..n)) = n
<1>1. IsFiniteSet(1..n) /\ Cardinality(1..n) = n
  BY FS_Interval
<1>2. IsFiniteSet({c}) /\ Cardinality({c}) = 1
  BY FS_Singleton
<1> QED
  BY <1>1, <1>2, FS_Product

\* The units of some of the callers are finitely many.
LEMMA UnitsFinite ==
  ASSUME NEW charges \in [Caller -> Nat], NEW S \in SUBSET Caller
  PROVE  IsFiniteSet(UNION {{c} \X (1..charges[c]) : c \in S})
<1> DEFINE own == [c \in S |-> {c} \X (1..charges[c])]
           all == {{c} \X (1..charges[c]) : c \in S}
<1>1. own \in Surjection(S, all)
  BY DEF Surjection
<1>2. IsFiniteSet(S)
  BY FS_Subset, StackAssumption
<1>3. IsFiniteSet(all)
  BY <1>1, <1>2, FS_Surjection
<1>4. \A T \in all : IsFiniteSet(T)
  BY OwnUnits
<1> QED
  BY <1>3, <1>4, FS_UNION

\* Another charge to one caller changes the number of units by the difference.
LEMMA Recharge ==
  ASSUME NEW f \in [Caller -> Nat], NEW g \in [Caller -> Nat], NEW c \in Caller,
         \A d \in Caller : d # c => g[d] = f[d]
  PROVE  Cardinality(Units(g)) = Cardinality(Units(f)) - f[c] + g[c]
<1> DEFINE rest == UNION {{d} \X (1..f[d]) : d \in Caller \ {c}}
<1>1. Units(f) = rest \cup ({c} \X (1..f[c])) /\ Units(g) = rest \cup ({c} \X (1..g[c]))
  BY DEF Units
<1>2. \A n \in Nat : rest \cap ({c} \X (1..n)) = {}
  OBVIOUS
<1>3. IsFiniteSet(rest)
  BY UnitsFinite
<1> HIDE DEF rest
<1>4. \A n \in Nat : Cardinality(rest \cup ({c} \X (1..n))) = Cardinality(rest) + n
  <2> SUFFICES ASSUME NEW n \in Nat
               PROVE  Cardinality(rest \cup ({c} \X (1..n))) = Cardinality(rest) + n
    OBVIOUS
  <2>1. IsFiniteSet({c} \X (1..n)) /\ Cardinality({c} \X (1..n)) = n
    BY OwnUnits
  <2>2. Cardinality(rest \cap ({c} \X (1..n))) = 0
    BY <1>2, FS_EmptySet
  <2>3. Cardinality(rest) \in Nat
    BY <1>3, FS_CardinalityType
  <2>4. Cardinality(rest \cup ({c} \X (1..n))) =
          Cardinality(rest) + Cardinality({c} \X (1..n))
            - Cardinality(rest \cap ({c} \X (1..n)))
    BY <1>3, <2>1, FS_Union, Zenon
  <2> QED
    BY <2>1, <2>2, <2>3, <2>4
<1>5. f[c] \in Nat /\ g[c] \in Nat /\ Cardinality(rest) \in Nat
  BY <1>3, FS_CardinalityType
<1> QED
  BY <1>1, <1>4, <1>5

\* What a caller is charged is a number.
LEMMA ChargesAreNumbers ==
  ASSUME StackInv
  PROVE  Charges \in [Caller -> Nat]
<1> SUFFICES ASSUME NEW c \in Caller PROVE spent[c] + Reserved(c) \in Nat
  BY DEF Charges
<1>1. call[c] \in Call /\ SentOK(call[c]) /\ spent[c] \in Nat
  BY DEF StackInv, StackTypeOK, Tries
<1>2. Reserved(c) \in Nat
  BY <1>1, StackAssumption DEF Reserved, Reserves, SentOK, Call, Attempts
<1> QED
  BY <1>1, <1>2

\* The counter is the callers' charges after a step that changes both alike.
LEMMA CountedAlike ==
  ASSUME StackInv, Accounting, NEW c \in Caller,
         spent'[c] \in Nat, Reserved(c)' \in Nat,
         \A d \in Caller \ {c} : call'[d] = call[d] /\ spent'[d] = spent[d],
         used' = used - (spent[c] + Reserved(c)) + (spent'[c] + Reserved(c)')
  PROVE  Accounting'
<1>1. Charges \in [Caller -> Nat]
  BY ChargesAreNumbers
<1>2. \A d \in Caller \ {c} : Charges'[d] = Charges[d]
  BY DEF Charges, Reserved, Reserves
<1>3. Charges'[c] = spent'[c] + Reserved(c)' /\ Charges[c] = spent[c] + Reserved(c)
  BY DEF Charges
<1>4. Charges' \in [Caller -> Nat]
  <2>1. \A d \in Caller : Charges'[d] \in Nat
    BY <1>1, <1>2, <1>3
  <2> QED
    BY <2>1 DEF Charges
<1>5. Cardinality(Units(Charges')) =
        Cardinality(Units(Charges)) - Charges[c] + Charges'[c]
  BY <1>1, <1>2, <1>4, Recharge
<1>6. Units(Charges)' = Units(Charges')
  BY DEF Units
<1> QED
  BY <1>3, <1>5, <1>6 DEF Accounting

\* A step that charges nobody and refunds nobody.
LEMMA NothingCharged ==
  ASSUME Accounting, UNCHANGED <<used, spent>>,
         \A d \in Caller : Reserved(d)' = Reserved(d)
  PROVE  Accounting'
<1>1. Charges' = Charges
  BY DEF Charges
<1>2. Units(Charges)' = Units(Charges')
  BY DEF Units
<1> QED
  BY <1>1, <1>2 DEF Accounting

\* A reservation is what the attempt was estimated at.
LEMMA Reservation ==
  ASSUME StackInv, NEW c \in Caller, Reserves(c)
  PROVE  /\ call[c] \in Call /\ Estimate[call[c].attempt] \in Nat
         /\ Reserved(c) = Estimate[call[c].attempt]
<1>1. call[c] \in Call /\ SentOK(call[c])
  BY DEF StackInv, StackTypeOK, Tries
<1> QED
  BY <1>1, StackAssumption DEF Reserved, Reserves, SentOK, Call, Attempts

\* A call that goes on with the counter u reserves what it adds to u.
LEMMA ProceedCounts ==
  ASSUME StackInv, Accounting, NEW c \in Caller, NEW cl \in Call, NEW u \in Int,
         NEW error, Proceed(c, cl, u, error), spent'[c] \in Nat,
         \A d \in Caller \ {c} : spent'[d] = spent[d],
         u = used - (spent[c] + Reserved(c)) + spent'[c]
  PROVE  Accounting'
<1> DEFINE admitted == {k \in Candidates(cl) : Fits(u, Estimate[k])}
           k == First(admitted)
<1>1. \A d \in Caller \ {c} : call'[d] = call[d]
  BY DEF Proceed, StackInv, StackTypeOK
<1>2. Charges \in [Caller -> Nat] /\ used \in Int
  BY ChargesAreNumbers DEF StackInv, StackTypeOK
<1>3. CASE admitted = {}
  <2>1. /\ call'[c] = [cl EXCEPT !.pc = "done", !.outcome = Verdict(cl, error)]
        /\ used' = u
    BY <1>3 DEF Proceed, StackInv, StackTypeOK
  <2>2. Reserved(c)' = 0
    <3>1. \A v : [cl EXCEPT !.pc = "done", !.outcome = v].pc = "done"
      BY DEF Call
    <3> QED
      BY <2>1, <3>1 DEF Reserved, Reserves
  <2> QED
    BY <1>1, <2>1, <2>2, CountedAlike
<1>4. CASE admitted # {}
  <2>1. /\ call'[c] = [cl EXCEPT !.pc = "limiter", !.attempt = k, !.try = 1]
        /\ used' = u + Estimate[k]
    BY <1>4 DEF Proceed, StackInv, StackTypeOK
  <2>2. admitted \subseteq Attempts
    BY CandidatesFollow
  <2>3. k \in Attempts
    BY <1>4, <2>2, FirstIsMember
  <2> HIDE DEF k
  <2>4. Reserved(c)' = Estimate[k] /\ Estimate[k] \in Nat
    <3>1. call'[c].pc = "limiter" /\ call'[c].attempt = k
      BY <2>1 DEF Call
    <3> QED
      BY <2>3, <3>1, StackAssumption DEF Reserved, Reserves
  <2>5. spent[c] + Reserved(c) \in Nat
    BY <1>2 DEF Charges
  <2>6. used' = used - (spent[c] + Reserved(c)) + (spent'[c] + Reserved(c)')
    BY <1>2, <2>1, <2>4, <2>5
  <2> QED
    BY <1>1, <2>4, <2>6, CountedAlike
<1> QED
  BY <1>3, <1>4

\* A settled answer refunds its estimate and charges what it used.
LEMMA AnswerCounts ==
  ASSUME StackInv, Accounting, NEW c \in Caller, call[c].pc = "sent",
         NEW response \in Response, NEW actual \in Actual[call[c].attempt],
         Answer(c, response, actual)
  PROVE  Accounting'
<1> DEFINE cl == [call[c] EXCEPT !.response = response]
           u == Settle(c, actual)
<1>1. /\ call[c] \in Call /\ Estimate[call[c].attempt] \in Nat
      /\ Reserved(c) = Estimate[call[c].attempt]
  BY Reservation DEF Reserves
<1>2. actual \in Nat /\ used \in Int /\ spent[c] \in Nat
  <2>1. call[c].attempt \in Attempts
    BY <1>1 DEF StackInv, Tries, SentOK, Call, Attempts
  <2> QED
    BY <2>1, StackAssumption DEF StackInv, StackTypeOK
<1>3. spent'[c] = spent[c] + actual /\ \A d \in Caller \ {c} : spent'[d] = spent[d]
  BY DEF Answer, StackInv, StackTypeOK
<1>4. u \in Int /\ u = used - (spent[c] + Reserved(c)) + spent'[c] /\ spent'[c] \in Nat
  BY <1>1, <1>2, <1>3 DEF Settle
<1>5. cl \in Call
  BY <1>1 DEF Call
<1>6. CASE cl.kind = "plain" \/ response.parses
  <2>1. /\ call' = [call EXCEPT ![c] = [cl EXCEPT !.pc = "done", !.outcome = "ok"]]
        /\ used' = u
    BY <1>6 DEF Answer
  <2>2. \A d \in Caller \ {c} : call'[d] = call[d]
    BY <2>1 DEF StackInv, StackTypeOK
  <2>3. call'[c].pc = "done"
    BY <1>5, <2>1 DEF StackInv, StackTypeOK, Call
  <2>4. Reserved(c)' = 0
    BY <2>3 DEF Reserved, Reserves
  <2> QED
    BY <1>3, <1>4, <2>1, <2>2, <2>4, CountedAlike
<1>7. CASE ~(cl.kind = "plain" \/ response.parses)
  <2>1. Proceed(c, cl, u, "ValueError")
    BY <1>7 DEF Answer
  <2> HIDE DEF cl, u
  <2> QED
    BY <1>3, <1>4, <1>5, <2>1, ProceedCounts
<1> QED
  BY <1>6, <1>7

\* Accounting is inductive relative to StackInv.
LEMMA AccountingKept == StackInv /\ Accounting /\ [Next]_vars => Accounting'
<1> SUFFICES ASSUME StackInv, Accounting, [Next]_vars PROVE Accounting'
  OBVIOUS
<1>1. \A c \in Caller : /\ call[c] \in Call /\ used \in Int /\ spent[c] \in Nat
                        /\ spent[c] + Reserved(c) \in Nat
  BY ChargesAreNumbers DEF Charges, StackInv, StackTypeOK
<1>2. ASSUME NEW c \in Caller, Start(c) PROVE Accounting'
  <2>1. Reserved(c) = 0
    BY <1>2 DEF Start, Reserved, Reserves
  <2> QED
    BY <1>1, <1>2, <2>1, ProceedCounts DEF Start
<1>3. ASSUME NEW c \in Caller, NEW error, call[c].pc = "sent", Fail(c, error)
      PROVE  Accounting'
  <2>1. Estimate[call[c].attempt] \in Nat /\ Reserved(c) = Estimate[call[c].attempt]
    BY <1>3, Reservation DEF Reserves
  <2>2. Release(c) \in Int
    BY <1>1, <2>1 DEF Release
  <2>3. Release(c) = used - (spent[c] + Reserved(c)) + spent[c]
    BY <1>1, <2>1 DEF Release
  <2> QED
    BY <1>1, <1>3, <2>2, <2>3, ProceedCounts DEF Fail
<1>4. ASSUME NEW c \in Caller, Cancel(c) PROVE Accounting'
  <2>1. Estimate[call[c].attempt] \in Nat /\ Reserved(c) = Estimate[call[c].attempt]
    BY <1>4, Reservation DEF Cancel
  <2>2. Reserved(c)' = 0
    <3>1. call'[c].pc = "done"
      BY <1>1, <1>4 DEF Cancel, StackInv, StackTypeOK, Call
    <3> QED
      BY <3>1 DEF Reserved, Reserves
  <2>3. \A d \in Caller \ {c} : call'[d] = call[d] /\ spent'[d] = spent[d]
    BY <1>4 DEF Cancel, StackInv, StackTypeOK
  <2>4. used' = used - (spent[c] + Reserved(c)) + (spent'[c] + Reserved(c)')
    BY <1>1, <1>4, <2>1, <2>2 DEF Cancel, Release
  <2>5. spent'[c] \in Nat
    BY <1>1, <1>4 DEF Cancel
  <2> QED
    BY <2>2, <2>3, <2>4, <2>5, CountedAlike
<1>5. ASSUME NEW c \in Caller,
             Acquire(c) \/ Wake(c) \/ Backoff(c) \/ (call[c].pc = "sent" /\ Retry(c))
      PROVE  Accounting'
  <2>1. \A d \in Caller \ {c} : call'[d] = call[d]
    BY <1>5 DEF Acquire, Wake, Backoff, Retry, Hold, Send, StackInv, StackTypeOK
  <2>2. /\ call'[c].attempt = call[c].attempt
        /\ call'[c].pc \in {"limiter", "holding", "sent", "backoff"}
    BY <1>1, <1>5 DEF Acquire, Wake, Backoff, Retry, Hold, Send, StackInv,
                      StackTypeOK, Call
  <2>3. Reserves(c)
    BY <1>5 DEF Acquire, Wake, Backoff, Reserves
  <2>4. \A d \in Caller : Reserved(d)' = Reserved(d)
    BY <2>1, <2>2, <2>3 DEF Reserved, Reserves
  <2> QED
    BY <1>5, <2>4, NothingCharged DEF Acquire, Wake, Backoff, Retry, Hold, Send
<1>6. CASE Tick
  <2>1. \A d \in Caller : call'[d].pc = call[d].pc /\ call'[d].attempt = call[d].attempt
    BY <1>1, <1>6 DEF Tick, Call
  <2> QED
    BY <1>6, <2>1, NothingCharged DEF Tick, Reserved, Reserves
<1>7. CASE UNCHANGED vars
  BY <1>7, NothingCharged DEF vars, Reserved, Reserves
<1> QED
  BY <1>2, <1>3, <1>4, <1>5, <1>6, <1>7, AnswerCounts DEF Next, TaskStep, Reply

\* The guard's counter is what the answers used plus the reservations that are
\* open (BudgetGuardDecorator.generate, _settle, BudgetGuard.release), for any
\* number of callers and any estimates: nothing leaks and nothing is forgotten.
THEOREM CounterIsCharged == Spec => []Accounting
<1>1. Init => Accounting
  <2> SUFFICES ASSUME Init PROVE Accounting
    OBVIOUS
  <2>1. \A c \in Caller : Charges[c] = 0
    BY DEF Init, Charges, Reserved, Reserves, NewCall
  <2>2. Units(Charges) = {}
    BY <2>1 DEF Units
  <2> QED
    BY <2>2, FS_EmptySet DEF Init, Accounting
<1> QED
  BY <1>1, StackInvariant, AccountingKept, PTL DEF Spec
=============================================================================
