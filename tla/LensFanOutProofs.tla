--------------------------- MODULE LensFanOutProofs ---------------------------
(***************************************************************************)
(* Proofs about LensFanOut for any document, any lenses and any settings.  *)
(* One lemma says what a step of a lens task does to the task, the free    *)
(* slots and the events; the invariant and the refinement build on it.     *)
(***************************************************************************)
EXTENDS LensFanOut, FiniteSetTheorems, TLAPS

\* A task that runs has an attempt left; none runs before its first.
Attempts ==
  \A p \in Pairs :
    /\ task[p].at \in Calls => task[p].attempt < task[p].tries
    /\ task[p].at \in {"new", "queued"} => task[p].attempt = 0

\* No task raises, and none is cancelled while nobody cancels.
NoneRaises ==
  \A p \in Pairs :
    /\ task[p].at # "raised"
    /\ phase = "running" => task[p].at # "cancelled"

\* Tasks exist and work inside their open article only.
Nested ==
  \A p \in Pairs :
    /\ article[p[1]].at = "queued" => task[p].at = "new"
    /\ task[p].at \in Calls \cup {"queued"} => article[p[1]].at = "open"

\* A closed article has the findings of all its lenses, unless cancelled.
ClosedResult(a) ==
  \/ phase \in {"cancelling", "cancelled"}
  \/ /\ \A p \in TasksOf(a) : task[p].at = "done"
     /\ article[a].found = {l \in Lens : Found(<<a, l>>)}

Closed ==
  /\ \A a \in Article : article[a].at = "closed" => ClosedResult(a)
  /\ phase \in {"returned", "cancelled"} => \A a \in Article : article[a].at = "closed"

FanOutInv == FanOutTypeOK /\ Attempts /\ NoneRaises /\ Nested /\ Closed

\* Which tier an attempt is at, where the route cascades and the router works:
\* the route's for the first, the next one for the second.
OnLadder(t) ==
  setting.cascade /\ ~setting.flaky =>
    /\ t.at \in Calls =>
         /\ t.tries = 2
         /\ t.tier = IF t.attempt = 0 THEN setting.tier ELSE NextTier(setting.tier)
    /\ t.at = "done" /\ t.outcome # "found" => t.attempt = 2 \/ t.tier = "premium"
    /\ t.attempt = 2 => t.tier = NextTier(setting.tier)

\* What a step of the task of p may do: t is the task's next state.
Moves(p, t) ==
  /\ t \in Task
  /\ task' = [task EXCEPT ![p] = t]
  /\ task[p].at \in Calls \cup {"queued"}
  /\ t.at \in Calls => t.attempt < t.tries
  /\ OnLadder(task[p]) => OnLadder(t)
  /\ \/ task[p].at = "queued" /\ t.at \in Calls /\ free > 0 /\ free' = free - 1
     \/ task[p].at \in Calls /\ t.at \in Calls /\ free' = free
     \/ task[p].at \in Calls /\ t.at = "done" /\ free' = free + 1
     \/ task[p].at \in Calls /\ t.at = "cancelled" /\ free' = free + 1 /\ phase = "cancelling"
     \/ task[p].at = "queued" /\ t.at = "cancelled" /\ free' = free /\ phase = "cancelling"
  /\ events \subseteq events' /\ events' \subseteq [pair : Pairs, tier : Tier]
  /\ t.at = "done" => \/ t.outcome \in {"found", "nothing"}
                      \/ [pair |-> p, tier |-> t.tier] \in events'
  /\ UNCHANGED <<setting, articleFree, article, phase, output>>
-----------------------------------------------------------------------------
(* The steps of a lens task.                                               *)

\* What the router may answer.
LEMMA RouterTypes ==
  ASSUME FanOutTypeOK
  PROVE  /\ \A tier \in Tier : SafeCascade(tier) \subseteq Tier \cup {NoTier}
         /\ Routes \subseteq [tier : Tier, tries : 1..2]
         /\ FirstCall \in Calls
BY FanOutAssumption DEF FanOutTypeOK, SafeCascade, NextTier, Routes, FirstCall, Calls,
     Setting, Tier, NoTier

\* How an attempt may end: with another one in the same slot, or for good.
LEMMA EndAttemptCases ==
  ASSUME FanOutTypeOK, Attempts, NEW p \in Pairs,
         NEW o \in {"found", "nothing", "failed"},
         task[p].at \in Calls, EndAttempt(p, o)
  PROVE  \E t \in Task :
           /\ task' = [task EXCEPT ![p] = t]
           /\ t.outcome = o
           /\ OnLadder(task[p]) => OnLadder(t)
           /\ \/ t.at \in Calls /\ t.attempt < t.tries /\ free' = free
              \/ t.at = "done" /\ t.tier = task[p].tier /\ free' = free + 1
<1> DEFINE now == [task[p] EXCEPT !.attempt = @ + 1, !.outcome = o]
<1>1. task[p] \in Task /\ task[p].attempt < task[p].tries
  BY DEF FanOutTypeOK, Attempts
<1>2. now \in Task /\ now.outcome = o /\ now.tier = task[p].tier
      /\ now.tries = task[p].tries /\ now.attempt = task[p].attempt + 1
  <2>1. task[p].tries \in 1..2 /\ task[p].attempt \in 0..2
    BY <1>1 DEF Task
  <2>2. task[p].attempt + 1 \in 0..2
    BY <1>1, <2>1
  <2>3. \A k \in 0..2 :
          LET n == [task[p] EXCEPT !.attempt = k, !.outcome = o]
          IN n \in Task /\ n.outcome = o /\ n.tier = task[p].tier
             /\ n.tries = task[p].tries /\ n.attempt = k
    BY <1>1 DEF Task
  <2> QED BY <2>2, <2>3
<1>3. PICK next \in IF Over(now) THEN {NoTier} ELSE SafeCascade(now.tier) :
        IF next \in Tier
          THEN /\ task' = [task EXCEPT ![p] = [now EXCEPT !.at = FirstCall, !.tier = next]]
               /\ UNCHANGED free
          ELSE /\ task' = [task EXCEPT ![p] =
                             [now EXCEPT !.at = IF next = Raised THEN "raised" ELSE "done"]]
               /\ free' = free + 1
  BY DEF EndAttempt
<1>4. next \in Tier \cup {NoTier}
  BY <1>2, <1>3, RouterTypes DEF Task
<1>5. CASE next \in Tier
  <2> DEFINE t == [now EXCEPT !.at = FirstCall, !.tier = next]
  <2>1. ~Over(now)
    BY <1>3, <1>5 DEF Tier, NoTier
  <2>2. now.attempt < now.tries
    BY <1>1, <1>2, <2>1 DEF Over, Task
  <2>3. t \in Task /\ t.at \in Calls /\ t.attempt < t.tries /\ t.outcome = o
    BY <1>2, <1>5, <2>2, RouterTypes DEF Task, Calls
  <2>4. ASSUME setting.cascade, ~setting.flaky, OnLadder(task[p])
        PROVE  OnLadder(t)
    <3>1. next = NextTier(task[p].tier)
      BY <1>2, <1>3, <2>1, <2>4 DEF SafeCascade
    <3>2. task[p].tries = 2 /\ task[p].attempt = 0
      BY <1>1, <1>2, <2>2, <2>4 DEF OnLadder, Task
    <3>3. task[p].tier = setting.tier
      BY <2>4, <3>2 DEF OnLadder
    <3>4. /\ t.tries = 2 /\ t.attempt = 1 /\ t.tier = NextTier(setting.tier)
          /\ t.at \in Calls
      BY <1>2, <2>3, <3>1, <3>2, <3>3 DEF Task
    <3> QED BY <3>4 DEF OnLadder, Calls
  <2>5. OnLadder(task[p]) => OnLadder(t)
    BY <2>4 DEF OnLadder
  <2> QED BY <1>3, <1>5, <2>3, <2>5
<1>6. CASE next = NoTier
  <2> DEFINE t == [now EXCEPT !.at = "done"]
  <2>1. t \in Task /\ t.at = "done" /\ t.outcome = o /\ t.tier = task[p].tier
    BY <1>2 DEF Task, Ended
  <2>2. next \notin Tier /\ next # Raised
    BY <1>6 DEF Tier, NoTier, Raised
  <2>3. ASSUME setting.cascade, ~setting.flaky, OnLadder(task[p])
        PROVE  OnLadder(t)
    <3>1. /\ task[p].tries = 2
          /\ task[p].tier = IF task[p].attempt = 0 THEN setting.tier ELSE NextTier(setting.tier)
      BY <2>3 DEF OnLadder
    <3>2. task[p].attempt \in {0, 1} /\ t.attempt = task[p].attempt + 1
      BY <1>1, <1>2, <3>1 DEF Task
    <3>3. t.attempt = 2 => t.tier = NextTier(setting.tier)
      BY <2>1, <3>1, <3>2
    <3>4. ASSUME o # "found", t.attempt # 2 PROVE t.tier = "premium"
      <4>1. ~Over(now)
        BY <1>2, <3>1, <3>2, <3>4 DEF Over
      <4>2. NextTier(task[p].tier) = NoTier
        BY <1>2, <1>3, <1>6, <2>3, <4>1 DEF SafeCascade
      <4>3. task[p].tier \in Tier
        BY <1>1 DEF Task
      <4> QED BY <2>1, <4>2, <4>3 DEF NextTier, Tier, NoTier
    <3> QED BY <2>1, <3>3, <3>4 DEF OnLadder, Calls
  <2>4. OnLadder(task[p]) => OnLadder(t)
    BY <2>3 DEF OnLadder
  <2> QED BY <1>3, <2>1, <2>2, <2>4
<1> QED BY <1>4, <1>5, <1>6

\* Every step of a lens task is one of the moves.
LEMMA TaskMoves ==
  ASSUME FanOutInv, NEW p \in Pairs, TaskStep(p)
  PROVE  \E t \in Task : Moves(p, t)
<1>1. task[p] \in Task /\ task \in [Pairs -> Task]
  BY DEF FanOutInv, FanOutTypeOK
<1>2. CASE TakeSlot(p)
  <2>1. PICK route \in Routes :
          task' = [task EXCEPT ![p].at = FirstCall, ![p].tier = route.tier,
                               ![p].tries = route.tries]
    BY <1>2 DEF TakeSlot
  <2> DEFINE t == [task[p] EXCEPT !.at = FirstCall, !.tier = route.tier, !.tries = route.tries]
  <2>2. route.tier \in Tier /\ route.tries \in 1..2 /\ FirstCall \in Calls
    BY RouterTypes DEF FanOutInv
  <2>3. task[p].attempt = 0
    BY <1>2 DEF TakeSlot, FanOutInv, Attempts
  <2>4. t \in Task /\ t.at \in Calls /\ t.attempt < t.tries
    <3>1. t \in Task
      BY <1>1, <2>2 DEF Task
    <3>2. t.at = FirstCall /\ t.attempt = 0 /\ t.tries \in 1..2
      BY <1>1, <2>2, <2>3 DEF Task
    <3> QED BY <2>2, <3>1, <3>2
  <2>5. task' = [task EXCEPT ![p] = t]
    BY <2>1, <1>1
  <2>6. t.at # "done"
    BY <2>4 DEF Calls
  <2>7. OnLadder(t)
    <3>1. setting.cascade /\ ~setting.flaky => route.tier = setting.tier /\ route.tries = 2
      BY DEF Routes
    <3>2. t.attempt = 0 /\ t.tier = route.tier /\ t.tries = route.tries
      BY <1>1, <2>2, <2>3 DEF Task
    <3> QED BY <2>6, <3>1, <3>2 DEF OnLadder
  <2>8. Moves(p, t)
    BY <1>2, <2>4, <2>5, <2>6, <2>7 DEF TakeSlot, Moves, FanOutInv, FanOutTypeOK
  <2> QED BY <2>4, <2>8
<1>3. CASE SampleEmpty(p) \/ ForeignAnswer(p)
  <2>1. PICK c \in {"asking", "retrying"} : task' = [task EXCEPT ![p].at = c]
    BY <1>3 DEF SampleEmpty, ForeignAnswer
  <2> DEFINE t == [task[p] EXCEPT !.at = c]
  <2>2. task[p].at \in Calls /\ free' = free /\ events' = events
        /\ UNCHANGED <<setting, articleFree, article, phase, output>>
    BY <1>3 DEF SampleEmpty, ForeignAnswer, Calls
  <2>3. t \in Task /\ t.at \in Calls /\ t.at # "done"
    BY <1>1 DEF Task, Calls
  <2>4. t.attempt < t.tries
    BY <1>1, <2>2 DEF FanOutInv, Attempts, Task
  <2>5. OnLadder(task[p]) => OnLadder(t)
    BY <1>1, <2>2, <2>3 DEF OnLadder, Task
  <2>6. Moves(p, t)
    BY <2>1, <2>2, <2>3, <2>4, <2>5 DEF Moves, FanOutInv, FanOutTypeOK
  <2> QED BY <2>3, <2>6
<1>4. CASE SampleFound(p) \/ \E o \in {"found", "nothing"} : Answer(p, o)
  <2>1. PICK o \in {"found", "nothing"} : EndAttempt(p, o)
    BY <1>4 DEF SampleFound, Answer
  <2>2. task[p].at \in Calls /\ events' = events
    BY <1>4 DEF SampleFound, Answer, Calls
  <2>3. PICK t \in Task :
           /\ task' = [task EXCEPT ![p] = t]
           /\ t.outcome = o
           /\ OnLadder(task[p]) => OnLadder(t)
           /\ \/ t.at \in Calls /\ t.attempt < t.tries /\ free' = free
              \/ t.at = "done" /\ t.tier = task[p].tier /\ free' = free + 1
    BY <2>1, <2>2, EndAttemptCases DEF FanOutInv
  <2>4. UNCHANGED <<setting, articleFree, article, phase, output>>
    BY <2>1 DEF EndAttempt
  <2>5. Moves(p, t)
    BY <2>2, <2>3, <2>4 DEF Moves, FanOutInv, FanOutTypeOK, Calls
  <2> QED BY <2>5
<1>5. CASE Fails(p)
  <2>1. task[p].at \in Calls /\ EndAttempt(p, "failed") /\ events' = Report(p)
    BY <1>5 DEF Fails, Calls
  <2>2. PICK t \in Task :
           /\ task' = [task EXCEPT ![p] = t]
           /\ t.outcome = "failed"
           /\ OnLadder(task[p]) => OnLadder(t)
           /\ \/ t.at \in Calls /\ t.attempt < t.tries /\ free' = free
              \/ t.at = "done" /\ t.tier = task[p].tier /\ free' = free + 1
    BY <2>1, EndAttemptCases DEF FanOutInv
  <2>3. UNCHANGED <<setting, articleFree, article, phase, output>>
    BY <2>1 DEF EndAttempt
  <2>4. /\ events \subseteq events' /\ events' \subseteq [pair : Pairs, tier : Tier]
        /\ [pair |-> p, tier |-> task[p].tier] \in events'
    BY <1>1, <2>1 DEF Report, FanOutInv, FanOutTypeOK, Task
  <2>5. Moves(p, t)
    BY <2>1, <2>2, <2>3, <2>4 DEF Moves, Calls
  <2> QED BY <2>5
<1>6. CASE CancelTask(p)
  <2> DEFINE t == [task[p] EXCEPT !.at = "cancelled"]
  <2>1. t \in Task /\ t.at = "cancelled" /\ t.at \notin Calls
    BY <1>1 DEF Task, Ended, Calls
  <2>2. phase = "cancelling"
    BY <1>6 DEF CancelTask, FanOutInv, NoneRaises, TasksOf
  <2>3. task' = [task EXCEPT ![p] = t]
    BY <1>1, <1>6 DEF CancelTask
  <2>4. OnLadder(task[p]) => OnLadder(t)
    BY <1>1, <2>1 DEF OnLadder, Task
  <2>5. Moves(p, t)
    BY <1>6, <2>1, <2>2, <2>3, <2>4 DEF CancelTask, Moves, FanOutInv, FanOutTypeOK, Calls
  <2> QED BY <2>1, <2>5
<1> QED BY <1>2, <1>3, <1>4, <1>5, <1>6 DEF TaskStep
-----------------------------------------------------------------------------
(* The invariant.                                                          *)

LEMMA InvInit == Init => FanOutInv
BY FanOutAssumption
   DEF Init, FanOutInv, FanOutTypeOK, Attempts, NoneRaises, Nested, Closed, Pairs, NewTask,
       Task, Tier, Calls, Ended, Setting

LEMMA TaskKeepsInv ==
  ASSUME FanOutInv, NEW p \in Pairs, TaskStep(p)
  PROVE  FanOutInv'
<1>1. PICK t \in Task : Moves(p, t)
  BY TaskMoves
<1>2. /\ task \in [Pairs -> Task] /\ task' = [task EXCEPT ![p] = t]
      /\ task' \in [Pairs -> Task]
      /\ task'[p] = t /\ \A q \in Pairs \ {p} : task'[q] = task[q]
  BY <1>1 DEF Moves, FanOutInv, FanOutTypeOK
<1>3. UNCHANGED <<setting, articleFree, article, phase, output>>
  BY <1>1 DEF Moves
<1>4. FanOutTypeOK'
  BY <1>1, <1>2, <1>3 DEF Moves, FanOutInv, FanOutTypeOK
<1>5. Attempts'
  BY <1>1, <1>2 DEF Moves, FanOutInv, Attempts, Calls
<1>6. NoneRaises'
  BY <1>1, <1>2, <1>3 DEF Moves, FanOutInv, NoneRaises, Calls
<1>7. article[p[1]].at = "open"
  BY <1>1 DEF Moves, FanOutInv, Nested
<1>8. Nested'
  BY <1>2, <1>3, <1>7 DEF FanOutInv, Nested
<1>9. Closed'
  <2>1. ASSUME NEW a \in Article, article[a].at = "closed"
        PROVE  ClosedResult(a)'
    <3>1. \A l \in Lens : <<a, l>> \in Pairs /\ <<a, l>> # p
      BY <1>7, <2>1 DEF Pairs
    <3>2. \A q \in TasksOf(a) : q \in Pairs /\ q # p
      BY <1>7, <2>1 DEF TasksOf
    <3>3. ClosedResult(a)
      BY <2>1 DEF FanOutInv, Closed
    <3>4. TasksOf(a)' = TasksOf(a)
      BY DEF TasksOf
    <3> QED BY <1>2, <1>3, <3>1, <3>2, <3>3, <3>4 DEF ClosedResult, Found
  <2> QED BY <1>3, <2>1 DEF FanOutInv, Closed
<1> QED BY <1>4, <1>5, <1>6, <1>8, <1>9 DEF FanOutInv

LEMMA ArticleKeepsInv ==
  ASSUME FanOutInv, NEW a \in Article, ArticleStep(a)
  PROVE  FanOutInv'
<1> USE DEF FanOutInv
<1>1. CASE OpenArticle(a)
  <2>1. /\ article' = [article EXCEPT ![a].at = "open"] /\ article[a].at = "queued"
        /\ task' = [q \in Pairs |-> IF q[1] = a THEN [task[q] EXCEPT !.at = "queued"] ELSE task[q]]
        /\ articleFree > 0 /\ articleFree' = articleFree - 1
        /\ UNCHANGED <<setting, free, events, phase, output>>
    BY <1>1 DEF OpenArticle
  <2>2. \A q \in Pairs : q[1] = a => task[q].at = "new"
    BY <2>1 DEF Nested
  <2>3. \A q \in Pairs : task[q] \in Task /\ [task[q] EXCEPT !.at = "queued"] \in Task
    BY DEF FanOutTypeOK, Task
  <2>4. task' \in [Pairs -> Task]
    BY <2>1, <2>3
  <2>5. /\ article' \in [Article -> [at : {"queued", "open", "closed"}, found : SUBSET Lens]]
        /\ article'[a].at = "open" /\ \A b \in Article \ {a} : article'[b] = article[b]
    BY <2>1 DEF FanOutTypeOK
  <2>6. FanOutTypeOK'
    BY <2>1, <2>4, <2>5 DEF FanOutTypeOK
  <2>7. \A q \in Pairs : IF q[1] = a THEN /\ task'[q].at = "queued"
                                          /\ task'[q].attempt = task[q].attempt
                                     ELSE task'[q] = task[q]
    BY <2>1, <2>3 DEF Task
  <2>8. Attempts' /\ NoneRaises'
    BY <2>1, <2>2, <2>7 DEF Attempts, NoneRaises, Calls
  <2>9. Nested'
    BY <2>5, <2>7 DEF Nested, Pairs
  <2>10. Closed'
    <3>1. phase \notin {"returned", "cancelled"}
      BY <2>1 DEF Closed
    <3>2. ASSUME NEW b \in Article, article'[b].at = "closed"
          PROVE  ClosedResult(b)'
      <4>1. b # a /\ article'[b] = article[b]
        BY <2>5, <3>2
      <4>2. ClosedResult(b)
        BY <3>2, <4>1 DEF Closed
      <4>3. \A q \in TasksOf(b) : task'[q] = task[q]
        BY <2>7, <4>1 DEF TasksOf
      <4>4. \A l \in Lens : task'[<<b, l>>] = task[<<b, l>>]
        BY <2>7, <4>1 DEF Pairs
      <4>5. TasksOf(b)' = TasksOf(b)
        BY DEF TasksOf
      <4>6. phase' = phase
        BY <2>1
      <4>7. \A l \in Lens : Found(<<b, l>>)' = Found(<<b, l>>)
        BY <4>4 DEF Found
      <4> QED BY <4>1, <4>2, <4>3, <4>5, <4>6, <4>7 DEF ClosedResult
    <3> QED BY <2>1, <3>1, <3>2 DEF Closed
  <2> QED BY <2>6, <2>8, <2>9, <2>10
<1>2. CASE CloseArticle(a)
  <2>1. /\ article[a].at = "open"
        /\ \A q \in TasksOf(a) : task[q].at \in Ended
        /\ article' = [article EXCEPT ![a] = [at |-> "closed", found |-> Collected(a)]]
        /\ articleFree' = articleFree + 1
        /\ UNCHANGED <<setting, free, task, events, phase, output>>
    BY <1>2 DEF CloseArticle
  <2>2. Collected(a) \subseteq Lens
    BY DEF Collected
  <2>3. /\ article' \in [Article -> [at : {"queued", "open", "closed"}, found : SUBSET Lens]]
        /\ article'[a].at = "closed" /\ article'[a].found = Collected(a)
        /\ \A b \in Article \ {a} : article'[b] = article[b]
    BY <2>1, <2>2 DEF FanOutTypeOK
  <2>4. FanOutTypeOK'
    BY <2>1, <2>3 DEF FanOutTypeOK
  <2>5. Attempts' /\ NoneRaises'
    BY <2>1 DEF Attempts, NoneRaises
  <2>6. \A q \in Pairs : q[1] = a => task[q].at \in Ended
    BY <2>1 DEF TasksOf
  <2>7. Nested'
    BY <2>1, <2>3, <2>6 DEF Nested, Pairs, Calls, Ended
  <2>8. Closed'
    <3>1. phase \notin {"returned", "cancelled"}
      BY <2>1 DEF Closed
    <3>2. ASSUME NEW b \in Article, article'[b].at = "closed"
          PROVE  ClosedResult(b)'
      <4>1. TasksOf(b)' = TasksOf(b) /\ (\A l \in Lens : Found(<<b, l>>)' = Found(<<b, l>>))
        BY <2>1 DEF TasksOf, Found
      <4>2. CASE b # a
        BY <2>1, <2>3, <3>2, <4>1, <4>2 DEF Closed, ClosedResult
      <4>3. CASE b = a /\ phase = "running"
        <5>1. \A q \in TasksOf(a) : task[q].at = "done"
          BY <2>1, <4>3 DEF NoneRaises, TasksOf, Ended
        <5>2. Collected(a) = {l \in Lens : Found(<<a, l>>)}
          BY <5>1 DEF Collected
        <5> QED BY <2>1, <2>3, <4>1, <4>3, <5>1, <5>2 DEF ClosedResult
      <4>4. CASE phase # "running"
        BY <2>1, <3>1, <4>4 DEF ClosedResult, FanOutTypeOK
      <4> QED BY <4>2, <4>3, <4>4
    <3> QED BY <2>1, <3>1, <3>2 DEF Closed
  <2> QED BY <2>4, <2>5, <2>7, <2>8
<1>3. CASE CancelArticle(a)
  <2>1. /\ phase = "cancelling" /\ article[a].at = "queued"
        /\ article' = [article EXCEPT ![a].at = "closed"]
        /\ UNCHANGED <<setting, free, articleFree, task, events, phase, output>>
    BY <1>3 DEF CancelArticle
  <2>2. /\ article' \in [Article -> [at : {"queued", "open", "closed"}, found : SUBSET Lens]]
        /\ article'[a].at = "closed" /\ \A b \in Article \ {a} : article'[b] = article[b]
    BY <2>1 DEF FanOutTypeOK
  <2>3. FanOutTypeOK' /\ Attempts' /\ NoneRaises'
    BY <2>1, <2>2 DEF FanOutTypeOK, Attempts, NoneRaises
  <2>4. Nested'
    BY <2>1, <2>2 DEF Nested, Pairs, Calls
  <2>5. Closed'
    BY <2>1, <2>2 DEF Closed, ClosedResult
  <2> QED BY <2>3, <2>4, <2>5
<1> QED BY <1>1, <1>2, <1>3 DEF ArticleStep

LEMMA DocumentKeepsInv ==
  ASSUME FanOutInv, EndDocument \/ Cancel
  PROVE  FanOutInv'
<1> USE DEF FanOutInv
<1>1. UNCHANGED <<setting, free, articleFree, article, task, events>>
  BY DEF EndDocument, Cancel
<1>2. Attempts' /\ Nested'
  BY <1>1 DEF Attempts, Nested
<1>3. \A a \in Article : TasksOf(a)' = TasksOf(a) /\ (\A l \in Lens : Found(<<a, l>>)' = Found(<<a, l>>))
  BY <1>1 DEF TasksOf, Found
<1>4. CASE EndDocument
  <2>1. /\ phase \in {"running", "cancelling"} /\ phase' \in {"returned", "cancelled"}
        /\ phase = "cancelling" => phase' = "cancelled"
        /\ \A a \in Article : article[a].at = "closed"
        /\ output' \subseteq Pairs
    BY <1>4 DEF EndDocument, FanOutTypeOK
  <2>2. FanOutTypeOK' /\ NoneRaises'
    BY <1>1, <2>1 DEF FanOutTypeOK, NoneRaises
  <2>3. Closed'
    BY <1>1, <1>3, <2>1 DEF Closed, ClosedResult
  <2> QED BY <1>2, <2>2, <2>3
<1>5. CASE Cancel
  <2>1. phase = "running" /\ phase' = "cancelling" /\ output' = output
    BY <1>5 DEF Cancel
  <2>2. FanOutTypeOK' /\ NoneRaises' /\ Closed'
    BY <1>1, <2>1 DEF FanOutTypeOK, NoneRaises, Closed, ClosedResult
  <2> QED BY <1>2, <2>2
<1> QED BY <1>4, <1>5

LEMMA StutterKeepsInv ==
  ASSUME FanOutInv, UNCHANGED vars
  PROVE  FanOutInv'
BY DEF FanOutInv, FanOutTypeOK, Attempts, NoneRaises, Nested, Closed, ClosedResult, TasksOf,
       Found, vars

THEOREM FanOutInvariant == Spec => []FanOutInv
<1>1. FanOutInv /\ [Next]_vars => FanOutInv'
  BY TaskKeepsInv, ArticleKeepsInv, DocumentKeepsInv, StutterKeepsInv DEF Next
<1> QED BY InvInit, <1>1, PTL DEF Spec

\* Type correctness of the fan-out (analyze_document and what it calls).
THEOREM FanOutTypes == Spec => []FanOutTypeOK
<1>1. FanOutInv => FanOutTypeOK
  BY DEF FanOutInv
<1> QED BY FanOutInvariant, <1>1, PTL
-----------------------------------------------------------------------------
(* Slots.                                                                  *)

LEMMA PairsFinite == IsFiniteSet(Pairs) /\ IsFiniteSet(Article)
BY FanOutAssumption, FS_Product DEF Pairs

LEMMA RunningFinite == IsFiniteSet(Running) /\ IsFiniteSet(OpenArticles)
<1>1. Running \subseteq Pairs /\ OpenArticles \subseteq Article
  BY DEF Running, OpenArticles
<1> QED BY <1>1, PairsFinite, FS_Subset

LEMMA SlotsInit == Init => SlotsConserved
<1> SUFFICES ASSUME Init PROVE SlotsConserved
  OBVIOUS
<1>1. Running = {} /\ OpenArticles = {}
  BY DEF Init, Running, OpenArticles, NewTask, Calls
<1>2. setting.lensSlots \in Nat /\ setting.articleSlots \in Nat
  BY FanOutAssumption DEF Init, Setting
<1> QED BY <1>1, <1>2, FS_EmptySet DEF Init, SlotsConserved

LEMMA TaskKeepsSlots ==
  ASSUME FanOutInv, SlotsConserved, NEW p \in Pairs, TaskStep(p)
  PROVE  SlotsConserved'
<1>1. PICK t \in Task : Moves(p, t)
  BY TaskMoves
<1>2. /\ task' = [task EXCEPT ![p] = t] /\ task \in [Pairs -> Task]
      /\ task'[p] = t /\ \A q \in Pairs \ {p} : task'[q] = task[q]
      /\ UNCHANGED <<setting, articleFree, article>>
  BY <1>1 DEF Moves, FanOutInv, FanOutTypeOK
<1>3. OpenArticles' = OpenArticles
  BY <1>2 DEF OpenArticles
<1>4. IsFiniteSet(Running) /\ Cardinality(Running) \in Nat
  BY RunningFinite, FS_CardinalityType
<1>5. free \in Nat /\ setting.lensSlots \in Nat
  BY FanOutAssumption DEF FanOutInv, FanOutTypeOK, Setting
<1>6. free' + Cardinality(Running') = setting.lensSlots
  <2>1. CASE task[p].at \notin Calls /\ t.at \in Calls
    <3>1. Running' = Running \cup {p} /\ p \notin Running
      BY <1>2, <2>1 DEF Running
    <3>2. free' = free - 1
      BY <1>1, <2>1 DEF Moves, Calls
    <3>3. Cardinality(Running') = Cardinality(Running) + 1
      BY <1>4, <3>1, FS_AddElement
    <3> QED BY <1>4, <1>5, <3>2, <3>3 DEF SlotsConserved
  <2>2. CASE task[p].at \in Calls /\ t.at \notin Calls
    <3>1. Running' = Running \ {p} /\ p \in Running
      BY <1>2, <2>2 DEF Running
    <3>2. free' = free + 1
      BY <1>1, <2>2 DEF Moves, Calls
    <3>3. Cardinality(Running') = Cardinality(Running) - 1
      BY <1>4, <3>1, FS_RemoveElement
    <3> QED BY <1>4, <1>5, <3>2, <3>3 DEF SlotsConserved
  <2>3. CASE (task[p].at \in Calls) <=> (t.at \in Calls)
    <3>1. Running' = Running
      BY <1>2, <2>3 DEF Running
    <3>2. free' = free
      BY <1>1, <2>3 DEF Moves, Calls
    <3> QED BY <3>1, <3>2 DEF SlotsConserved
  <2> QED BY <2>1, <2>2, <2>3
<1> QED BY <1>2, <1>3, <1>6 DEF SlotsConserved

LEMMA ArticleKeepsSlots ==
  ASSUME FanOutInv, SlotsConserved, NEW a \in Article, ArticleStep(a)
  PROVE  SlotsConserved'
<1>1. UNCHANGED <<setting, free>>
  BY DEF ArticleStep, OpenArticle, CloseArticle, CancelArticle
<1>2. Running' = Running
  <2>1. CASE OpenArticle(a)
    <3>1. /\ \A q \in Pairs : q[1] = a => task[q].at = "new"
          /\ task' = [q \in Pairs |-> IF q[1] = a THEN [task[q] EXCEPT !.at = "queued"] ELSE task[q]]
      BY <2>1 DEF OpenArticle, FanOutInv, Nested
    <3>2. \A q \in Pairs : q[1] = a => task[q].at \notin Calls /\ task'[q].at \notin Calls
      BY <3>1 DEF FanOutInv, FanOutTypeOK, Task, Calls
    <3>3. \A q \in Pairs : q[1] # a => task'[q] = task[q]
      BY <3>1
    <3> QED BY <3>2, <3>3 DEF Running
  <2>2. CASE CloseArticle(a) \/ CancelArticle(a)
    BY <2>2 DEF CloseArticle, CancelArticle, Running
  <2> QED BY <2>1, <2>2 DEF ArticleStep
<1>3. IsFiniteSet(OpenArticles) /\ Cardinality(OpenArticles) \in Nat
  BY RunningFinite, FS_CardinalityType
<1>4. articleFree \in Nat /\ setting.articleSlots \in Nat
  BY FanOutAssumption DEF FanOutInv, FanOutTypeOK, Setting
<1>5. articleFree' + Cardinality(OpenArticles') = setting.articleSlots
  <2>1. CASE OpenArticle(a)
    <3>1. OpenArticles' = OpenArticles \cup {a} /\ a \notin OpenArticles
      BY <2>1 DEF OpenArticle, OpenArticles, FanOutInv, FanOutTypeOK
    <3>2. articleFree' = articleFree - 1
      BY <2>1 DEF OpenArticle
    <3>3. Cardinality(OpenArticles') = Cardinality(OpenArticles) + 1
      BY <1>3, <3>1, FS_AddElement
    <3> QED BY <1>3, <1>4, <3>2, <3>3 DEF SlotsConserved
  <2>2. CASE CloseArticle(a)
    <3>1. OpenArticles' = OpenArticles \ {a} /\ a \in OpenArticles
      BY <2>2 DEF CloseArticle, OpenArticles, FanOutInv, FanOutTypeOK
    <3>2. articleFree' = articleFree + 1
      BY <2>2 DEF CloseArticle
    <3>3. Cardinality(OpenArticles') = Cardinality(OpenArticles) - 1
      BY <1>3, <3>1, FS_RemoveElement
    <3> QED BY <1>3, <1>4, <3>2, <3>3 DEF SlotsConserved
  <2>3. CASE CancelArticle(a)
    <3>1. OpenArticles' = OpenArticles /\ articleFree' = articleFree
      BY <2>3 DEF CancelArticle, OpenArticles, FanOutInv, FanOutTypeOK
    <3> QED BY <3>1 DEF SlotsConserved
  <2> QED BY <2>1, <2>2, <2>3 DEF ArticleStep
<1> QED BY <1>1, <1>2, <1>5 DEF SlotsConserved

\* Free slots and slots in use add up, for any document and any semaphores.
THEOREM SlotsAreConserved == Spec => []SlotsConserved
<1>1. FanOutInv /\ SlotsConserved /\ [Next]_vars => SlotsConserved'
  <2> SUFFICES ASSUME FanOutInv, SlotsConserved, [Next]_vars PROVE SlotsConserved'
    OBVIOUS
  <2>1. CASE EndDocument \/ Cancel \/ UNCHANGED vars
    BY <2>1 DEF EndDocument, Cancel, vars, SlotsConserved, Running, OpenArticles
  <2> QED BY <2>1, TaskKeepsSlots, ArticleKeepsSlots DEF Next
<1> QED BY FanOutInvariant, SlotsInit, <1>1, PTL DEF Spec
-----------------------------------------------------------------------------
(* No lens fails in silence.                                               *)

LEMMA TaskKeepsReports ==
  ASSUME FanOutInv, SilentMeansAnswered, NEW p \in Pairs, TaskStep(p)
  PROVE  SilentMeansAnswered'
<1>1. PICK t \in Task : Moves(p, t)
  BY TaskMoves
<1>2. /\ task'[p] = t /\ \A q \in Pairs \ {p} : task'[q] = task[q]
      /\ events \subseteq events'
  BY <1>1 DEF Moves, FanOutInv, FanOutTypeOK
<1>3. t.at = "done" => \/ t.outcome \in {"found", "nothing"}
                       \/ [pair |-> p, tier |-> t.tier] \in events'
  BY <1>1 DEF Moves
<1> QED BY <1>2, <1>3 DEF SilentMeansAnswered, Found

LEMMA OpeningKeepsReports ==
  ASSUME FanOutInv, SilentMeansAnswered, NEW a \in Article, OpenArticle(a)
  PROVE  SilentMeansAnswered'
<1>1. /\ task' = [q \in Pairs |-> IF q[1] = a THEN [task[q] EXCEPT !.at = "queued"] ELSE task[q]]
      /\ events' = events
  BY DEF OpenArticle
<1>2. \A q \in Pairs : IF q[1] = a THEN task'[q].at = "queued" ELSE task'[q] = task[q]
  BY <1>1 DEF FanOutInv, FanOutTypeOK, Task
<1> QED BY <1>1, <1>2 DEF SilentMeansAnswered, Found

\* Every lens without findings was answered, or its failure was reported.
THEOREM NoSilentLens == Spec => []SilentMeansAnswered
<1>1. Init => SilentMeansAnswered
  BY DEF Init, SilentMeansAnswered, NewTask
<1>2. FanOutInv /\ SilentMeansAnswered /\ [Next]_vars => SilentMeansAnswered'
  <2> SUFFICES ASSUME FanOutInv, SilentMeansAnswered, [Next]_vars PROVE SilentMeansAnswered'
    OBVIOUS
  <2>1. CASE EndDocument \/ Cancel \/ UNCHANGED vars
             \/ \E a \in Article : CloseArticle(a) \/ CancelArticle(a)
    BY <2>1 DEF EndDocument, Cancel, vars, CloseArticle, CancelArticle, SilentMeansAnswered, Found
  <2> QED BY <2>1, TaskKeepsReports, OpeningKeepsReports DEF Next, ArticleStep
<1> QED BY FanOutInvariant, <1>1, <1>2, PTL DEF Spec
-----------------------------------------------------------------------------
(* How a lens climbs the tiers.                                            *)

Climbing == \A p \in Pairs : OnLadder(task[p])

LEMMA TaskKeepsClimbing ==
  ASSUME FanOutInv, Climbing, NEW p \in Pairs, TaskStep(p)
  PROVE  Climbing'
<1>1. PICK t \in Task : Moves(p, t)
  BY TaskMoves
<1>2. /\ task'[p] = t /\ \A q \in Pairs \ {p} : task'[q] = task[q]
      /\ setting' = setting
  BY <1>1 DEF Moves, FanOutInv, FanOutTypeOK
<1>3. OnLadder(t)
  BY <1>1 DEF Moves, Climbing
<1> QED BY <1>2, <1>3 DEF Climbing, OnLadder

LEMMA OpeningKeepsClimbing ==
  ASSUME FanOutInv, Climbing, NEW a \in Article, OpenArticle(a)
  PROVE  Climbing'
<1>1. /\ task' = [q \in Pairs |-> IF q[1] = a THEN [task[q] EXCEPT !.at = "queued"] ELSE task[q]]
      /\ setting' = setting
  BY DEF OpenArticle
<1>2. \A q \in Pairs : IF q[1] = a
                        THEN /\ task'[q].at = "queued"
                             /\ task'[q].attempt = task[q].attempt
                             /\ task'[q].tier = task[q].tier
                        ELSE task'[q] = task[q]
  BY <1>1 DEF FanOutInv, FanOutTypeOK, Task
<1> QED BY <1>1, <1>2 DEF Climbing, OnLadder, Calls

\* A lens gives up late: after its second try, one tier above its first, or at
\* the highest tier, where the route cascades and the router works.
THEOREM LensesGiveUpLate == Spec => []GivesUpLate
<1>1. Init => Climbing
  BY DEF Init, Climbing, OnLadder, NewTask, Calls
<1>2. FanOutInv /\ Climbing /\ [Next]_vars => Climbing'
  <2> SUFFICES ASSUME FanOutInv, Climbing, [Next]_vars PROVE Climbing'
    OBVIOUS
  <2>1. CASE EndDocument \/ Cancel \/ UNCHANGED vars
             \/ \E a \in Article : CloseArticle(a) \/ CancelArticle(a)
    BY <2>1 DEF EndDocument, Cancel, vars, CloseArticle, CancelArticle, Climbing, OnLadder
  <2> QED BY <2>1, TaskKeepsClimbing, OpeningKeepsClimbing DEF Next, ArticleStep
<1>3. Climbing => GivesUpLate
  BY DEF Climbing, OnLadder, GivesUpLate, Found
<1> QED BY FanOutInvariant, <1>1, <1>2, <1>3, PTL DEF Spec
-----------------------------------------------------------------------------
(* The fan-out implements the table of independent cells.                  *)

LEMMA TaskImplements ==
  ASSUME FanOutInv, NEW p \in Pairs, TaskStep(p)
  PROVE  Table!Next \/ UNCHANGED <<Verdict, Visible, output>>
<1>1. PICK t \in Task : Moves(p, t)
  BY TaskMoves
<1>2. /\ task'[p] = t /\ \A q \in Pairs \ {p} : task'[q] = task[q]
      /\ UNCHANGED <<article, phase, output>>
      /\ task[p].at \in Calls \cup {"queued"}
  BY <1>1 DEF Moves, FanOutInv, FanOutTypeOK
<1>3. Visible = "running" /\ Visible' = Visible
  <2>1. article[p[1]].at = "open" /\ p[1] \in Article
    BY <1>2 DEF FanOutInv, Nested, Pairs
  <2>2. phase \notin {"returned", "cancelled"}
    BY <2>1 DEF FanOutInv, Closed
  <2> QED BY <1>2, <2>2 DEF Visible, FanOutInv, FanOutTypeOK
<1> DEFINE v == IF t.at # "done" THEN "open" ELSE IF t.outcome = "found" THEN "found" ELSE "none"
<1>4. Verdict[p] = "open" /\ Verdict' = [Verdict EXCEPT ![p] = v]
  BY <1>2 DEF Verdict, Found, Calls
<1>5. CASE v = "open"
  <2>1. Verdict' = Verdict
    BY <1>4, <1>5 DEF Verdict
  <2> QED BY <1>2, <1>3, <2>1
<1>6. CASE v # "open"
  <2>1. v \in {"found", "none"}
    BY <1>6
  <2>2. Table!Decide(p, v)
    BY <1>2, <1>3, <1>4 DEF Table!Decide
  <2> QED BY <2>1, <2>2 DEF Table!Next
<1> QED BY <1>5, <1>6

LEMMA ArticleImplements ==
  ASSUME FanOutInv, NEW a \in Article, ArticleStep(a)
  PROVE  UNCHANGED <<Verdict, Visible, output>>
<1>1. UNCHANGED <<phase, output>>
  BY DEF ArticleStep, OpenArticle, CloseArticle, CancelArticle
<1>2. Verdict' = Verdict
  <2>1. CASE OpenArticle(a)
    <3>1. /\ \A q \in Pairs : q[1] = a => task[q].at = "new"
          /\ task' = [q \in Pairs |-> IF q[1] = a THEN [task[q] EXCEPT !.at = "queued"] ELSE task[q]]
      BY <2>1 DEF OpenArticle, FanOutInv, Nested
    <3>2. \A q \in Pairs : IF q[1] = a THEN task[q].at = "new" /\ task'[q].at = "queued"
                                       ELSE task'[q] = task[q]
      BY <3>1 DEF FanOutInv, FanOutTypeOK, Task
    <3> QED BY <3>2 DEF Verdict, Found
  <2>2. CASE CloseArticle(a) \/ CancelArticle(a)
    BY <2>2 DEF CloseArticle, CancelArticle, Verdict, Found
  <2> QED BY <2>1, <2>2 DEF ArticleStep
<1> QED BY <1>1, <1>2 DEF Visible

LEMMA DocumentImplements ==
  ASSUME FanOutInv, EndDocument \/ Cancel
  PROVE  Table!Next \/ UNCHANGED <<Verdict, Visible, output>>
<1>1. task' = task /\ Verdict' = Verdict
  BY DEF EndDocument, Cancel, Verdict, Found
<1>2. CASE EndDocument /\ phase = "running"
  <2>1. /\ phase' = "returned" /\ \A a \in Article : article[a].at = "closed"
        /\ output' = {p \in Pairs : p[2] \in article[p[1]].found}
    BY <1>2 DEF EndDocument
  <2>2. \A a \in Article : /\ \A p \in TasksOf(a) : task[p].at = "done"
                           /\ article[a].found = {l \in Lens : Found(<<a, l>>)}
    BY <1>2, <2>1 DEF FanOutInv, Closed, ClosedResult
  <2>3. \A p \in Pairs : p[1] \in Article /\ p[2] \in Lens /\ p = <<p[1], p[2]>> /\ p \in TasksOf(p[1])
    BY DEF Pairs, TasksOf
  <2>4. \A p \in Pairs : task[p].at = "done" /\ (p[2] \in article[p[1]].found <=> Found(p))
    BY <2>2, <2>3
  <2>5. \A p \in Pairs : Verdict[p] # "open" /\ (Verdict[p] = "found" <=> Found(p))
    BY <2>4 DEF Verdict
  <2>6. output' = {p \in Pairs : Verdict[p] = "found"}
    BY <2>1, <2>4, <2>5
  <2>7. Visible = "running" /\ Visible' = "returned"
    BY <1>2, <2>1 DEF Visible
  <2> QED BY <1>1, <2>5, <2>6, <2>7 DEF Table!Next, Table!Return
<1>3. CASE EndDocument /\ phase = "cancelling"
  <2>1. Visible = "running" /\ Visible' = "cancelled" /\ output' = output
    BY <1>3 DEF EndDocument, Visible
  <2> QED BY <1>1, <2>1 DEF Table!Next, Table!Abort
<1>4. CASE Cancel
  BY <1>1, <1>4 DEF Cancel, Visible
<1> QED BY <1>2, <1>3, <1>4 DEF EndDocument

\* analyze_document() implements the table: every cell is decided once and for
\* itself, and what is returned is exactly the cells with findings.
THEOREM FanOutIsTable == Spec => ImplementsTable
<1>1. Init => Table!Init
  BY DEF Init, Table!Init, Verdict, Visible, NewTask
<1>2. FanOutInv /\ [Next]_vars => [Table!Next]_(Table!vars)
  <2> SUFFICES ASSUME FanOutInv, [Next]_vars
               PROVE  Table!Next \/ UNCHANGED <<Verdict, Visible, output>>
    BY DEF Table!vars
  <2>1. CASE UNCHANGED vars
    BY <2>1 DEF vars, Verdict, Visible, Found
  <2> QED BY <2>1, TaskImplements, ArticleImplements, DocumentImplements DEF Next
<1> QED BY FanOutInvariant, <1>1, <1>2, PTL DEF Spec, ImplementsTable, Table!Spec
================================================================================
