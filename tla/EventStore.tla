----------------------------- MODULE EventStore -----------------------------
(***************************************************************************)
(* SqliteEventStore (persistence/sqlite_event_store.py): an append-only    *)
(* table of events, numbered per run by a counter every process keeps for  *)
(* itself, and the replay that reads a run back in the order of those      *)
(* numbers.  Publishers run one after another here: each opens the file,   *)
(* publishes, and closes it or dies.                                       *)
(***************************************************************************)
EXTENDS Integers, FiniteSets

CONSTANTS Run,           \* run ids
          EventType,
          MaxPublished,  \* bound on publish() calls
          MaxLives       \* bound on the processes that open the store

ASSUME StoreAssumption == MaxPublished \in Nat /\ MaxLives \in Nat

VARIABLES
  rows,     \* the table: event id, run, seq, type; life tells who published it
  next,     \* self._seq of the process that has the store open
  open,     \* self._conn is not None
  lives,    \* processes that opened the store so far
  calls     \* publish() calls so far; a row's id is the call that made it

storeVars == <<rows, next, open, lives, calls>>

StoredEvent == [id : Nat, run : Run, seq : Nat, type : EventType, life : Nat]

StoreInit ==
  /\ rows = {}
  /\ next = [u \in Run |-> 0]
  /\ open = FALSE
  /\ lives = 0
  /\ calls = 0

OfRun(u) == {row \in rows : row.run = u}

\* The row the next call writes for run u.
NewRow(u, type) ==
  [id |-> calls + 1, run |-> u, seq |-> next[u] + 1, type |-> type, life |-> lives]

-----------------------------------------------------------------------------
\* __init__ and _ensure_db: the table survives, the counters start over.
OpenStore ==
  /\ ~open
  /\ lives < MaxLives
  /\ open' = TRUE
  /\ lives' = lives + 1
  /\ next' = [u \in Run |-> 0]
  /\ UNCHANGED <<rows, calls>>

MayPublish == open /\ calls < MaxPublished

\* Mutant of Publish: the counter is read and not written back.
PublishUncounted(u, type) ==
  /\ MayPublish
  /\ calls' = calls + 1
  /\ rows' = rows \cup {NewRow(u, type)}
  /\ UNCHANGED <<next, open, lives>>

\* publish(): the number is taken and the row inserted under one lock.
Publish(u, type) ==
  /\ MayPublish
  /\ calls' = calls + 1
  /\ next' = [next EXCEPT ![u] = @ + 1]
  /\ rows' = rows \cup {NewRow(u, type)}
  /\ UNCHANGED <<open, lives>>

\* The same event again (INSERT OR IGNORE), or a database another process
\* has locked: the number is used up and no row is added.
PublishLost(u) ==
  /\ MayPublish
  /\ calls' = calls + 1
  /\ next' = [next EXCEPT ![u] = @ + 1]
  /\ UNCHANGED <<rows, open, lives>>

\* close(), or the end of the process: every committed row stays.
CloseStore ==
  /\ open
  /\ open' = FALSE
  /\ UNCHANGED <<rows, next, lives, calls>>

\* clear(): rows and counters together.
ClearStore ==
  /\ open
  /\ rows # {}
  /\ rows' = {}
  /\ next' = [u \in Run |-> 0]
  /\ UNCHANGED <<open, lives, calls>>

StoreStep ==
  \/ OpenStore \/ CloseStore \/ ClearStore
  \/ \E u \in Run : PublishLost(u) \/ \E type \in EventType : Publish(u, type)

-----------------------------------------------------------------------------
\* replay(): SELECT ... WHERE run_id = ? ORDER BY seq.
Replay(u) ==
  {s \in [1..Cardinality(OfRun(u)) -> OfRun(u)] :
     \A i, j \in DOMAIN s : i < j => s[i] # s[j] /\ s[i].seq <= s[j].seq}

StoreSpec == StoreInit /\ [][StoreStep]_storeVars

\* replay() never turns round two events one process published for a run,
\* whatever was lost in between, whoever published before and whatever the
\* same process published for other runs.  More does not hold: a run that
\* a second process resumes is numbered from 1 again, and its two lives come
\* back interleaved.
ReplayInOrder ==
  \A u \in Run : \A s \in Replay(u) :
    \A i, j \in DOMAIN s :
      i < j /\ s[i].life = s[j].life => s[i].id < s[j].id
=============================================================================
