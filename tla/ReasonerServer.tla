--------------------------- MODULE ReasonerServer ---------------------------
(***************************************************************************)
(* The lifecycle of the Reasoner backend (reasoner/server_manager.py): one *)
(* ReasonerServerManager per `leggie` process, all of them probing, and    *)
(* possibly spawning for, the same port.  The manager reuses whatever      *)
(* healthy Reasoner it finds, spawns one when it may, polls it until it    *)
(* answers, and stops only the process it spawned itself.                  *)
(*                                                                         *)
(* The spawned uvicorn, the port and a Reasoner started by hand are the    *)
(* environment: they are modelled from how the manager uses them.          *)
(***************************************************************************)
EXTENDS Integers

CONSTANTS Runner,       \* the `leggie` processes that share the port
          Outside,      \* what may hold the port at first, besides nobody:
                        \* a subset of {"reasoner", "foreign"}
          MaxPolls      \* health polls that fit in startup_timeout

ASSUME PollsAssumption == MaxPolls \in Nat \ {0}
ASSUME RunnerAssumption == Runner \cap {"nobody", "reasoner", "foreign"} = {}
ASSUME OutsideAssumption == Outside \subseteq {"reasoner", "foreign"}

VARIABLES
  options,  \* per process, the ReasonerSettings and the flags of its command
  port,     \* who listens: "nobody", "reasoner" (by hand), "foreign", a runner
  child,    \* the process a runner spawned, as the operating system sees it
  handle,   \* self._process is not None
  manager,  \* where the manager is in ensure_running or shutdown
  polls     \* iterations of _wait_until_healthy so far

serverVars == <<port, child, handle, manager, polls>>

Options == [enabled : BOOLEAN, autostart : BOOLEAN, fallback : BOOLEAN]
Alive(r) == child[r] \in {"starting", "serving", "terminating"}
ReasonerAnswers == port \in Runner \cup {"reasoner"}

ServerInit ==
  /\ port \in {"nobody"} \cup Outside
  /\ child = [r \in Runner |-> "none"]
  /\ handle = [r \in Runner |-> FALSE]
  /\ manager = [r \in Runner |-> "idle"]
  /\ polls = [r \in Runner |-> 0]

GoTo(r, place) == manager' = [manager EXCEPT ![r] = place]

-----------------------------------------------------------------------------
(* ensure_running: the first probe.                                        *)

\* GET /openapi.json came back from a Reasoner: reuse it, whoever started it.
ProbeHealthy(r) ==
  /\ manager[r] = "probing"
  /\ ReasonerAnswers
  /\ GoTo(r, "ready")
  /\ UNCHANGED <<port, child, handle, polls>>

\* A service without the agent-run path: the probe itself raises.
ProbeForeign(r) ==
  /\ manager[r] \in {"probing", "polling"}
  /\ port = "foreign"
  /\ GoTo(r, "failed")
  /\ UNCHANGED <<port, child, handle, polls>>

\* Unreachable, over the 5 s of the client, not a 200 or not an object: the
\* probe says "not healthy" and the manager, allowed to autostart, spawns.
\* The spawn fails when home is unset or missing, or Popen raises.
Spawn(r) ==
  /\ manager[r] = "probing"
  /\ \/ /\ options[r].autostart
        /\ child' = [child EXCEPT ![r] = "starting"]
        /\ handle' = [handle EXCEPT ![r] = TRUE]
        /\ polls' = [polls EXCEPT ![r] = 0]
        /\ GoTo(r, "waiting")
     \/ /\ GoTo(r, "failed")
        /\ UNCHANGED <<child, handle, polls>>
  /\ UNCHANGED port

(* _wait_until_healthy: the deadline, then poll(), then the probe.         *)

WaitTimeout(r) ==
  /\ manager[r] = "waiting"
  /\ polls[r] > 0
  /\ GoTo(r, "failed")
  /\ UNCHANGED <<port, child, handle, polls>>

WaitPoll(r) ==
  /\ manager[r] = "waiting"
  /\ polls[r] < MaxPolls
  /\ IF Alive(r) THEN GoTo(r, "polling") ELSE GoTo(r, "failed")
  /\ polls' = [polls EXCEPT ![r] = @ + 1]
  /\ UNCHANGED <<port, child, handle>>

\* Any Reasoner on the port will do, the one another process spawned too.
WaitHealthy(r) ==
  /\ manager[r] = "polling"
  /\ ReasonerAnswers
  /\ GoTo(r, "ready")
  /\ UNCHANGED <<port, child, handle, polls>>

\* Mutant of WaitAgain: the deadline starts over with every poll.
WaitAgainFromStart(r) ==
  /\ manager[r] = "polling"
  /\ GoTo(r, "waiting")
  /\ polls' = [polls EXCEPT ![r] = 0]
  /\ UNCHANGED <<port, child, handle>>

WaitAgain(r) ==
  /\ manager[r] = "polling"
  /\ GoTo(r, "waiting")
  /\ UNCHANGED <<port, child, handle, polls>>

-----------------------------------------------------------------------------
(* shutdown: terminate, wait up to five seconds, kill.  The wait blocks    *)
(* the process: nothing else of it runs until the child is gone.           *)

Shutdown(r) ==
  /\ manager[r] = "stop"
  /\ IF handle[r] /\ Alive(r)
       THEN /\ child' = [child EXCEPT ![r] = "terminating"]
            /\ GoTo(r, "stopping")
            /\ UNCHANGED handle
       ELSE /\ handle' = [handle EXCEPT ![r] = FALSE]
            /\ GoTo(r, "stopped")
            /\ UNCHANGED child
  /\ UNCHANGED <<port, polls>>

Freed(r) == IF port = r THEN "nobody" ELSE port

\* wait() saw the child go, or ran out of time and kill() ended it.
Reaped(r) ==
  /\ manager[r] = "stopping"
  /\ child[r] = "gone"
  /\ handle' = [handle EXCEPT ![r] = FALSE]
  /\ GoTo(r, "stopped")
  /\ UNCHANGED <<port, child, polls>>

Kill(r) ==
  /\ manager[r] = "stopping"
  /\ child[r] # "gone"
  /\ child' = [child EXCEPT ![r] = "gone"]
  /\ port' = Freed(r)
  /\ handle' = [handle EXCEPT ![r] = FALSE]
  /\ GoTo(r, "stopped")
  /\ UNCHANGED polls

-----------------------------------------------------------------------------
(* The environment.                                                        *)

\* uvicorn binds the port, or finds it taken and exits.
ChildBinds(r) ==
  /\ child[r] = "starting"
  /\ IF port = "nobody"
       THEN child' = [child EXCEPT ![r] = "serving"] /\ port' = r
       ELSE child' = [child EXCEPT ![r] = "gone"] /\ UNCHANGED port
  /\ UNCHANGED <<handle, manager, polls>>

\* It crashes, or leaves on the SIGTERM it was sent.
ChildExits(r) ==
  /\ Alive(r)
  /\ child' = [child EXCEPT ![r] = "gone"]
  /\ port' = Freed(r)
  /\ UNCHANGED <<handle, manager, polls>>

ManagerStep(r) ==
  \/ ProbeHealthy(r) \/ ProbeForeign(r) \/ Spawn(r)
  \/ WaitTimeout(r) \/ WaitPoll(r) \/ WaitHealthy(r) \/ WaitAgain(r)
  \/ Shutdown(r) \/ Reaped(r) \/ Kill(r)

Environment == \E r \in Runner : ChildBinds(r) \/ ChildExits(r)
=============================================================================
