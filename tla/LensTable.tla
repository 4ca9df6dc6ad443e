------------------------------- MODULE LensTable -------------------------------
(***************************************************************************)
(* What the fan-out of a document promises: a table with one cell for each *)
(* (article, lens) pair.  Each cell is decided once and for itself; what   *)
(* is returned is every cell with findings, and nothing is returned before *)
(* every cell is decided, or after the analysis was cancelled.             *)
(***************************************************************************)
CONSTANT Pairs

VARIABLES
  verdict,    \* verdict[p]: "open", "found" or "none"
  phase,      \* "running", "returned" or "cancelled"
  output      \* the pairs whose findings are returned

vars == <<verdict, phase, output>>

Init ==
  /\ verdict = [p \in Pairs |-> "open"]
  /\ phase = "running"
  /\ output = {}

Decide(p, v) ==
  /\ phase = "running"
  /\ verdict[p] = "open"
  /\ verdict' = [verdict EXCEPT ![p] = v]
  /\ UNCHANGED <<phase, output>>

Return ==
  /\ phase = "running"
  /\ \A p \in Pairs : verdict[p] # "open"
  /\ phase' = "returned"
  /\ output' = {p \in Pairs : verdict[p] = "found"}
  /\ UNCHANGED verdict

Abort ==
  /\ phase = "running"
  /\ phase' = "cancelled"
  /\ UNCHANGED <<verdict, output>>

Next ==
  \/ \E p \in Pairs, v \in {"found", "none"} : Decide(p, v)
  \/ Return
  \/ Abort

Spec == Init /\ [][Next]_vars
================================================================================
