----------------------------- MODULE FindingFates -----------------------------
(***************************************************************************)
(* What the verification chain promises about the findings it is given:    *)
(* each is kept or removed once and for good, and what is published is     *)
(* every kept finding, once, in some order, and nothing else.              *)
(***************************************************************************)
EXTENDS FiniteSets, Sequences

VARIABLES
  fate,       \* fate[i]: "open", "kept" or "removed"
  phase,      \* "running", "published" or "cancelled"
  output      \* the published findings in order

vars == <<fate, phase, output>>

Init ==
  /\ fate = [i \in DOMAIN fate |-> "open"]
  /\ phase = "running"
  /\ output = <<>>

\* Some open findings meet their fates.
Decide ==
  /\ phase = "running"
  /\ fate' \in [DOMAIN fate -> {"open", "kept", "removed"}]
  /\ \A i \in DOMAIN fate : fate[i] # "open" => fate'[i] = fate[i]
  /\ UNCHANGED <<phase, output>>

Kept == {i \in DOMAIN fate : fate[i] = "kept"}

\* No finding is open: those kept are published, each once.
Publish ==
  /\ phase = "running" /\ phase' = "published"
  /\ \A i \in DOMAIN fate : fate[i] # "open"
  /\ Len(output') = Cardinality(Kept)
  /\ {output'[k] : k \in DOMAIN output'} = Kept
  /\ UNCHANGED fate

Abort ==
  /\ phase = "running" /\ phase' = "cancelled"
  /\ UNCHANGED <<fate, output>>

Next == Decide \/ Publish \/ Abort

Spec == Init /\ [][Next]_vars
===============================================================================
