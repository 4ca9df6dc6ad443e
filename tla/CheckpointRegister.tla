-------------------------- MODULE CheckpointRegister --------------------------
(***************************************************************************)
(* What the checkpoint store promises its users: one register that holds a *)
(* whole checkpoint or none.  A save takes effect at one moment or not at  *)
(* all, whatever crashes or fails; a load returns what the register held   *)
(* at one moment of the load, or nothing.                                  *)
(***************************************************************************)
CONSTANTS Process, Data, Nil

VARIABLES
  value,      \* the checkpoint the register holds, or Nil
  saving,     \* saving[p]: what the save of p will store, Nil without one
  loading     \* loading[p]: what the load of p has seen, Nil without one

vars == <<value, saving, loading>>

Init ==
  /\ value = Nil
  /\ saving = [p \in Process |-> Nil]
  /\ loading = [p \in Process |-> Nil]

Idle(p) == saving[p] = Nil /\ loading[p] = Nil

BeginSave(p, data) ==
  /\ Idle(p)
  /\ saving' = [saving EXCEPT ![p] = data]
  /\ UNCHANGED <<value, loading>>

\* The save takes effect and returns.
CommitSave(p) ==
  /\ saving[p] # Nil
  /\ value' = saving[p]
  /\ saving' = [saving EXCEPT ![p] = Nil]
  /\ UNCHANGED loading

\* The save fails, or its process dies: no effect.
AbortSave(p) ==
  /\ saving[p] # Nil
  /\ saving' = [saving EXCEPT ![p] = Nil]
  /\ UNCHANGED <<value, loading>>

BeginLoad(p) ==
  /\ Idle(p)
  /\ value # Nil
  /\ loading' = [loading EXCEPT ![p] = value]
  /\ UNCHANGED <<value, saving>>

EndLoad(p) ==
  /\ loading[p] # Nil
  /\ loading' = [loading EXCEPT ![p] = Nil]
  /\ UNCHANGED <<value, saving>>

Delete(p) ==
  /\ Idle(p)
  /\ value' = Nil
  /\ UNCHANGED <<saving, loading>>

Next ==
  \E p \in Process :
    \/ \E data \in Data : BeginSave(p, data)
    \/ CommitSave(p) \/ AbortSave(p)
    \/ BeginLoad(p) \/ EndLoad(p)
    \/ Delete(p)

Spec == Init /\ [][Next]_vars
=============================================================================
