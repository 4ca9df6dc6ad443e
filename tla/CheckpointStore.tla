--------------------------- MODULE CheckpointStore ---------------------------
(***************************************************************************)
(* leggie/infrastructure/persistence/checkpoint_store.py: the checkpoint   *)
(* file, written by way of a temporary file of its own and a rename that   *)
(* is tried up to MaxAttempts times, by processes that may die anywhere.   *)
(*                                                                         *)
(* The file system is a directory of names over inodes: opening a name for *)
(* writing truncates the inode it has, or makes a new one; a rename moves  *)
(* an inode to the checkpoint's name in one step; an open file follows its *)
(* inode.  A file being written is torn until the last byte.               *)
(***************************************************************************)
EXTENDS Naturals

CONSTANTS
  Process,      \* processes that share the checkpoint path
  Data,         \* checkpoints
  Torn,         \* what a file holds that was not written to the end
  Nil,          \* no checkpoint
  MaxAttempts,  \* tries of the rename: 5 in the code
  MaxSaves      \* bound: calls of save()

\* uuid4: every call of save() gets an id nobody else has.
Id == 1..MaxSaves
Destination == 0
NoFile == 0

ASSUME StoreAssumption ==
  /\ Torn \notin Data /\ Nil \notin Data
  /\ MaxAttempts \in Nat \ {0} /\ MaxSaves \in Nat

VARIABLES
  dir,        \* dir[n]: the inode named n, or NoFile
  bytes,      \* bytes[i]: what inode i holds
  proc,       \* proc[p]: the call process p is in
  saves,      \* calls of save() so far
  abandoned   \* history: temporary files left by a crash or a failed write

vars == <<dir, bytes, proc, saves, abandoned>>

NoCall == [pc |-> "idle", data |-> Nil, tmp |-> 0, inode |-> NoFile, attempt |-> 0]

Init ==
  /\ dir = [n \in {Destination} \cup Id |-> NoFile]
  /\ bytes = [i \in Id |-> Torn]
  /\ proc = [p \in Process |-> NoCall]
  /\ saves = 0
  /\ abandoned = {}

Return(p) == proc' = [proc EXCEPT ![p] = NoCall]

\* Mutants of TmpName: the old with_suffix(".tmp"), one name for all; writing
\* to the checkpoint file itself.
TmpNameShared(id) == 1
TmpNameDirect(id) == Destination

\* The name of the temporary file of call id.
TmpName(id) == id

SaveOpen(p, data) ==
  LET id == saves + 1
      name == TmpName(id)
      inode == IF dir[name] = NoFile THEN id ELSE dir[name]
  IN  /\ proc[p].pc = "idle"
      /\ saves < MaxSaves
      /\ saves' = id
      /\ dir' = [dir EXCEPT ![name] = inode]
      /\ bytes' = [bytes EXCEPT ![inode] = Torn]
      /\ proc' = [proc EXCEPT ![p] = [pc |-> "writing", data |-> data, tmp |-> name,
                                      inode |-> inode, attempt |-> 0]]
      /\ UNCHANGED abandoned

\* json.dump() and close().
SaveWrite(p) ==
  /\ proc[p].pc = "writing"
  /\ bytes' = [bytes EXCEPT ![proc[p].inode] = proc[p].data]
  /\ proc' = [proc EXCEPT ![p].pc = "renaming"]
  /\ UNCHANGED <<dir, saves, abandoned>>

\* The write raises: the error leaves save(), the temporary file stays.
WriteFails(p) ==
  /\ proc[p].pc = "writing"
  /\ Return(p)
  /\ abandoned' = abandoned \cup {proc[p].tmp}
  /\ UNCHANGED <<dir, bytes, saves>>

Rename(p) ==
  /\ proc[p].pc = "renaming"
  /\ dir[proc[p].tmp] # NoFile
  /\ dir' = [dir EXCEPT ![proc[p].tmp] = NoFile,
                        ![Destination] = dir[proc[p].tmp]]
  /\ Return(p)
  /\ UNCHANGED <<bytes, saves, abandoned>>

\* Mutant of RenameFails: the count starts over.
RenameFailsAgain(p) ==
  /\ proc[p].pc = "renaming"
  /\ proc' = [proc EXCEPT ![p].attempt = IF @ + 1 < MaxAttempts THEN @ + 1 ELSE 0]
  /\ UNCHANGED <<dir, bytes, saves, abandoned>>

\* OSError: another try after a sleep.
RenameFails(p) ==
  /\ proc[p].pc = "renaming"
  /\ proc[p].attempt + 1 < MaxAttempts
  /\ proc' = [proc EXCEPT ![p].attempt = @ + 1]
  /\ UNCHANGED <<dir, bytes, saves, abandoned>>

\* Mutant of GiveUp: the temporary file is not removed.
GiveUpOnly(p) ==
  /\ proc[p].pc = "renaming"
  /\ proc[p].attempt + 1 = MaxAttempts
  /\ Return(p)
  /\ UNCHANGED <<dir, bytes, saves, abandoned>>

\* The last try failed: the temporary file is removed, the error raised.
GiveUp(p) ==
  /\ proc[p].pc = "renaming"
  /\ proc[p].attempt + 1 = MaxAttempts
  /\ dir' = [dir EXCEPT ![proc[p].tmp] = NoFile]
  /\ Return(p)
  /\ UNCHANGED <<bytes, saves, abandoned>>

\* load() opens the file; without one it returns None at once.
LoadOpen(p) ==
  /\ proc[p].pc = "idle"
  /\ dir[Destination] # NoFile
  /\ proc' = [proc EXCEPT ![p] = [NoCall EXCEPT !.pc = "reading",
                                                !.inode = dir[Destination]]]
  /\ UNCHANGED <<dir, bytes, saves, abandoned>>

\* The file is read and parsed, or an error makes it None.
LoadRead(p) ==
  /\ proc[p].pc = "reading"
  /\ Return(p)
  /\ UNCHANGED <<dir, bytes, saves, abandoned>>

Delete(p) ==
  /\ proc[p].pc = "idle"
  /\ dir' = [dir EXCEPT ![Destination] = NoFile]
  /\ UNCHANGED <<bytes, proc, saves, abandoned>>

\* The process dies in a call.
Crash(p) ==
  /\ proc[p].pc # "idle"
  /\ Return(p)
  /\ abandoned' = abandoned \cup ({proc[p].tmp} \cap Id)
  /\ UNCHANGED <<dir, bytes, saves>>

SaveStep(p) ==
  SaveWrite(p) \/ WriteFails(p) \/ Rename(p) \/ RenameFails(p) \/ GiveUp(p)

Next ==
  \E p \in Process :
    \/ \E data \in Data : SaveOpen(p, data)
    \/ SaveStep(p)
    \/ LoadOpen(p) \/ LoadRead(p)
    \/ Delete(p) \/ Crash(p)

Spec == Init /\ [][Next]_vars

\* save() is synchronous: a process that lives goes on with it.
FairSpec == Spec /\ \A p \in Process : WF_vars(SaveStep(p))
-----------------------------------------------------------------------------
(* Properties.                                                             *)

\* The file under the checkpoint's name is always a whole checkpoint, with any
\* number of writers and whatever dies ("prevent corruption on crash
\* mid-write").
WholeCheckpoint ==
  dir[Destination] # NoFile => bytes[dir[Destination]] \in Data

Register == INSTANCE CheckpointRegister WITH
  value <- IF dir[Destination] = NoFile THEN Nil ELSE bytes[dir[Destination]],
  saving <- [p \in Process |-> proc[p].data],
  loading <- [p \in Process |->
                IF proc[p].pc = "reading" THEN bytes[proc[p].inode] ELSE Nil]

\* The store is an atomic register: a save takes effect at its rename or never,
\* a failed save leaves the previous checkpoint, and a load sees one version
\* although the file is replaced while it reads.
ImplementsRegister == Register!Spec

\* A call of save() that returns or gives up leaves no temporary file behind:
\* only a crash or a failed write does.
NoLeftovers ==
  \A n \in Id : dir[n] # NoFile =>
    \/ n \in abandoned
    \/ \E p \in Process : proc[p].pc \in {"writing", "renaming"} /\ proc[p].tmp = n

\* Every call of save() returns, raises or dies: the retries end.
SaveEnds == \A p \in Process : proc[p].pc = "renaming" ~> proc[p].pc = "idle"
=============================================================================
