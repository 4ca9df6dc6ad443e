------------------------ MODULE CheckpointStoreProofs ------------------------
(***************************************************************************)
(* Proofs about CheckpointStore, for any number of processes, checkpoints, *)
(* calls and tries of the rename.                                          *)
(*                                                                         *)
(*   FileIsWhole      the checkpoint's name never leads to a torn file     *)
(*   NothingLeft      only a crash or a failed write leaves a file behind  *)
(*   StoreIsRegister  the store implements CheckpointRegister              *)
(*                                                                         *)
(* They rest on StoreInv: every save owns its temporary file alone, and no *)
(* inode that was renamed is ever opened for writing again.                *)
(***************************************************************************)
EXTENDS CheckpointStore, TLAPS

Busy == {"writing", "renaming"}

Proc ==
  [pc : {"idle", "writing", "renaming", "reading"}, data : Data \cup {Nil},
   tmp : {0} \cup Id, inode : {0} \cup Id, attempt : Nat]

StoreType ==
  /\ dir \in [{Destination} \cup Id -> {NoFile} \cup Id]
  /\ bytes \in [Id -> Data \cup {Torn}]
  /\ proc \in [Process -> Proc]
  /\ saves \in 0..MaxSaves
  /\ abandoned \subseteq Id

\* A temporary name leads to the inode made for it, and to none before its call.
Names == \A n \in Id : dir[n] \in {NoFile, n} /\ (dir[n] # NoFile => n <= saves)

\* An inode i that was written and renamed: whole, and no longer a temporary.
Sealed(i) == i \in Id /\ i <= saves /\ dir[i] = NoFile /\ bytes[i] \in Data

DestinationSealed == dir[Destination] # NoFile => Sealed(dir[Destination])

\* The file a save is writing.
Owns(p) ==
  /\ proc[p].tmp \in Id /\ proc[p].inode = proc[p].tmp
  /\ dir[proc[p].tmp] = proc[p].tmp
  /\ proc[p].data \in Data
  /\ proc[p].pc = "renaming" => bytes[proc[p].tmp] = proc[p].data

Callers ==
  \A p \in Process :
    /\ proc[p].pc \in Busy => Owns(p)
    /\ proc[p].pc = "reading" => Sealed(proc[p].inode) /\ proc[p].tmp = 0
    /\ proc[p].pc \in {"idle", "reading"} => proc[p].data = Nil

Alone ==
  \A p, q \in Process :
    (p # q /\ proc[p].pc \in Busy /\ proc[q].pc \in Busy) =>
      proc[p].tmp # proc[q].tmp

StoreInv ==
  StoreType /\ Names /\ DestinationSealed /\ Callers /\ Alone /\ NoLeftovers
-----------------------------------------------------------------------------
LEMMA InitStore == Init => StoreInv
BY StoreAssumption
   DEF Init, StoreInv, StoreType, Names, DestinationSealed, Callers, Alone,
       NoLeftovers, NoCall, Proc, Busy, Destination, NoFile, Id

\* A new call gets a name and an inode of its own.
LEMMA OpenKeeps ==
  ASSUME StoreInv, NEW p \in Process, NEW data \in Data, SaveOpen(p, data)
  PROVE  StoreInv'
<1> USE DEF Busy, Destination, NoFile, Id
<1> DEFINE id == saves + 1
<1>1. /\ id \in Id /\ id # 0 /\ dir[id] = NoFile
      /\ \A i \in Id : i <= saves => i # id
  BY StoreAssumption DEF SaveOpen, StoreInv, StoreType, Names
<1>2. /\ saves' = id /\ abandoned' = abandoned
      /\ dir' = [dir EXCEPT ![id] = id]
      /\ bytes' = [bytes EXCEPT ![id] = Torn]
      /\ proc[p].pc = "idle"
      /\ proc' = [proc EXCEPT ![p] = [pc |-> "writing", data |-> data, tmp |-> id,
                                      inode |-> id, attempt |-> 0]]
  BY <1>1 DEF SaveOpen, TmpName
<1> HIDE DEF id
<1>3. StoreType'
  <2>1. id \in 0..MaxSaves
    BY <1>1, StoreAssumption
  <2> QED
    BY <1>1, <1>2, <2>1 DEF StoreInv, StoreType, Proc
<1>4. saves' = id /\ saves <= id
  BY <1>2, StoreAssumption DEF id, StoreInv, StoreType
<1>5. Names'
  BY <1>1, <1>2, <1>4, StoreAssumption DEF StoreInv, StoreType, Names
<1>6. ASSUME NEW i, Sealed(i)
      PROVE  Sealed(i)'
  BY <1>1, <1>2, <1>4, <1>6, StoreAssumption DEF StoreInv, StoreType, Sealed
<1>7. DestinationSealed'
  <2>1. dir'[Destination] = dir[Destination]
    BY <1>1, <1>2 DEF StoreInv, StoreType
  <2> QED
    BY <2>1, <1>6 DEF StoreInv, DestinationSealed
<1>8. \A q \in Process : q # p => proc'[q] = proc[q]
  BY <1>2 DEF StoreInv, StoreType
<1>9. proc'[p] = [pc |-> "writing", data |-> data, tmp |-> id, inode |-> id,
                  attempt |-> 0]
  BY <1>2 DEF StoreInv, StoreType
<1>10. \A q \in Process : q # p /\ proc[q].pc \in Busy => Owns(q) /\ proc[q].tmp # id
  BY <1>1 DEF StoreInv, Callers, Owns
<1>11. ASSUME NEW q \in Process, q # p, Owns(q), proc[q].tmp # id
       PROVE  Owns(q)'
  BY <1>1, <1>2, <1>8, <1>11 DEF StoreInv, StoreType, Owns
<1>12. Owns(p)'
  BY <1>1, <1>2, <1>9 DEF StoreInv, StoreType, Owns
<1>13. Callers'
  <2> SUFFICES ASSUME NEW q \in Process
               PROVE  /\ proc'[q].pc \in Busy => Owns(q)'
                      /\ proc'[q].pc = "reading" =>
                           Sealed(proc[q].inode)' /\ proc'[q].tmp = 0
                      /\ proc'[q].pc \in {"idle", "reading"} => proc'[q].data = Nil
    BY DEF Callers
  <2>1. CASE q = p
    BY <2>1, <1>9, <1>12
  <2>2. CASE q # p
    <3>1. ASSUME proc[q].pc = "reading"
          PROVE  Sealed(proc[q].inode)'
      <4>1. PICK i : i = proc[q].inode
        OBVIOUS
      <4>2. Sealed(i)'
        BY <1>6, <3>1, <4>1 DEF StoreInv, Callers
      <4> QED
        BY <4>1, <4>2, <1>8, <2>2 DEF Sealed
    <3>2. proc[q].pc \in Busy => Owns(q)'
      BY <2>2, <1>10, <1>11
    <3> QED
      BY <2>2, <3>1, <3>2, <1>8 DEF StoreInv, Callers
  <2> QED
    BY <2>1, <2>2
<1>14. Alone'
  BY <1>8, <1>9, <1>10 DEF StoreInv, Alone
<1>15. NoLeftovers'
  <2> SUFFICES ASSUME NEW n \in Id, dir'[n] # NoFile, n \notin abandoned
               PROVE  \E q \in Process : proc'[q].pc \in Busy /\ proc'[q].tmp = n
    BY <1>2 DEF NoLeftovers
  <2>1. CASE n = id
    BY <2>1, <1>9
  <2>2. CASE n # id
    <3>1. PICK q \in Process : proc[q].pc \in Busy /\ proc[q].tmp = n
      BY <2>2, <1>2 DEF StoreInv, StoreType, NoLeftovers
    <3> QED
      BY <3>1, <1>2, <1>8
  <2> QED
    BY <2>1, <2>2
<1> QED
  BY <1>3, <1>5, <1>7, <1>13, <1>14, <1>15 DEF StoreInv

\* Writing touches only the writer's own inode.
LEMMA WriteKeeps ==
  ASSUME StoreInv, NEW p \in Process, SaveWrite(p)
  PROVE  StoreInv'
<1> USE DEF Busy, Destination, NoFile, Id
<1>1. StoreType'
  BY StoreAssumption DEF SaveWrite, StoreInv, StoreType, Proc, Callers, Owns
<1>2. Names'
  BY DEF SaveWrite, StoreInv, StoreType, Names, Callers, Owns
<1>3. DestinationSealed'
  BY DEF SaveWrite, StoreInv, StoreType, Names, DestinationSealed, Sealed, Callers,
         Owns, Proc
<1>4. Callers'
  <2> SUFFICES ASSUME NEW q \in Process
               PROVE  /\ proc'[q].pc \in Busy => Owns(q)'
                      /\ proc'[q].pc = "reading" =>
                           Sealed(proc[q].inode)' /\ proc'[q].tmp = 0
                      /\ proc'[q].pc \in {"idle", "reading"} => proc'[q].data = Nil
    BY DEF Callers
  <2>1. CASE q = p
    BY <2>1 DEF SaveWrite, StoreInv, StoreType, Names, DestinationSealed, Sealed,
                Callers, Owns, Proc
  <2>2. CASE q # p
    BY <2>2 DEF SaveWrite, StoreInv, StoreType, Names, Sealed, Callers, Owns, Alone,
                Proc
  <2> QED
    BY <2>1, <2>2
<1>5. Alone'
  BY DEF SaveWrite, StoreInv, StoreType, Callers, Owns, Alone, Proc
<1>6. NoLeftovers'
  BY DEF SaveWrite, StoreInv, StoreType, Names, Callers, Owns, NoLeftovers, Proc
<1> QED
  BY <1>1, <1>2, <1>3, <1>4, <1>5, <1>6 DEF StoreInv

\* A failed write leaves a file, and says so in `abandoned`.
LEMMA WriteFailsKeeps ==
  ASSUME StoreInv, NEW p \in Process, WriteFails(p)
  PROVE  StoreInv'
<1> USE DEF Busy, Destination, NoFile, Id
<1>1. StoreType'
  BY StoreAssumption DEF WriteFails, Return, NoCall, StoreInv, StoreType, Proc, Callers, Owns
<1>2. Names'
  BY DEF WriteFails, Return, NoCall, StoreInv, StoreType, Names, Callers, Owns
<1>3. DestinationSealed'
  BY DEF WriteFails, Return, NoCall, StoreInv, StoreType, Names, DestinationSealed, Sealed, Callers,
         Owns, Proc
<1>4. Callers'
  <2> SUFFICES ASSUME NEW q \in Process
               PROVE  /\ proc'[q].pc \in Busy => Owns(q)'
                      /\ proc'[q].pc = "reading" =>
                           Sealed(proc[q].inode)' /\ proc'[q].tmp = 0
                      /\ proc'[q].pc \in {"idle", "reading"} => proc'[q].data = Nil
    BY DEF Callers
  <2>1. CASE q = p
    BY <2>1 DEF WriteFails, Return, NoCall, StoreInv, StoreType, Names, DestinationSealed, Sealed,
                Callers, Owns, Proc
  <2>2. CASE q # p
    BY <2>2 DEF WriteFails, Return, NoCall, StoreInv, StoreType, Names, Sealed, Callers, Owns, Alone,
                Proc
  <2> QED
    BY <2>1, <2>2
<1>5. Alone'
  BY DEF WriteFails, Return, NoCall, StoreInv, StoreType, Callers, Owns, Alone, Proc
<1>6. NoLeftovers'
  BY DEF WriteFails, Return, NoCall, StoreInv, StoreType, Names, Callers, Owns, NoLeftovers, Proc
<1> QED
  BY <1>1, <1>2, <1>3, <1>4, <1>5, <1>6 DEF StoreInv

\* The rename seals the inode.
LEMMA RenameKeeps ==
  ASSUME StoreInv, NEW p \in Process, Rename(p)
  PROVE  StoreInv'
<1> USE DEF Busy, Destination, NoFile, Id
<1>1. StoreType'
  BY StoreAssumption DEF Rename, Return, NoCall, StoreInv, StoreType, Proc, Callers, Owns
<1>2. Names'
  BY DEF Rename, Return, NoCall, StoreInv, StoreType, Names, Callers, Owns
<1>3. DestinationSealed'
  BY DEF Rename, Return, NoCall, StoreInv, StoreType, Names, DestinationSealed, Sealed, Callers,
         Owns, Proc
<1>4. Callers'
  <2> SUFFICES ASSUME NEW q \in Process
               PROVE  /\ proc'[q].pc \in Busy => Owns(q)'
                      /\ proc'[q].pc = "reading" =>
                           Sealed(proc[q].inode)' /\ proc'[q].tmp = 0
                      /\ proc'[q].pc \in {"idle", "reading"} => proc'[q].data = Nil
    BY DEF Callers
  <2>1. CASE q = p
    BY <2>1 DEF Rename, Return, NoCall, StoreInv, StoreType, Names, DestinationSealed, Sealed,
                Callers, Owns, Proc
  <2>2. CASE q # p
    BY <2>2 DEF Rename, Return, NoCall, StoreInv, StoreType, Names, Sealed, Callers, Owns, Alone,
                Proc
  <2> QED
    BY <2>1, <2>2
<1>5. Alone'
  BY DEF Rename, Return, NoCall, StoreInv, StoreType, Callers, Owns, Alone, Proc
<1>6. NoLeftovers'
  BY DEF Rename, Return, NoCall, StoreInv, StoreType, Names, Callers, Owns, NoLeftovers, Proc
<1> QED
  BY <1>1, <1>2, <1>3, <1>4, <1>5, <1>6 DEF StoreInv

\* Another try changes nothing on disk.
LEMMA RenameFailsKeeps ==
  ASSUME StoreInv, NEW p \in Process, RenameFails(p)
  PROVE  StoreInv'
BY StoreAssumption
   DEF RenameFails,
       StoreInv, StoreType, Names, DestinationSealed, Sealed, Callers, Owns, Alone,
       NoLeftovers, Proc, Busy, Destination, NoFile, Id

\* Giving up removes the temporary file.
LEMMA GiveUpKeeps ==
  ASSUME StoreInv, NEW p \in Process, GiveUp(p)
  PROVE  StoreInv'
<1> USE DEF Busy, Destination, NoFile, Id
<1>1. StoreType'
  BY StoreAssumption DEF GiveUp, Return, NoCall, StoreInv, StoreType, Proc, Callers, Owns
<1>2. Names'
  BY DEF GiveUp, Return, NoCall, StoreInv, StoreType, Names, Callers, Owns
<1>3. DestinationSealed'
  BY DEF GiveUp, Return, NoCall, StoreInv, StoreType, Names, DestinationSealed, Sealed, Callers,
         Owns, Proc
<1>4. Callers'
  <2> SUFFICES ASSUME NEW q \in Process
               PROVE  /\ proc'[q].pc \in Busy => Owns(q)'
                      /\ proc'[q].pc = "reading" =>
                           Sealed(proc[q].inode)' /\ proc'[q].tmp = 0
                      /\ proc'[q].pc \in {"idle", "reading"} => proc'[q].data = Nil
    BY DEF Callers
  <2>1. CASE q = p
    BY <2>1 DEF GiveUp, Return, NoCall, StoreInv, StoreType, Names, DestinationSealed, Sealed,
                Callers, Owns, Proc
  <2>2. CASE q # p
    BY <2>2 DEF GiveUp, Return, NoCall, StoreInv, StoreType, Names, Sealed, Callers, Owns, Alone,
                Proc
  <2> QED
    BY <2>1, <2>2
<1>5. Alone'
  BY DEF GiveUp, Return, NoCall, StoreInv, StoreType, Callers, Owns, Alone, Proc
<1>6. NoLeftovers'
  BY DEF GiveUp, Return, NoCall, StoreInv, StoreType, Names, Callers, Owns, NoLeftovers, Proc
<1> QED
  BY <1>1, <1>2, <1>3, <1>4, <1>5, <1>6 DEF StoreInv

\* A load opens a sealed inode.
LEMMA LoadOpenKeeps ==
  ASSUME StoreInv, NEW p \in Process, LoadOpen(p)
  PROVE  StoreInv'
<1> USE DEF Busy, Destination, NoFile, Id
<1>1. StoreType'
  BY StoreAssumption DEF LoadOpen, NoCall, StoreInv, StoreType, Proc, Callers, Owns
<1>2. Names'
  BY DEF LoadOpen, NoCall, StoreInv, StoreType, Names, Callers, Owns
<1>3. DestinationSealed'
  BY DEF LoadOpen, NoCall, StoreInv, StoreType, Names, DestinationSealed, Sealed, Callers,
         Owns, Proc
<1>4. Callers'
  <2> SUFFICES ASSUME NEW q \in Process
               PROVE  /\ proc'[q].pc \in Busy => Owns(q)'
                      /\ proc'[q].pc = "reading" =>
                           Sealed(proc[q].inode)' /\ proc'[q].tmp = 0
                      /\ proc'[q].pc \in {"idle", "reading"} => proc'[q].data = Nil
    BY DEF Callers
  <2>1. CASE q = p
    BY <2>1 DEF LoadOpen, NoCall, StoreInv, StoreType, Names, DestinationSealed, Sealed,
                Callers, Owns, Proc
  <2>2. CASE q # p
    BY <2>2 DEF LoadOpen, NoCall, StoreInv, StoreType, Names, Sealed, Callers, Owns, Alone,
                Proc
  <2> QED
    BY <2>1, <2>2
<1>5. Alone'
  BY DEF LoadOpen, NoCall, StoreInv, StoreType, Callers, Owns, Alone, Proc
<1>6. NoLeftovers'
  BY DEF LoadOpen, NoCall, StoreInv, StoreType, Names, Callers, Owns, NoLeftovers, Proc
<1> QED
  BY <1>1, <1>2, <1>3, <1>4, <1>5, <1>6 DEF StoreInv

\* A load changes nothing.
LEMMA LoadReadKeeps ==
  ASSUME StoreInv, NEW p \in Process, LoadRead(p)
  PROVE  StoreInv'
BY StoreAssumption
   DEF LoadRead, Return, NoCall,
       StoreInv, StoreType, Names, DestinationSealed, Sealed, Callers, Owns, Alone,
       NoLeftovers, Proc, Busy, Destination, NoFile, Id

\* A deleted checkpoint stays sealed for who is reading it.
LEMMA DeleteKeeps ==
  ASSUME StoreInv, NEW p \in Process, Delete(p)
  PROVE  StoreInv'
BY StoreAssumption
   DEF Delete,
       StoreInv, StoreType, Names, DestinationSealed, Sealed, Callers, Owns, Alone,
       NoLeftovers, Proc, Busy, Destination, NoFile, Id

\* A crash leaves a file, and says so in `abandoned`.
LEMMA CrashKeeps ==
  ASSUME StoreInv, NEW p \in Process, Crash(p)
  PROVE  StoreInv'
<1> USE DEF Busy, Destination, NoFile, Id
<1>1. StoreType'
  BY StoreAssumption DEF Crash, Return, NoCall, StoreInv, StoreType, Proc, Callers, Owns
<1>2. Names'
  BY DEF Crash, Return, NoCall, StoreInv, StoreType, Names, Callers, Owns
<1>3. DestinationSealed'
  BY DEF Crash, Return, NoCall, StoreInv, StoreType, Names, DestinationSealed, Sealed, Callers,
         Owns, Proc
<1>4. Callers'
  <2> SUFFICES ASSUME NEW q \in Process
               PROVE  /\ proc'[q].pc \in Busy => Owns(q)'
                      /\ proc'[q].pc = "reading" =>
                           Sealed(proc[q].inode)' /\ proc'[q].tmp = 0
                      /\ proc'[q].pc \in {"idle", "reading"} => proc'[q].data = Nil
    BY DEF Callers
  <2>1. CASE q = p
    BY <2>1 DEF Crash, Return, NoCall, StoreInv, StoreType, Names, DestinationSealed, Sealed,
                Callers, Owns, Proc
  <2>2. CASE q # p
    BY <2>2 DEF Crash, Return, NoCall, StoreInv, StoreType, Names, Sealed, Callers, Owns, Alone,
                Proc
  <2> QED
    BY <2>1, <2>2
<1>5. Alone'
  BY DEF Crash, Return, NoCall, StoreInv, StoreType, Callers, Owns, Alone, Proc
<1>6. NoLeftovers'
  BY DEF Crash, Return, NoCall, StoreInv, StoreType, Names, Callers, Owns, NoLeftovers, Proc
<1> QED
  BY <1>1, <1>2, <1>3, <1>4, <1>5, <1>6 DEF StoreInv

\* StoreInv is inductive.
LEMMA StoreInductive == StoreInv /\ [Next]_vars => StoreInv'
<1> SUFFICES ASSUME StoreInv, [Next]_vars
             PROVE  StoreInv'
  OBVIOUS
<1>1. CASE UNCHANGED vars
  BY <1>1 DEF vars, StoreInv, StoreType, Names, DestinationSealed, Sealed,
              Callers, Owns, Alone, NoLeftovers, Proc
<1>2. CASE Next
  <2>1. PICK p \in Process :
          \/ \E data \in Data : SaveOpen(p, data)
          \/ SaveWrite(p) \/ WriteFails(p) \/ Rename(p) \/ RenameFails(p)
          \/ GiveUp(p) \/ LoadOpen(p) \/ LoadRead(p) \/ Delete(p) \/ Crash(p)
    BY <1>2 DEF Next, SaveStep
  <2> QED
    BY <2>1, OpenKeeps, WriteKeeps, WriteFailsKeeps, RenameKeeps,
       RenameFailsKeeps, GiveUpKeeps, LoadOpenKeeps, LoadReadKeeps, DeleteKeeps,
       CrashKeeps
<1> QED
  BY <1>1, <1>2

LEMMA StoreInvariant == Spec => []StoreInv
<1> QED
  BY InitStore, StoreInductive, PTL DEF Spec

\* The checkpoint's name never leads to a file that was not written to the end,
\* whoever writes, dies or fails (save() writes to a file of its own and
\* renames).
THEOREM FileIsWhole == Spec => []WholeCheckpoint
<1>1. StoreInv => WholeCheckpoint
  BY DEF StoreInv, DestinationSealed, Sealed, WholeCheckpoint
<1> QED
  BY <1>1, StoreInvariant, PTL

\* Only crashes and failed writes leave temporary files behind (save() removes
\* its own when the last rename failed).
THEOREM NothingLeft == Spec => []NoLeftovers
<1>1. StoreInv => NoLeftovers
  BY DEF StoreInv
<1> QED
  BY <1>1, StoreInvariant, PTL
-----------------------------------------------------------------------------
(* Refinement.                                                             *)

Value == IF dir[Destination] = NoFile THEN Nil ELSE bytes[dir[Destination]]
Saving == [p \in Process |-> proc[p].data]
Loading ==
  [p \in Process |-> IF proc[p].pc = "reading" THEN bytes[proc[p].inode] ELSE Nil]

\* A sealed inode that the step leaves alone looks the same to the register.
LEMMA SameValue ==
  ASSUME StoreInv, dir'[Destination] = dir[Destination],
         \A i \in Id : Sealed(i) => bytes'[i] = bytes[i]
  PROVE  Value' = Value
BY DEF StoreInv, DestinationSealed, Sealed, Value

LEMMA SameLoading ==
  ASSUME StoreInv, NEW p \in Process,
         \A q \in Process : q # p => proc'[q] = proc[q],
         \A i \in Id : Sealed(i) => bytes'[i] = bytes[i]
  PROVE  \A q \in Process : q # p => Loading'[q] = Loading[q]
<1> SUFFICES ASSUME NEW q \in Process, q # p
             PROVE  Loading'[q] = Loading[q]
  OBVIOUS
<1>1. proc'[q] = proc[q]
  OBVIOUS
<1>2. proc[q].pc = "reading" => bytes'[proc[q].inode] = bytes[proc[q].inode]
  BY DEF StoreInv, Callers, Sealed
<1> QED
  BY <1>1, <1>2 DEF Loading

\* Every step of the store is a step of the register, or changes nothing in it.
LEMMA StepRefines ==
  ASSUME StoreInv, [Next]_vars
  PROVE  [Register!Next]_(Register!vars)
<1> USE DEF Busy, Destination, NoFile
<1>1. CASE UNCHANGED vars
  BY <1>1 DEF vars, Register!vars
<1>2. ASSUME NEW p \in Process, NEW data \in Data, SaveOpen(p, data)
      PROVE  Register!BeginSave(p, data)
  <2>1. saves + 1 \in Id /\ dir[saves + 1] = NoFile
    BY <1>2, StoreAssumption DEF SaveOpen, StoreInv, StoreType, Names, Id
  <2>2. /\ proc[p].pc = "idle"
        /\ dir'[Destination] = dir[Destination]
        /\ \A i \in Id : Sealed(i) => bytes'[i] = bytes[i]
        /\ \A q \in Process : q # p => proc'[q] = proc[q]
        /\ proc'[p].pc = "writing" /\ proc'[p].data = data
    BY <1>2, <2>1, StoreAssumption DEF SaveOpen, TmpName, StoreInv, StoreType, Sealed, Id
  <2>3. Value' = Value
    BY <2>2, SameValue
  <2>4. /\ \A q \in Process : q # p => Loading'[q] = Loading[q]
        /\ Loading[p] = Nil /\ Loading'[p] = Nil
    BY <2>2, SameLoading DEF Loading
  <2>5. Loading' = Loading
    BY <2>4 DEF Loading
  <2>6. Saving[p] = Nil /\ Saving' = [Saving EXCEPT ![p] = data]
    BY <2>2 DEF Saving, StoreInv, Callers
  <2> QED
    BY <2>3, <2>4, <2>5, <2>6
       DEF Register!BeginSave, Register!Idle, Value, Saving, Loading
<1>3. ASSUME NEW p \in Process, SaveWrite(p)
      PROVE  UNCHANGED Register!vars
  <2>1. /\ dir' = dir /\ proc[p].pc = "writing" /\ proc'[p].pc = "renaming"
        /\ proc'[p].data = proc[p].data
        /\ \A q \in Process : q # p => proc'[q] = proc[q]
        /\ \A i \in Id : Sealed(i) => bytes'[i] = bytes[i]
    BY <1>3 DEF SaveWrite, StoreInv, StoreType, Proc, Sealed, Callers, Owns, Id
  <2>2. Value' = Value
    BY <2>1, SameValue
  <2>3. \A q \in Process : Loading'[q] = Loading[q]
    BY <2>1, SameLoading DEF Loading
  <2>4. Saving' = Saving /\ Loading' = Loading
    BY <2>1, <2>3 DEF Saving, Loading
  <2> QED
    BY <2>2, <2>4 DEF Register!vars, Value, Saving, Loading
<1>4. ASSUME NEW p \in Process, RenameFails(p)
      PROVE  UNCHANGED Register!vars
  <2>1. Saving' = Saving /\ Loading' = Loading
    BY <1>4 DEF RenameFails, Saving, Loading, StoreInv, StoreType, Proc
  <2>2. Value' = Value
    BY <1>4 DEF RenameFails, Value
  <2> QED
    BY <2>1, <2>2 DEF Register!vars, Value, Saving, Loading
<1>5. ASSUME NEW p \in Process, proc[p].pc \in Busy, Return(p), bytes' = bytes,
             dir'[Destination] = dir[Destination]
      PROVE  Register!AbortSave(p)
  <2>1. Value' = Value
    BY <1>5 DEF Value
  <2>2. Saving' = [Saving EXCEPT ![p] = Nil] /\ Loading' = Loading
    BY <1>5 DEF Return, NoCall, Saving, Loading, StoreInv, StoreType
  <2>3. Saving[p] # Nil
    BY <1>5, StoreAssumption DEF Saving, StoreInv, Callers, Owns
  <2> QED
    BY <2>1, <2>2, <2>3 DEF Register!AbortSave, Value, Saving, Loading
<1>6. ASSUME NEW p \in Process, proc[p].pc = "reading", Return(p), bytes' = bytes,
             dir' = dir
      PROVE  Register!EndLoad(p)
  <2>1. Value' = Value
    BY <1>6 DEF Value
  <2>2. Loading' = [Loading EXCEPT ![p] = Nil] /\ Saving' = Saving
    BY <1>6 DEF Return, NoCall, Saving, Loading, StoreInv, StoreType, Callers
  <2>3. Loading[p] # Nil
    BY <1>6, StoreAssumption DEF Loading, StoreInv, Callers, Sealed
  <2> QED
    BY <2>1, <2>2, <2>3 DEF Register!EndLoad, Value, Saving, Loading
<1>7. ASSUME NEW p \in Process, Rename(p)
      PROVE  Register!CommitSave(p)
  <2>1. /\ proc[p].pc = "renaming" /\ proc[p].data \in Data
        /\ dir'[Destination] = proc[p].tmp /\ proc[p].tmp \in Id
        /\ bytes' = bytes /\ bytes[proc[p].tmp] = proc[p].data
    BY <1>7 DEF Rename, StoreInv, StoreType, Callers, Owns, Id
  <2>2. Value' = proc[p].data /\ Saving[p] = proc[p].data /\ Saving[p] # Nil
    BY <2>1, StoreAssumption DEF Value, Saving, Id
  <2>3. Saving' = [Saving EXCEPT ![p] = Nil] /\ Loading' = Loading
    BY <1>7, <2>1 DEF Rename, Return, NoCall, Saving, Loading, StoreInv, StoreType
  <2> QED
    BY <2>2, <2>3 DEF Register!CommitSave, Value, Saving, Loading
<1>8. ASSUME NEW p \in Process, LoadOpen(p)
      PROVE  Register!BeginLoad(p)
  <2>1. /\ proc[p].pc = "idle" /\ dir' = dir /\ bytes' = bytes
        /\ Sealed(dir[Destination]) /\ dir[Destination] # NoFile
        /\ proc' = [proc EXCEPT ![p] = [NoCall EXCEPT !.pc = "reading",
                                               !.inode = dir[Destination]]]
    BY <1>8 DEF LoadOpen, StoreInv, DestinationSealed
  <2>2. Value' = Value /\ Value = bytes[dir[Destination]] /\ Value # Nil
    BY <2>1, StoreAssumption DEF Value, Sealed
  <2>3. Saving' = Saving /\ Saving[p] = Nil /\ Loading[p] = Nil
    BY <2>1 DEF Saving, Loading, NoCall, StoreInv, StoreType, Callers
  <2>4. Loading' = [Loading EXCEPT ![p] = Value]
    BY <2>1, <2>2 DEF Loading, NoCall, StoreInv, StoreType
  <2> QED
    BY <2>2, <2>3, <2>4 DEF Register!BeginLoad, Register!Idle, Value, Saving, Loading
<1>9. ASSUME NEW p \in Process, Delete(p)
      PROVE  Register!Delete(p)
  <2>1. Value' = Nil /\ Saving' = Saving /\ Loading' = Loading
    BY <1>9 DEF Delete, Value, Saving, Loading, StoreInv, StoreType
  <2>2. Saving[p] = Nil /\ Loading[p] = Nil
    BY <1>9 DEF Delete, Saving, Loading, StoreInv, Callers
  <2> QED
    BY <2>1, <2>2 DEF Register!Delete, Register!Idle, Value, Saving, Loading
<1>10. CASE Next
  <2>1. PICK p \in Process :
          \/ \E data \in Data : SaveOpen(p, data)
          \/ SaveWrite(p) \/ WriteFails(p) \/ Rename(p) \/ RenameFails(p)
          \/ GiveUp(p) \/ LoadOpen(p) \/ LoadRead(p) \/ Delete(p) \/ Crash(p)
    BY <1>10 DEF Next, SaveStep
  <2>2. CASE WriteFails(p) \/ (Crash(p) /\ proc[p].pc \in Busy)
    BY <2>2, <1>5 DEF WriteFails, Crash, Register!Next
  <2>3. CASE GiveUp(p)
    <3>1. dir'[Destination] = dir[Destination]
      BY <2>3 DEF GiveUp, StoreInv, StoreType, Callers, Owns, Id
    <3> QED
      BY <2>3, <3>1, <1>5 DEF GiveUp, Register!Next
  <2>4. CASE LoadRead(p) \/ (Crash(p) /\ proc[p].pc \notin Busy)
    <3>1. proc[p].pc = "reading"
      BY <2>4 DEF LoadRead, Crash, StoreInv, StoreType, Proc
    <3> QED
      BY <2>4, <3>1, <1>6 DEF LoadRead, Crash, Register!Next
  <2> QED
    BY <2>1, <2>2, <2>3, <2>4, <1>2, <1>3, <1>4, <1>7, <1>8, <1>9
       DEF Register!Next
<1> QED
  BY <1>1, <1>10

\* The store implements the atomic register (checkpoint_store.py's docstring:
\* "Atomic file-based checkpoint store").
THEOREM StoreIsRegister == Spec => ImplementsRegister
<1>1. Init => Register!Init
  BY DEF Init, Register!Init, NoCall, Destination, NoFile
<1>2. StoreInv /\ [Next]_vars => [Register!Next]_(Register!vars)
  BY StepRefines
<1> QED
  BY <1>1, <1>2, StoreInvariant, PTL DEF Spec, ImplementsRegister, Register!Spec

=============================================================================
