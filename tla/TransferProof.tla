--------------------------- MODULE TransferProof ---------------------------
(***************************************************************************)
(* Theorems about Transfer for any set of moves, any bounds, any           *)
(* interference and any way of verification.                               *)
(***************************************************************************)
EXTENDS Transfer, SequenceTheorems, TLAPS

(* Where the call stands tells how it will end and where its file is.      *)
CallOK(i) ==
    /\ pc[i] \in {"idle"} \cup Precheck \cup Copying => result[i] = "none"
    /\ pc[i] \in {"idle"} \cup Precheck \cup (Copying \ {"sync", "unlink"}) =>
          placed[i] = "source"
    /\ pc[i] \in {"sync", "unlink"} => placed[i] = "both"
    /\ pc[i] \in {"cleanup", "ended"} => result[i] # "none"
    /\ result[i] = "interrupted" => placed[i] = "source"
    /\ result[i] = "completed" <=> placed[i] = "destination"
    /\ result[i] = "completed" => pc[i] = "ended"

(* A protected file reaches the rename only when the protection came too   *)
(* late to be seen.                                                        *)
GuardOK(i) ==
    placed[i] # "source" \/ pc[i] = "replace" =>
        /\ i \in excluded => "exclude" \in late[i]
        /\ i \in linked => "link" \in late[i]

ControlType ==
    /\ pc \in [Moves -> {"idle", "cleanup", "ended"} \cup Precheck \cup Copying]
    /\ result \in [Moves -> {"none", "completed", "failed", "interrupted"}]
    /\ placed \in [Moves -> {"source", "both", "destination"}]
    /\ late \in [Moves -> SUBSET {"write", "create", "exclude", "link"}]
    /\ excluded \subseteq Moves
    /\ linked \subseteq Moves

CallInv  == \A i \in Moves : CallOK(i)
GuardInv == \A i \in Moves : GuardOK(i)
IInv     == ControlType /\ CallInv /\ GuardInv

THEOREM InitInv == Init => IInv
BY DEF Init, IInv, ControlType, CallInv, CallOK, GuardInv, GuardOK, Precheck, Copying

-----------------------------------------------------------------------------
(* What the step of one call does to where that call stands.               *)
Edge(i, s) ==
    \/ pc[i] = "idle" /\ s = "enter"
    \/ pc[i] \in Precheck /\ s \in Precheck \cup {"open"}
    \/ /\ pc[i] \in Copying \ {"replace", "sync", "unlink"}
       /\ s \in Copying \ {"replace", "sync", "unlink"}
    \/ pc[i] = "final" /\ s = "replace" /\ i \notin excluded \cup linked
    \/ pc[i] = "sync" /\ s = "unlink"
    \/ pc[i] = "cleanup" /\ s = "ended"

Advance(i) ==
    \E s \in {"cleanup", "ended"} \cup Precheck \cup Copying :
        /\ Edge(i, s)
        /\ pc' = [pc EXCEPT ![i] = s]
        /\ UNCHANGED <<result, placed>>

Stop(i) ==
    \E r \in {"failed", "interrupted"} :
        /\ pc[i] \in Precheck \cup Copying
        /\ pc' = [pc EXCEPT ![i] = IF @ \in Copying THEN "cleanup" ELSE "ended"]
        /\ result' = [result EXCEPT ![i] = r]
        /\ r = "interrupted" => pc[i] \notin {"sync", "unlink"}
        /\ UNCHANGED placed

CommitCall(i) ==
    /\ pc[i] = "replace"
    /\ pc' = [pc EXCEPT ![i] = "sync"]
    /\ placed' = [placed EXCEPT ![i] = "both"]
    /\ UNCHANGED result

Complete(i) ==
    /\ pc[i] = "unlink"
    /\ pc' = [pc EXCEPT ![i] = "ended"]
    /\ placed' = [placed EXCEPT ![i] = "destination"]
    /\ result' = [result EXCEPT ![i] = "completed"]

LoseCleanup(i) ==
    /\ pc[i] = "cleanup"
    /\ pc' = [pc EXCEPT ![i] = "ended"]
    /\ result' = [result EXCEPT ![i] = "failed"]
    /\ UNCHANGED placed

Control(i) == \/ UNCHANGED <<pc, result, placed>>
              \/ Advance(i) \/ Stop(i) \/ CommitCall(i)
              \/ Complete(i) \/ LoseCleanup(i)

LEMMA Fails ==
  ASSUME NEW i \in Moves, pc[i] \in Precheck \cup Copying, Abort(i, "failed")
  PROVE  Stop(i)
BY DEF Abort, Stop

LEMMA Cancels ==
  ASSUME NEW i \in Moves, Cancelled(i),
         pc[i] \in Precheck \cup (Copying \ {"sync", "unlink"})
  PROVE  Stop(i)
BY DEF Cancelled, Abort, Stop, Precheck, Copying

LEMMA Goes ==
  ASSUME NEW i \in Moves, NEW s \in {"cleanup", "ended"} \cup Precheck \cup Copying,
         Goto(i, s), Edge(i, s), UNCHANGED placed
  PROVE  Advance(i)
BY DEF Goto, Advance

LEMMA StepsKeep ==
  ASSUME NEW i \in Moves, Step(i) \/ Call(i)
  PROVE  UNCHANGED <<excluded, linked, late>>
BY DEF Step, Call, outside

(* Every step of a call is one of these.                                   *)
LEMMA Steps ==
  ASSUME NEW i \in Moves, Step(i) \/ Call(i)
  PROVE  Control(i)
<1>1. CASE Call(i)
  BY <1>1, Goes DEF Call, Begin, At, Edge, Control, Precheck
<1>2. CASE Enter(i)
  BY <1>2, Fails, Cancels, Goes DEF Enter, At, Edge, Control, Precheck, Copying
<1>3. CASE CheckDestination(i)
  BY <1>3, Fails, Cancels, Goes DEF CheckDestination, At, Edge, Control, Precheck, Copying
<1>4. CASE StatSource(i)
  BY <1>4, Fails, Cancels, Goes DEF StatSource, At, Edge, Control, Precheck, Copying
<1>5. CASE OpenFiles(i)
  BY <1>5, Fails, Cancels, Goes DEF OpenFiles, At, Edge, Control, Precheck, Copying
<1>6. CASE CopyChunk(i)
  BY <1>6, Fails, Cancels, Goes DEF CopyChunk, At, Edge, Control, Precheck, Copying, call
<1>7. CASE Flush(i) \/ CopyStat(i)
  BY <1>7, Fails, Goes DEF Flush, CopyStat, At, Edge, Control, Copying
<1>8. CASE Recheck(i)
  BY <1>8, Fails, Cancels, Goes DEF Recheck, At, Edge, Control, Precheck, Copying
<1>9. CASE HashChunk(i)
  BY <1>9, Fails, Cancels, Goes DEF HashChunk, At, Edge, Control, Precheck, Copying
<1>10. CASE Compare(i)
  BY <1>10, Fails, Cancels, Goes DEF Compare, At, Edge, Control, Precheck, Copying
<1>11. CASE FinalCheck(i)
  BY <1>11, Fails, Cancels, Goes DEF FinalCheck, At, Edge, Control, Precheck, Copying
<1>12. CASE Replace(i)
  BY <1>12 DEF Replace, At, Goto, Control, CommitCall, Copying
<1>13. CASE SyncDirectory(i) \/ Cleanup(i)
  BY <1>13, Goes DEF SyncDirectory, Cleanup, At, Edge, Control, Copying
<1>14. CASE UnlinkSource(i)
  BY <1>14, Fails DEF UnlinkSource, At, Control, Complete, Copying
<1>15. CASE CleanupFails(i)
  BY <1>15 DEF CleanupFails, At, Control, LoseCleanup
<1>16. CASE IOError(i)
  BY <1>16, Fails DEF IOError, Control
<1> QED
  BY <1>1, <1>2, <1>3, <1>4, <1>5, <1>6, <1>7, <1>8, <1>9, <1>10,
     <1>11, <1>12, <1>13, <1>14, <1>15, <1>16 DEF Step, Proceed

(* Nothing outside moves a call, and what it changes too late is noted.    *)
LEMMA Outside ==
  ASSUME ControlType, Interfere \/ RequestCancel
  PROVE  /\ UNCHANGED <<pc, result, placed>>
         /\ late' \in [Moves -> SUBSET {"write", "create", "exclude", "link"}]
         /\ \A i \in Moves : late[i] \subseteq late'[i]
         /\ excluded' \subseteq Moves /\ linked' \subseteq Moves
         /\ \A i \in Moves : placed[i] # "source" \/ pc[i] = "replace" =>
               /\ i \in excluded' \ excluded => "exclude" \in late'[i]
               /\ i \in linked' \ linked => "link" \in late'[i]
<1>1. ASSUME NEW e \in {"write", "create", "exclude", "link"}, NEW S \in SUBSET Moves,
             Noted(e, S)
      PROVE  /\ late' \in [Moves -> SUBSET {"write", "create", "exclude", "link"}]
             /\ \A i \in Moves : late[i] \subseteq late'[i]
             /\ e \in {"exclude", "link"} =>
                  \A i \in S : placed[i] # "source" \/ pc[i] = "replace" => e \in late'[i]
  BY <1>1 DEF Noted, TooLate, ControlType
<1>2. ASSUME NEW e \in {"write", "create"}, NEW S \in SUBSET Moves, Noted(e, S),
             UNCHANGED <<call, placed, excluded, linked>>
      PROVE  /\ UNCHANGED <<pc, result, placed, excluded, linked>>
             /\ late' \in [Moves -> SUBSET {"write", "create", "exclude", "link"}]
             /\ \A i \in Moves : late[i] \subseteq late'[i]
  BY <1>1, <1>2 DEF call
<1>3. CASE \E i \in Moves : UserRemove(i)
  BY <1>3 DEF UserRemove, call, ControlType
<1>4. CASE \E i \in Moves : UserWrite(i)
  <2>1. PICK i \in Moves : UserWrite(i)
    BY <1>4
  <2>2. Noted("write", {i}) /\ UNCHANGED <<call, placed, excluded, linked>>
    BY <2>1 DEF UserWrite
  <2> QED
    BY <2>2, <1>2 DEF ControlType
<1>5. CASE \E i \in Moves : Exclude(i)
  <2>1. PICK i \in Moves : Exclude(i)
    BY <1>5
  <2>2. Noted("exclude", {i}) /\ excluded' = excluded \cup {i}
    BY <2>1 DEF Exclude
  <2>3. UNCHANGED <<pc, result, placed, linked>>
    BY <2>1 DEF Exclude, call
  <2> QED
    BY <2>2, <2>3, <1>1 DEF ControlType
<1>6. CASE \E i \in Moves : Link(i)
  <2>1. PICK i \in Moves : Link(i)
    BY <1>6
  <2>2. Noted("link", {i}) /\ linked' = linked \cup {i}
    BY <2>1 DEF Link
  <2>3. UNCHANGED <<pc, result, placed, excluded>>
    BY <2>1 DEF Link, call
  <2> QED
    BY <2>2, <2>3, <1>1 DEF ControlType
<1>7. CASE RequestCancel \/ Crash
  BY <1>7 DEF RequestCancel, Crash, call, ControlType
<1>8. CASE \E p \in Targets : UserCreate(p)
  <2>1. PICK p \in Targets : UserCreate(p)
    BY <1>8
  <2> DEFINE S == {i \in Moves : Dst[i] = p}
  <2>2. Noted("create", S) /\ UNCHANGED <<call, placed, excluded, linked>>
    BY <2>1 DEF UserCreate
  <2>3. S \in SUBSET Moves
    OBVIOUS
  <2> HIDE DEF S
  <2> QED
    BY <2>2, <2>3, <1>2 DEF ControlType
<1> QED
  BY <1>3, <1>4, <1>5, <1>6, <1>7, <1>8 DEF Interfere

-----------------------------------------------------------------------------
LEMMA ControlKeeps ==
  ASSUME IInv, NEW i \in Moves, Control(i), UNCHANGED <<excluded, linked, late>>
  PROVE  IInv'
<1> USE DEF IInv, ControlType, CallInv, CallOK, GuardInv, GuardOK, Precheck, Copying
<1>1. CASE UNCHANGED <<pc, result, placed>>
  BY <1>1
<1>2. CASE Advance(i)
  BY <1>2 DEF Advance, Edge
<1>3. CASE Stop(i)
  BY <1>3 DEF Stop
<1>4. CASE CommitCall(i)
  BY <1>4 DEF CommitCall
<1>5. CASE Complete(i)
  BY <1>5 DEF Complete
<1>6. CASE LoseCleanup(i)
  BY <1>6 DEF LoseCleanup
<1> QED
  BY <1>1, <1>2, <1>3, <1>4, <1>5, <1>6 DEF Control

LEMMA NextInv == IInv /\ [Next]_vars => IInv'
<1> SUFFICES ASSUME IInv, [Next]_vars PROVE IInv'
  OBVIOUS
<1>1. CASE UNCHANGED vars
  BY <1>1 DEF vars, call, disk, outside, IInv, ControlType, CallInv, CallOK, GuardInv, GuardOK
<1>2. CASE \E i \in Moves : Call(i) \/ Step(i)
  BY <1>2, Steps, StepsKeep, ControlKeeps
<1>3. CASE Interfere \/ RequestCancel
  <2>1. ControlType' /\ CallInv'
    BY <1>3, Outside DEF IInv, ControlType, CallInv, CallOK
  <2>2. GuardInv'
    BY <1>3, Outside DEF IInv, GuardInv, GuardOK
  <2> QED
    BY <2>1, <2>2 DEF IInv
<1> QED
  BY <1>1, <1>2, <1>3 DEF Next

(* The inductive invariant holds in every state.                           *)
THEOREM Invariance == Spec => []IInv
BY InitInv, NextInv, PTL DEF Spec

(* A file excluded, or whose path became a link, before the final check of *)
(* execute_move never moves, whatever else interferes.                     *)
THEOREM ProtectionSafety == Spec => []ProtectionReread
<1>1. IInv => ProtectionReread
  BY DEF IInv, GuardInv, GuardOK, ProtectionReread
<1> QED
  BY <1>1, Invariance, PTL

-----------------------------------------------------------------------------
(* Each step of a call is a step of the atomic move or changes nothing it  *)
(* shows.                                                                  *)
LEMMA AtomicStep ==
  ASSUME IInv, NEW i \in Moves, Control(i)
  PROVE  [A!Next]_(A!vars)
<1> USE DEF IInv, ControlType, CallInv, CallOK, Precheck, Copying
<1>1. CASE UNCHANGED <<result, placed>>
  BY <1>1 DEF A!vars
<1>2. CASE Advance(i)
  BY <1>2 DEF Advance, A!vars
<1>3. CASE Stop(i)
  <2>1. A!Interrupt(i) \/ A!Fail(i)
    BY <1>3 DEF Stop, A!Interrupt, A!Fail
  <2> QED
    BY <2>1 DEF A!Next
<1>4. CASE CommitCall(i)
  <2>1. A!Commit(i)
    BY <1>4 DEF CommitCall, A!Commit
  <2> QED
    BY <2>1 DEF A!Next
<1>5. CASE Complete(i)
  <2>1. A!Remove(i)
    BY <1>5 DEF Complete, A!Remove
  <2> QED
    BY <2>1 DEF A!Next
<1>6. CASE LoseCleanup(i)
  <2>1. A!Fail(i)
    BY <1>6 DEF LoseCleanup, A!Fail
  <2> QED
    BY <2>1 DEF A!Next
<1> QED
  BY <1>1, <1>2, <1>3, <1>4, <1>5, <1>6 DEF Control

(* The system calls of execute_move, with every interference, implement a  *)
(* move that is atomic but for the copy a failure leaves behind.           *)
THEOREM Refinement == Spec => AtomicSpec
<1>1. Init => A!Init
  BY DEF Init, A!Init
<1>2. IInv /\ [Next]_vars => [A!Next]_(A!vars)
  <2> SUFFICES ASSUME IInv, [Next]_vars PROVE [A!Next]_(A!vars)
    OBVIOUS
  <2>1. CASE UNCHANGED vars
    BY <2>1 DEF vars, call, A!vars
  <2>2. CASE \E i \in Moves : Call(i) \/ Step(i)
    BY <2>2, Steps, AtomicStep
  <2>3. CASE Interfere \/ RequestCancel
    BY <2>3, Outside DEF IInv, A!vars
  <2> QED
    BY <2>1, <2>2, <2>3 DEF Next
<1> QED
  BY <1>1, <1>2, Invariance, PTL DEF Spec, AtomicSpec, A!Spec

-----------------------------------------------------------------------------
(* No overwriting.  Calls to one destination take turns, and once a call   *)
(* has seen its destination absent only a user can fill it.                *)
Busy(i) == pc[i] \notin {"idle", "ended"}

Committing == {"stat"} \cup (Copying \ {"sync", "unlink"})

TurnInv == \A i, j \in Moves : i # j /\ Dst[i] = Dst[j] => ~(Busy(i) /\ Busy(j))

VacantInv ==
    \A i \in Moves :
        pc[i] \in Committing /\ file[Dst[i]] # Absent => "create" \in late[i]

NameInv == DOMAIN file = Locations /\ TurnInv /\ VacantInv

LEMMA Named == \A i \in Moves : Src[i] \in Locations /\ Dst[i] \in Locations
BY DEF Locations

LEMMA NameInit == Init => NameInv
BY Named DEF Init, NameInv, TurnInv, VacantInv, Busy, Committing, Copying

(* What the step of one call does to names.                                *)
Names(i) ==
    /\ \/ file' = file
       \/ file' = [file EXCEPT ![Src[i]] = Absent]
       \/ /\ pc[i] = "replace" /\ pc'[i] = "sync"
          /\ file' = [file EXCEPT ![Dst[i]] = tmp[Dst[i]]]
    /\ pc'[i] \in Committing =>
          pc[i] \in Committing \/ (file' = file /\ file[Dst[i]] = Absent)
    /\ \A j \in Moves \ {i} : pc'[j] = pc[j]

LEMMA NameSteps ==
  ASSUME IInv, NEW i \in Moves, Step(i) \/ Call(i)
  PROVE  Names(i)
<1> USE DEF Names, IInv, ControlType, At, Goto, Committing, Precheck, Copying, disk
<1>1. ASSUME NEW r \in {"failed", "interrupted"}, Abort(i, r) PROVE Names(i)
  BY <1>1 DEF Abort
<1>2. ASSUME Cancelled(i) PROVE Names(i)
  BY <1>1, <1>2 DEF Cancelled
<1>3. CASE Call(i)
  BY <1>3 DEF Call, Begin
<1>4. CASE Enter(i)
  BY <1>4, <1>1, <1>2 DEF Enter
<1>5. CASE CheckDestination(i)
  BY <1>5, <1>1 DEF CheckDestination
<1>6. CASE StatSource(i)
  BY <1>6, <1>1 DEF StatSource
<1>7. CASE OpenFiles(i)
  BY <1>7, <1>1 DEF OpenFiles
<1>8. CASE CopyChunk(i)
  BY <1>8, <1>2 DEF CopyChunk, call
<1>9. CASE Flush(i) \/ CopyStat(i)
  BY <1>9, <1>1 DEF Flush, CopyStat
<1>10. CASE Recheck(i)
  BY <1>10, <1>1, <1>2 DEF Recheck
<1>11. CASE HashChunk(i)
  BY <1>11, <1>2 DEF HashChunk
<1>12. CASE Compare(i)
  BY <1>12, <1>1, <1>2 DEF Compare
<1>13. CASE FinalCheck(i)
  BY <1>13, <1>1, <1>2 DEF FinalCheck
<1>14. CASE Replace(i)
  BY <1>14 DEF Replace
<1>15. CASE SyncDirectory(i) \/ Cleanup(i) \/ CleanupFails(i)
  BY <1>15 DEF SyncDirectory, Cleanup, CleanupFails
<1>16. CASE UnlinkSource(i)
  BY <1>16, <1>1 DEF UnlinkSource
<1>17. CASE IOError(i)
  BY <1>17, <1>1 DEF IOError
<1> QED
  BY <1>3, <1>4, <1>5, <1>6, <1>7, <1>8, <1>9, <1>10, <1>11, <1>12, <1>13,
     <1>14, <1>15, <1>16, <1>17 DEF Step, Proceed

(* A call starts only when no other to its destination runs.               *)
LEMMA Turns ==
  ASSUME IInv, NameInv, NEW i \in Moves, Step(i) \/ Call(i)
  PROVE  TurnInv'
<1>1. \A j \in Moves \ {i} : pc'[j] = pc[j]
  BY NameSteps DEF Names
<1>2. CASE Call(i)
  BY <1>1, <1>2 DEF Call, NameInv, TurnInv, Busy
<1>3. CASE Step(i)
  <2>1. Busy(i)
    BY <1>3 DEF Step, Proceed, Enter, CheckDestination, StatSource, OpenFiles,
       CopyChunk, Flush, CopyStat, Recheck, HashChunk, Compare, FinalCheck,
       Replace, SyncDirectory, UnlinkSource, Cleanup, CleanupFails, IOError,
       At, Busy, Precheck, Copying
  <2> QED
    BY <1>1, <2>1 DEF NameInv, TurnInv, Busy
<1> QED
  BY <1>2, <1>3

LEMMA NameCall ==
  ASSUME IInv, NameInv, NEW i \in Moves, Step(i) \/ Call(i)
  PROVE  NameInv'
<1>1. Names(i) /\ UNCHANGED late
  BY NameSteps, StepsKeep
<1>2. DOMAIN file' = Locations
  BY <1>1 DEF Names, NameInv
<1>3. \A j \in Moves : Src[i] # Dst[j]
  BY TransferAssumption
<1>4. ASSUME NEW j \in Moves, pc'[j] \in Committing, file'[Dst[j]] # Absent
      PROVE  "create" \in late'[j]
  <2>1. CASE file' = file \/ file' = [file EXCEPT ![Src[i]] = Absent]
    <3>1. file'[Dst[j]] = file[Dst[j]]
      BY <2>1, <1>3, Named DEF NameInv
    <3> QED
      BY <3>1, <1>1, <1>4 DEF Names, NameInv, VacantInv
  <2>2. CASE /\ pc[i] = "replace" /\ pc'[i] = "sync"
             /\ file' = [file EXCEPT ![Dst[i]] = tmp[Dst[i]]]
    <3>1. i # j /\ pc[j] = pc'[j]
      BY <2>2, <1>1, <1>4 DEF Names, Committing
    <3>2. Busy(i) /\ Busy(j)
      BY <2>2, <3>1, <1>4 DEF Busy, Committing, Copying
    <3>3. Dst[j] # Dst[i]
      BY <3>1, <3>2 DEF NameInv, TurnInv
    <3>4. file'[Dst[j]] = file[Dst[j]]
      BY <2>2, <3>3, Named DEF NameInv
    <3> QED
      BY <3>1, <3>4, <1>1, <1>4 DEF NameInv, VacantInv
  <2> QED
    BY <2>1, <2>2, <1>1 DEF Names
<1>5. VacantInv'
  BY <1>4 DEF VacantInv
<1> QED
  BY <1>2, <1>5, Turns DEF NameInv

LEMMA NameOutside ==
  ASSUME IInv, NameInv, Interfere \/ RequestCancel
  PROVE  NameInv'
<1>1. UNCHANGED pc /\ \A i \in Moves : late[i] \subseteq late'[i]
  BY Outside DEF IInv
<1>2. TurnInv'
  BY <1>1 DEF NameInv, TurnInv, Busy
<1>3. ASSUME NEW i \in Moves, UserWrite(i) \/ UserRemove(i)
      PROVE  /\ DOMAIN file' = Locations
             /\ \A j \in Moves : file'[Dst[j]] = file[Dst[j]]
  <2>1. \A j \in Moves : Src[i] # Dst[j]
    BY TransferAssumption
  <2>2. \E x : file' = [file EXCEPT ![Src[i]] = x]
    BY <1>3 DEF UserWrite, UserRemove
  <2> QED
    BY <2>1, <2>2, Named DEF NameInv
<1>4. ASSUME NEW p \in Targets, UserCreate(p)
      PROVE  /\ DOMAIN file' = Locations
             /\ \A j \in Moves : Dst[j] # p => file'[Dst[j]] = file[Dst[j]]
             /\ \A j \in Moves : Dst[j] = p /\ pc[j] \in Committing =>
                   "create" \in late'[j]
  <2>1. \E x : file' = [file EXCEPT ![p] = x]
    BY <1>4 DEF UserCreate
  <2>2. Noted("create", {j \in Moves : Dst[j] = p})
    BY <1>4 DEF UserCreate
  <2>3. \A j \in Moves : Dst[j] = p /\ pc[j] \in Committing => "create" \in late'[j]
    BY <2>2 DEF Noted, TooLate, Committing
  <2> QED
    BY <2>1, <2>3, Named DEF NameInv
<1>5. ASSUME Crash
      PROVE  /\ DOMAIN file' = Locations
             /\ \A p \in Locations : file[p] = Absent => file'[p] = Absent
  BY <1>5 DEF Crash
<1>6. ASSUME RequestCancel \/ \E i \in Moves : Exclude(i) \/ Link(i)
      PROVE  file' = file
  BY <1>6 DEF RequestCancel, Exclude, Link, disk
<1>7. CASE Crash
  BY <1>7, <1>1, <1>2, <1>5, Named DEF NameInv, VacantInv
<1>8. CASE \E i \in Moves : UserWrite(i) \/ UserRemove(i)
  BY <1>8, <1>1, <1>2, <1>3 DEF NameInv, VacantInv
<1>9. CASE \E p \in Targets : UserCreate(p)
  <2>1. PICK p \in Targets : UserCreate(p)
    BY <1>9
  <2>2. VacantInv'
    BY <2>1, <1>1, <1>4 DEF NameInv, VacantInv
  <2> QED
    BY <2>1, <2>2, <1>2, <1>4 DEF NameInv
<1>10. CASE RequestCancel \/ \E i \in Moves : Exclude(i) \/ Link(i)
  BY <1>10, <1>1, <1>2, <1>6 DEF NameInv, VacantInv
<1> QED
  BY <1>7, <1>8, <1>9, <1>10 DEF Interfere

LEMMA NameNext == IInv /\ NameInv /\ [Next]_vars => NameInv'
<1> SUFFICES ASSUME IInv, NameInv, [Next]_vars PROVE NameInv'
  OBVIOUS
<1>1. CASE UNCHANGED vars
  BY <1>1 DEF vars, call, disk, outside, NameInv, TurnInv, VacantInv, Busy
<1> QED
  BY <1>1, NameCall, NameOutside DEF Next

(* A file that holds a destination name is replaced only if a user created *)
(* it after the existence check, whatever the moves, also those that share *)
(* a destination.                                                          *)
THEOREM ClobberSafety == Spec => NoClobber
<1>1. ASSUME IInv, NameInv, [Next]_vars, NEW i \in Moves,
             placed[i] = "source", placed'[i] = "both", file[Dst[i]] # Absent
      PROVE  "create" \in late[i]
  <2>1. pc[i] = "replace"
    <3>1. PICK j \in Moves : Call(j) \/ Step(j)
      BY <1>1, Outside DEF Next, vars, IInv
    <3> QED
      BY <1>1, <3>1, Steps DEF Control, Advance, Stop, CommitCall, Complete,
         LoseCleanup, IInv, ControlType
  <2> QED
    BY <1>1, <2>1 DEF NameInv, VacantInv, Committing, Copying
<1>2. IInv /\ NameInv /\ [Next]_vars =>
         [\A i \in Moves :
             placed[i] = "source" /\ placed'[i] = "both" /\ file[Dst[i]] # Absent
             => "create" \in late[i]]_vars
  BY <1>1
<1> QED
  BY <1>2, Invariance, NameInit, NameNext, PTL DEF Spec, NoClobber

-----------------------------------------------------------------------------
(* What the files hold: no contents of a user are lost by a move, and no   *)
(* partial file is left behind.                                            *)

(* A write that leaves size and timestamp unchanged is noticed only by the *)
(* hashes.                                                                 *)
Noticeable == "quiet" \in Env => Verify = "sha256"

(* The types of what a file holds.                                         *)
ContentType ==
    /\ DOMAIN file = Locations
    /\ \A p \in Locations : file[p] = Absent \/ file[p] \in File
    /\ \A i \in Moves : file[Src[i]] # Absent => Len(file[Src[i]].data) <= MaxChunks
    /\ DOMAIN tmp = Targets
    /\ \A p \in Targets : tmp[p] = Absent \/ tmp[p] \in File
    /\ before \in [Moves -> [size : 0..MaxChunks, mtime : 0..MaxWrites] \cup {Absent}]
    /\ digest \in [Moves -> Seq(0..MaxWrites)]
    /\ DOMAIN orig = Moves
    /\ \A i \in Moves : orig[i] = Absent \/ orig[i] \in Seq(0..MaxWrites)
    /\ durable \subseteq Targets
    /\ cancel \in BOOLEAN /\ up \in BOOLEAN
    /\ writes \in 0..MaxWrites

Prefix(s, t) == Len(s) <= Len(t) /\ \A k \in 1..Len(s) : s[k] = t[k]

(* While the call has not removed it, the source holds what the users gave *)
(* it, and only they take it away.                                         *)
SourceOK(i) ==
    /\ file[Src[i]] # Absent => /\ file[Src[i]].synced
                                /\ file[Src[i]].data = orig[i]
                                /\ file[Src[i]].mtime <= writes
    /\ file[Src[i]] = Absent /\ placed[i] # "destination" => orig[i] = Absent

(* The steps during which the partial file exists.                         *)
Owning  == {"copy", "flush"}
Synced  == {"copystat", "recheck", "hash", "compare", "final", "replace"}

PartialOK(i) ==
    /\ pc[i] \in Owning \cup Synced => tmp[Dst[i]] # Absent
    /\ pc[i] \in Synced => tmp[Dst[i]].synced
    /\ pc[i] \in {"sync", "unlink"} => tmp[Dst[i]] = Absent

(* If the timestamp is still the one noted before the copy, what has been  *)
(* copied is how the source begins.                                        *)
CopyOK(i) ==
    pc[i] \in {"open", "copy", "flush", "copystat", "recheck"} =>
        /\ before[i] # Absent
        /\ before[i].mtime <= writes
        /\ "quiet" \notin Env /\ pc[i] # "open" /\ file[Src[i]] # Absent
           /\ file[Src[i]].mtime = before[i].mtime
              => Prefix(tmp[Dst[i]].data, file[Src[i]].data)

(* What has been hashed is how the source begins.                          *)
HashOK(i) ==
    /\ pc[i] \in {"idle"} \cup Precheck \cup {"open", "copy", "flush", "copystat", "recheck"}
          => digest[i] = <<>>
    /\ pc[i] \in {"hash", "compare"} =>
          /\ Verify = "sha256"
          /\ "write" \notin late[i] /\ file[Src[i]] # Absent =>
                /\ Prefix(digest[i], file[Src[i]].data)
                /\ pc[i] = "compare" => digest[i] = file[Src[i]].data

(* What is checked is the source.                                          *)
CheckedOK(i) ==
    Noticeable /\ pc[i] \in {"final", "replace"} /\ "write" \notin late[i]
    /\ file[Src[i]] # Absent =>
        tmp[Dst[i]].data = file[Src[i]].data

(* What a call has put at its destination stays there: no other call to    *)
(* that destination is past its existence check.                           *)
PlacedOK(i) ==
    placed[i] # "source" =>
        /\ file[Dst[i]] # Absent /\ file[Dst[i]].synced
        /\ Noticeable /\ "write" \notin late[i] /\ orig[i] # Absent
              => file[Dst[i]].data = orig[i]
        /\ pc[i] = "unlink" \/ placed[i] = "destination" => Dst[i] \in durable
        /\ \A j \in Moves : Dst[j] = Dst[i] => pc[j] \notin Committing

CallContent(i) == /\ SourceOK(i) /\ PartialOK(i) /\ CopyOK(i)
                  /\ HashOK(i) /\ CheckedOK(i) /\ PlacedOK(i)

ContentInv == up => \A i \in Moves : CallContent(i)
LostInv    == ~up /\ Noticeable => Preserved

-----------------------------------------------------------------------------
(* Prefixes.                                                               *)
LEMMA PrefixEmpty ==
  ASSUME NEW S, NEW t \in Seq(S)
  PROVE  Prefix(<<>>, t)
BY DEF Prefix

LEMMA PrefixAppend ==
  ASSUME NEW S, NEW s \in Seq(S), NEW t \in Seq(S), Prefix(s, t), Len(s) + 1 <= Len(t)
  PROVE  Prefix(Append(s, t[Len(s) + 1]), t)
BY DEF Prefix

LEMMA PrefixWhole ==
  ASSUME NEW S, NEW s \in Seq(S), NEW t \in Seq(S), Prefix(s, t), Len(t) <= Len(s)
  PROVE  s = t
BY DEF Prefix

-----------------------------------------------------------------------------
(* What the step of one call leaves alone.                                 *)
Frame(i) ==
    /\ \A j \in Moves \ {i} : /\ pc'[j] = pc[j] /\ before'[j] = before[j]
                              /\ digest'[j] = digest[j] /\ placed'[j] = placed[j]
    /\ UNCHANGED <<late, orig, writes, up>>
    /\ \/ file' = file
       \/ pc[i] = "unlink" /\ file' = [file EXCEPT ![Src[i]] = Absent]
       \/ pc[i] = "replace" /\ file' = [file EXCEPT ![Dst[i]] = tmp[Dst[i]]]
    /\ \A p \in Targets : p # Dst[i] => /\ tmp'[p] = tmp[p]
                                        /\ p \in durable' <=> p \in durable
    /\ pc[i] # "replace" => durable \subseteq durable'

LEMMA FrameStep ==
  ASSUME IInv, ContentType, NEW i \in Moves, Step(i) \/ Call(i)
  PROVE  Frame(i)
<1> USE DEF Frame, IInv, ControlType, ContentType, At, Goto, outside, call, disk
<1>0. UNCHANGED <<late, orig, writes, up>>
  BY DEF Step, Call
<1>1. ASSUME NEW r, Abort(i, r) PROVE Frame(i)
  BY <1>0, <1>1 DEF Abort
<1>2. ASSUME Cancelled(i) PROVE Frame(i)
  BY <1>1, <1>2 DEF Cancelled
<1>3. CASE Call(i)
  BY <1>0, <1>3 DEF Call, Begin
<1>4. CASE Enter(i)
  BY <1>0, <1>4, <1>1, <1>2 DEF Enter
<1>5. CASE CheckDestination(i)
  BY <1>0, <1>5, <1>1 DEF CheckDestination
<1>6. CASE StatSource(i)
  BY <1>0, <1>6, <1>1 DEF StatSource
<1>7. CASE OpenFiles(i)
  BY <1>0, <1>7, <1>1 DEF OpenFiles
<1>8. CASE CopyChunk(i)
  BY <1>0, <1>8, <1>2 DEF CopyChunk
<1>9. CASE Flush(i) \/ CopyStat(i)
  BY <1>0, <1>9, <1>1 DEF Flush, CopyStat
<1>10. CASE Recheck(i)
  BY <1>0, <1>10, <1>1, <1>2 DEF Recheck
<1>11. CASE HashChunk(i)
  BY <1>0, <1>11, <1>2 DEF HashChunk
<1>12. CASE Compare(i)
  BY <1>0, <1>12, <1>1, <1>2 DEF Compare
<1>13. CASE FinalCheck(i)
  BY <1>0, <1>13, <1>1, <1>2 DEF FinalCheck
<1>14. CASE Replace(i)
  BY <1>0, <1>14 DEF Replace
<1>15. CASE SyncDirectory(i) \/ Cleanup(i) \/ CleanupFails(i)
  BY <1>0, <1>15 DEF SyncDirectory, Cleanup, CleanupFails
<1>16. CASE UnlinkSource(i)
  BY <1>0, <1>16, <1>1 DEF UnlinkSource
<1>17. CASE IOError(i)
  BY <1>0, <1>17, <1>1 DEF IOError
<1> QED
  BY <1>3, <1>4, <1>5, <1>6, <1>7, <1>8, <1>9, <1>10, <1>11, <1>12, <1>13,
     <1>14, <1>15, <1>16, <1>17 DEF Step, Proceed

LEMMA StepBusy ==
  ASSUME NEW i \in Moves, Step(i)
  PROVE  Busy(i)
BY DEF Step, Proceed, Enter, CheckDestination, StatSource, OpenFiles,
       CopyChunk, Flush, CopyStat, Recheck, HashChunk, Compare, FinalCheck,
       Replace, SyncDirectory, UnlinkSource, Cleanup, CleanupFails, IOError,
       At, Busy, Precheck, Copying

(* The other calls: those to other destinations share no file with this    *)
(* one, and those to the same destination do not run.                      *)
LEMMA Elsewhere ==
  ASSUME IInv, NameInv, ContentType, NEW i \in Moves, Step(i) \/ Call(i),
         NEW j \in Moves \ {i}, CallContent(j)
  PROVE  CallContent(j)'
<1> USE DEF CallContent
<1>1. Frame(i) /\ Names(i)
  BY FrameStep, NameSteps
<1>2. Src[j] # Src[i] /\ \A k \in Moves : Src[j] # Dst[k] /\ Src[i] # Dst[k]
  BY TransferAssumption
<1>3. DOMAIN file = Locations /\ Src[j] \in Locations /\ Dst[j] \in Locations
      /\ Dst[j] \in Targets /\ Dst[i] \in Targets
  BY Named DEF ContentType, Targets
<1>4. /\ pc'[j] = pc[j] /\ before'[j] = before[j] /\ digest'[j] = digest[j]
      /\ placed'[j] = placed[j]
      /\ UNCHANGED <<late, orig, writes, up>>
      /\ file'[Src[j]] = file[Src[j]]
  BY <1>1, <1>2, <1>3 DEF Frame
<1>5. SourceOK(j)'
  BY <1>4 DEF SourceOK
<1>6. CASE Dst[j] # Dst[i]
  <2>1. /\ tmp'[Dst[j]] = tmp[Dst[j]] /\ file'[Dst[j]] = file[Dst[j]]
        /\ Dst[j] \in durable' <=> Dst[j] \in durable
    <3>1. file'[Dst[j]] = file[Dst[j]]
      BY <1>1, <1>2, <1>3, <1>6 DEF Frame
    <3> QED
      BY <1>1, <1>3, <1>6, <3>1 DEF Frame
  <2>2. PartialOK(j)' /\ CopyOK(j)' /\ HashOK(j)' /\ CheckedOK(j)'
    BY <1>4, <2>1 DEF PartialOK, CopyOK, HashOK, CheckedOK
  <2>3. \A k \in Moves : Dst[k] = Dst[j] => pc'[k] = pc[k]
    BY <1>1, <1>6 DEF Frame
  <2>4. PlacedOK(j)'
    BY <1>4, <2>1, <2>3 DEF PlacedOK
  <2> QED
    BY <1>5, <2>2, <2>4
<1>7. CASE Dst[j] = Dst[i]
  <2>1. pc[j] \in {"idle", "ended"}
    BY <1>7, StepBusy DEF NameInv, TurnInv, Busy, Call
  <2>2. PartialOK(j)' /\ CopyOK(j)' /\ CheckedOK(j)'
    BY <1>4, <2>1 DEF PartialOK, CopyOK, CheckedOK, Owning, Synced
  <2>3. HashOK(j)'
    BY <1>4, <2>1 DEF HashOK, Precheck
  <2>4. ASSUME placed[j] # "source"
        PROVE  PlacedOK(j)'
    <3>1. pc[i] # "replace" /\ file[Dst[i]] # Absent
      BY <1>7, <2>4 DEF PlacedOK, Committing, Copying
    <3>2. file'[Dst[j]] = file[Dst[j]] /\ durable \subseteq durable'
      BY <1>1, <1>2, <1>3, <3>1 DEF Frame
    <3>3. \A k \in Moves : Dst[k] = Dst[j] => pc'[k] \notin Committing
      BY <1>1, <1>7, <2>4, <3>1 DEF Frame, Names, PlacedOK
    <3> QED
      BY <1>4, <2>4, <3>2, <3>3 DEF PlacedOK
  <2> QED
    BY <1>4, <1>5, <2>2, <2>3, <2>4 DEF PlacedOK
<1> QED
  BY <1>6, <1>7

-----------------------------------------------------------------------------
(* The types are kept.                                                     *)
LEMMA FileTypes ==
    /\ Empty \in File /\ Absent \notin File
    /\ \A f \in File : /\ f.data \in Seq(0..MaxWrites) /\ f.mtime \in 0..MaxWrites
                       /\ f.synced \in BOOLEAN /\ Len(f.data) \in Nat
                       /\ [f EXCEPT !.synced = TRUE] \in File
                       /\ \A m \in 0..MaxWrites : [f EXCEPT !.mtime = m] \in File
                       /\ \A k \in 0..MaxWrites :
                             [f EXCEPT !.data = Append(f.data, k)] \in File
<1>1. Empty \in File
  BY TransferAssumption DEF Empty, File
<1>2. ASSUME NEW f \in File, NEW k \in 0..MaxWrites
      PROVE  [f EXCEPT !.data = Append(f.data, k)] \in File
  <2>1. Append(f.data, k) \in Seq(0..MaxWrites)
    BY <1>2 DEF File
  <2> QED
    BY <2>1 DEF File
<1>3. Absent \notin File
  BY AbsentAssumption
<1>4. ASSUME NEW f \in File
      PROVE  /\ f.data \in Seq(0..MaxWrites) /\ f.mtime \in 0..MaxWrites
             /\ f.synced \in BOOLEAN /\ Len(f.data) \in Nat
  <2>1. f.data \in Seq(0..MaxWrites) /\ f.mtime \in 0..MaxWrites /\ f.synced \in BOOLEAN
    BY DEF File
  <2> QED
    BY <2>1, LenProperties
<1>5. ASSUME NEW f \in File
      PROVE  /\ [f EXCEPT !.synced = TRUE] \in File
             /\ \A m \in 0..MaxWrites : [f EXCEPT !.mtime = m] \in File
  BY DEF File
<1> QED
  BY <1>1, <1>2, <1>3, <1>4, <1>5

LEMMA FieldTypes ==
  ASSUME NEW f \in File
  PROVE  /\ f.data \in Seq(0..MaxWrites) /\ f.mtime \in Nat /\ Len(f.data) \in Nat
         /\ f # Absent
<1>1. f.mtime \in 0..MaxWrites /\ f.data \in Seq(0..MaxWrites) /\ f # Absent
  BY FileTypes
<1> QED
  BY <1>1, LenProperties, TransferAssumption

LEMMA ChunkType ==
  ASSUME NEW s \in Seq(0..MaxWrites), NEW k \in Nat \ {0}, k <= Len(s)
  PROVE  s[k] \in 0..MaxWrites
<1>1. Len(s) \in Nat
  BY LenProperties
<1>2. k \in 1..Len(s)
  BY <1>1
<1> QED
  BY <1>2, ElementOfSeq

LEMMA ContentTypeStep ==
  ASSUME IInv, ContentType, NEW i \in Moves, CallContent(i), Step(i) \/ Call(i)
  PROVE  ContentType'
<1> USE FileTypes, Named DEF ContentType, At, Goto, outside, call, disk
<1>0. /\ UNCHANGED <<cancel, up, writes, orig>>
      /\ \A k \in Moves : Src[k] # Dst[i] /\ (k # i => Src[k] # Src[i])
      /\ Dst[i] \in Targets
  BY TransferAssumption DEF Step, Call, Targets
<1>1. CASE UNCHANGED <<before, digest, disk>>
  BY <1>0, <1>1
<1>2. CASE pc[i] \in Precheck \cup Copying /\ \E r : Abort(i, r)
  BY <1>1, <1>2 DEF Abort
<1>3. CASE Cancelled(i)
  BY <1>1, <1>3 DEF Cancelled, Abort
<1>4. CASE Call(i) \/ Enter(i) \/ CheckDestination(i)
  BY <1>1, <1>3, <1>4 DEF Call, Begin, Enter, CheckDestination, Abort
<1>5. CASE StatSource(i)
  <2>1. CASE file[Src[i]] = Absent
    BY <1>1, <1>5, <2>1 DEF StatSource, Abort
  <2>2. CASE file[Src[i]] # Absent
    <3>1. /\ file[Src[i]] \in File /\ Len(file[Src[i]].data) \in 0..MaxChunks
          /\ file[Src[i]].mtime \in 0..MaxWrites
      <4>1. file[Src[i]] \in File /\ Len(file[Src[i]].data) <= MaxChunks
        BY <2>2
      <4>2. Len(file[Src[i]].data) \in Nat /\ file[Src[i]].mtime \in 0..MaxWrites
        BY <4>1, FileTypes
      <4> HIDE FileTypes DEF ContentType
      <4> QED
        BY <4>1, <4>2, TransferAssumption
    <3>2. Stat(file[Src[i]]) \in [size : 0..MaxChunks, mtime : 0..MaxWrites]
      BY <3>1 DEF Stat
    <3> QED
      BY <1>0, <1>5, <2>2, <3>2 DEF StatSource
  <2> QED
    BY <2>1, <2>2
<1>6. CASE OpenFiles(i)
  BY <1>0, <1>1, <1>6 DEF OpenFiles, Abort
<1>7. CASE CopyChunk(i)
  <2> DEFINE k == Len(tmp[Dst[i]].data) + 1
  <2>1. CASE tmp' = [tmp EXCEPT ![Dst[i]].data = Append(@, file[Src[i]].data[k])]
             /\ HasChunk(i, k) /\ UNCHANGED <<call, file, durable>> /\ pc[i] = "copy"
    <3>1. tmp[Dst[i]] \in File /\ file[Src[i]] \in File
      BY <1>0, <2>1 DEF CallContent, PartialOK, HasChunk, Owning
    <3>2. file[Src[i]].data[k] \in 0..MaxWrites
      <4>1. k \in Nat \ {0} /\ k <= Len(file[Src[i]].data)
        BY <2>1, <3>1 DEF HasChunk
      <4> QED
        BY <3>1, <4>1, ChunkType
    <3> QED
      BY <1>0, <2>1, <3>1, <3>2
  <2> QED
    BY <1>1, <1>3, <1>7, <2>1 DEF CopyChunk
<1>8. CASE Flush(i)
  BY <1>0, <1>8 DEF Flush, CallContent, PartialOK, Owning
<1>9. CASE CopyStat(i)
  <2>1. CASE tmp' = [tmp EXCEPT ![Dst[i]].mtime = file[Src[i]].mtime]
             /\ file[Src[i]] # Absent /\ pc[i] = "copystat"
             /\ UNCHANGED <<before, digest, file, durable>>
    <3>1. tmp[Dst[i]] \in File /\ file[Src[i]] \in File
      BY <1>0, <2>1 DEF CallContent, PartialOK, Synced
    <3> QED
      BY <1>0, <2>1, <3>1
  <2> QED
    BY <1>1, <1>9, <2>1 DEF CopyStat, Abort
<1>10. CASE Recheck(i) \/ Compare(i) \/ FinalCheck(i) \/ CleanupFails(i) \/ IOError(i)
  BY <1>1, <1>10 DEF Recheck, Compare, FinalCheck, CleanupFails, IOError, Cancelled, Abort
<1>11. CASE HashChunk(i)
  <2> DEFINE k == Len(digest[i]) + 1
  <2>1. CASE digest' = [digest EXCEPT ![i] = Append(@, file[Src[i]].data[k])]
             /\ HasChunk(i, k) /\ UNCHANGED <<before, disk>>
    <3>1. file[Src[i]].data[k] \in 0..MaxWrites
      <4>1. k \in Nat \ {0} /\ k <= Len(file[Src[i]].data) /\ file[Src[i]] \in File
        BY <2>1 DEF HasChunk
      <4> QED
        BY <4>1, ChunkType
    <3> QED
      BY <1>0, <2>1, <3>1
  <2> QED
    BY <1>1, <1>3, <1>11, <2>1 DEF HashChunk
<1>12. CASE Replace(i)
  BY <1>0, <1>12 DEF Replace
<1>13. CASE SyncDirectory(i) \/ Cleanup(i)
  BY <1>0, <1>13 DEF SyncDirectory, Cleanup
<1>14. CASE UnlinkSource(i)
  <2>1. CASE file' = [file EXCEPT ![Src[i]] = Absent] /\ UNCHANGED <<before, digest, tmp, durable>>
    BY <1>0, <2>1
  <2> QED
    BY <1>1, <1>14, <2>1 DEF UnlinkSource, Abort
<1> QED
  BY <1>4, <1>5, <1>6, <1>7, <1>8, <1>9, <1>10, <1>11, <1>12, <1>13, <1>14
  DEF Step, Proceed

-----------------------------------------------------------------------------
(* The call that takes the step.  Where it goes without touching a file,   *)
(* nothing more is promised than before.                                   *)
LEMMA OwnLeaves ==
  ASSUME IInv, NEW i \in Moves, CallContent(i),
         UNCHANGED <<before, digest, disk, placed, outside>>,
         pc'[i] \in {"cleanup", "ended"} \cup Precheck,
         pc'[i] \in Precheck => pc[i] \in {"idle"} \cup Precheck,
         \A j \in Moves \ {i} : pc'[j] = pc[j]
  PROVE  CallContent(i)'
<1> USE DEF IInv, ControlType, CallContent, disk, outside
<1>1. SourceOK(i)' /\ PartialOK(i)' /\ CopyOK(i)' /\ CheckedOK(i)'
  BY DEF SourceOK, PartialOK, CopyOK, CheckedOK, Owning, Synced, Precheck
<1>2. HashOK(i)'
  BY DEF HashOK, Precheck
<1>3. PlacedOK(i)'
  BY DEF PlacedOK, CallInv, CallOK, Committing, Precheck, Copying
<1> QED
  BY <1>1, <1>2, <1>3

LEMMA OwnStep ==
  ASSUME IInv, NameInv, ContentType, NEW i \in Moves, CallContent(i), Step(i) \/ Call(i)
  PROVE  CallContent(i)'
<1> USE DEF At, Goto, call
<1>0. /\ UNCHANGED outside
      /\ Dst[i] \in Targets /\ Dst[i] \in Locations /\ Src[i] \in Locations
      /\ \A k \in Moves : Src[i] # Dst[k]
      /\ DOMAIN file = Locations /\ DOMAIN tmp = Targets
      /\ DOMAIN before = Moves /\ DOMAIN digest = Moves
      /\ file[Src[i]] = Absent \/ file[Src[i]] \in File
      /\ tmp[Dst[i]] = Absent \/ tmp[Dst[i]] \in File
      /\ pc \in [Moves -> {"idle", "cleanup", "ended"} \cup Precheck \cup Copying]
      /\ placed \in [Moves -> {"source", "both", "destination"}]
  BY TransferAssumption, Named DEF Step, Call, Targets, ContentType, IInv, ControlType
<1>1. ASSUME NEW r, Abort(i, r), pc[i] \in Precheck \cup Copying
      PROVE  CallContent(i)'
  <2>1. /\ pc'[i] \in {"cleanup", "ended"}
        /\ \A j \in Moves \ {i} : pc'[j] = pc[j]
        /\ UNCHANGED <<before, digest, disk, placed>>
    BY <1>0, <1>1 DEF Abort
  <2> QED
    BY <1>0, <2>1, OwnLeaves DEF Precheck
<1>2. ASSUME Cancelled(i), pc[i] \in Precheck \cup Copying
      PROVE  CallContent(i)'
  BY <1>1, <1>2 DEF Cancelled
<1>3. ASSUME NEW s \in Precheck, Goto(i, s), UNCHANGED <<before, digest, disk, placed>>,
             pc[i] \in {"idle"} \cup Precheck
      PROVE  CallContent(i)'
  <2>1. pc'[i] = s /\ \A j \in Moves \ {i} : pc'[j] = pc[j]
    BY <1>0, <1>3
  <2> QED
    BY <1>0, <1>3, <2>1, OwnLeaves
<1>4. CASE Call(i)
  BY <1>3, <1>4 DEF Call, Begin, Precheck
<1>5. CASE Enter(i) \/ CheckDestination(i)
  BY <1>1, <1>2, <1>3, <1>5 DEF Enter, CheckDestination, Precheck
<1>6. CASE IOError(i)
  BY <1>1, <1>6 DEF IOError
<1>7. CASE CleanupFails(i)
  <2>1. pc'[i] = "ended" /\ \A j \in Moves \ {i} : pc'[j] = pc[j]
    BY <1>0, <1>7 DEF CleanupFails
  <2> QED
    BY <1>0, <1>7, <2>1, OwnLeaves DEF CleanupFails, Precheck
<1>8. ASSUME placed[i] = "source", placed' = placed
      PROVE  PlacedOK(i)'
  BY <1>8 DEF PlacedOK
<1>9. ASSUME file' = file, placed' = placed
      PROVE  SourceOK(i)'
  BY <1>0, <1>9 DEF CallContent, SourceOK, outside
<1>10. pc[i] \in Precheck \cup (Copying \ {"sync", "unlink"}) => placed[i] = "source"
  BY DEF IInv, CallInv, CallOK
<1>11. CASE StatSource(i)
  <2>1. CASE /\ pc[i] = "stat" /\ file[Src[i]] # Absent
             /\ before' = [before EXCEPT ![i] = Stat(file[Src[i]])]
             /\ pc' = [pc EXCEPT ![i] = "open"]
             /\ UNCHANGED <<digest, disk, placed>>
    <3>1. /\ before'[i] = [size |-> Len(file[Src[i]].data), mtime |-> file[Src[i]].mtime]
          /\ pc'[i] = "open"
      BY <1>0, <2>1 DEF Stat
    <3>2. before'[i].mtime <= writes
      BY <1>0, <2>1, <3>1 DEF CallContent, SourceOK, outside
    <3>3. before'[i] # Absent
      <4>1. file[Src[i]] \in File
        BY <1>0, <2>1
      <4>2. Len(file[Src[i]].data) \in Nat /\ file[Src[i]].mtime \in Nat
        BY <4>1, FieldTypes
      <4> QED
        BY <3>1, <4>2, AbsentAssumption
    <3>4. CopyOK(i)'
      BY <1>0, <3>1, <3>2, <3>3 DEF CopyOK, outside
    <3>5. PartialOK(i)' /\ CheckedOK(i)' /\ HashOK(i)'
      BY <1>0, <2>1, <3>1
      DEF CallContent, PartialOK, CheckedOK, HashOK, Owning, Synced, Precheck, disk, outside
    <3> QED
      BY <1>8, <1>9, <1>10, <2>1, <3>4, <3>5 DEF CallContent, Precheck, disk
  <2> QED
    BY <1>1, <1>11, <2>1 DEF StatSource, Precheck
<1>12. CASE OpenFiles(i)
  <2>1. CASE /\ pc[i] = "open" /\ tmp' = [tmp EXCEPT ![Dst[i]] = Empty]
             /\ pc' = [pc EXCEPT ![i] = "copy"]
             /\ UNCHANGED <<before, digest, file, durable, placed>>
    <3>1. /\ pc'[i] = "copy" /\ tmp'[Dst[i]] = Empty /\ tmp'[Dst[i]].data = <<>>
      BY <1>0, <2>1 DEF Empty
    <3>5. tmp'[Dst[i]] # Absent
      BY <3>1, FileTypes
    <3>2. file[Src[i]] # Absent => Prefix(<<>>, file[Src[i]].data)
      BY <1>0, FieldTypes, PrefixEmpty
    <3>3. CopyOK(i)'
      BY <1>0, <2>1, <3>1, <3>2 DEF CallContent, CopyOK, outside
    <3>4. PartialOK(i)' /\ CheckedOK(i)' /\ HashOK(i)'
      BY <1>0, <2>1, <3>1, <3>5
      DEF CallContent, PartialOK, CheckedOK, HashOK, Owning, Synced, Precheck, disk, outside
    <3> QED
      BY <1>8, <1>9, <1>10, <2>1, <3>3, <3>4 DEF CallContent, Copying
  <2> QED
    BY <1>1, <1>12, <2>1 DEF OpenFiles, Copying
<1>13. CASE CopyChunk(i)
  <2> DEFINE k == Len(tmp[Dst[i]].data) + 1
  <2>1. CASE /\ pc[i] = "copy" /\ HasChunk(i, k)
             /\ tmp' = [tmp EXCEPT ![Dst[i]].data = Append(@, file[Src[i]].data[k])]
             /\ UNCHANGED <<call, file, durable, placed>>
    <3>1. tmp[Dst[i]] \in File /\ file[Src[i]] \in File
      BY <1>0, <2>1 DEF CallContent, PartialOK, HasChunk, Owning
    <3>2. /\ tmp[Dst[i]].data \in Seq(0..MaxWrites) /\ file[Src[i]].data \in Seq(0..MaxWrites)
          /\ k \in Nat \ {0} /\ k <= Len(file[Src[i]].data)
      BY <2>1, <3>1, FieldTypes DEF HasChunk
    <3>3. tmp'[Dst[i]] =
              [tmp[Dst[i]] EXCEPT !.data = Append(tmp[Dst[i]].data, file[Src[i]].data[k])]
      BY <1>0, <2>1
    <3>4. tmp'[Dst[i]] \in File
      <4>1. file[Src[i]].data[k] \in 0..MaxWrites
        BY <3>2, ChunkType
      <4> QED
        BY <3>1, <3>3, <4>1, FileTypes
    <3>5. tmp'[Dst[i]].data = Append(tmp[Dst[i]].data, file[Src[i]].data[k])
      BY <3>1, <3>3 DEF File
    <3>6. Prefix(tmp[Dst[i]].data, file[Src[i]].data)
             => Prefix(tmp'[Dst[i]].data, file[Src[i]].data)
      BY <3>2, <3>5, PrefixAppend
    <3>7. CopyOK(i)'
      BY <1>0, <2>1, <3>6 DEF CallContent, CopyOK, outside
    <3>8. PartialOK(i)' /\ CheckedOK(i)' /\ HashOK(i)'
      BY <1>0, <2>1, <3>4, FieldTypes
      DEF CallContent, PartialOK, CheckedOK, HashOK, Owning, Synced, Precheck, outside
    <3> QED
      BY <1>8, <1>9, <1>10, <2>1, <3>7, <3>8 DEF CallContent, Copying
  <2>2. CASE /\ pc[i] = "copy" /\ pc' = [pc EXCEPT ![i] = "flush"]
             /\ UNCHANGED <<before, digest, disk, placed>>
    <3>1. CopyOK(i)' /\ PartialOK(i)' /\ CheckedOK(i)' /\ HashOK(i)'
      BY <1>0, <2>2
      DEF CallContent, CopyOK, PartialOK, CheckedOK, HashOK, Owning, Synced, Precheck, disk, outside
    <3> QED
      BY <1>8, <1>9, <1>10, <2>2, <3>1 DEF CallContent, Copying, disk
  <2> QED
    BY <1>2, <1>13, <2>1, <2>2 DEF CopyChunk, Copying
<1>14. CASE Flush(i)
  <2>1. tmp[Dst[i]] \in File /\ pc[i] = "flush"
    BY <1>0, <1>14 DEF Flush, CallContent, PartialOK, Owning
  <2>2. tmp'[Dst[i]] = [tmp[Dst[i]] EXCEPT !.synced = TRUE] /\ pc'[i] = "copystat"
    BY <1>0, <1>14 DEF Flush
  <2>3. /\ tmp'[Dst[i]] \in File /\ tmp'[Dst[i]].synced
        /\ tmp'[Dst[i]].data = tmp[Dst[i]].data
    BY <2>1, <2>2, FileTypes DEF File
  <2>4. PartialOK(i)'
    BY <2>2, <2>3, FieldTypes DEF PartialOK, Owning, Synced
  <2>5. CopyOK(i)' /\ CheckedOK(i)' /\ HashOK(i)'
    BY <1>0, <1>14, <2>1, <2>2, <2>3
    DEF Flush, CallContent, CopyOK, CheckedOK, HashOK, Precheck, outside
  <2> QED
    BY <1>8, <1>9, <1>10, <1>14, <2>4, <2>5 DEF Flush, CallContent, Copying
<1>15. CASE CopyStat(i)
  <2>1. CASE /\ pc[i] = "copystat" /\ file[Src[i]] # Absent
             /\ tmp' = [tmp EXCEPT ![Dst[i]].mtime = file[Src[i]].mtime]
             /\ pc' = [pc EXCEPT ![i] = "recheck"]
             /\ UNCHANGED <<before, digest, file, durable, placed>>
    <3>1. tmp[Dst[i]] \in File /\ tmp[Dst[i]].synced /\ file[Src[i]] \in File
      BY <1>0, <2>1 DEF CallContent, PartialOK, Synced
    <3>2. /\ tmp'[Dst[i]] = [tmp[Dst[i]] EXCEPT !.mtime = file[Src[i]].mtime]
          /\ pc'[i] = "recheck"
      BY <1>0, <2>1
    <3>3. /\ tmp'[Dst[i]] \in File /\ tmp'[Dst[i]].synced
          /\ tmp'[Dst[i]].data = tmp[Dst[i]].data
      BY <3>1, <3>2, FileTypes DEF File
    <3>4. PartialOK(i)'
      BY <3>2, <3>3, FieldTypes DEF PartialOK, Owning, Synced
    <3>5. CopyOK(i)' /\ CheckedOK(i)' /\ HashOK(i)'
      BY <1>0, <2>1, <3>2, <3>3
      DEF CallContent, CopyOK, CheckedOK, HashOK, Precheck, outside
    <3> QED
      BY <1>8, <1>9, <1>10, <2>1, <3>4, <3>5 DEF CallContent, Copying
  <2> QED
    BY <1>1, <1>15, <2>1 DEF CopyStat, Copying
<1>16. CASE Recheck(i)
  <2>1. CASE /\ pc[i] = "recheck" /\ Stable(i)
             /\ pc' = [pc EXCEPT ![i] = IF Verify = "sha256" THEN "hash" ELSE "final"]
             /\ UNCHANGED <<before, digest, disk, placed>>
    <3>1. /\ file[Src[i]] # Absent /\ file[Src[i]].mtime = before[i].mtime
          /\ Len(tmp[Dst[i]].data) = Len(file[Src[i]].data)
      BY <2>1 DEF Stable, Stat
    <3>2. file[Src[i]] \in File /\ tmp[Dst[i]] \in File
      BY <1>0, <2>1, <3>1 DEF CallContent, PartialOK, Synced
    <3>3. Noticeable /\ Verify # "sha256" => tmp[Dst[i]].data = file[Src[i]].data
      <4>1. SUFFICES ASSUME Noticeable, Verify # "sha256"
                     PROVE  tmp[Dst[i]].data = file[Src[i]].data
        OBVIOUS
      <4>2. Prefix(tmp[Dst[i]].data, file[Src[i]].data)
        BY <2>1, <3>1, <4>1 DEF CallContent, CopyOK, Noticeable
      <4> QED
        BY <3>1, <3>2, <4>2, FieldTypes, PrefixWhole
    <3>4. Prefix(<<>>, file[Src[i]].data) /\ digest[i] = <<>>
      BY <2>1, <3>2, FieldTypes, PrefixEmpty DEF CallContent, HashOK
    <3>5. pc'[i] = IF Verify = "sha256" THEN "hash" ELSE "final"
      BY <1>0, <2>1
    <3>6. HashOK(i)' /\ CopyOK(i)'
      BY <1>0, <2>1, <3>4, <3>5 DEF HashOK, CopyOK, Precheck, disk, outside
    <3>7. PartialOK(i)' /\ CheckedOK(i)'
      BY <1>0, <2>1, <3>3, <3>5
      DEF CallContent, PartialOK, CheckedOK, Owning, Synced, disk, outside
    <3> QED
      BY <1>8, <1>9, <1>10, <2>1, <3>6, <3>7 DEF CallContent, Copying, disk
  <2> QED
    BY <1>1, <1>2, <1>16, <2>1 DEF Recheck, Copying
<1>17. CASE HashChunk(i)
  <2> DEFINE k == Len(digest[i]) + 1
  <2>0. digest[i] \in Seq(0..MaxWrites) /\ Len(digest[i]) \in Nat
    BY LenProperties DEF ContentType
  <2>1. CASE /\ pc[i] = "hash" /\ HasChunk(i, k)
             /\ digest' = [digest EXCEPT ![i] = Append(@, file[Src[i]].data[k])]
             /\ UNCHANGED <<pc, before, disk, placed>>
    <3>1. file[Src[i]] \in File /\ k <= Len(file[Src[i]].data)
      BY <1>0, <2>1 DEF HasChunk
    <3>2. Prefix(digest[i], file[Src[i]].data)
             => Prefix(Append(digest[i], file[Src[i]].data[k]), file[Src[i]].data)
      BY <2>0, <3>1, FieldTypes, PrefixAppend
    <3>3. digest'[i] = Append(digest[i], file[Src[i]].data[k])
      BY <1>0, <2>1
    <3>4. HashOK(i)'
      BY <1>0, <2>1, <3>2, <3>3 DEF CallContent, HashOK, Precheck, disk, outside
    <3>5. PartialOK(i)' /\ CheckedOK(i)' /\ CopyOK(i)'
      BY <1>0, <2>1
      DEF CallContent, PartialOK, CheckedOK, CopyOK, Owning, Synced, disk, outside
    <3> QED
      BY <1>8, <1>9, <1>10, <2>1, <3>4, <3>5 DEF CallContent, Copying, disk
  <2>2. CASE /\ pc[i] = "hash" /\ ~HasChunk(i, k)
             /\ pc' = [pc EXCEPT ![i] = "compare"]
             /\ UNCHANGED <<before, digest, disk, placed>>
    <3>1. ASSUME file[Src[i]] # Absent, Prefix(digest[i], file[Src[i]].data)
          PROVE  digest[i] = file[Src[i]].data
      <4>1. file[Src[i]] \in File /\ Len(file[Src[i]].data) \in Nat
        BY <1>0, <3>1, FieldTypes
      <4>2. Len(file[Src[i]].data) <= Len(digest[i])
        BY <2>0, <2>2, <3>1, <4>1 DEF HasChunk
      <4> QED
        BY <2>0, <3>1, <4>1, <4>2, FieldTypes, PrefixWhole
    <3>2. HashOK(i)'
      BY <1>0, <2>2, <3>1 DEF CallContent, HashOK, Precheck, disk, outside
    <3>3. PartialOK(i)' /\ CheckedOK(i)' /\ CopyOK(i)'
      BY <1>0, <2>2
      DEF CallContent, PartialOK, CheckedOK, CopyOK, Owning, Synced, disk, outside
    <3> QED
      BY <1>8, <1>9, <1>10, <2>2, <3>2, <3>3 DEF CallContent, Copying, disk
  <2> QED
    BY <1>2, <1>17, <2>1, <2>2 DEF HashChunk, Copying
<1>18. CASE Compare(i)
  <2>1. CASE /\ pc[i] = "compare" /\ digest[i] = tmp[Dst[i]].data
             /\ pc' = [pc EXCEPT ![i] = "final"]
             /\ UNCHANGED <<before, digest, disk, placed>>
    <3>1. PartialOK(i)' /\ CheckedOK(i)' /\ CopyOK(i)' /\ HashOK(i)'
      BY <1>0, <2>1
      DEF CallContent, PartialOK, CheckedOK, CopyOK, HashOK, Owning, Synced, Precheck, disk, outside
    <3> QED
      BY <1>8, <1>9, <1>10, <2>1, <3>1 DEF CallContent, Copying, disk
  <2> QED
    BY <1>1, <1>2, <1>18, <2>1 DEF Compare, Copying
<1>19. CASE FinalCheck(i)
  <2>1. CASE /\ pc[i] = "final" /\ pc' = [pc EXCEPT ![i] = "replace"]
             /\ UNCHANGED <<before, digest, disk, placed>>
    <3>1. PartialOK(i)' /\ CheckedOK(i)' /\ CopyOK(i)' /\ HashOK(i)'
      BY <1>0, <2>1
      DEF CallContent, PartialOK, CheckedOK, CopyOK, HashOK, Owning, Synced, Precheck, disk, outside
    <3> QED
      BY <1>8, <1>9, <1>10, <2>1, <3>1 DEF CallContent, Copying, disk
  <2> QED
    BY <1>1, <1>2, <1>19, <2>1 DEF FinalCheck, Copying
<1>20. CASE Replace(i)
  <2>1. /\ pc[i] = "replace" /\ pc'[i] = "sync" /\ placed[i] = "source" /\ placed'[i] = "both"
        /\ file'[Dst[i]] = tmp[Dst[i]] /\ file'[Src[i]] = file[Src[i]]
        /\ tmp'[Dst[i]] = Absent
        /\ \A j \in Moves \ {i} : pc'[j] = pc[j]
    BY <1>0, <1>10, <1>20 DEF Replace, Copying
  <2>2. tmp[Dst[i]] # Absent /\ tmp[Dst[i]].synced
    BY <2>1 DEF CallContent, PartialOK, Synced
  <2>3. SourceOK(i)'
    BY <1>0, <2>1 DEF CallContent, SourceOK, outside
  <2>4. PartialOK(i)' /\ CheckedOK(i)' /\ CopyOK(i)' /\ HashOK(i)'
    BY <2>1 DEF PartialOK, CheckedOK, CopyOK, HashOK, Owning, Synced, Precheck
  <2>5. Noticeable /\ "write" \notin late[i] /\ orig[i] # Absent => tmp[Dst[i]].data = orig[i]
    BY <2>1 DEF CallContent, CheckedOK, SourceOK
  <2>6. \A j \in Moves : Dst[j] = Dst[i] => pc'[j] \notin Committing
    BY <2>1 DEF NameInv, TurnInv, Busy, Committing, Copying
  <2>7. PlacedOK(i)'
    BY <1>0, <2>1, <2>2, <2>5, <2>6 DEF PlacedOK, outside
  <2> QED
    BY <2>3, <2>4, <2>7 DEF CallContent
<1>21. CASE SyncDirectory(i)
  <2>1. /\ pc[i] = "sync" /\ pc'[i] = "unlink" /\ Dst[i] \in durable'
        /\ \A j \in Moves \ {i} : pc'[j] = pc[j]
        /\ UNCHANGED <<file, tmp, placed>>
    BY <1>0, <1>21 DEF SyncDirectory
  <2>2. PartialOK(i)' /\ CheckedOK(i)' /\ CopyOK(i)' /\ HashOK(i)'
    BY <2>1 DEF CallContent, PartialOK, CheckedOK, CopyOK, HashOK, Owning, Synced, Precheck
  <2>3. PlacedOK(i)'
    BY <1>0, <2>1 DEF CallContent, PlacedOK, Committing, Copying, outside
  <2> QED
    BY <1>9, <2>1, <2>2, <2>3 DEF CallContent
<1>22. CASE UnlinkSource(i)
  <2>1. CASE /\ pc[i] = "unlink" /\ file' = [file EXCEPT ![Src[i]] = Absent]
             /\ placed' = [placed EXCEPT ![i] = "destination"]
             /\ pc' = [pc EXCEPT ![i] = "ended"]
             /\ UNCHANGED <<before, digest, tmp, durable>>
    <3>1. /\ pc'[i] = "ended" /\ placed'[i] = "destination" /\ placed[i] = "both"
          /\ file'[Dst[i]] = file[Dst[i]] /\ file'[Src[i]] = Absent
          /\ \A j \in Moves \ {i} : pc'[j] = pc[j]
      BY <1>0, <2>1 DEF IInv, CallInv, CallOK
    <3>2. PartialOK(i)' /\ CheckedOK(i)' /\ CopyOK(i)' /\ HashOK(i)' /\ SourceOK(i)'
      BY <3>1 DEF PartialOK, CheckedOK, CopyOK, HashOK, SourceOK, Owning, Synced, Precheck
    <3>3. PlacedOK(i)'
      BY <1>0, <2>1, <3>1 DEF CallContent, PlacedOK, Committing, Copying, outside
    <3> QED
      BY <3>2, <3>3 DEF CallContent
  <2> QED
    BY <1>1, <1>22, <2>1 DEF UnlinkSource, Copying
<1>23. CASE Cleanup(i)
  <2>1. /\ pc'[i] = "ended" /\ \A j \in Moves \ {i} : pc'[j] = pc[j]
        /\ UNCHANGED <<file, durable, placed>>
    BY <1>0, <1>23 DEF Cleanup
  <2>2. PartialOK(i)' /\ CheckedOK(i)' /\ CopyOK(i)' /\ HashOK(i)'
    BY <2>1 DEF PartialOK, CheckedOK, CopyOK, HashOK, Owning, Synced, Precheck
  <2>3. PlacedOK(i)'
    BY <1>0, <2>1 DEF CallContent, PlacedOK, Committing, Copying, outside
  <2> QED
    BY <1>9, <2>1, <2>2, <2>3 DEF CallContent
<1> QED
  BY <1>4, <1>5, <1>6, <1>7, <1>11, <1>12, <1>13, <1>14, <1>15, <1>16, <1>17, <1>18,
     <1>19, <1>20, <1>21, <1>22, <1>23 DEF Step, Proceed

-----------------------------------------------------------------------------
(* What users and failures do to the files.                                *)
LEMMA WrittenType ==
  ASSUME NEW d \in Seq(0..MaxWrites), NEW v \in 0..MaxWrites, NEW k \in 1..(Len(d) + 1),
         NEW n \in Nat, n = IF k > Len(d) THEN k ELSE Len(d)
  PROVE  /\ [j \in 1..n |-> IF j = k THEN v ELSE d[j]] \in Seq(0..MaxWrites)
         /\ Len([j \in 1..n |-> IF j = k THEN v ELSE d[j]]) = n
<1> DEFINE s == [j \in 1..n |-> IF j = k THEN v ELSE d[j]]
<1>1. Len(d) \in Nat
  BY LenProperties
<1>2. ASSUME NEW j \in 1..n, j # k
      PROVE  d[j] \in 0..MaxWrites
  <2>1. j \in 1..Len(d)
    BY <1>1, <1>2
  <2> QED
    BY <2>1, ElementOfSeq
<1>3. s \in [1..n -> 0..MaxWrites]
  BY <1>2
<1>4. s \in Seq(0..MaxWrites)
  BY <1>3, SeqDef
<1>5. DOMAIN s = 1..n
  OBVIOUS
<1> HIDE DEF s
<1>6. Len(s) = n
  <2>1. Len(s) \in Nat /\ DOMAIN s = 1..Len(s)
    BY <1>4, LenProperties
  <2> QED
    BY <1>5, <2>1
<1> QED
  BY <1>4, <1>6 DEF s

LEMMA EnabledUp == Next => up
BY DEF Next, Interfere, UserWrite, UserRemove, UserCreate, Exclude, Link, Crash,
       RequestCancel, Call, Begin, Step, Proceed, Enter, CheckDestination, StatSource,
       OpenFiles, CopyChunk, Flush, CopyStat, Recheck, HashChunk, Compare, FinalCheck,
       Replace, SyncDirectory, UnlinkSource, Cleanup, CleanupFails, IOError, At

(* Nothing outside touches a partial file or a call.                       *)
LEMMA OutsideFrame ==
  ASSUME IInv, Interfere \/ RequestCancel
  PROVE  /\ UNCHANGED <<call, placed, tmp>>
         /\ \A i \in Moves : late[i] \subseteq late'[i]
BY Outside DEF IInv, Interfere, UserWrite, UserRemove, UserCreate, Exclude, Link, Crash,
   RequestCancel, disk

(* A source gets new contents, one write later.                            *)
Given(i) ==
    \E d \in Seq(0..MaxWrites), m \in 0..MaxWrites :
        /\ Len(d) <= MaxChunks
        /\ "quiet" \notin Env => m = writes + 1
        /\ m <= writes + 1
        /\ file' = [file EXCEPT ![Src[i]] = [data |-> d, mtime |-> m, synced |-> TRUE]]
        /\ orig' = [orig EXCEPT ![i] = d]

LEMMA WriteGives ==
  ASSUME ContentType, NEW i \in Moves, UserWrite(i), SourceOK(i)
  PROVE  Given(i) /\ writes' = writes + 1 /\ writes' \in 0..MaxWrites
<1> DEFINE old == IF file[Src[i]] = Absent THEN Empty ELSE file[Src[i]]
           v   == writes + 1
<1>1. /\ writes' = v /\ v \in 0..MaxWrites
  BY TransferAssumption DEF UserWrite, ContentType
<1>2. /\ old \in File /\ old.mtime <= writes /\ old.mtime \in Nat
      /\ old.data \in Seq(0..MaxWrites) /\ Len(old.data) \in Nat
      /\ Len(old.data) <= MaxChunks
  <2>1. CASE file[Src[i]] = Absent
    <3>1. old = Empty /\ Empty \in File /\ writes \in Nat
      BY <2>1, FileTypes, TransferAssumption DEF ContentType
    <3>2. Empty.mtime = 0 /\ Empty.data = <<>> /\ Len(<<>>) = 0
      BY DEF Empty
    <3> QED
      BY <3>1, <3>2, FieldTypes, TransferAssumption
  <2>2. CASE file[Src[i]] # Absent
    <3>1. old = file[Src[i]] /\ old \in File /\ old.mtime <= writes
      BY <2>2, Named DEF ContentType, SourceOK
    <3>2. Len(old.data) <= MaxChunks
      BY <2>2 DEF ContentType
    <3> HIDE DEF old
    <3> QED
      BY <3>1, <3>2, FieldTypes
  <2> QED
    BY <2>1, <2>2
<1> DEFINE new(k) == [j \in 1..(IF k > Len(old.data) THEN k ELSE Len(old.data))
                         |-> IF j = k THEN v ELSE old.data[j]]
<1>3. PICK k \in 1..(Len(old.data) + 1),
           m \in {v} \cup IF "quiet" \in Env THEN {old.mtime} ELSE {} :
              /\ k <= MaxChunks
              /\ file' = [file EXCEPT ![Src[i]] =
                             [data |-> new(k), mtime |-> m, synced |-> TRUE]]
              /\ orig' = [orig EXCEPT ![i] = new(k)]
  BY DEF UserWrite
<1>4. /\ new(k) \in Seq(0..MaxWrites)
      /\ Len(new(k)) = IF k > Len(old.data) THEN k ELSE Len(old.data)
  <2> HIDE DEF old, v
  <2>1. (IF k > Len(old.data) THEN k ELSE Len(old.data)) \in Nat
    BY <1>2, <1>3
  <2> DEFINE d == old.data
             n == IF k > Len(d) THEN k ELSE Len(d)
  <2>2. d \in Seq(0..MaxWrites) /\ v \in 0..MaxWrites /\ k \in 1..(Len(d) + 1) /\ n \in Nat
        /\ n = IF k > Len(d) THEN k ELSE Len(d)
    BY <1>1, <1>2, <1>3, <2>1
  <2>3. new(k) = [j \in 1..n |-> IF j = k THEN v ELSE d[j]]
    OBVIOUS
  <2> HIDE DEF d, n, v, new
  <2>4. new(k) \in Seq(0..MaxWrites) /\ Len(new(k)) = n
    BY <2>2, <2>3, WrittenType
  <2> QED
    BY <2>4 DEF d, n
<1>5. Len(new(k)) <= MaxChunks
  <2> HIDE DEF old, v, new
  <2> QED
    BY <1>2, <1>3, <1>4
<1>6. /\ m \in 0..MaxWrites /\ m <= writes + 1
      /\ "quiet" \notin Env => m = writes + 1
  <2> HIDE DEF old
  <2> QED
    BY <1>1, <1>2, <1>3, TransferAssumption DEF ContentType
<1> HIDE DEF old, new
<1> QED
  BY <1>1, <1>3, <1>4, <1>5, <1>6 DEF Given

LEMMA UserWriteContent ==
  ASSUME IInv, ContentType, NEW i \in Moves, UserWrite(i),
         \A j \in Moves : CallContent(j)
  PROVE  ContentType' /\ \A j \in Moves : CallContent(j)'
<1>1. /\ UNCHANGED <<pc, before, digest, placed, tmp, durable, cancel, up>>
      /\ \A j \in Moves : late[j] \subseteq late'[j]
      /\ Noted("write", {i})
      /\ writes' = writes + 1 /\ writes' \in 0..MaxWrites /\ writes \in Nat
  <2>1. UNCHANGED <<call, placed, tmp>> /\ \A j \in Moves : late[j] \subseteq late'[j]
    BY OutsideFrame DEF Interfere
  <2>2. UNCHANGED <<durable, cancel, up>> /\ Noted("write", {i})
    BY DEF UserWrite
  <2>3. writes' = writes + 1 /\ writes' \in 0..MaxWrites
    BY WriteGives DEF CallContent
  <2> QED
    BY <2>1, <2>2, <2>3, TransferAssumption DEF call, ContentType
<1>2. PICK d \in Seq(0..MaxWrites), m \in 0..MaxWrites :
        /\ Len(d) <= MaxChunks
        /\ "quiet" \notin Env => m = writes + 1
        /\ m <= writes + 1
        /\ file' = [file EXCEPT ![Src[i]] = [data |-> d, mtime |-> m, synced |-> TRUE]]
        /\ orig' = [orig EXCEPT ![i] = d]
  BY WriteGives DEF Given, CallContent
<1>3. /\ \A j \in Moves \ {i} : file'[Src[j]] = file[Src[j]] /\ orig'[j] = orig[j]
      /\ \A j \in Moves : file'[Dst[j]] = file[Dst[j]]
  BY <1>2, TransferAssumption, Named DEF ContentType
<1>4. /\ file'[Src[i]] = [data |-> d, mtime |-> m, synced |-> TRUE] /\ orig'[i] = d
  BY <1>2, Named DEF ContentType
<1>5. file'[Src[i]] \in File
  BY <1>4 DEF File
<1>6. ContentType'
  <2>1. \A p \in Locations : p # Src[i] => file'[p] = file[p]
    BY <1>2 DEF ContentType
  <2>2. \A j \in Moves : file'[Src[j]] # Absent => Len(file'[Src[j]].data) <= MaxChunks
    BY <1>2, <1>3, <1>4 DEF ContentType
  <2>3. DOMAIN file' = Locations /\ DOMAIN orig' = Moves
    BY <1>2 DEF ContentType
  <2>4. \A p \in Locations : file'[p] = Absent \/ file'[p] \in File
    BY <1>5, <2>1 DEF ContentType
  <2>5. \A j \in Moves : orig'[j] = Absent \/ orig'[j] \in Seq(0..MaxWrites)
    BY <1>3, <1>4 DEF ContentType
  <2> QED
    BY <1>1, <2>2, <2>3, <2>4, <2>5 DEF ContentType
<1>7. ASSUME NEW j \in Moves \ {i}
      PROVE  CallContent(j)'
  <2>1. SourceOK(j)' /\ CopyOK(j)'
    <3>1. file[Src[j]] # Absent => file[Src[j]].mtime \in Nat
      BY FieldTypes, Named DEF ContentType
    <3>2. before[j] # Absent => before[j].mtime \in Nat
      BY TransferAssumption DEF ContentType
    <3> QED
      BY <1>1, <1>3, <3>1, <3>2 DEF CallContent, SourceOK, CopyOK
  <2>2. PartialOK(j)' /\ HashOK(j)' /\ CheckedOK(j)' /\ PlacedOK(j)'
    BY <1>1, <1>3 DEF CallContent, PartialOK, HashOK, CheckedOK, PlacedOK
  <2> QED
    BY <2>1, <2>2 DEF CallContent
<1>8. CallContent(i)'
  <2>1. SourceOK(i)'
    BY <1>1, <1>2, <1>4, <1>5, FileTypes DEF SourceOK
  <2>2. CopyOK(i)'
    <3>1. before[i] # Absent => before[i].mtime \in Nat
      BY TransferAssumption DEF ContentType
    <3> QED
      BY <1>1, <1>2, <1>4, <3>1 DEF CallContent, CopyOK
  <2>3. /\ placed[i] # "source" \/ pc[i] \in {"final", "replace"} => "write" \in late'[i]
        /\ Verify = "sha256" /\ pc[i] \in {"hash", "compare"} => "write" \in late'[i]
    BY <1>1 DEF Noted, TooLate
  <2>4. PartialOK(i)' /\ HashOK(i)' /\ CheckedOK(i)' /\ PlacedOK(i)'
    BY <1>1, <1>3, <2>3 DEF CallContent, PartialOK, HashOK, CheckedOK, PlacedOK
  <2> QED
    BY <2>1, <2>2, <2>4 DEF CallContent
<1> QED
  BY <1>6, <1>7, <1>8

(* Interference that changes no file a call works on, or removes a source. *)
LEMMA OtherContent ==
  ASSUME IInv, ContentType, \A j \in Moves : CallContent(j),
         \/ RequestCancel
         \/ \E i \in Moves : UserRemove(i) \/ Exclude(i) \/ Link(i)
         \/ \E p \in Targets : UserCreate(p)
  PROVE  ContentType' /\ \A j \in Moves : CallContent(j)'
<1>1. /\ UNCHANGED <<pc, before, digest, placed, tmp>>
      /\ \A j \in Moves : late[j] \subseteq late'[j]
  BY OutsideFrame DEF Interfere, call
<1>2. ASSUME file' = file, orig' = orig, durable' = durable, writes' = writes, up' = up,
             cancel' \in BOOLEAN
      PROVE  ContentType' /\ \A j \in Moves : CallContent(j)'
  <2>1. ContentType'
    BY <1>1, <1>2 DEF ContentType
  <2>2. ASSUME NEW j \in Moves
        PROVE  CallContent(j)'
    BY <1>1, <1>2 DEF CallContent, SourceOK, PartialOK, CopyOK, HashOK, CheckedOK, PlacedOK
  <2> QED
    BY <2>1, <2>2
<1>3. CASE RequestCancel \/ \E i \in Moves : Exclude(i) \/ Link(i)
  BY <1>2, <1>3 DEF RequestCancel, Exclude, Link, disk, ContentType
<1>4. ASSUME NEW i \in Moves, UserRemove(i)
      PROVE  ContentType' /\ \A j \in Moves : CallContent(j)'
  <2>1. /\ file' = [file EXCEPT ![Src[i]] = Absent] /\ orig' = [orig EXCEPT ![i] = Absent]
        /\ UNCHANGED <<durable, writes, cancel, up>>
    BY <1>4 DEF UserRemove
  <2>2. /\ \A j \in Moves \ {i} : file'[Src[j]] = file[Src[j]] /\ orig'[j] = orig[j]
        /\ \A j \in Moves : file'[Dst[j]] = file[Dst[j]]
        /\ file'[Src[i]] = Absent /\ orig'[i] = Absent
    BY <2>1, TransferAssumption, Named DEF ContentType
  <2>3. ContentType'
    <3>1. \A p \in Locations : file'[p] = Absent \/ file'[p] \in File
      BY <2>1 DEF ContentType
    <3>2. \A j \in Moves : file'[Src[j]] # Absent => Len(file'[Src[j]].data) <= MaxChunks
      BY <2>2 DEF ContentType
    <3>3. \A j \in Moves : orig'[j] = Absent \/ orig'[j] \in Seq(0..MaxWrites)
      BY <2>2 DEF ContentType
    <3> QED
      BY <1>1, <2>1, <3>1, <3>2, <3>3 DEF ContentType
  <2>4. ASSUME NEW j \in Moves
        PROVE  CallContent(j)'
    <3>1. SourceOK(j)'
      BY <1>1, <2>1, <2>2 DEF CallContent, SourceOK
    <3>2. PartialOK(j)' /\ CopyOK(j)'
      BY <1>1, <2>1, <2>2 DEF CallContent, PartialOK, CopyOK
    <3>3. HashOK(j)' /\ CheckedOK(j)'
      BY <1>1, <2>1, <2>2 DEF CallContent, HashOK, CheckedOK
    <3>4. PlacedOK(j)'
      BY <1>1, <2>1, <2>2 DEF CallContent, PlacedOK
    <3> QED
      BY <3>1, <3>2, <3>3, <3>4 DEF CallContent
  <2> QED
    BY <2>3, <2>4
<1>5. ASSUME NEW p \in Targets, UserCreate(p)
      PROVE  ContentType' /\ \A j \in Moves : CallContent(j)'
  <2> DEFINE new == [data |-> <<writes + 1>>, mtime |-> writes + 1, synced |-> TRUE]
  <2>1. /\ file[p] = Absent /\ file' = [file EXCEPT ![p] = new]
        /\ writes' = writes + 1 /\ writes' \in 0..MaxWrites
        /\ durable' = durable \cup {p} /\ UNCHANGED <<orig, cancel, up>>
    BY <1>5, TransferAssumption DEF UserCreate, ContentType
  <2>2. new \in File
    BY <2>1 DEF File
  <2> HIDE DEF new
  <2>3. /\ \A j \in Moves : file'[Src[j]] = file[Src[j]]
        /\ \A j \in Moves : Dst[j] # p => file'[Dst[j]] = file[Dst[j]]
    BY <2>1, TransferAssumption, Named DEF ContentType, Targets
  <2>4. ContentType'
    <3>1. \A q \in Locations : file'[q] = Absent \/ file'[q] \in File
      BY <2>1, <2>2 DEF ContentType
    <3>2. \A j \in Moves : file'[Src[j]] # Absent => Len(file'[Src[j]].data) <= MaxChunks
      BY <2>3 DEF ContentType
    <3> QED
      BY <1>1, <2>1, <3>1, <3>2 DEF ContentType
  <2>5. ASSUME NEW j \in Moves
        PROVE  CallContent(j)'
    <3>1. SourceOK(j)' /\ CopyOK(j)'
      <4>1. /\ file[Src[j]] # Absent => file[Src[j]].mtime \in Nat
            /\ before[j] # Absent => before[j].mtime \in Nat
            /\ writes \in Nat
        BY FieldTypes, Named, TransferAssumption DEF ContentType
      <4> QED
        BY <1>1, <2>1, <2>3, <4>1 DEF CallContent, SourceOK, CopyOK
    <3>2. PartialOK(j)' /\ HashOK(j)' /\ CheckedOK(j)'
      BY <1>1, <2>1, <2>3 DEF CallContent, PartialOK, HashOK, CheckedOK
    <3>3. PlacedOK(j)'
      BY <1>1, <2>1, <2>3 DEF CallContent, PlacedOK
    <3> QED
      BY <3>1, <3>2, <3>3 DEF CallContent
  <2> QED
    BY <2>4, <2>5
<1> QED
  BY <1>3, <1>4, <1>5

(* A power failure takes nothing that matters: a source is synced, and a   *)
(* call removes it only when its copy is.                                  *)
LEMMA CrashContent ==
  ASSUME IInv, ContentType, \A j \in Moves : CallContent(j), Crash
  PROVE  ContentType' /\ (Noticeable => Preserved')
<1>1. /\ UNCHANGED <<pc, before, digest, placed, late, tmp, durable, cancel, writes, orig>>
      /\ up' = FALSE
  BY DEF Crash, call
<1>2. PICK lost \in SUBSET (Targets \ durable) :
          file' = [p \in Locations |->
                     IF p \in lost THEN Absent
                     ELSE IF file[p] # Absent /\ ~file[p].synced
                     THEN [file[p] EXCEPT !.data = <<>>] ELSE file[p]]
  BY DEF Crash
<1>3. ASSUME NEW p \in Locations, p \notin lost, file[p] # Absent => file[p].synced
      PROVE  file'[p] = file[p]
  BY <1>2, <1>3
<1>4. ASSUME NEW i \in Moves
      PROVE  file'[Src[i]] = file[Src[i]]
  <2>1. Src[i] \notin Targets
    BY TransferAssumption DEF Targets
  <2> QED
    BY <1>3, <2>1, Named DEF CallContent, SourceOK
<1>5. ContentType'
  <2>1. ASSUME NEW f \in File PROVE [f EXCEPT !.data = <<>>] \in File
    <3>1. <<>> \in Seq(0..MaxWrites)
      OBVIOUS
    <3> QED
      BY <3>1 DEF File
  <2>2. \A p \in Locations : file'[p] = Absent \/ file'[p] \in File
    BY <1>2, <2>1 DEF ContentType
  <2>3. DOMAIN file' = Locations
    BY <1>2
  <2> QED
    BY <1>1, <1>4, <2>2, <2>3 DEF ContentType
<1>6. Noticeable => Preserved'
  <2>1. SUFFICES ASSUME Noticeable, NEW i \in Moves, file'[Src[i]] = Absent, orig[i] # Absent,
                        "write" \notin late[i]
                 PROVE  file'[Dst[i]] # Absent /\ file'[Dst[i]].data = orig[i]
    BY <1>1 DEF Preserved
  <2>2. placed[i] = "destination"
    BY <1>4, <2>1 DEF CallContent, SourceOK
  <2>3. /\ file[Dst[i]] # Absent /\ file[Dst[i]].synced /\ Dst[i] \in durable
        /\ file[Dst[i]].data = orig[i]
    BY <2>1, <2>2 DEF CallContent, PlacedOK
  <2>4. file'[Dst[i]] = file[Dst[i]]
    BY <1>3, <2>3, Named
  <2> QED
    BY <2>3, <2>4
<1> QED
  BY <1>5, <1>6

-----------------------------------------------------------------------------
DiskInv == ContentType /\ ContentInv /\ LostInv

LEMMA DiskInit == Init => DiskInv
<1> SUFFICES ASSUME Init PROVE DiskInv
  OBVIOUS
<1> DEFINE source == [data |-> First, mtime |-> 0, synced |-> TRUE]
<1>1. /\ First \in Seq(0..MaxWrites) /\ Len(First) = MaxChunks /\ 0 \in 0..MaxWrites
  <2>1. First \in [1..MaxChunks -> 0..MaxWrites] /\ MaxChunks \in Nat
    BY TransferAssumption DEF First
  <2>2. First \in Seq(0..MaxWrites)
    BY <2>1, SeqDef
  <2>3. DOMAIN First = 1..Len(First) /\ Len(First) \in Nat
    BY <2>2, LenProperties
  <2>4. DOMAIN First = 1..MaxChunks
    BY DEF First
  <2> QED
    BY <2>1, <2>2, <2>3, <2>4, TransferAssumption
<1>2. source \in File
  BY <1>1 DEF File
<1>3. ASSUME NEW i \in Moves
      PROVE  file[Src[i]] = source /\ orig[i] = First
  <2>1. Src[i] \notin Targets
    BY TransferAssumption DEF Targets
  <2> QED
    BY <2>1, Named DEF Init
<1>4. ContentType
  <2>1. \A p \in Targets : tmp[p] = Absent \/ tmp[p] \in File
    BY FileTypes DEF Init
  <2>2. \A p \in Locations : file[p] = Absent \/ file[p] \in File
    BY <1>2 DEF Init
  <2>3. \A i \in Moves : file[Src[i]] # Absent => Len(file[Src[i]].data) <= MaxChunks
    BY <1>1, <1>3, TransferAssumption
  <2>4. digest \in [Moves -> Seq(0..MaxWrites)]
    BY DEF Init
  <2> QED
    BY <1>1, <2>1, <2>2, <2>3, <2>4 DEF Init, ContentType
<1>5. ASSUME NEW i \in Moves
      PROVE  CallContent(i)
  <2>1. source # Absent
    BY <1>2, FileTypes
  <2>2. source.synced /\ source.data = First /\ source.mtime = 0
    OBVIOUS
  <2>3. writes = 0 /\ file[Src[i]] = source /\ orig[i] = First
    BY <1>3 DEF Init
  <2> HIDE DEF source
  <2>4. SourceOK(i)
    BY <2>1, <2>2, <2>3 DEF SourceOK
  <2> QED
    BY <2>4 DEF Init, CallContent, PartialOK, CopyOK, HashOK, CheckedOK, PlacedOK, Owning, Synced
<1> QED
  BY <1>4, <1>5 DEF Init, DiskInv, ContentInv, LostInv

LEMMA DiskNext ==
  ASSUME IInv, NameInv, DiskInv, [Next]_vars
  PROVE  DiskInv'
<1>1. CASE UNCHANGED vars
  <2>1. ContentType'
    BY <1>1 DEF DiskInv, ContentType, vars, call, disk, outside
  <2>2. ASSUME NEW i \in Moves, CallContent(i)
        PROVE  CallContent(i)'
    BY <1>1, <2>2 DEF vars, call, disk, outside, CallContent, SourceOK, PartialOK, CopyOK,
       HashOK, CheckedOK, PlacedOK
  <2>3. Preserved => Preserved'
    BY <1>1 DEF vars, call, disk, outside, Preserved
  <2>4. up' = up
    BY <1>1 DEF vars, outside
  <2> QED
    BY <2>1, <2>2, <2>3, <2>4 DEF DiskInv, ContentInv, LostInv
<1>2. CASE Next
  <2>1. up /\ \A j \in Moves : CallContent(j)
    BY <1>2, EnabledUp DEF DiskInv, ContentInv
  <2>2. ASSUME ContentType', \A j \in Moves : CallContent(j)', up' = up
        PROVE  DiskInv'
    BY <2>1, <2>2 DEF DiskInv, ContentInv, LostInv
  <2>3. ASSUME NEW i \in Moves, Step(i) \/ Call(i)
        PROVE  DiskInv'
    <3>1. \A j \in Moves : CallContent(j)'
      BY <2>1, <2>3, OwnStep, Elsewhere DEF DiskInv
    <3>2. ContentType' /\ up' = up
      BY <2>1, <2>3, ContentTypeStep DEF DiskInv, Step, Call, outside
    <3> QED
      BY <2>2, <3>1, <3>2
  <2>4. ASSUME NEW i \in Moves, UserWrite(i)
        PROVE  DiskInv'
    BY <2>1, <2>2, <2>4, UserWriteContent DEF DiskInv, UserWrite
  <2>5. CASE Crash
    BY <2>1, <2>5, CrashContent DEF DiskInv, ContentInv, LostInv, Crash
  <2>6. CASE \/ RequestCancel
             \/ \E i \in Moves : UserRemove(i) \/ Exclude(i) \/ Link(i)
             \/ \E p \in Targets : UserCreate(p)
    <3>1. up' = up
      BY <2>6 DEF RequestCancel, UserRemove, Exclude, Link, UserCreate
    <3> QED
      BY <2>1, <2>2, <2>6, <3>1, OtherContent DEF DiskInv
  <2> QED
    BY <1>2, <2>3, <2>4, <2>5, <2>6 DEF Next, Interfere
<1> QED
  BY <1>1, <1>2

LEMMA DiskPreserved == Noticeable /\ DiskInv => Preserved
BY DEF DiskInv, ContentInv, LostInv, Preserved, CallContent, SourceOK, PlacedOK

(* The files and partial files of every reachable state are what the calls *)
(* and the users have made of them (execute_move, lines 91-125).           *)
THEOREM DiskSafety == Spec => []DiskInv
<1>1. IInv /\ NameInv /\ DiskInv /\ [Next]_vars => DiskInv'
  BY DiskNext
<1> QED
  BY <1>1, Invariance, NameInit, NameNext, DiskInit, PTL DEF Spec

(* What the users last gave a source is never lost by execute_move: while  *)
(* the source is gone it is at the destination, after a power failure too, *)
(* whatever else interferes, unless it was written after the last check    *)
(* of the source or in a way that verification by size cannot see.         *)
THEOREM ContentSafety ==
  ASSUME Noticeable
  PROVE  Spec => []Preserved
<1>1. DiskInv => Preserved
  BY DiskPreserved
<1> QED
  BY <1>1, DiskSafety, PTL

-----------------------------------------------------------------------------
(* What becomes of the partial file when a call takes a step: it belongs   *)
(* to the call while that runs, and the call removes it, or cannot and     *)
(* says it failed.                                                         *)
Keeps(i) ==
    /\ \/ tmp'[Dst[i]] = Absent
       \/ pc'[i] \in Copying \cup {"cleanup"}
       \/ i \in stuck' /\ result'[i] = "failed"
       \/ /\ tmp'[Dst[i]] = tmp[Dst[i]] /\ before'[i] = before[i] /\ stuck' = stuck
          /\ pc[i] \in {"idle"} \cup Precheck
    /\ \/ stuck' = stuck
       \/ stuck' = stuck \cup {i}
       \/ stuck' = {j \in stuck : Dst[j] # Dst[i]}
    /\ \A j \in Moves \ {i} : result'[j] = result[j]

LEMMA KeepsStep ==
  ASSUME IInv, ContentType, NEW i \in Moves, PartialOK(i), Step(i) \/ Call(i)
  PROVE  Keeps(i)
<1> USE DEF Keeps, IInv, ControlType, ContentType, At, Goto, Precheck, Copying, call, disk
<1>0. Dst[i] \in Targets
  BY DEF Targets
<1>1. ASSUME NEW r, Abort(i, r), pc[i] \in Precheck \cup Copying PROVE Keeps(i)
  BY <1>1 DEF Abort
<1>2. ASSUME Cancelled(i), pc[i] \in Precheck \cup Copying PROVE Keeps(i)
  BY <1>1, <1>2 DEF Cancelled
<1>3. CASE Call(i)
  BY <1>3 DEF Call, Begin
<1>4. CASE Enter(i)
  BY <1>4, <1>1, <1>2 DEF Enter
<1>5. CASE CheckDestination(i)
  BY <1>5, <1>1 DEF CheckDestination
<1>6. CASE StatSource(i)
  BY <1>6, <1>1 DEF StatSource
<1>7. CASE OpenFiles(i)
  BY <1>7, <1>1 DEF OpenFiles
<1>8. CASE CopyChunk(i)
  BY <1>8, <1>2 DEF CopyChunk
<1>9. CASE Flush(i) \/ CopyStat(i)
  BY <1>9, <1>1 DEF Flush, CopyStat
<1>10. CASE Recheck(i)
  BY <1>10, <1>1, <1>2 DEF Recheck
<1>11. CASE HashChunk(i)
  BY <1>11, <1>2 DEF HashChunk
<1>12. CASE Compare(i)
  BY <1>12, <1>1, <1>2 DEF Compare
<1>13. CASE FinalCheck(i)
  BY <1>13, <1>1, <1>2 DEF FinalCheck
<1>14. CASE Replace(i) \/ SyncDirectory(i)
  BY <1>14 DEF Replace, SyncDirectory
<1>15. CASE Cleanup(i) \/ CleanupFails(i)
  BY <1>0, <1>15 DEF Cleanup, CleanupFails
<1>16. CASE UnlinkSource(i)
  BY <1>16, <1>1 DEF UnlinkSource, PartialOK
<1>17. CASE IOError(i)
  BY <1>17, <1>1 DEF IOError
<1> QED
  BY <1>3, <1>4, <1>5, <1>6, <1>7, <1>8, <1>9, <1>10, <1>11, <1>12, <1>13,
     <1>14, <1>15, <1>16, <1>17 DEF Step, Proceed

(* Without partial files of earlier processes only a call that could not   *)
(* remove its own leaves one.                                              *)
LeftInv ==
    /\ stuck \subseteq Moves
    /\ \A p \in Targets : tmp[p] # Absent =>
        \/ "stale" \in Env /\ \A i \in Moves : Dst[i] = p => before[i] = Absent
        \/ \E i \in Moves : /\ Dst[i] = p
                            /\ \/ pc[i] \in Copying \cup {"cleanup"}
                               \/ i \in stuck /\ result[i] = "failed"

LEMMA LeftInit == Init => LeftInv
<1> SUFFICES ASSUME Init, NEW p \in Targets, tmp[p] # Absent
             PROVE  "stale" \in Env /\ \A i \in Moves : Dst[i] = p => before[i] = Absent
  BY DEF LeftInv, Init
<1> QED
  BY DEF Init

LEMMA LeftStep ==
  ASSUME IInv, NameInv, ContentType, LeftInv, NEW i \in Moves, CallContent(i),
         Step(i) \/ Call(i)
  PROVE  LeftInv'
<1>1. Frame(i) /\ Keeps(i)
  BY FrameStep, KeepsStep DEF CallContent
<1>2. ASSUME NEW p \in Targets, tmp'[p] # Absent, p # Dst[i]
      PROVE  \/ "stale" \in Env /\ \A j \in Moves : Dst[j] = p => before'[j] = Absent
             \/ \E j \in Moves : /\ Dst[j] = p
                                 /\ \/ pc'[j] \in Copying \cup {"cleanup"}
                                    \/ j \in stuck' /\ result'[j] = "failed"
  <2>1. tmp[p] # Absent
    BY <1>1, <1>2 DEF Frame
  <2>2. \A j \in Moves : Dst[j] = p =>
            /\ pc'[j] = pc[j] /\ before'[j] = before[j] /\ result'[j] = result[j]
            /\ j \in stuck => j \in stuck'
    BY <1>1, <1>2 DEF Frame, Keeps
  <2> QED
    BY <2>1, <2>2 DEF LeftInv
<1>3. ASSUME tmp'[Dst[i]] # Absent, pc'[i] \notin Copying \cup {"cleanup"},
             ~(i \in stuck' /\ result'[i] = "failed")
      PROVE  \/ "stale" \in Env /\ \A j \in Moves : Dst[j] = Dst[i] => before'[j] = Absent
             \/ \E j \in Moves : /\ Dst[j] = Dst[i]
                                 /\ \/ pc'[j] \in Copying \cup {"cleanup"}
                                    \/ j \in stuck' /\ result'[j] = "failed"
  <2>1. /\ tmp[Dst[i]] # Absent /\ before'[i] = before[i] /\ stuck' = stuck
        /\ pc[i] \in {"idle"} \cup Precheck
    BY <1>1, <1>3 DEF Keeps
  <2>2. pc[i] \notin Copying \cup {"cleanup"} /\ result[i] # "failed"
    BY <2>1 DEF IInv, CallInv, CallOK, Precheck, Copying
  <2>3. \A j \in Moves \ {i} :
            pc'[j] = pc[j] /\ before'[j] = before[j] /\ result'[j] = result[j]
    BY <1>1 DEF Frame, Keeps
  <2>4. Dst[i] \in Targets
    BY DEF Targets
  <2> QED
    BY <2>1, <2>2, <2>3, <2>4 DEF LeftInv
<1>4. stuck' \subseteq Moves
  BY <1>1 DEF Keeps, LeftInv
<1> QED
  BY <1>2, <1>3, <1>4 DEF LeftInv

LEMMA LeftNext ==
  ASSUME IInv, NameInv, DiskInv, LeftInv, [Next]_vars
  PROVE  LeftInv'
<1>1. CASE UNCHANGED vars
  BY <1>1 DEF LeftInv, vars, call, disk
<1>2. CASE Interfere \/ RequestCancel
  <2>1. UNCHANGED <<call, tmp>>
    BY <1>2, OutsideFrame
  <2> QED
    BY <2>1 DEF LeftInv, call
<1>3. ASSUME NEW i \in Moves, Step(i) \/ Call(i)
      PROVE  LeftInv'
  BY <1>3, LeftStep, EnabledUp DEF DiskInv, ContentInv, Next
<1> QED
  BY <1>1, <1>2, <1>3 DEF Next

LEMMA LeftSafety == Spec => []LeftInv
<1>1. IInv /\ NameInv /\ DiskInv /\ LeftInv /\ [Next]_vars => LeftInv'
  BY LeftNext
<1> QED
  BY <1>1, LeftInit, Invariance, NameInit, NameNext, DiskSafety, PTL DEF Spec

(* Every variable has its type: a file never grows beyond its chunks, and  *)
(* what is copied, hashed and noted of it is what a file can hold.         *)
THEOREM TypeCorrect == Spec => []TypeOK
<1>1. IInv /\ DiskInv /\ LeftInv => TypeOK
  BY DEF IInv, ControlType, DiskInv, ContentType, LeftInv, TypeOK
<1> QED
  BY <1>1, Invariance, DiskSafety, LeftSafety, PTL

(* No partial file of a call outlives it but one that it could not remove, *)
(* and that call says it failed: no other failed call, no cancelled and no *)
(* completed one leaves any.                                               *)
THEOREM PartialSafety == Spec => []PartialRemoved
<1>1. LeftInv => PartialRemoved
  BY DEF LeftInv, PartialRemoved
<1> QED
  BY <1>1, LeftSafety, PTL
=============================================================================
