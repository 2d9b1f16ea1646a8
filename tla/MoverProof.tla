----------------------------- MODULE MoverProof -----------------------------
(***************************************************************************)
(* Theorems about Mover for every plan and every interference: the threads *)
(* of a batch are those of Executor, the calls they make are those of      *)
(* Transfer, and together they keep what neither keeps alone.              *)
(***************************************************************************)
EXTENDS Mover, TLAPS

(* A call sees the event set at any time: for Transfer that is one more    *)
(* interference.                                                           *)
Threads == INSTANCE ExecutorProof
Calls   == INSTANCE TransferProof WITH Env <- Env \cup {"cancel"}

LEMMA ThreadsAssumed == Threads!ExecutorAssumption
BY MoverAssumption DEF Moves, Threads!Moves, Threads!ExecutorAssumption

LEMMA CallsAssumed == Calls!TransferAssumption /\ Calls!AbsentAssumption
BY MoverAssumption
DEF Calls!TransferAssumption, Calls!AbsentAssumption, Calls!File, Src, Dst

-----------------------------------------------------------------------------
(* The instances name the same steps.                                      *)
LEMMA SameSets ==
    /\ E!Moves = Moves /\ Threads!Moves = Moves
    /\ E!Queues = Threads!Queues /\ E!Thread = Threads!Thread
    /\ E!Ended = Threads!Ended
    /\ T!Targets = Calls!Targets /\ T!Locations = Calls!Locations
    /\ T!Copying = Calls!Copying
BY DEF Moves, E!Moves, Threads!Moves, E!Queues, Threads!Queues, E!Thread, Threads!Thread,
   E!Ended, Threads!Ended, T!Targets, Calls!Targets, T!Locations, Calls!Locations,
   T!Copying, Calls!Copying

LEMMA ThreadsInit == E!Init => Threads!Init
BY SameSets DEF E!Init, Threads!Init

LEMMA ThreadsLoop ==
  ASSUME NEW t, E!Loop(t)
  PROVE  Threads!Loop(t)
<1> USE SameSets
    DEF E!Work, Threads!Work, E!Sequential, Threads!Sequential, E!IsNext, Threads!IsNext,
        E!NoneLeft, Threads!NoneLeft, E!Leave, Threads!Leave, E!SetDisp, Threads!SetDisp
<1>1. ASSUME NEW i \in Moves, E!Take(t, i) PROVE Threads!Take(t, i)
  BY <1>1 DEF E!Take, Threads!Take
<1>2. E!StopBeforeNext(t) => Threads!StopBeforeNext(t)
  BY DEF E!StopBeforeNext, Threads!StopBeforeNext
<1>3. E!Activate(t) => Threads!Activate(t)
  BY DEF E!Activate, Threads!Activate
<1>4. E!Succeed(t) => Threads!Succeed(t)
  BY DEF E!Succeed, Threads!Succeed
<1>5. E!SucceedUnreported(t) => Threads!SucceedUnreported(t)
  BY DEF E!SucceedUnreported, Threads!SucceedUnreported
<1>6. E!Fail(t) => Threads!Fail(t)
  BY DEF E!Fail, Threads!Fail
<1>7. E!Interrupt(t) => Threads!Interrupt(t)
  BY DEF E!Interrupt, Threads!Interrupt
<1> QED
  BY <1>1, <1>2, <1>3, <1>4, <1>5, <1>6, <1>7 DEF E!Loop, Threads!Loop

LEMMA ThreadsNext == E!Next => Threads!Next
<1> USE SameSets
    DEF E!Work, Threads!Work, E!Sequential, Threads!Sequential, E!NoneLeft,
        Threads!NoneLeft, E!NextQueue, Threads!NextQueue
<1>1. ASSUME NEW d \in E!Queues, E!Worker(d)
      PROVE  Threads!Worker(d)
  <2>1. E!Begin(d) => Threads!Begin(d)
    BY DEF E!Begin, Threads!Begin
  <2>2. E!QueueDone(d) => Threads!QueueDone(d)
    BY DEF E!QueueDone, Threads!QueueDone
  <2> QED
    BY <1>1, <2>1, <2>2, ThreadsLoop DEF E!Worker, Threads!Worker
<1>2. E!Propagate => Threads!Propagate
  BY DEF E!Propagate, Threads!Propagate
<1>3. E!SequentialDone => Threads!SequentialDone
  BY DEF E!SequentialDone, Threads!SequentialDone
<1>4. ASSUME NEW d \in E!Queues, E!Submit(d) PROVE Threads!Submit(d)
  BY <1>4 DEF E!Submit, Threads!Submit
<1>5. ASSUME NEW d \in E!Queues, E!SpawnFails(d) PROVE Threads!SpawnFails(d)
  BY <1>5 DEF E!SpawnFails, Threads!SpawnFails
<1>6. ASSUME NEW d \in E!Queues, E!Collect(d) PROVE Threads!Collect(d)
  BY <1>6 DEF E!Collect, Threads!Collect
<1>7. E!Join => Threads!Join
  BY DEF E!Join, Threads!Join
<1>8. E!Unwound => Threads!Unwound
  BY DEF E!Unwound, Threads!Unwound
<1>9. E!Signal => Threads!Signal
  BY DEF E!Signal, Threads!Signal
<1>10. E!Caller => Threads!Caller
  BY <1>2, <1>3, <1>4, <1>5, <1>6, <1>7, <1>8, ThreadsLoop DEF E!Caller, Threads!Caller
<1> QED
  BY <1>1, <1>9, <1>10 DEF E!Next, Threads!Next

LEMMA CallsInit == T!Init => Calls!Init
<1>1. ("stale" \in Env \cup {"cancel"}) = ("stale" \in Env)
  OBVIOUS
<1> QED
  BY <1>1, SameSets DEF T!Init, Calls!Init, T!First, Calls!First, T!Empty, Calls!Empty

LEMMA CallsProceed ==
  ASSUME NEW i, T!Proceed(i)
  PROVE  Calls!Proceed(i)
<1> USE SameSets
    DEF T!At, Calls!At, T!Goto, Calls!Goto, T!Abort, Calls!Abort, T!Cancelled,
        Calls!Cancelled, T!call, Calls!call, T!disk, Calls!disk, T!HasChunk,
        Calls!HasChunk, T!Stat, Calls!Stat
<1>1. T!Enter(i) => Calls!Enter(i)
  BY DEF T!Enter, Calls!Enter
<1>2. T!CheckDestination(i) => Calls!CheckDestination(i)
  BY DEF T!CheckDestination, Calls!CheckDestination
<1>3. T!StatSource(i) => Calls!StatSource(i)
  BY DEF T!StatSource, Calls!StatSource
<1>4. T!OpenFiles(i) => Calls!OpenFiles(i)
  BY DEF T!OpenFiles, Calls!OpenFiles, T!Empty, Calls!Empty
<1>5. T!CopyChunk(i) => Calls!CopyChunk(i)
  BY DEF T!CopyChunk, Calls!CopyChunk
<1>6. T!Flush(i) => Calls!Flush(i)
  BY DEF T!Flush, Calls!Flush
<1>7. T!CopyStat(i) => Calls!CopyStat(i)
  BY DEF T!CopyStat, Calls!CopyStat
<1>8. T!Recheck(i) => Calls!Recheck(i)
  BY DEF T!Recheck, Calls!Recheck, T!Stable, Calls!Stable
<1>9. T!HashChunk(i) => Calls!HashChunk(i)
  BY DEF T!HashChunk, Calls!HashChunk
<1>10. T!Compare(i) => Calls!Compare(i)
  BY DEF T!Compare, Calls!Compare
<1>11. T!FinalCheck(i) => Calls!FinalCheck(i)
  BY DEF T!FinalCheck, Calls!FinalCheck
<1>12. T!Replace(i) => Calls!Replace(i)
  BY DEF T!Replace, Calls!Replace
<1>13. T!SyncDirectory(i) => Calls!SyncDirectory(i)
  BY DEF T!SyncDirectory, Calls!SyncDirectory
<1>14. T!UnlinkSource(i) => Calls!UnlinkSource(i)
  BY DEF T!UnlinkSource, Calls!UnlinkSource
<1>15. T!Cleanup(i) => Calls!Cleanup(i)
  BY DEF T!Cleanup, Calls!Cleanup
<1> QED
  BY <1>1, <1>2, <1>3, <1>4, <1>5, <1>6, <1>7, <1>8, <1>9, <1>10, <1>11, <1>12,
     <1>13, <1>14, <1>15 DEF T!Proceed, Calls!Proceed

LEMMA CallsDisturbed ==
  ASSUME NEW i, T!CleanupFails(i) \/ T!IOError(i)
  PROVE  Calls!CleanupFails(i) \/ Calls!IOError(i)
<1> USE SameSets
    DEF T!At, Calls!At, T!Abort, Calls!Abort, T!disk, Calls!disk, T!Precheck, Calls!Precheck
<1>1. T!CleanupFails(i) => Calls!CleanupFails(i)
  BY DEF T!CleanupFails, Calls!CleanupFails
<1>2. T!IOError(i) => Calls!IOError(i)
  BY DEF T!IOError, Calls!IOError
<1> QED
  BY <1>1, <1>2

LEMMA CallsInterfere == T!Interfere => Calls!Interfere
<1> USE SameSets
    DEF T!call, Calls!call, T!disk, Calls!disk, T!Noted, Calls!Noted, T!TooLate, Calls!TooLate
<1>1. ASSUME NEW i \in Moves, T!UserWrite(i) PROVE Calls!UserWrite(i)
  <2>1. ("quiet" \in Env \cup {"cancel"}) = ("quiet" \in Env)
    OBVIOUS
  <2> QED
    BY <1>1, <2>1 DEF T!UserWrite, Calls!UserWrite, T!Empty, Calls!Empty
<1>2. ASSUME NEW i \in Moves, T!UserRemove(i) PROVE Calls!UserRemove(i)
  BY <1>2 DEF T!UserRemove, Calls!UserRemove
<1>3. ASSUME NEW i \in Moves, T!Exclude(i) PROVE Calls!Exclude(i)
  BY <1>3 DEF T!Exclude, Calls!Exclude
<1>4. ASSUME NEW i \in Moves, T!Link(i) PROVE Calls!Link(i)
  BY <1>4 DEF T!Link, Calls!Link
<1>5. ASSUME NEW p \in T!Targets, T!UserCreate(p) PROVE Calls!UserCreate(p)
  BY <1>5 DEF T!UserCreate, Calls!UserCreate
<1>6. T!Crash => Calls!Crash
  BY DEF T!Crash, Calls!Crash
<1> QED
  BY <1>1, <1>2, <1>3, <1>4, <1>5, <1>6 DEF T!Interfere, Calls!Interfere

-----------------------------------------------------------------------------
(* The steps of the batch are steps of the executor.                       *)
LEMMA CancelKept == T!Interfere => UNCHANGED cancel
BY DEF T!Interfere, T!UserWrite, T!UserRemove, T!UserCreate, T!Exclude, T!Link, T!Crash

LEMMA LeaveResolves ==
  ASSUME NEW t, Leave(t)
  PROVE  /\ E!Loop(t)
         /\ \/ result[pos[t]] = "completed" /\ E!SetDisp(t, "completed")
            \/ result[pos[t]] = "interrupted" /\ E!SetDisp(t, "interrupted")
            \/ result[pos[t]] \notin {"completed", "interrupted"} /\ E!SetDisp(t, "failed")
         /\ UNCHANGED <<pos, cancel>>
<1>1. CASE result[pos[t]] = "completed"
  BY <1>1 DEF Leave, E!Loop, E!Succeed, E!SucceedUnreported, E!Leave
<1>2. CASE result[pos[t]] = "interrupted"
  BY <1>2 DEF Leave, E!Loop, E!Interrupt, E!Leave
<1>3. CASE result[pos[t]] \notin {"completed", "interrupted"}
  BY <1>3 DEF Leave, E!Loop, E!Fail, E!Leave
<1> QED
  BY <1>1, <1>2, <1>3

LEMMA ThreadSteps ==
  ASSUME [Next]_vars
  PROVE  [E!Next]_(E!vars)
<1>1. \A t \in E!Thread : t = Main \/ t \in E!Queues
  BY DEF E!Thread
<1>2. ASSUME NEW t \in E!Thread, E!Loop(t) PROVE E!Next
  BY <1>1, <1>2 DEF E!Next, E!Caller, E!Worker
<1>3. ASSUME NEW t \in E!Thread, Thread(t) PROVE E!Next
  <2>1. CASE Schedule(t)
    <3>1. E!Loop(t) \/ (t # Main /\ (E!Begin(t) \/ E!QueueDone(t)))
      BY <2>1, SameSets DEF Schedule, E!Loop
    <3> QED
      BY <1>1, <1>2, <3>1 DEF E!Next, E!Worker
  <2>2. CASE Enter(t)
    BY <1>2, <2>2 DEF Enter, E!Loop
  <2>3. CASE Leave(t)
    BY <1>2, <2>3, LeaveResolves
  <2> QED
    BY <1>3, <2>1, <2>2, <2>3 DEF Thread
<1>4. CASE Coordinate
  BY <1>4 DEF Coordinate, E!Next, E!Caller
<1>5. CASE Signal
  BY <1>5 DEF Signal, E!Next
<1>6. CASE Interference \/ \E i \in Moves : Transfer(i) \/ Disturb(i)
  BY <1>6, CancelKept DEF Interference, Transfer, Disturb, threads, E!vars
<1>7. CASE UNCHANGED vars
  BY <1>7 DEF vars, threads, E!vars
<1> QED
  BY <1>3, <1>4, <1>5, <1>6, <1>7 DEF Next

(* The threads of a live batch run as Executor says, whatever the calls do *)
(* to files: what is proved of Executor holds of them.                     *)
THEOREM BatchIsExecutor == Spec => E!Spec
<1>1. Init => E!Init
  BY DEF Init
<1> QED
  BY <1>1, ThreadSteps, PTL DEF Spec, E!Spec

LEMMA ThreadsSpec == Spec => Threads!Spec
<1>1. E!Init => Threads!Init
  BY ThreadsInit
<1>2. [E!Next]_(E!vars) => [Threads!Next]_(Threads!vars)
  BY ThreadsNext DEF E!vars, Threads!vars
<1> QED
  BY <1>1, <1>2, BatchIsExecutor, PTL DEF E!Spec, Threads!Spec

LEMMA ThreadsInvariance == Spec => []Threads!IInv
BY ThreadsSpec, Threads!Invariance, ThreadsAssumed, PTL

-----------------------------------------------------------------------------
(* What the disposition of a move says of its call.                        *)
LinkOK(i) ==
    /\ disp[i] = "not_started" <=> pc[i] = "idle"
    /\ pc[i] \notin {"idle", "ended"} => disp[i] = "active"
    /\ disp[i] \in {"completed", "interrupted", "failed"} =>
          pc[i] = "ended" /\ result[i] = disp[i]

LinkInv == \A i \in Moves : LinkOK(i)

CallsInv == Calls!IInv /\ Calls!NameInv /\ Calls!DiskInv /\ Calls!LeftInv

(* A call begins in a thread that runs its move, and only one thread works *)
(* on a destination.                                                       *)
LEMMA EnterCalls ==
  ASSUME Threads!IInv, CallsInv, LinkInv, NEW t \in E!Thread, Enter(t)
  PROVE  /\ pos[t] \in Moves
         /\ Calls!Call(pos[t])
         /\ disp' = [disp EXCEPT ![pos[t]] = "active"]
<1>1. at[t] = "called" /\ E!SetDisp(t, "active") /\ UNCHANGED <<cancel, pos>>
  BY DEF Enter, E!Activate
<1>2. pos[t] \in Threads!Work(t) /\ pos[t] \in Moves /\ t \in Threads!Thread
  BY <1>1, SameSets, Threads!Works, ThreadsAssumed
  DEF Threads!IInv, Threads!ThreadInv, Threads!ThreadOK
<1>3. ASSUME NEW j \in Moves \ {pos[t]}, Dst[j] = Dst[pos[t]]
      PROVE  pc[j] \in {"idle", "ended"}
  <2>1. SUFFICES ASSUME disp[j] = "active" PROVE FALSE
    BY DEF LinkInv, LinkOK
  <2>2. PICK u \in Threads!Thread : at[u] = "running" /\ pos[u] = j
    BY <2>1, SameSets, Threads!ActiveRunning, ThreadsAssumed
  <2>3. j \in Threads!Work(u)
    BY <2>2 DEF Threads!IInv, Threads!ThreadInv, Threads!ThreadOK
  <2>4. Dest[j] = Dest[pos[t]]
    BY <1>2, <1>3 DEF Dst
  <2>5. j \in Threads!Work(t)
    BY <1>2, <2>3, <2>4, SameSets DEF Threads!Work, Threads!Sequential
  <2>6. u = t
    BY <1>2, <2>3, <2>5, Threads!Works, ThreadsAssumed
  <2> QED
    BY <1>1, <2>2, <2>6
<1>4. Calls!Call(pos[t])
  <2>1. T!Begin(pos[t]) /\ UNCHANGED <<world, cancel>>
    BY <1>1 DEF Enter
  <2>2. Calls!Begin(pos[t])
    BY <2>1 DEF T!Begin, Calls!Begin, T!At, Calls!At, T!Goto, Calls!Goto, T!disk, Calls!disk
  <2> QED
    BY <1>3, <2>1, <2>2 DEF Calls!Call, world, Calls!outside
<1> QED
  BY <1>1, <1>2, <1>4 DEF E!SetDisp

(* The steps of the threads in between start and end no call; they may set *)
(* the event.                                                              *)
Between == \/ Coordinate \/ Signal \/ UNCHANGED vars
           \/ \E t \in E!Thread : Schedule(t) \/ Leave(t)

LEMMA BetweenKeeps ==
  ASSUME Threads!IInv, Between
  PROVE  /\ UNCHANGED <<transfers, world>>
         /\ cancel' = cancel \/ (up /\ ~cancel /\ cancel' = TRUE)
<1>1. UNCHANGED <<transfers, world>>
  BY DEF Between, Coordinate, Signal, Schedule, Leave, vars
<1>2. cancel \in BOOLEAN
  BY DEF Threads!IInv, Threads!TypeOK
<1>3. CASE UNCHANGED vars
  BY <1>3, <1>1 DEF vars
<1>4. CASE Signal
  BY <1>1, <1>2, <1>4 DEF Signal, E!Signal
<1>5. CASE Coordinate
  <2>1. ASSUME NEW d \in E!Queues, E!Collect(d)
        PROVE  cancel' \in {cancel, TRUE}
    BY <1>2, <2>1 DEF E!Collect
  <2>2. cancel' \in {cancel, TRUE}
    BY <1>5, <2>1 DEF Coordinate, E!Propagate, E!SequentialDone, E!Join, E!Unwound,
       E!Submit, E!SpawnFails
  <2> QED
    BY <1>1, <1>2, <1>5, <2>2 DEF Coordinate
<1>6. ASSUME NEW t \in E!Thread, Schedule(t)
      PROVE  cancel' = cancel
  BY <1>6 DEF Schedule, E!Take, E!StopBeforeNext, E!Leave, E!Begin, E!QueueDone
<1>7. ASSUME NEW t \in E!Thread, Leave(t)
      PROVE  cancel' = cancel
  BY <1>7, LeaveResolves
<1> QED
  BY <1>1, <1>3, <1>4, <1>5, <1>6, <1>7 DEF Between

LEMMA CallSteps ==
  ASSUME Threads!IInv, CallsInv, LinkInv, [Next]_vars
  PROVE  [Calls!Next]_(Calls!vars)
<1>1. CASE Between
  <2>1. CASE cancel' = cancel
    BY <1>1, <2>1, BetweenKeeps
    DEF transfers, world, Calls!vars, Calls!call, Calls!disk, Calls!outside
  <2>2. CASE up /\ ~cancel /\ cancel' = TRUE
    <3>1. Calls!RequestCancel
      BY <1>1, <2>2, BetweenKeeps
      DEF transfers, world, Calls!RequestCancel, Calls!call, Calls!disk
    <3> QED
      BY <3>1 DEF Calls!Next
  <2> QED
    BY <1>1, <2>1, <2>2, BetweenKeeps
<1>2. ASSUME NEW t \in E!Thread, Enter(t) PROVE Calls!Next
  BY <1>2, EnterCalls DEF Calls!Next
<1>3. ASSUME NEW i \in Moves, Transfer(i) \/ Disturb(i) PROVE Calls!Next
  BY <1>3, CallsProceed, CallsDisturbed
  DEF Transfer, Disturb, world, Calls!Next, Calls!Step, Calls!outside
<1>4. CASE Interference
  BY <1>4, CallsInterfere DEF Interference, Calls!Next
<1> QED
  BY <1>1, <1>2, <1>3, <1>4 DEF Next, Thread, Between

LEMMA LinkInit == Init => LinkInv
BY SameSets DEF Init, E!Init, T!Init, LinkInv, LinkOK

LEMMA LinkStep ==
  ASSUME Threads!IInv, CallsInv, LinkInv, [Next]_vars
  PROVE  LinkInv'
<1>0. /\ DOMAIN disp = Moves /\ DOMAIN pc = Moves /\ DOMAIN result = Moves
      /\ \A i \in Moves : pc[i] = "ended" => result[i] \in {"completed", "interrupted", "failed"}
  BY SameSets DEF Threads!IInv, Threads!TypeOK, CallsInv, Calls!IInv, Calls!ControlType,
     Calls!CallInv, Calls!CallOK
<1>1. ASSUME UNCHANGED <<disp, pc, result>>
      PROVE  LinkInv'
  BY <1>1 DEF LinkInv, LinkOK
<1>2. CASE Coordinate \/ Signal \/ UNCHANGED vars \/ \E t \in E!Thread : Schedule(t)
  <2>1. UNCHANGED disp
    BY <1>2 DEF Coordinate, E!Propagate, E!SequentialDone, E!Join, E!Unwound, E!Submit,
       E!SpawnFails, E!Collect, Signal, E!Signal, vars, threads, Schedule, E!Take,
       E!StopBeforeNext, E!Begin, E!QueueDone
  <2>2. UNCHANGED <<pc, result>>
    BY <1>2, BetweenKeeps DEF Between, transfers
  <2> QED
    BY <1>1, <2>1, <2>2
<1>3. ASSUME NEW t \in E!Thread, Leave(t)
      PROVE  LinkInv'
  <2>1. /\ at[t] = "running" /\ pc[pos[t]] = "ended"
        /\ UNCHANGED <<pc, result>>
    BY <1>3 DEF Leave, transfers
  <2>2. pos[t] \in Moves
    BY <2>1, SameSets, Threads!Works, ThreadsAssumed
    DEF Threads!IInv, Threads!ThreadInv, Threads!ThreadOK
  <2>3. disp' = [disp EXCEPT ![pos[t]] = result[pos[t]]]
    BY <1>0, <1>3, <2>1, <2>2, LeaveResolves DEF E!SetDisp
  <2>4. disp'[pos[t]] = result[pos[t]] /\ \A j \in Moves \ {pos[t]} : disp'[j] = disp[j]
    BY <1>0, <2>2, <2>3
  <2>5. ASSUME NEW j \in Moves, j = pos[t] PROVE LinkOK(j)'
    BY <1>0, <2>1, <2>2, <2>4, <2>5 DEF LinkOK
  <2>6. ASSUME NEW j \in Moves \ {pos[t]} PROVE LinkOK(j)'
    BY <2>1, <2>4, <2>6 DEF LinkInv, LinkOK
  <2> QED
    BY <2>5, <2>6 DEF LinkInv
<1>4. ASSUME NEW i \in Moves, Calls!Call(i) \/ Calls!Step(i)
      PROVE  /\ \A j \in Moves \ {i} : pc'[j] = pc[j] /\ result'[j] = result[j]
             /\ pc'[i] # "idle"
             /\ Calls!Call(i) => pc[i] = "idle" /\ pc'[i] = "enter"
             /\ Calls!Step(i) => Calls!Busy(i)
  <2>1. Calls!Control(i) /\ (Calls!Step(i) => Calls!Busy(i))
    BY <1>4, Calls!Steps, Calls!StepBusy, CallsAssumed
  <2>2. Calls!Call(i) => pc[i] = "idle" /\ pc'[i] = "enter"
    BY <1>0 DEF Calls!Call, Calls!Begin, Calls!At, Calls!Goto
  <2>3. \A j \in Moves \ {i} : pc'[j] = pc[j] /\ result'[j] = result[j]
    BY <1>0, <2>1 DEF Calls!Control, Calls!Advance, Calls!Stop, Calls!CommitCall, Calls!Complete,
       Calls!LoseCleanup
  <2>4. Calls!Busy(i) => pc'[i] # "idle"
    BY <1>0, <2>1 DEF Calls!Control, Calls!Advance, Calls!Stop, Calls!CommitCall,
       Calls!Complete, Calls!LoseCleanup, Calls!Busy, Calls!Copying, Calls!Precheck
  <2> QED
    BY <1>4, <2>1, <2>2, <2>3, <2>4
<1>5. ASSUME NEW t \in E!Thread, Enter(t)
      PROVE  LinkInv'
  <2>1. /\ pos[t] \in Moves /\ Calls!Call(pos[t])
        /\ disp' = [disp EXCEPT ![pos[t]] = "active"]
    BY <1>5, EnterCalls
  <2>2. disp'[pos[t]] = "active" /\ \A j \in Moves \ {pos[t]} : disp'[j] = disp[j]
    BY <1>0, <2>1
  <2> QED
    BY <1>4, <2>1, <2>2 DEF LinkInv, LinkOK
<1>6. ASSUME NEW i \in Moves, Transfer(i) \/ Disturb(i)
      PROVE  LinkInv'
  <2>1. Calls!Step(i) /\ disp' = disp
    BY <1>6, CallsProceed, CallsDisturbed
    DEF Transfer, Disturb, threads, world, Calls!Step, Calls!outside
  <2> QED
    BY <1>4, <2>1 DEF LinkInv, LinkOK, Calls!Busy
<1>7. CASE Interference
  <2>1. UNCHANGED disp /\ Calls!Interfere
    BY <1>7, CallsInterfere DEF Interference, threads
  <2>2. UNCHANGED <<pc, result>>
    BY <2>1, Calls!Outside, CallsAssumed DEF CallsInv, Calls!IInv
  <2> QED
    BY <1>1, <2>1, <2>2
<1> QED
  BY <1>2, <1>3, <1>5, <1>6, <1>7 DEF Next, Thread

LEMMA MoverInit == Init => CallsInv /\ LinkInv
BY CallsInit, LinkInit, Calls!InitInv, Calls!NameInit, Calls!DiskInit, Calls!LeftInit,
   CallsAssumed DEF Init, CallsInv

LEMMA MoverNext ==
  ASSUME Threads!IInv, CallsInv, LinkInv, [Next]_vars
  PROVE  CallsInv' /\ LinkInv'
<1>1. [Calls!Next]_(Calls!vars)
  BY CallSteps
<1>2. Calls!IInv' /\ Calls!NameInv' /\ Calls!DiskInv' /\ Calls!LeftInv'
  BY <1>1, Calls!NextInv, Calls!NameNext, Calls!DiskNext, Calls!LeftNext, CallsAssumed
  DEF CallsInv
<1> QED
  BY <1>2, LinkStep DEF CallsInv

(* The inductive invariant of a live batch: that of its threads, that of   *)
(* its calls, and the link between the two.                                *)
MoverInv == Threads!IInv /\ CallsInv /\ LinkInv

(* Threads, calls and the link between them, in every reachable state.     *)
THEOREM MoverInvariance == Spec => []MoverInv
<1>1. Threads!IInv /\ CallsInv /\ LinkInv /\ [Next]_vars => CallsInv' /\ LinkInv'
  BY MoverNext
<1> QED
  BY <1>1, MoverInit, ThreadsInvariance, PTL DEF Spec, MoverInv

(* The calls of a live batch are calls as Transfer has them, two to one    *)
(* destination never at a time: what is proved of Transfer for any         *)
(* scheduling of the calls holds of them.                                  *)
THEOREM BatchIsCalls == Spec => Calls!Spec
<1>1. MoverInv /\ [Next]_vars => [Calls!Next]_(Calls!vars)
  BY CallSteps DEF MoverInv
<1>2. Init => Calls!Init
  BY CallsInit DEF Init
<1> QED
  BY <1>1, <1>2, MoverInvariance, PTL DEF Spec, Calls!Spec

(* In a live batch too a destination is only replaced if it was created    *)
(* after its existence check, protection is reread before every rename,    *)
(* and each move is atomic but for the copy of a failed one.               *)
THEOREM BatchFiles ==
  Spec => Calls!NoClobber /\ []Calls!ProtectionReread /\ Calls!AtomicSpec
BY BatchIsCalls, Calls!ClobberSafety, Calls!ProtectionSafety, Calls!Refinement,
   CallsAssumed, PTL

(* In a live batch the dispositions are those of a batch without threads.  *)
THEOREM BatchOutcomes == Spec => Threads!BatchSpec
BY ThreadsSpec, Threads!Refinement, ThreadsAssumed, PTL

-----------------------------------------------------------------------------
LEMMA CreditHolds == MoverInv => Credit
BY DEF MoverInv, CallsInv, LinkInv, LinkOK, Calls!IInv, Calls!CallInv, Calls!CallOK, Credit

(* What the report says of a move is where its file is.                    *)
THEOREM CreditSafety == Spec => []Credit
BY MoverInvariance, CreditHolds, PTL

(* No two calls write below one destination branch, whatever the plan: the *)
(* calling thread is alone until the moves between SSDs are done, and one  *)
(* thread serves each of the other destinations.                           *)
THEOREM OneWriterSafety == Spec => []OneWriter
<1>1. ASSUME MoverInv, NEW i \in Moves, NEW j \in Moves, i # j, Dest[i] = Dest[j],
             pc[i] \in T!Copying \cup {"cleanup"}, pc[j] \in T!Copying \cup {"cleanup"}
      PROVE  FALSE
  <2>1. disp[i] = "active" /\ disp[j] = "active"
    BY <1>1 DEF MoverInv, LinkInv, LinkOK, T!Copying
  <2>2. PICK t \in Threads!Thread : at[t] = "running" /\ pos[t] = i
    BY <1>1, <2>1, SameSets, Threads!ActiveRunning, ThreadsAssumed DEF MoverInv
  <2>3. PICK u \in Threads!Thread : at[u] = "running" /\ pos[u] = j
    BY <1>1, <2>1, SameSets, Threads!ActiveRunning, ThreadsAssumed DEF MoverInv
  <2>4. i \in Threads!Work(t) /\ j \in Threads!Work(u)
    BY <1>1, <2>2, <2>3 DEF MoverInv, Threads!IInv, Threads!ThreadInv, Threads!ThreadOK
  <2>5. j \in Threads!Work(t)
    BY <1>1, <2>4, SameSets DEF Threads!Work, Threads!Sequential
  <2>6. u = t
    BY <2>2, <2>3, <2>4, <2>5, Threads!Works, ThreadsAssumed
  <2> QED
    BY <1>1, <2>2, <2>3, <2>6
<1>2. MoverInv => OneWriter
  BY <1>1 DEF OneWriter
<1> QED
  BY <1>2, MoverInvariance, PTL

(* However execute_moves ends, partial files are left only by failed moves *)
(* that could not remove them, and files in both places by failed moves.   *)
THEOREM CleanSafety == Spec => []EndsClean
<1>1. ASSUME MoverInv, phase \in E!Ended, "stale" \notin Env, NEW p \in T!Targets,
             tmp[p] # Absent
      PROVE  \E i \in Moves : disp[i] = "failed" /\ i \in stuck /\ Dst[i] = p
  <2>1. PICK i \in Moves : /\ Dst[i] = p
                           /\ \/ pc[i] \in Calls!Copying \cup {"cleanup"}
                              \/ i \in stuck /\ result[i] = "failed"
    BY <1>1, SameSets DEF MoverInv, CallsInv, Calls!LeftInv
  <2>2. disp[i] # "active"
    BY <1>1, SameSets, Threads!EndFacts, ThreadsAssumed DEF MoverInv, Threads!Quiescent
  <2>3. disp[i] \in {"not_started", "active", "completed", "failed", "interrupted"}
    BY <1>1, SameSets DEF MoverInv, Threads!IInv, Threads!TypeOK
  <2>4. LinkOK(i) /\ Calls!CallOK(i)
    BY <1>1 DEF MoverInv, LinkInv, CallsInv, Calls!IInv, Calls!CallInv
  <2> QED
    BY <2>1, <2>2, <2>3, <2>4 DEF LinkOK, Calls!CallOK, Calls!Copying
<1>2. ASSUME MoverInv, phase \in E!Ended, NEW i \in Moves, placed[i] = "both"
      PROVE  disp[i] = "failed"
  <2>1. disp[i] # "active"
    BY <1>2, SameSets, Threads!EndFacts, ThreadsAssumed DEF MoverInv, Threads!Quiescent
  <2>2. disp[i] \in {"not_started", "active", "completed", "failed", "interrupted"}
    BY <1>2, SameSets DEF MoverInv, Threads!IInv, Threads!TypeOK
  <2> QED
    BY <1>2, <2>1, <2>2, CreditHolds DEF Credit
<1>3. MoverInv => EndsClean
  BY <1>1, <1>2 DEF EndsClean
<1> QED
  BY <1>3, MoverInvariance, PTL

(* No contents of a user are lost by a live batch, also when two moves of  *)
(* the plan have one destination, if writes change the timestamp or        *)
(* verification is by hash.                                                *)
THEOREM BatchContentSafety ==
  ASSUME "quiet" \in Env => Verify = "sha256"
  PROVE  Spec => []Preserved
<1>1. Calls!Noticeable
  BY DEF Calls!Noticeable
<1>2. MoverInv => Preserved
  <2>1. MoverInv => Calls!Preserved
    BY <1>1, Calls!DiskPreserved, CallsAssumed DEF MoverInv, CallsInv
  <2> QED
    BY <2>1 DEF Preserved, T!Preserved, Calls!Preserved
<1> QED
  BY <1>2, MoverInvariance, PTL
=============================================================================
