------------------------------ MODULE Executor ------------------------------
(***************************************************************************)
(* executor.execute_moves: one authoritative plan, its SSD moves run by the*)
(* calling thread one after the other, its HDD moves by one worker per HDD *)
(* destination, all sharing one cancellation event.  The move executor is  *)
(* the wrapper of reporting.ExecutionReport.wrap, so every step of a move  *)
(* also sets its disposition.  What the move does to files is module       *)
(* Transfer; here it takes any time and ends in any way.                   *)
(*                                                                         *)
(* A move is its position in the plan; a worker is named by its HDD.       *)
(***************************************************************************)
EXTENDS Naturals

CONSTANTS N,            \* length of the plan
          HDD,          \* rotational branches
          Dest,         \* destination branch of each move
          Main,         \* the thread that calls execute_moves
          Events,       \* --json-events: a completed move may fail to report progress
          SpawnMayFail  \* the pool may fail to start a worker thread

Moves == 1..N

ASSUME ExecutorAssumption ==
    /\ N \in Nat
    /\ DOMAIN Dest = Moves
    /\ Main \notin HDD
    /\ Events \in BOOLEAN
    /\ SpawnMayFail \in BOOLEAN

Queues == {d \in HDD : \E i \in Moves : Dest[i] = d}
Thread == Queues \cup {Main}

Sequential == {i \in Moves : Dest[i] \notin HDD}
Work(t)    == IF t = Main THEN Sequential ELSE {i \in Moves : Dest[i] = t}

VARIABLES
    phase,      \* of the calling thread inside execute_moves
    at,         \* where each thread is in its loop over its moves
    pos,        \* the move each thread's loop took last
    disp,       \* report.states
    error,      \* exception that ended each thread's loop
    collected,  \* futures whose result the calling thread has read
    cancel,     \* the cancellation event
    signalled,  \* history: SIGTERM or SIGINT was delivered
    raised      \* exception execute_moves raised

vars == <<phase, at, pos, disp, error, collected, cancel, signalled, raised>>

Error == {"none", "failed", "cancelled"}
Ended == {"returned", "raised"}

TypeOK ==
    /\ phase \in {"sequential", "submitting", "collecting", "unwinding"} \cup Ended
    /\ at \in [Thread -> {"absent", "queued", "orphaned", "loop", "called",
                          "running", "finished"}]
    /\ pos \in [Thread -> 0..N]
    /\ disp \in [Moves -> {"not_started", "active", "completed", "failed",
                           "interrupted"}]
    /\ error \in [Thread -> Error]
    /\ collected \subseteq Queues
    /\ cancel \in BOOLEAN
    /\ signalled \in BOOLEAN
    /\ raised \in Error

Init ==
    /\ phase = "sequential"
    /\ at = [t \in Thread |-> IF t = Main THEN "loop" ELSE "absent"]
    /\ pos = [t \in Thread |-> 0]
    /\ disp = [i \in Moves |-> "not_started"]
    /\ error = [t \in Thread |-> "none"]
    /\ collected = {}
    /\ cancel = FALSE
    /\ signalled = FALSE
    /\ raised = "none"

-----------------------------------------------------------------------------
(* The loop over a thread's moves: _run_serial_queue for a worker, the     *)
(* loop over `sequential` for the calling thread.                          *)

IsNext(t, i) == /\ i \in Work(t)
                /\ i > pos[t]
                /\ \A k \in Work(t) : k > pos[t] => i <= k

NoneLeft(t) == \A i \in Work(t) : i <= pos[t]

(* An exception leaves the loop; a worker's is kept in its future.         *)
Leave(t, e) ==
    /\ at' = [at EXCEPT ![t] = "finished"]
    /\ error' = [error EXCEPT ![t] = e]
    /\ UNCHANGED <<phase, collected, cancel, signalled, raised>>

SetDisp(t, d) == disp' = [disp EXCEPT ![pos[t]] = d]

(* Mutant: the loop steps past the move it took.                           *)
TakeOffByOne(t, i) ==
    /\ at[t] = "loop"
    /\ IsNext(t, i)
    /\ ~cancel
    /\ at' = [at EXCEPT ![t] = "called"]
    /\ pos' = [pos EXCEPT ![t] = i + 1]
    /\ UNCHANGED <<phase, disp, error, collected, cancel, signalled, raised>>

(* Mutant: the event is not looked at between two moves.                   *)
TakeIgnoringCancel(t, i) ==
    /\ at[t] = "loop"
    /\ IsNext(t, i)
    /\ at' = [at EXCEPT ![t] = "called"]
    /\ pos' = [pos EXCEPT ![t] = i]
    /\ UNCHANGED <<phase, disp, error, collected, cancel, signalled, raised>>

Take(t, i) ==
    /\ at[t] = "loop"
    /\ IsNext(t, i)
    /\ ~cancel
    /\ at' = [at EXCEPT ![t] = "called"]
    /\ pos' = [pos EXCEPT ![t] = i]
    /\ UNCHANGED <<phase, disp, error, collected, cancel, signalled, raised>>

StopBeforeNext(t) ==
    /\ at[t] = "loop"
    /\ ~NoneLeft(t)
    /\ cancel
    /\ Leave(t, "cancelled")
    /\ UNCHANGED <<pos, disp>>

Activate(t) ==
    /\ at[t] = "called"
    /\ at' = [at EXCEPT ![t] = "running"]
    /\ SetDisp(t, "active")
    /\ UNCHANGED <<phase, pos, error, collected, cancel, signalled, raised>>

Succeed(t) ==
    /\ at[t] = "running"
    /\ at' = [at EXCEPT ![t] = "loop"]
    /\ SetDisp(t, "completed")
    /\ UNCHANGED <<phase, pos, error, collected, cancel, signalled, raised>>

(* The move completed and is recorded so, but printing its progress event  *)
(* raises (a closed stdout): the exception ends the loop all the same.     *)
SucceedUnreported(t) ==
    /\ Events
    /\ at[t] = "running"
    /\ SetDisp(t, "completed")
    /\ Leave(t, "failed")
    /\ UNCHANGED pos

(* Mutant: the wrapper does not record the failure.                        *)
FailUnrecorded(t) ==
    /\ at[t] = "running"
    /\ Leave(t, "failed")
    /\ UNCHANGED <<pos, disp>>

Fail(t) ==
    /\ at[t] = "running"
    /\ SetDisp(t, "failed")
    /\ Leave(t, "failed")
    /\ UNCHANGED pos

Interrupt(t) ==
    /\ at[t] = "running"
    /\ cancel
    /\ SetDisp(t, "interrupted")
    /\ Leave(t, "cancelled")
    /\ UNCHANGED pos

(* The calling thread's exception propagates before any pool exists.       *)
Propagate ==
    /\ phase = "sequential"
    /\ error[Main] # "none"
    /\ phase' = "raised"
    /\ raised' = error[Main]
    /\ UNCHANGED <<at, pos, disp, error, collected, cancel, signalled>>

-----------------------------------------------------------------------------
(* The pool: queues are submitted in the order the plan first names them.  *)

(* Mutant: the pool starts although SSD moves are left.                    *)
SequentialAbandoned ==
    /\ phase = "sequential"
    /\ at[Main] = "loop"
    /\ at' = [at EXCEPT ![Main] = "finished"]
    /\ phase' = IF Queues = {} THEN "returned" ELSE "submitting"
    /\ UNCHANGED <<pos, disp, error, collected, cancel, signalled, raised>>

SequentialDone ==
    /\ phase = "sequential"
    /\ at[Main] = "loop"
    /\ NoneLeft(Main)
    /\ at' = [at EXCEPT ![Main] = "finished"]
    /\ phase' = IF Queues = {} THEN "returned" ELSE "submitting"
    /\ UNCHANGED <<pos, disp, error, collected, cancel, signalled, raised>>

NextQueue(d) ==
    /\ phase = "submitting"
    /\ at[d] = "absent"
    /\ \E i \in Work(d) : \A k \in Moves :
          k < i /\ Dest[k] \in Queues => at[Dest[k]] # "absent"

(* Mutant: the results are awaited before every queue is submitted.        *)
SubmitFirstOnly(d) ==
    /\ NextQueue(d)
    /\ at' = [at EXCEPT ![d] = "queued"]
    /\ phase' = "collecting"
    /\ UNCHANGED <<pos, disp, error, collected, cancel, signalled, raised>>

Submit(d) ==
    /\ NextQueue(d)
    /\ at' = [at EXCEPT ![d] = "queued"]
    /\ phase' = IF \A e \in Queues \ {d} : at[e] # "absent"
                THEN "collecting" ELSE "submitting"
    /\ UNCHANGED <<pos, disp, error, collected, cancel, signalled, raised>>

(* submit() enqueues the work and then fails to start a thread for it: the *)
(* error leaves the `with` body, whose exit joins the workers.             *)
SpawnFails(d) ==
    /\ SpawnMayFail
    /\ NextQueue(d)
    /\ at' = [at EXCEPT ![d] = "orphaned"]
    /\ phase' = "unwinding"
    /\ error' = [error EXCEPT ![Main] = "failed"]
    /\ UNCHANGED <<pos, disp, collected, cancel, signalled, raised>>

(* A worker thread picks the queue up; one that has no thread of its own   *)
(* waits for a thread that has finished another queue.                     *)
Begin(d) ==
    /\ \/ at[d] = "queued"
       \/ at[d] = "orphaned" /\ \E e \in Queues : at[e] = "finished"
    /\ at' = [at EXCEPT ![d] = "loop"]
    /\ UNCHANGED <<phase, pos, disp, error, collected, cancel, signalled, raised>>

QueueDone(d) ==
    /\ at[d] = "loop"
    /\ NoneLeft(d)
    /\ at' = [at EXCEPT ![d] = "finished"]
    /\ UNCHANGED <<phase, pos, disp, error, collected, cancel, signalled, raised>>

(* Mutant: a worker's error is kept but its peers are not told.            *)
CollectQuietly(d) ==
    /\ phase = "collecting"
    /\ at[d] = "finished"
    /\ d \notin collected
    /\ collected' = collected \cup {d}
    /\ UNCHANGED <<phase, at, pos, disp, error, cancel, signalled, raised>>

Collect(d) ==
    /\ phase = "collecting"
    /\ at[d] = "finished"
    /\ d \notin collected
    /\ collected' = collected \cup {d}
    /\ cancel' = (cancel \/ error[d] # "none")
    /\ UNCHANGED <<phase, at, pos, disp, error, signalled, raised>>

(* Mutants: lose the errors; raise the cancellation of a peer although     *)
(* another worker failed.                                                  *)
JoinSilently ==
    /\ phase = "collecting"
    /\ collected = Queues
    /\ phase' = "returned"
    /\ UNCHANGED <<at, pos, disp, error, collected, cancel, signalled, raised>>

JoinMasking ==
    /\ phase = "collecting"
    /\ collected = Queues
    /\ raised' = IF \E d \in Queues : error[d] = "cancelled" THEN "cancelled"
                 ELSE IF \E d \in Queues : error[d] = "failed" THEN "failed"
                 ELSE "none"
    /\ phase' = IF raised' = "none" THEN "returned" ELSE "raised"
    /\ UNCHANGED <<at, pos, disp, error, collected, cancel, signalled>>

(* Every future is collected and the pool is joined: return, or raise an   *)
(* error, one that is not a cancellation if there is any.                  *)
Join ==
    /\ phase = "collecting"
    /\ collected = Queues
    /\ raised' = IF \E d \in Queues : error[d] = "failed" THEN "failed"
                 ELSE IF \E d \in Queues : error[d] = "cancelled" THEN "cancelled"
                 ELSE "none"
    /\ phase' = IF raised' = "none" THEN "returned" ELSE "raised"
    /\ UNCHANGED <<at, pos, disp, error, collected, cancel, signalled>>

(* Mutant: the exit of the `with` body does not join.                      *)
UnwoundEarly ==
    /\ phase = "unwinding"
    /\ phase' = "raised"
    /\ raised' = error[Main]
    /\ UNCHANGED <<at, pos, disp, error, collected, cancel, signalled>>

Unwound ==
    /\ phase = "unwinding"
    /\ \A d \in Queues : at[d] \in {"absent", "orphaned", "finished"}
    /\ \A d \in Queues : at[d] = "orphaned" => \A e \in Queues : at[e] # "finished"
    /\ phase' = "raised"
    /\ raised' = error[Main]
    /\ UNCHANGED <<at, pos, disp, error, collected, cancel, signalled>>

(* The handlers of cli._install_cancel_handlers; restored after the call.  *)
Signal ==
    /\ phase \notin Ended
    /\ ~signalled
    /\ cancel' = TRUE
    /\ signalled' = TRUE
    /\ UNCHANGED <<phase, at, pos, disp, error, collected, raised>>

-----------------------------------------------------------------------------
Loop(t) ==
    \/ \E i \in Moves : Take(t, i)
    \/ StopBeforeNext(t)
    \/ Activate(t)
    \/ Succeed(t)
    \/ SucceedUnreported(t)
    \/ Fail(t)
    \/ Interrupt(t)

Worker(d) == Begin(d) \/ Loop(d) \/ QueueDone(d)

Caller == \/ Loop(Main)
          \/ Propagate
          \/ SequentialDone
          \/ \E d \in Queues : Submit(d) \/ SpawnFails(d) \/ Collect(d)
          \/ Join
          \/ Unwound

Next == Caller \/ Signal \/ \E d \in Queues : Worker(d)

Spec == Init /\ [][Next]_vars

(* Threads are scheduled and a move ends: nothing is assumed of signals.   *)
FairSpec == Spec /\ WF_vars(Caller) /\ \A d \in Queues : WF_vars(Worker(d))

-----------------------------------------------------------------------------
(* Moves that must not overlap: SSD moves with each other, HDD moves with  *)
(* those to the same HDD, and every SSD move with every HDD move.          *)
MustPrecede(k, i) ==
    \/ k \in Sequential /\ i \notin Sequential
    \/ k < i /\ i \in Sequential /\ k \in Sequential
    \/ k < i /\ i \notin Sequential /\ Dest[k] = Dest[i]

Precedes == {e \in Moves \X Moves : MustPrecede(e[1], e[2])}

(* A move starts only after every move it must follow has completed: a     *)
(* destination never has two writers, and the first failure or             *)
(* interruption in a queue leaves the rest of the queue not started.       *)
InOrder ==
    \A k, i \in Moves :
        MustPrecede(k, i) /\ disp[i] # "not_started" => disp[k] = "completed"

(* execute_moves ends only when no worker can still touch a file, whatever *)
(* way it ends: the caller releases the process lock next.                 *)
Quiescent ==
    phase \in Ended =>
        /\ \A t \in Thread : at[t] \in {"absent", "orphaned", "finished"}
        /\ \A i \in Moves : disp[i] # "active"

(* Returning without an exception (the report then says "completed") means *)
(* that every move of the plan completed, none was skipped or dropped.     *)
FullSuccess == phase = "returned" => \A i \in Moves : disp[i] = "completed"

(* A cancellation is raised only if the operator asked for one and no move *)
(* failed: peers that stop because one worker failed never turn the        *)
(* failure into a cancellation, whichever future is collected first.       *)
FailureNotMasked ==
    raised = "cancelled" => /\ signalled
                            /\ \A i \in Moves : disp[i] # "failed"
                            /\ \A t \in Thread : error[t] # "failed"

(* "Cancellation and failure stop new work" (README): once the event is    *)
(* set it stays set, and no thread takes a move that none had taken.       *)
Taken(i) == \/ disp[i] # "not_started"
            \/ \E t \in Thread : at[t] = "called" /\ pos[t] = i

StopsNewWork ==
    [][cancel => cancel' /\ \A i \in Moves : Taken(i)' => Taken(i)]_vars

(* The dispositions and the way the call ends are those of an abstract     *)
(* batch without threads.                                                  *)
BatchOutcome == CASE phase = "returned" -> "completed"
                  [] phase = "raised"   -> raised
                  [] OTHER              -> "running"

B == INSTANCE Batch WITH outcome <- BatchOutcome

BatchSpec == B!Spec

(* Whatever fails and whenever a signal comes, the call ends: the joins    *)
(* wait for no one who waits for them.                                     *)
Termination == <>(phase \in Ended)

(* Once every queue has a thread, a worker's failure asks its peers to     *)
(* stop, also when other queues take long and when several fail.           *)
FailureCancels ==
    phase = "collecting" /\ (\E d \in Queues : error[d] # "none") ~> cancel
=============================================================================
