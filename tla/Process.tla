------------------------------ MODULE Process ------------------------------
(***************************************************************************)
(* What the processes of the package share: the process lock of            *)
(* locking.process_lock, the files of the pool, and the ways a process is  *)
(* stopped.  What a process does between `discover` and `unlock` is module *)
(* Run for the mover and Harness for the integration harness.              *)
(*                                                                         *)
(* A file is its branch and its name; a process id is the process.         *)
(***************************************************************************)
EXTENDS Integers, Sequences, FiniteSets

CONSTANTS Movers, Harnesses,  \* processes
          Ssd, Hdd,           \* branches
          MaxPlan,            \* moves of a plan
          Nobody

Procs    == Movers \cup Harnesses
Branches == Ssd \cup Hdd

ASSUME ProcessAssumption ==
    /\ Nobody \notin Procs
    /\ Movers \cap Harnesses = {}

VARIABLES
    pc,      \* what each process does next
    exc,     \* the exception on its way out of each process
    holder,  \* process that has the flock of the lock file
    pid,     \* process the lock file names
    disk,    \* files of the pool
    plan,    \* moves each process has planned
    placed,  \* those of them whose destination is committed
    removed  \* those of them whose source is removed

local == <<pc, exc>>
lock  == <<holder, pid>>
moves == <<plan, placed, removed>>
files == <<disk, moves>>

Stopped == {"idle", "ended", "terminated", "dead"}
Alive(p) == pc[p] \notin Stopped

Go(p, l)       == pc' = [pc EXCEPT ![p] = l] /\ UNCHANGED exc
Raise(p, e, l) == pc' = [pc EXCEPT ![p] = l] /\ exc' = [exc EXCEPT ![p] = e]

Planned(p, s) == /\ plan' = [plan EXCEPT ![p] = s]
                 /\ placed' = [placed EXCEPT ![p] = {}]
                 /\ removed' = [removed EXCEPT ![p] = {}]

-----------------------------------------------------------------------------
(* The lock.  Opening the file for writing truncates it, whoever has the   *)
(* lock; LOCK_NB never waits; LOCK_UN without the lock changes nothing.    *)
(* Once it has unlocked a process moves nothing, its plan is not kept.     *)
OpenLock(p) ==
    /\ pc[p] = "open"
    /\ pid' = Nobody
    /\ Go(p, "flock")
    /\ UNCHANGED <<holder, files>>

(* Mutants: the lock is shared; a contender goes on.                       *)
AcquireShared(p) ==
    /\ pc[p] = "flock"
    /\ holder' = p
    /\ Go(p, "write")
    /\ UNCHANGED <<pid, files>>

BusyContinues(p) ==
    /\ pc[p] = "flock"
    /\ holder # Nobody
    /\ Go(p, "write")
    /\ UNCHANGED <<lock, files>>

Acquire(p) ==
    /\ pc[p] = "flock"
    /\ holder = Nobody
    /\ holder' = p
    /\ Go(p, "write")
    /\ UNCHANGED <<pid, files>>

Busy(p) ==
    /\ pc[p] = "flock"
    /\ holder # Nobody
    /\ Raise(p, "failed", "unlock")
    /\ UNCHANGED <<lock, files>>

WritePid(p) ==
    /\ pc[p] = "write"
    /\ pid' = p
    /\ Go(p, "discover")
    /\ UNCHANGED <<holder, files>>

Unlock(p) ==
    /\ pc[p] = "unlock"
    /\ holder' = IF holder = p THEN Nobody ELSE holder
    /\ Go(p, "after")
    /\ Planned(p, {})
    /\ UNCHANGED <<pid, disk>>

Locking(p) == OpenLock(p) \/ Acquire(p) \/ Busy(p) \/ WritePid(p) \/ Unlock(p)

-----------------------------------------------------------------------------
(* Planning reads the disk: a source is a file of an SSD, and its name is  *)
(* free on the destination.  Which of the possible moves are planned is    *)
(* the subject of module Planner; a plan is any set of them.               *)
Moves(N) == {m \in [from : Ssd, to : Branches, name : N] : m.from # m.to}

Source(m) == <<m.from, m.name>>
Target(m) == <<m.to, m.name>>

Plans(N) ==
    LET possible == {m \in Moves(N) : Source(m) \in disk /\ Target(m) \notin disk}
    IN  {s \in SUBSET possible :
            /\ Cardinality(s) <= MaxPlan
            /\ \A m, n \in s : Source(m) = Source(n) => m = n}

(* A process that is killed or dies of a signal it does not handle: the    *)
(* kernel closes its files, and with them its lock; its memory is gone.    *)
Die(p, l) ==
    /\ Alive(p)
    /\ Raise(p, "none", l)
    /\ holder' = IF holder = p THEN Nobody ELSE holder
    /\ Planned(p, {})
    /\ UNCHANGED <<pid, disk>>

(* execute_move of module Transfer, as the other processes see it: the     *)
(* destination appears, then the source goes.                              *)
Commit(p, m) ==
    /\ m \in plan[p] \ placed[p]
    /\ Target(m) \notin disk
    /\ disk' = disk \cup {Target(m)}
    /\ placed' = [placed EXCEPT ![p] = @ \cup {m}]
    /\ UNCHANGED <<plan, removed>>

Remove(p, m) ==
    /\ m \in placed[p] \ removed[p]
    /\ disk' = disk \ {Source(m)}
    /\ removed' = [removed EXCEPT ![p] = @ \cup {m}]
    /\ UNCHANGED <<plan, placed>>
=============================================================================
