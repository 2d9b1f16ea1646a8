------------------------------- MODULE Mover -------------------------------
(***************************************************************************)
(* A live batch: the executor's threads run the transfers of their moves   *)
(* on one disk and share one cancellation event, as cli._run wires them    *)
(* (execute_moves with report.wrap of execute_move).  A move goes from     *)
(* From[i] to Dest[i] and keeps its path inside the branch.                *)
(***************************************************************************)
EXTENDS Naturals, Sequences

CONSTANTS N, HDD, Dest, Main, Events, SpawnMayFail,            \* Executor
          From, Path, Verify, Env, MaxChunks, MaxWrites, Absent \* Transfer

Moves == 1..N
Src == [i \in Moves |-> <<From[i], Path[i]>>]
Dst == [i \in Moves |-> <<Dest[i], Path[i]>>]

(* A plan names a file once and never moves one to where another is.  The  *)
(* event is set by a signal or a failing worker, not by a step of Env.     *)
ASSUME MoverAssumption ==
    /\ N \in Nat /\ DOMAIN Dest = Moves
    /\ Main \notin HDD
    /\ Events \in BOOLEAN /\ SpawnMayFail \in BOOLEAN
    /\ \A i, j \in Moves : Src[i] # Dst[j] /\ (i # j => Src[i] # Src[j])
    /\ Env \subseteq {"write", "quiet", "remove", "create", "exclude", "link",
                      "stale", "error", "crash"}
    /\ MaxChunks \in Nat \ {0} /\ MaxWrites \in Nat
    /\ Absent \notin [data : Seq(0..MaxWrites), mtime : 0..MaxWrites, synced : BOOLEAN]
                     \cup [size : Nat, mtime : Nat]

VARIABLES phase, at, pos, disp, error, collected, signalled, raised,
          pc, result, before, digest, stuck, file, tmp, durable, excluded, linked,
          up, writes, orig, placed, late,
          cancel      \* the event, shared

E == INSTANCE Executor
T == INSTANCE Transfer

threads   == <<phase, at, pos, disp, error, collected, signalled, raised>>
transfers == <<pc, result, before, digest, stuck, file, tmp, durable, placed>>
world     == <<excluded, linked, up, writes, orig, late>>
vars      == <<threads, transfers, world, cancel>>

Init == E!Init /\ T!Init

(* Steps of the threads between two moves.                                 *)
Schedule(t) ==
    /\ up
    /\ \/ \E i \in Moves : E!Take(t, i)
       \/ E!StopBeforeNext(t)
       \/ t # Main /\ (E!Begin(t) \/ E!QueueDone(t))
    /\ UNCHANGED <<transfers, world>>

Coordinate ==
    /\ up
    /\ \/ E!Propagate \/ E!SequentialDone \/ E!Join \/ E!Unwound
       \/ \E d \in E!Queues : E!Submit(d) \/ E!SpawnFails(d) \/ E!Collect(d)
    /\ UNCHANGED <<transfers, world>>

(* The wrapper records the move as active and calls execute_move ...       *)
Enter(t) ==
    /\ E!Activate(t)
    /\ T!Begin(pos[t])
    /\ UNCHANGED world

(* Mutants: a failed call is credited; a call is not waited for.           *)
LeaveCrediting(t) ==
    /\ up
    /\ at[t] = "running"
    /\ pc[pos[t]] = "ended"
    /\ IF result[pos[t]] = "interrupted" THEN E!Interrupt(t) ELSE E!Succeed(t)
    /\ UNCHANGED <<transfers, world>>

LeaveEarly(t) ==
    /\ up
    /\ at[t] = "running"
    /\ E!Succeed(t)
    /\ UNCHANGED <<transfers, world>>

(* ... and records how the call ended.                                     *)
Leave(t) ==
    /\ up
    /\ at[t] = "running"
    /\ pc[pos[t]] = "ended"
    /\ CASE result[pos[t]] = "completed"   -> E!Succeed(t) \/ E!SucceedUnreported(t)
         [] result[pos[t]] = "interrupted" -> E!Interrupt(t)
         [] OTHER                          -> E!Fail(t)
    /\ UNCHANGED <<transfers, world>>

Transfer(i)  == T!Proceed(i) /\ UNCHANGED <<threads, world, cancel>>
Disturb(i)   == (T!CleanupFails(i) \/ T!IOError(i)) /\ UNCHANGED <<threads, world, cancel>>
Interference == T!Interfere /\ UNCHANGED threads
Signal       == up /\ E!Signal /\ UNCHANGED <<transfers, world>>

Thread(t) == Schedule(t) \/ Enter(t) \/ Leave(t)

Next == \/ Coordinate \/ Interference \/ Signal
        \/ \E t \in E!Thread : Thread(t)
        \/ \E i \in Moves : Transfer(i) \/ Disturb(i)

Spec == Init /\ [][Next]_vars

(* The calling thread, the workers and the calls they make are scheduled.  *)
FairSpec == /\ Spec
            /\ WF_vars(Coordinate)
            /\ \A t \in E!Thread : WF_vars(Thread(t))
            /\ \A i \in Moves : WF_vars(Transfer(i))

-----------------------------------------------------------------------------
(* A disposition tells where the file is (docs/reporting.md): "completed"  *)
(* is credited only of a file that has left its source for its             *)
(* destination, and a move that was not started or was interrupted has     *)
(* changed nothing, at any moment and after a power failure too.           *)
Credit ==
    \A i \in Moves :
        /\ disp[i] = "completed" => placed[i] = "destination"
        /\ disp[i] \in {"not_started", "interrupted"} => placed[i] = "source"
        /\ disp[i] = "failed" => placed[i] # "destination"

(* When execute_moves ends, however it ends, a partial file is left only   *)
(* under a destination of a move that failed and could not remove it, and  *)
(* a file is in both places only after a move that failed.                 *)
EndsClean ==
    phase \in E!Ended /\ "stale" \notin Env =>
        LET failed == {i \in Moves : disp[i] = "failed"}
        IN  /\ \A p \in T!Targets : tmp[p] # Absent =>
                                      \E i \in failed \cap stuck : Dst[i] = p
            /\ \A i \in Moves : placed[i] = "both" => i \in failed

(* Two calls never write below one destination branch at the same time,    *)
(* whatever the plan, so one partial file per destination name is enough.  *)
OneWriter ==
    \A i, j \in Moves :
        i # j /\ Dest[i] = Dest[j] => ~ (/\ pc[i] \in T!Copying \cup {"cleanup"}
                                         /\ pc[j] \in T!Copying \cup {"cleanup"})

(* No user data is lost by concurrent moves, also when the plan gives two  *)
(* moves the same destination name.                                        *)
Preserved == T!Preserved

(* The call ends, whatever fails and whenever a signal comes, unless the   *)
(* machine stops.                                                          *)
Termination == <>(phase \in E!Ended \/ ~up)
=============================================================================
