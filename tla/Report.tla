------------------------------- MODULE Report -------------------------------
(***************************************************************************)
(* reporting.ExecutionReport around a live or dry run: the wrapper of each *)
(* move, the throttle of progress events, and the result.  The threads are *)
(* those of Executor; a state change and the event it prints are made      *)
(* under one lock.  Events go through a pipe to a reader that may be slow  *)
(* or leave.                                                               *)
(***************************************************************************)
EXTENDS Integers, Sequences, FiniteSets, FiniteSetsExt

CONSTANTS N, HDD, Dest, Main, Events, SpawnMayFail,  \* Executor
          From,      \* source branch of each move
          Size,      \* planned size of each move
          Growth,    \* by how much a source may have grown when it is copied
          Capacity,  \* bound: events in the pipe
          Second,    \* ticks of the clock in a second
          MaxTime,   \* bound: ticks
          Null

VARIABLES phase, at, pos, disp, error, collected, cancel, signalled, raised

E == INSTANCE Executor
Moves == E!Moves

ASSUME ReportAssumption ==
    /\ N \in Nat /\ DOMAIN Dest = Moves
    /\ Main \notin HDD
    /\ Events \in BOOLEAN /\ SpawnMayFail \in BOOLEAN
    /\ Size \in [Moves -> Nat] /\ Growth \in Nat
    /\ Capacity \in Nat /\ Second \in Nat /\ MaxTime \in Nat
    /\ Null \notin E!Thread

VARIABLES
    stage,      \* of the process: planning, executing, finishing or ended
    live,       \* --live
    known,      \* report.moves is set
    status,     \* report.status
    actual,     \* report.actual: bytes a completed move has moved
    printing,   \* thread that prints an event while it holds the report's lock
    now,        \* the clock
    lastEvent,  \* report.last_event
    pipe,       \* events printed and not yet read
    reader,     \* "reading", "paused" or "gone"
    seen        \* the snapshot the reader got last

threads == <<phase, at, pos, disp, error, collected, cancel, signalled, raised>>
output  == <<pipe, reader, seen>>
vars    == <<threads, stage, live, known, status, actual, printing, now, lastEvent, output>>

-----------------------------------------------------------------------------
Dispositions == {"completed", "not_started", "active", "interrupted", "failed"}
Route(i)     == <<From[i], Dest[i]>>
Routes       == {Route(i) : i \in Moves}

(* aggregate: files and bytes of a set of moves, in all and by route.      *)
Count(S, bytes) == [files |-> Cardinality(S),
                    bytes |-> SumFunctionOnSet(bytes, S)]

Aggregate(S, bytes) ==
    [total  |-> Count(S, bytes),
     routes |-> [r \in {Route(i) : i \in S} |-> Count({i \in S : Route(i) = r}, bytes)]]

(* No division by an empty plan or one of empty files.                     *)
Percent(done, planned) ==
    IF planned.bytes > 0 THEN (100 * done.bytes) \div planned.bytes
    ELSE IF planned.files > 0 THEN (100 * done.files) \div planned.files
    ELSE 100

(* What an event or the result shows: d are the dispositions and b the     *)
(* actual bytes at that moment.                                            *)
Snapshot(kind, st, d, b) ==
    LET planned   == Aggregate(Moves, Size)
        Having(x) == IF known' THEN {i \in Moves : d[i] = x} ELSE {}
        credited  == Aggregate(Having("completed"), Size)
    IN  [event        |-> kind,
         status       |-> st,
         time         |-> lastEvent',
         planned      |-> IF known' THEN planned ELSE Null,
         completed    |-> Aggregate(Having("completed"), b),
         dispositions |-> [x \in Dispositions |-> Aggregate(Having(x), Size)],
         progress     |-> IF known' THEN Percent(credited.total, planned.total) ELSE Null]

(* print(..., flush=True): waits for room in the pipe, raises if the       *)
(* reader is gone.                                                         *)
Emit(s) == IF Events
            THEN reader # "gone" /\ Len(pipe) < Capacity /\ pipe' = Append(pipe, s)
            ELSE UNCHANGED pipe

Broken == Events /\ reader = "gone" /\ UNCHANGED pipe

-----------------------------------------------------------------------------
Init ==
    /\ E!Init
    /\ stage = "planning"
    /\ live \in BOOLEAN
    /\ known = FALSE
    /\ status = "planning"
    /\ actual = [i \in Moves |-> 0]
    /\ printing = Null
    /\ now = 0
    /\ lastEvent = -Second
    /\ pipe = <<>> /\ reader = "reading" /\ seen = Null

(* report.plan, or an exception before it.                                 *)
Plan ==
    /\ stage = "planning"
    /\ known' = TRUE
    /\ status' = IF live THEN "running" ELSE "planned"
    /\ UNCHANGED <<threads, live, actual, printing, now, lastEvent, reader, seen>>
    /\ \/ /\ Emit(Snapshot("planned", status', disp, actual))
          /\ stage' = IF live THEN "executing" ELSE "finishing"
       \/ /\ Broken
          /\ stage' = "failing"

PlanningFails ==
    /\ stage = "planning"
    /\ stage' = "failing"
    /\ UNCHANGED <<threads, live, known, status, actual, printing, now, lastEvent, output>>

quiet == <<stage, live, known, status, now>>

(* The executor between moves.                                             *)
Schedule(t) ==
    /\ stage = "executing"
    /\ \/ \E i \in Moves : E!Take(t, i)
       \/ E!StopBeforeNext(t)
       \/ t # Main /\ (E!Begin(t) \/ E!QueueDone(t))
    /\ UNCHANGED <<quiet, actual, printing, lastEvent, output>>

Coordinate ==
    /\ stage = "executing"
    /\ \/ E!Propagate \/ E!SequentialDone \/ E!Join \/ E!Unwound
       \/ \E d \in E!Queues : E!Submit(d) \/ E!SpawnFails(d) \/ E!Collect(d)
    /\ UNCHANGED <<quiet, actual, printing, lastEvent, output>>

(* The wrapper: each change of state waits for the report's lock.          *)
Record(t) ==
    /\ stage = "executing"
    /\ printing = Null
    /\ E!Activate(t) \/ E!Fail(t) \/ E!Interrupt(t)
    /\ UNCHANGED <<quiet, actual, printing, lastEvent, output>>

(* A completed move prints its event, before the lock is released, unless  *)
(* one was printed within the last second.                                 *)
Complete(t) ==
    /\ stage = "executing"
    /\ printing = Null
    /\ at[t] = "running"
    /\ \E g \in 0..Growth : actual' = [actual EXCEPT ![pos[t]] = Size[pos[t]] + g]
    /\ IF now - lastEvent < Second
       THEN E!Succeed(t) /\ UNCHANGED <<printing, lastEvent>>
       ELSE printing' = t /\ lastEvent' = now /\ UNCHANGED threads
    /\ UNCHANGED <<quiet, output>>

(* Mutants: the event has only the thread's own move; the lock is kept     *)
(* when printing raises.                                                   *)
ProgressOwn(t) ==
    /\ printing = t
    /\ UNCHANGED <<quiet, actual, lastEvent, reader, seen>>
    /\ \/ /\ Emit(Snapshot("progress", status,
                [i \in Moves |-> IF i = pos[t] THEN "completed" ELSE "not_started"], actual))
          /\ E!Succeed(t)
       \/ Broken /\ E!SucceedUnreported(t)
    /\ printing' = Null

ProgressKeepingLock(t) ==
    /\ printing = t
    /\ at[t] = "running"
    /\ UNCHANGED <<quiet, actual, lastEvent, reader, seen>>
    /\ \/ /\ Emit(Snapshot("progress", status, [disp EXCEPT ![pos[t]] = "completed"], actual))
          /\ E!Succeed(t)
          /\ printing' = Null
       \/ Broken /\ E!SucceedUnreported(t) /\ UNCHANGED printing

Progress(t) ==
    /\ printing = t
    /\ UNCHANGED <<quiet, actual, lastEvent, reader, seen>>
    /\ \/ /\ Emit(Snapshot("progress", status, [disp EXCEPT ![pos[t]] = "completed"], actual))
          /\ E!Succeed(t)
       \/ Broken /\ E!SucceedUnreported(t)
    /\ printing' = Null

Thread(t) == Schedule(t) \/ Record(t) \/ Complete(t) \/ Progress(t)

(* report.finish with what became of the run, once execute_moves ended.    *)
Outcome == IF stage = "failing" THEN "failed"
           ELSE IF ~live THEN "planned"
           ELSE IF phase = "returned" THEN "completed"
           ELSE raised

(* Mutant: the result is made before the batch has ended.                  *)
FinishEarly ==
    /\ \/ stage \in {"finishing", "failing"}
       \/ stage = "executing" /\ (cancel \/ phase \in E!Ended)
    /\ stage' = "ended"
    /\ UNCHANGED <<threads, live, known, actual, printing, now, lastEvent, reader, seen>>
    /\ \/ /\ status' = IF cancel THEN "cancelled" ELSE Outcome
          /\ Emit(Snapshot("result", status', disp, actual))
       \/ /\ Broken
          /\ status' = "failed"

Finish ==
    /\ \/ stage \in {"finishing", "failing"}
       \/ stage = "executing" /\ phase \in E!Ended
    /\ stage' = "ended"
    /\ UNCHANGED <<threads, live, known, actual, printing, now, lastEvent, reader, seen>>
    /\ \/ /\ status' = Outcome
          /\ Emit(Snapshot("result", status', disp, actual))
       \/ /\ Broken
          /\ status' = IF Outcome = "cancelled" THEN "cancelled" ELSE "failed"

Caller == Plan \/ PlanningFails \/ Coordinate \/ Finish

(* The world: a signal, time, and the reader.                              *)
Signal ==
    /\ stage = "executing"
    /\ E!Signal
    /\ UNCHANGED <<quiet, actual, printing, lastEvent, output>>

Tick ==
    /\ now < MaxTime
    /\ now' = now + 1
    /\ UNCHANGED <<threads, stage, live, known, status, actual, printing, lastEvent, output>>

Read ==
    /\ reader = "reading"
    /\ pipe # <<>>
    /\ seen' = Head(pipe)
    /\ pipe' = Tail(pipe)
    /\ UNCHANGED <<threads, quiet, actual, printing, lastEvent, reader>>

Turn(from, to) ==
    /\ reader = from
    /\ reader' = to
    /\ UNCHANGED <<threads, quiet, actual, printing, lastEvent, pipe, seen>>

Pause  == Turn("reading", "paused")
Wake   == Turn("paused", "reading") \/ Turn("paused", "gone")

Next == Caller \/ Signal \/ Tick \/ Read \/ Pause \/ Wake \/ \E t \in E!Thread : Thread(t)

Spec == Init /\ [][Next]_vars

(* Threads are scheduled; a reader that pauses reads again or leaves, and  *)
(* reads what there is.  A reader that does neither stops every thread.    *)
FairSpec == /\ Spec
            /\ WF_vars(Caller)
            /\ \A t \in E!Thread : WF_vars(Thread(t))
            /\ WF_vars(Wake) /\ SF_vars(Read)

-----------------------------------------------------------------------------
(* "`result` is the terminal snapshot after all workers have quiesced"     *)
(* (docs/reporting.md:12): what it shows stays true, nothing is active,    *)
(* success means all of the plan at 100%, and a cancellation hides no      *)
(* failure.                                                                *)
Shown == ({pipe[k] : k \in DOMAIN pipe} \cup {seen}) \ {Null}

TerminalResult ==
    \A s \in Shown : s.event = "result" =>
        /\ known =>
              \A x \in Dispositions :
                  s.dispositions[x] = Aggregate({i \in Moves : disp[i] = x}, Size)
        /\ s.dispositions["active"].total.files = 0
        /\ s.status = "completed" => s.dispositions["completed"] = s.planned /\ s.progress = 100
        /\ s.status = "cancelled" => s.dispositions["failed"].total.files = 0
        /\ s.status = "planned" => s.completed.total.files = 0

(* "Every event contains cumulative counters, so throttling loses no       *)
(* terminal facts" (docs/reporting.md:15): from one event the reader gets  *)
(* to the next the plan stays, completed files and bytes of every route    *)
(* only grow, pending ones only shrink, progress events are decided a      *)
(* second apart, and nothing follows a result.                             *)
OfRoute(a, r) == IF r \in DOMAIN a.routes THEN a.routes[r] ELSE [files |-> 0, bytes |-> 0]
AtMost(a, b)  == \A r \in Routes : /\ OfRoute(a, r).files <= OfRoute(b, r).files
                                   /\ OfRoute(a, r).bytes <= OfRoute(b, r).bytes

Follows(s, u) ==
    /\ s.event # "result" /\ u.event # "planned"
    /\ u.planned = s.planned
    /\ AtMost(s.completed, u.completed)
    /\ AtMost(u.dispositions["not_started"], s.dispositions["not_started"])
    /\ s.event = "progress" /\ u.event = "progress" => u.time - s.time >= Second

Cumulative == [][seen' # seen /\ seen # Null => Follows(seen, seen')]_vars

(* Also with a slow or closed reader, a signal or a failure the run ends.  *)
Ends == <>(stage = "ended")
=============================================================================
