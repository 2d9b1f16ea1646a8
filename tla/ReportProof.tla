---------------------------- MODULE ReportProof ----------------------------
(***************************************************************************)
(* Theorems about Report for every plan, any number of workers, any clock  *)
(* and any reader: the threads are those of Executor, and what is printed  *)
(* stays behind what is true.                                              *)
(***************************************************************************)
EXTENDS Report, FiniteFacts

Threads == INSTANCE ExecutorProof

Those(d, x) == IF known THEN {i \in Moves : d[i] = x} ELSE {}

Statuses == {"planning", "running", "planned", "completed"} \cup E!Error
Tally    == {Aggregate(S, b) : S \in SUBSET Moves, b \in [Moves -> Nat]}
Shots    == [event : {"planned", "progress", "result"},
             status : Statuses,
             time : Int,
             planned : Tally \cup {Null},
             completed : Tally,
             dispositions : [Dispositions -> Tally],
             progress : {Percent(a.total, b.total) : a \in Tally, b \in Tally} \cup {Null}]

TypeOK ==
    /\ stage \in {"planning", "executing", "finishing", "failing", "ended"}
    /\ known \in BOOLEAN /\ live \in BOOLEAN
    /\ status \in Statuses
    /\ actual \in [Moves -> Nat]
    /\ now \in Nat /\ lastEvent \in Int
    /\ pipe \in Seq(Shots) /\ seen \in Shots \cup {Null}

(* The threads run in one stage only; who prints is running a move.        *)
StageInv ==
    /\ stage = "planning" => ~known
    /\ stage = "executing" => known /\ live
    /\ stage = "finishing" => known /\ ~live
    /\ stage \in {"planning", "finishing", "failing"} => E!Init
    /\ stage = "ended" => E!Init \/ (known /\ live /\ phase \in E!Ended)
    /\ printing # Null =>
          stage = "executing" /\ printing \in E!Thread /\ at[printing] = "running"

(* A result is that of the state the run ended in.                         *)
Final(s) ==
    /\ stage = "ended"
    /\ s.dispositions = [x \in Dispositions |-> Aggregate(Those(disp, x), Size)]
    /\ s.completed = Aggregate(Those(disp, "completed"), actual)
    /\ s.planned = IF known THEN Aggregate(Moves, Size) ELSE Null
    /\ s.progress = IF known THEN Percent(s.dispositions["completed"].total,
                                          Aggregate(Moves, Size).total)
                    ELSE Null
    /\ s.status = "completed" => known /\ phase = "returned"
    /\ s.status = "cancelled" => raised = "cancelled"
    /\ s.status = "planned" => E!Init

ResultInv == \A s \in Shown : s.event = "result" => Final(s)

(* What was printed last is behind the state, so that whatever is printed  *)
(* next follows it.                                                        *)
Latest  == IF pipe # <<>> THEN pipe[Len(pipe)] ELSE seen
Printed == pipe # <<>> \/ seen # Null

Behind(s) ==
    /\ s.event = "result" => stage = "ended"
    /\ s.event # "result" =>
          /\ known
          /\ s.planned = Aggregate(Moves, Size)
          /\ AtMost(s.completed, Aggregate(Those(disp, "completed"), actual))
          /\ AtMost(Aggregate(Those(disp, "not_started"), Size), s.dispositions["not_started"])
    /\ s.event = "progress" =>
          /\ s.time <= lastEvent
          /\ printing # Null => s.time + Second <= lastEvent

PipeInv ==
    /\ stage = "planning" => pipe = <<>> /\ seen = Null
    /\ \A k \in 1..(Len(pipe) - 1) : Follows(pipe[k], pipe[k + 1])
    /\ pipe # <<>> /\ seen # Null => Follows(seen, pipe[1])
    /\ Printed => Behind(Latest)

RInv == TypeOK /\ StageInv /\ ResultInv /\ PipeInv

-----------------------------------------------------------------------------
(* The threads are those of Executor.                                      *)
LEMMA ThreadsAssumed == Threads!ExecutorAssumption
BY ReportAssumption DEF Moves, E!Moves, Threads!Moves, Threads!ExecutorAssumption

LEMMA SameSets ==
    /\ E!Moves = Moves /\ Threads!Moves = Moves
    /\ E!Queues = Threads!Queues /\ E!Thread = Threads!Thread
    /\ E!Ended = Threads!Ended /\ E!Error = Threads!Error
BY DEF Moves, E!Moves, Threads!Moves, E!Queues, Threads!Queues, E!Thread, Threads!Thread,
   E!Ended, Threads!Ended, E!Error, Threads!Error

LEMMA ThreadsInit == E!Init => Threads!Init
BY SameSets DEF E!Init, Threads!Init

LEMMA ThreadsLoop ==
  ASSUME NEW t, E!Loop(t)
  PROVE  Threads!Loop(t)
<1> USE SameSets
    DEF E!Work, Threads!Work, E!Sequential, Threads!Sequential, E!IsNext, Threads!IsNext,
        E!NoneLeft, Threads!NoneLeft, E!Leave, Threads!Leave, E!SetDisp, Threads!SetDisp
<1>1. ASSUME NEW i \in Moves, E!Take(t, i) PROVE Threads!Take(t, i)
  BY <1>1 DEF E!Take, Threads!Take
<1>2. E!StopBeforeNext(t) => Threads!StopBeforeNext(t)
  BY DEF E!StopBeforeNext, Threads!StopBeforeNext
<1>3. E!Activate(t) => Threads!Activate(t)
  BY DEF E!Activate, Threads!Activate
<1>4. E!Succeed(t) => Threads!Succeed(t)
  BY DEF E!Succeed, Threads!Succeed
<1>5. E!SucceedUnreported(t) => Threads!SucceedUnreported(t)
  BY DEF E!SucceedUnreported, Threads!SucceedUnreported
<1>6. E!Fail(t) => Threads!Fail(t)
  BY DEF E!Fail, Threads!Fail
<1>7. E!Interrupt(t) => Threads!Interrupt(t)
  BY DEF E!Interrupt, Threads!Interrupt
<1> QED
  BY <1>1, <1>2, <1>3, <1>4, <1>5, <1>6, <1>7 DEF E!Loop, Threads!Loop

LEMMA ThreadsNext == E!Next => Threads!Next
<1> USE SameSets
    DEF E!Work, Threads!Work, E!Sequential, Threads!Sequential, E!NoneLeft,
        Threads!NoneLeft, E!NextQueue, Threads!NextQueue
<1>1. ASSUME NEW d \in E!Queues, E!Worker(d)
      PROVE  Threads!Worker(d)
  <2>1. E!Begin(d) => Threads!Begin(d)
    BY DEF E!Begin, Threads!Begin
  <2>2. E!QueueDone(d) => Threads!QueueDone(d)
    BY DEF E!QueueDone, Threads!QueueDone
  <2> QED
    BY <1>1, <2>1, <2>2, ThreadsLoop DEF E!Worker, Threads!Worker
<1>2. E!Propagate => Threads!Propagate
  BY DEF E!Propagate, Threads!Propagate
<1>3. E!SequentialDone => Threads!SequentialDone
  BY DEF E!SequentialDone, Threads!SequentialDone
<1>4. ASSUME NEW d \in E!Queues, E!Submit(d) PROVE Threads!Submit(d)
  BY <1>4 DEF E!Submit, Threads!Submit
<1>5. ASSUME NEW d \in E!Queues, E!SpawnFails(d) PROVE Threads!SpawnFails(d)
  BY <1>5 DEF E!SpawnFails, Threads!SpawnFails
<1>6. ASSUME NEW d \in E!Queues, E!Collect(d) PROVE Threads!Collect(d)
  BY <1>6 DEF E!Collect, Threads!Collect
<1>7. E!Join => Threads!Join
  BY DEF E!Join, Threads!Join
<1>8. E!Unwound => Threads!Unwound
  BY DEF E!Unwound, Threads!Unwound
<1>9. E!Signal => Threads!Signal
  BY DEF E!Signal, Threads!Signal
<1>10. E!Caller => Threads!Caller
  BY <1>2, <1>3, <1>4, <1>5, <1>6, <1>7, <1>8, ThreadsLoop DEF E!Caller, Threads!Caller
<1> QED
  BY <1>1, <1>9, <1>10 DEF E!Next, Threads!Next

LEMMA ThreadSteps ==
  ASSUME [Next]_vars
  PROVE  [E!Next]_(E!vars)
<1>1. \A t \in E!Thread : t = Main \/ t \in E!Queues
  BY DEF E!Thread
<1>2. ASSUME NEW t \in E!Thread, E!Loop(t) PROVE E!Next
  BY <1>1, <1>2 DEF E!Next, E!Caller, E!Worker
<1>3. ASSUME NEW t \in E!Thread, Thread(t) PROVE [E!Next]_(E!vars)
  <2>1. CASE Schedule(t)
    <3>1. E!Loop(t) \/ (t # Main /\ (E!Begin(t) \/ E!QueueDone(t)))
      BY <2>1, SameSets DEF Schedule, E!Loop
    <3> QED
      BY <1>1, <1>2, <3>1 DEF E!Next, E!Worker
  <2>2. CASE Record(t)
    BY <1>2, <2>2 DEF Record, E!Loop
  <2>3. CASE Complete(t)
    BY <1>2, <2>3 DEF Complete, E!Loop, threads, E!vars
  <2>4. CASE Progress(t)
    BY <1>2, <2>4 DEF Progress, E!Loop
  <2> QED
    BY <1>3, <2>1, <2>2, <2>3, <2>4 DEF Thread
<1>4. CASE Coordinate
  BY <1>4 DEF Coordinate, E!Next, E!Caller
<1>5. CASE Signal
  BY <1>5 DEF Signal, E!Next
<1>6. CASE Plan \/ PlanningFails \/ Finish \/ Tick \/ Read \/ Pause \/ Wake
  BY <1>6 DEF Plan, PlanningFails, Finish, Tick, Read, Pause, Wake, Turn, threads, E!vars
<1>7. CASE UNCHANGED vars
  BY <1>7 DEF vars, threads, E!vars
<1> QED
  BY <1>3, <1>4, <1>5, <1>6, <1>7 DEF Next, Caller

(* What is printed, and to whom, does not disturb the batch: its threads   *)
(* run as Executor says, and what is proved of Executor holds of them.     *)
THEOREM ReportedIsExecutor == Spec => E!Spec
<1>1. Init => E!Init
  BY DEF Init
<1> QED
  BY <1>1, ThreadSteps, PTL DEF Spec, E!Spec

LEMMA ThreadsSpec == Spec => Threads!Spec
<1>1. E!Init => Threads!Init
  BY ThreadsInit
<1>2. [E!Next]_(E!vars) => [Threads!Next]_(Threads!vars)
  BY ThreadsNext DEF E!vars, Threads!vars
<1> QED
  BY <1>1, <1>2, ReportedIsExecutor, PTL DEF E!Spec, Threads!Spec

LEMMA ThreadsInvariance == Spec => []Threads!IInv
BY ThreadsSpec, Threads!Invariance, ThreadsAssumed, PTL

-----------------------------------------------------------------------------
(* The aggregates of a snapshot.                                           *)
LEMMA MovesFinite == \A S \in SUBSET Moves : IsFiniteSet(S) /\ Cardinality(S) \in Nat
<1>1. IsFiniteSet(Moves)
  BY ReportAssumption, FS_Interval DEF Moves, E!Moves
<1> QED
  BY <1>1, FS_Subset, FS_CardinalityType

LEMMA CountIs ==
  ASSUME NEW S \in SUBSET Moves, NEW b \in [Moves -> Nat]
  PROVE  /\ Count(S, b).files = Cardinality(S) /\ Count(S, b).files \in Nat
         /\ Count(S, b).bytes = SumFunctionOnSet(b, S) /\ Count(S, b).bytes \in Nat
<1>1. IsFiniteSet(S) /\ Cardinality(S) \in Nat /\ \A i \in S : b[i] \in Nat
  BY MovesFinite
<1>2. SumFunctionOnSet(b, S) \in Nat
  BY <1>1, SumNat
<1> QED
  BY <1>1, <1>2 DEF Count

LEMMA RouteOf ==
  ASSUME NEW S \in SUBSET Moves, NEW b \in [Moves -> Nat], NEW r
  PROVE  OfRoute(Aggregate(S, b), r) = Count({i \in S : Route(i) = r}, b)
<1> DEFINE on == {i \in S : Route(i) = r}
           a  == Aggregate(S, b)
<1>1. a.routes = [q \in {Route(i) : i \in S} |-> Count({i \in S : Route(i) = q}, b)]
  BY DEF Aggregate
<1>2. CASE r \in {Route(i) : i \in S}
  BY <1>1, <1>2 DEF OfRoute
<1>3. CASE r \notin {Route(i) : i \in S}
  <2>1. on = {}
    BY <1>3
  <2>2. Count(on, b) = [files |-> 0, bytes |-> 0]
    BY <2>1, FS_EmptySet, SumEmpty DEF Count
  <2>3. r \notin DOMAIN a.routes
    BY <1>1, <1>3
  <2> QED
    BY <2>2, <2>3 DEF OfRoute
<1> QED
  BY <1>2, <1>3

LEMMA CountGrows ==
  ASSUME NEW T \in SUBSET Moves, NEW S \in SUBSET T,
         NEW b \in [Moves -> Nat], NEW c \in [Moves -> Nat], \A i \in S : b[i] = c[i]
  PROVE  Count(S, b).files <= Count(T, c).files /\ Count(S, b).bytes <= Count(T, c).bytes
<1>1. IsFiniteSet(S) /\ IsFiniteSet(T) /\ S \in SUBSET Moves
  BY MovesFinite
<1>2. Cardinality(S) <= Cardinality(T)
  BY <1>1, FS_Subset
<1>3. SumFunctionOnSet(b, S) = SumFunctionOnSet(c, S)
  BY <1>1, SumSame
<1>4. SumFunctionOnSet(c, S) <= SumFunctionOnSet(c, T)
  <2>1. \A i \in T : c[i] \in Nat
    OBVIOUS
  <2> QED
    BY <1>1, <2>1, SumGrows
<1> QED
  BY <1>1, <1>2, <1>3, <1>4, CountIs

LEMMA Grows ==
  ASSUME NEW T \in SUBSET Moves, NEW S \in SUBSET T,
         NEW b \in [Moves -> Nat], NEW c \in [Moves -> Nat], \A i \in S : b[i] = c[i]
  PROVE  AtMost(Aggregate(S, b), Aggregate(T, c))
<1> SUFFICES ASSUME NEW r \in Routes
             PROVE  /\ OfRoute(Aggregate(S, b), r).files <= OfRoute(Aggregate(T, c), r).files
                    /\ OfRoute(Aggregate(S, b), r).bytes <= OfRoute(Aggregate(T, c), r).bytes
  BY DEF AtMost
<1> DEFINE U == {i \in S : Route(i) = r}
           V == {i \in T : Route(i) = r}
<1>1. V \in SUBSET Moves /\ U \in SUBSET V /\ \A i \in U : b[i] = c[i]
  OBVIOUS
<1>2. OfRoute(Aggregate(S, b), r) = Count(U, b) /\ OfRoute(Aggregate(T, c), r) = Count(V, c)
  BY RouteOf
<1> HIDE DEF U, V
<1> QED
  BY <1>1, <1>2, CountGrows

LEMMA Tallied ==
  ASSUME NEW a \in Tally, NEW r
  PROVE  OfRoute(a, r).files \in Nat /\ OfRoute(a, r).bytes \in Nat
<1>1. PICK S \in SUBSET Moves, b \in [Moves -> Nat] : a = Aggregate(S, b)
  BY DEF Tally
<1> DEFINE U == {i \in S : Route(i) = r}
<1>2. U \in SUBSET Moves /\ OfRoute(a, r) = Count(U, b)
  BY <1>1, RouteOf
<1> HIDE DEF U
<1> QED
  BY <1>2, CountIs

LEMMA AtMostThrough ==
  ASSUME NEW a \in Tally, NEW b \in Tally, NEW c \in Tally, AtMost(a, b), AtMost(b, c)
  PROVE  AtMost(a, c)
<1> SUFFICES ASSUME NEW r \in Routes
             PROVE  /\ OfRoute(a, r).files <= OfRoute(c, r).files
                    /\ OfRoute(a, r).bytes <= OfRoute(c, r).bytes
  BY DEF AtMost
<1>1. /\ OfRoute(a, r).files <= OfRoute(b, r).files /\ OfRoute(b, r).files <= OfRoute(c, r).files
      /\ OfRoute(a, r).bytes <= OfRoute(b, r).bytes /\ OfRoute(b, r).bytes <= OfRoute(c, r).bytes
  BY DEF AtMost
<1>2. /\ OfRoute(a, r).files \in Nat /\ OfRoute(b, r).files \in Nat
      /\ OfRoute(c, r).files \in Nat
      /\ OfRoute(a, r).bytes \in Nat /\ OfRoute(b, r).bytes \in Nat
      /\ OfRoute(c, r).bytes \in Nat
  BY Tallied
<1> QED
  BY <1>1, <1>2

LEMMA TallyOf ==
  ASSUME NEW S \in SUBSET Moves, NEW b \in [Moves -> Nat]
  PROVE  Aggregate(S, b) \in Tally
BY DEF Tally

(* Nothing of an empty set, all of a whole plan.                           *)
LEMMA NoFiles ==
  ASSUME NEW b
  PROVE  Aggregate({}, b).total.files = 0
BY FS_EmptySet DEF Aggregate, Count

LEMMA AllDone ==
  Percent(Aggregate(Moves, Size).total, Aggregate(Moves, Size).total) = 100
<1> DEFINE t == Aggregate(Moves, Size).total
<1>1. t.files \in Nat /\ t.bytes \in Nat
  <2>1. t = Count(Moves, Size)
    BY DEF Aggregate
  <2> QED
    BY <2>1, CountIs, ReportAssumption
<1> HIDE DEF t
<1>2. \A n \in Nat : n > 0 => (100 * n) \div n = 100
  OBVIOUS
<1>3. Percent(t, t) = 100
  BY <1>1, <1>2 DEF Percent
<1> QED
  BY <1>3 DEF t

(* What a snapshot holds.                                                  *)
ThoseAfter(d, x) == IF known' THEN {i \in Moves : d[i] = x} ELSE {}

LEMMA SnapshotIs ==
  ASSUME NEW kind, NEW st, NEW d, NEW b, NEW s, s = Snapshot(kind, st, d, b)
  PROVE  /\ s.event = kind /\ s.status = st /\ s.time = lastEvent'
         /\ s.planned = IF known' THEN Aggregate(Moves, Size) ELSE Null
         /\ s.completed = Aggregate(ThoseAfter(d, "completed"), b)
         /\ s.dispositions = [x \in Dispositions |-> Aggregate(ThoseAfter(d, x), Size)]
         /\ s.progress = IF known' THEN Percent(Aggregate(ThoseAfter(d, "completed"), Size).total,
                                                Aggregate(Moves, Size).total)
                         ELSE Null
BY DEF Snapshot, ThoseAfter

LEMMA SnapshotType ==
  ASSUME NEW kind \in {"planned", "progress", "result"}, NEW st \in Statuses, NEW d,
         NEW b \in [Moves -> Nat], lastEvent' \in Int
  PROVE  Snapshot(kind, st, d, b) \in Shots
<1> DEFINE H(x) == ThoseAfter(d, x)
<1>1. \A x : H(x) \in SUBSET Moves
  BY DEF ThoseAfter
<1>2. Aggregate(Moves, Size) \in Tally /\ \A x : Aggregate(H(x), Size) \in Tally
  BY <1>1, ReportAssumption, TallyOf
<1>3. Aggregate(H("completed"), b) \in Tally
  BY <1>1, TallyOf
<1> DEFINE p == IF known' THEN Aggregate(Moves, Size) ELSE Null
           q == [x \in Dispositions |-> Aggregate(H(x), Size)]
           r == IF known' THEN Percent(Aggregate(H("completed"), Size).total,
                                       Aggregate(Moves, Size).total)
                ELSE Null
           c == Aggregate(H("completed"), b)
<1>4. Snapshot(kind, st, d, b) = [event |-> kind, status |-> st, time |-> lastEvent',
                                  planned |-> p, completed |-> c, dispositions |-> q,
                                  progress |-> r]
  BY DEF Snapshot, ThoseAfter
<1>5. /\ p \in Tally \cup {Null} /\ q \in [Dispositions -> Tally] /\ c \in Tally
      /\ r \in {Percent(x.total, y.total) : x \in Tally, y \in Tally} \cup {Null}
  BY <1>2, <1>3
<1> HIDE DEF p, q, r, c
<1> QED
  BY <1>4, <1>5 DEF Shots

-----------------------------------------------------------------------------
(* The initial state, and the types.                                       *)
LEMMA InitInv == Init => RInv
<1> SUFFICES ASSUME Init PROVE RInv
  OBVIOUS
<1>1. actual \in [Moves -> Nat] /\ lastEvent \in Int
  BY ReportAssumption DEF Init
<1>2. TypeOK
  <2>1. pipe \in Seq(Shots)
    BY DEF Init
  <2>2. status \in Statuses
    BY DEF Init, Statuses
  <2> QED
    BY <1>1, <2>1, <2>2 DEF Init, TypeOK
<1>3. StageInv
  BY DEF Init, StageInv
<1>4. ResultInv
  BY DEF Init, ResultInv, Shown
<1>5. PipeInv
  BY DEF Init, PipeInv, Printed
<1> QED
  BY <1>2, <1>3, <1>4, <1>5 DEF RInv

LEMMA EmitType ==
  ASSUME pipe \in Seq(Shots), NEW s \in Shots, Emit(s)
  PROVE  pipe' \in Seq(Shots)
BY DEF Emit

LEMMA RunningMove ==
  ASSUME Threads!IInv, NEW t \in E!Thread, at[t] = "running"
  PROVE  pos[t] \in Moves /\ disp[pos[t]] = "active"
<1>1. t \in Threads!Thread /\ Threads!ThreadOK(t)
  BY SameSets DEF Threads!IInv, Threads!ThreadInv
<1>2. pos[t] \in Threads!Work(t) /\ disp[pos[t]] = "active"
  BY <1>1 DEF Threads!ThreadOK, Threads!AtCurrent
<1> QED
  BY <1>1, <1>2, Threads!Works, ThreadsAssumed, SameSets

LEMMA OutcomeType ==
  ASSUME Threads!IInv
  PROVE  Outcome \in Statuses
BY SameSets DEF Threads!IInv, Threads!TypeOK, Threads!Error, E!Error, Outcome, Statuses

LEMMA TypeStep ==
  ASSUME TypeOK, StageInv, Threads!IInv, [Next]_vars
  PROVE  TypeOK'
<1> USE DEF TypeOK, quiet, output
<1>0. pipe # <<>> => Head(pipe) \in Shots /\ Tail(pipe) \in Seq(Shots)
  OBVIOUS
<1>1. CASE Plan
  <2>1. status' \in Statuses /\ actual \in [Moves -> Nat] /\ lastEvent' \in Int
    BY <1>1 DEF Plan, Statuses
  <2>2. Snapshot("planned", status', disp, actual) \in Shots
    BY <2>1, SnapshotType
  <2>3. pipe' \in Seq(Shots)
    BY <1>1, <2>2, EmitType DEF Plan, Broken
  <2> QED
    BY <1>1, <2>1, <2>3 DEF Plan
<1>2. CASE PlanningFails
  BY <1>2 DEF PlanningFails
<1>3. CASE Coordinate
  BY <1>3 DEF Coordinate
<1>4. CASE Finish
  <2>1. status' \in Statuses /\ actual \in [Moves -> Nat] /\ lastEvent' \in Int
    BY <1>4, OutcomeType DEF Finish, Statuses, E!Error
  <2>2. Snapshot("result", status', disp, actual) \in Shots
    BY <2>1, SnapshotType
  <2>3. pipe' \in Seq(Shots)
    BY <1>4, <2>2, EmitType DEF Finish, Broken
  <2> QED
    BY <1>4, <2>1, <2>3 DEF Finish
<1>5. CASE Signal
  BY <1>5 DEF Signal
<1>6. CASE Tick
  BY <1>6 DEF Tick
<1>7. CASE Read
  BY <1>0, <1>7 DEF Read
<1>8. CASE Pause \/ Wake
  BY <1>8 DEF Pause, Wake, Turn
<1>9. ASSUME NEW t \in E!Thread, Schedule(t) \/ Record(t)
      PROVE  TypeOK'
  BY <1>9 DEF Schedule, Record
<1>10. ASSUME NEW t \in E!Thread, Complete(t)
       PROVE  TypeOK'
  <2>1. pos[t] \in Moves
    BY <1>10, RunningMove DEF Complete
  <2>2. PICK g \in 0..Growth : actual' = [actual EXCEPT ![pos[t]] = Size[pos[t]] + g]
    BY <1>10 DEF Complete
  <2>3. Size[pos[t]] + g \in Nat
    BY <2>1, ReportAssumption
  <2>4. actual' \in [Moves -> Nat]
    BY <2>2, <2>3
  <2> QED
    BY <1>10, <2>4 DEF Complete
<1>11. ASSUME NEW t \in E!Thread, Progress(t)
       PROVE  TypeOK'
  <2> DEFINE d == [disp EXCEPT ![pos[t]] = "completed"]
  <2>1. Snapshot("progress", status, d, actual) \in Shots
    BY <1>11, SnapshotType DEF Progress
  <2>2. pipe' \in Seq(Shots)
    BY <1>11, <2>1, EmitType DEF Progress, Broken
  <2> QED
    BY <1>11, <2>2 DEF Progress
<1>12. CASE UNCHANGED vars
  BY <1>12 DEF vars, threads
<1> QED
  BY <1>1, <1>2, <1>3, <1>4, <1>5, <1>6, <1>7, <1>8, <1>9, <1>10, <1>11, <1>12
     DEF Next, Caller, Thread

-----------------------------------------------------------------------------
(* The stages.                                                             *)
LEMMA PrinterStays ==
  ASSUME Threads!IInv, NEW p \in E!Thread, at[p] = "running",
         Coordinate \/ Signal \/ \E t \in E!Thread : Schedule(t)
  PROVE  at'[p] = "running"
<1>1. at \in [E!Thread -> {"absent", "queued", "orphaned", "loop", "called",
                           "running", "finished"}]
  BY SameSets DEF Threads!IInv, Threads!TypeOK
<1>2. ASSUME NEW t \in E!Thread, Schedule(t)
      PROVE  at'[p] = "running"
  BY <1>1, <1>2 DEF Schedule, E!Take, E!StopBeforeNext, E!Leave, E!Begin, E!QueueDone
<1>3. CASE Coordinate
  <2>1. CASE E!Propagate \/ E!SequentialDone \/ E!Join \/ E!Unwound
    BY <1>1, <2>1 DEF E!Propagate, E!SequentialDone, E!Join, E!Unwound
  <2>2. ASSUME NEW d \in E!Queues, E!Submit(d) \/ E!SpawnFails(d) \/ E!Collect(d)
        PROVE  at'[p] = "running"
    <3>1. E!Submit(d) => at[d] = "absent" /\ at' = [at EXCEPT ![d] = "queued"]
      BY DEF E!Submit, E!NextQueue
    <3>2. E!SpawnFails(d) => at[d] = "absent" /\ at' = [at EXCEPT ![d] = "orphaned"]
      BY DEF E!SpawnFails, E!NextQueue
    <3>3. E!Collect(d) => at' = at
      BY DEF E!Collect
    <3> QED
      BY <1>1, <2>2, <3>1, <3>2, <3>3
  <2> QED
    BY <1>3, <2>1, <2>2 DEF Coordinate
<1>4. CASE Signal
  BY <1>4 DEF Signal, E!Signal
<1> QED
  BY <1>2, <1>3, <1>4

LEMMA InitStays == E!Init /\ UNCHANGED threads => E!Init'
BY DEF E!Init, threads

(* Nobody prints once the batch has ended.                                 *)
LEMMA QuietEnd ==
  ASSUME StageInv, Threads!IInv, phase \in E!Ended
  PROVE  printing = Null
<1> SUFFICES ASSUME printing # Null PROVE FALSE
  OBVIOUS
<1>1. printing \in Threads!Thread /\ at[printing] = "running"
  BY SameSets DEF StageInv
<1> QED
  BY <1>1, SameSets DEF Threads!IInv, Threads!EndInv

LEMMA StageStep ==
  ASSUME TypeOK, StageInv, Threads!IInv, [Next]_vars
  PROVE  StageInv'
<1> USE DEF StageInv
<1>1. CASE Plan
  <2>1. printing' = Null /\ E!Init' /\ known'
    BY <1>1, InitStays DEF Plan
  <2> QED
    BY <1>1, <2>1 DEF Plan, TypeOK
<1>2. CASE PlanningFails
  <2>1. printing' = Null /\ E!Init'
    BY <1>2, InitStays DEF PlanningFails
  <2> QED
    BY <1>2, <2>1 DEF PlanningFails
<1>3. CASE Finish
  <2>1. printing' = Null
    BY <1>3, QuietEnd DEF Finish
  <2>2. E!Init' \/ (known' /\ live' /\ phase' \in E!Ended)
    BY <1>3, InitStays DEF Finish, threads
  <2> QED
    BY <1>3, <2>1, <2>2 DEF Finish
<1>4. CASE Coordinate \/ Signal \/ \E t \in E!Thread : Schedule(t)
  <2>1. stage = "executing" /\ UNCHANGED <<stage, live, known, printing>>
    BY <1>4 DEF Coordinate, Signal, Schedule, quiet
  <2>2. printing # Null => at'[printing] = "running"
    BY <1>4, PrinterStays
  <2> QED
    BY <2>1, <2>2
<1>5. ASSUME NEW t \in E!Thread, Record(t) \/ Complete(t) \/ Progress(t)
      PROVE  StageInv'
  <2>1. stage = "executing" /\ UNCHANGED <<stage, live, known>>
    BY <1>5, ReportAssumption DEF Record, Complete, Progress, quiet
  <2>2. CASE printing' = Null
    BY <2>1, <2>2
  <2>3. CASE printing' # Null
    <3>1. Complete(t) /\ printing' = t /\ UNCHANGED threads
      BY <1>5, <2>3 DEF Record, Complete, Progress
    <3>2. printing' \in E!Thread /\ at'[printing'] = "running"
      BY <3>1 DEF Complete, threads
    <3> QED
      BY <2>1, <3>2
  <2> QED
    BY <2>2, <2>3
<1>6. CASE Tick \/ Read \/ Pause \/ Wake \/ UNCHANGED vars
  <2>1. UNCHANGED <<threads, stage, live, known, printing>>
    BY <1>6 DEF Tick, Read, Pause, Wake, Turn, vars, quiet
  <2>2. E!Init => E!Init'
    BY <2>1, InitStays
  <2>3. at' = at /\ phase' = phase
    BY <2>1 DEF threads
  <2> QED
    BY <2>1, <2>2, <2>3
<1> QED
  BY <1>1, <1>2, <1>3, <1>4, <1>5, <1>6 DEF Next, Caller, Thread

-----------------------------------------------------------------------------
(* What a step does to the moves: a completed one stays so, and none       *)
(* becomes not started.                                                    *)
LEMMA MoveSteps ==
  ASSUME Threads!IInv, [Next]_vars, NEW i \in Moves
  PROVE  /\ disp[i] = "completed" => disp'[i] = "completed"
         /\ disp'[i] = "not_started" => disp[i] = "not_started"
<1>1. disp \in [Moves -> {"not_started", "active", "completed", "failed", "interrupted"}]
  BY SameSets DEF Threads!IInv, Threads!TypeOK
<1>2. CASE disp' = disp
  BY <1>2
<1>3. ASSUME NEW t \in Threads!Thread, Threads!Loop(t)
      PROVE  /\ disp[i] = "completed" => disp'[i] = "completed"
             /\ disp'[i] = "not_started" => disp[i] = "not_started"
  <2>1. /\ at[t] \in {"called", "running"} => pos[t] \in Moves
        /\ at[t] = "called" => disp[pos[t]] = "not_started"
        /\ at[t] = "running" => disp[pos[t]] = "active"
    <3>1. Threads!ThreadOK(t)
      BY DEF Threads!IInv, Threads!ThreadInv
    <3>2. Threads!Work(t) \subseteq Moves
      BY Threads!Works, ThreadsAssumed, SameSets
    <3> QED
      BY <3>1, <3>2 DEF Threads!ThreadOK, Threads!AtCurrent
  <2>2. CASE (\E k \in Threads!Moves : Threads!Take(t, k)) \/ Threads!StopBeforeNext(t)
    BY <1>2, <2>2 DEF Threads!Take, Threads!StopBeforeNext
  <2>3. CASE Threads!Activate(t)
    BY <1>1, <2>1, <2>3 DEF Threads!Activate, Threads!SetDisp
  <2>4. CASE \/ Threads!Succeed(t) \/ Threads!SucceedUnreported(t)
             \/ Threads!Fail(t) \/ Threads!Interrupt(t)
    BY <1>1, <2>1, <2>4
       DEF Threads!Succeed, Threads!SucceedUnreported, Threads!Fail, Threads!Interrupt,
           Threads!SetDisp
  <2> QED
    BY <1>3, <2>2, <2>3, <2>4 DEF Threads!Loop
<1>4. CASE Threads!Pool
  <2>1. disp' = disp
    BY <1>4
       DEF Threads!Pool, Threads!Propagate, Threads!SequentialDone, Threads!Join,
           Threads!Unwound, Threads!Signal, Threads!Submit, Threads!SpawnFails,
           Threads!Collect, Threads!Begin, Threads!QueueDone
  <2> QED
    BY <1>2, <2>1
<1>5. Threads!Next \/ disp' = disp
  BY ThreadSteps, ThreadsNext DEF E!vars
<1> QED
  BY <1>2, <1>3, <1>4, <1>5, Threads!Steps, ThreadsAssumed

(* The bytes of a completed move stay.                                     *)
LEMMA BytesStay ==
  ASSUME Threads!IInv, [Next]_vars, TypeOK, StageInv, NEW i \in Moves, disp[i] = "completed"
  PROVE  actual'[i] = actual[i]
<1>1. ASSUME NEW t \in E!Thread, Complete(t)
      PROVE  actual'[i] = actual[i]
  <2>1. pos[t] \in Moves /\ disp[pos[t]] = "active"
    BY <1>1, RunningMove DEF Complete
  <2>2. pos[t] # i
    BY <2>1
  <2> QED
    BY <1>1, <2>2 DEF Complete, TypeOK
<1>2. ASSUME NEW t \in E!Thread, Thread(t), ~Complete(t)
      PROVE  actual' = actual
  BY <1>2 DEF Thread, Schedule, Record, Progress
<1>3. CASE Caller \/ Signal \/ Tick \/ Read \/ Pause \/ Wake \/ UNCHANGED vars
  BY <1>3
     DEF Caller, Plan, PlanningFails, Coordinate, Finish, Signal, Tick, Read, Pause, Wake,
         Turn, vars
<1> QED
  BY <1>1, <1>2, <1>3 DEF Next

(* Nothing the snapshots show changes once the run has ended.              *)
LEMMA EndedStays ==
  ASSUME StageInv, stage = "ended", [Next]_vars
  PROVE  UNCHANGED <<threads, stage, live, known, actual, printing, lastEvent>>
<1>1. printing = Null
  BY DEF StageInv
<1>2. ASSUME NEW t \in E!Thread, Thread(t)
      PROVE  FALSE
  BY <1>1, <1>2, ReportAssumption DEF Thread, Schedule, Record, Complete, Progress
<1>3. ~Caller /\ ~Signal
  BY DEF Caller, Plan, PlanningFails, Coordinate, Finish, Signal
<1>4. CASE Tick \/ Read \/ Pause \/ Wake \/ UNCHANGED vars
  BY <1>4 DEF Tick, Read, Pause, Wake, Turn, vars, quiet
<1> QED
  BY <1>2, <1>3, <1>4 DEF Next

-----------------------------------------------------------------------------
(* The result.                                                             *)
LEMMA EmitShown ==
  ASSUME pipe \in Seq(Shots), NEW x, Emit(x) \/ UNCHANGED pipe, UNCHANGED seen,
         NEW s \in Shown'
  PROVE  s \in Shown \/ (Emit(x) /\ s = x)
<1>1. CASE s = seen
  BY <1>1 DEF Shown
<1>2. CASE s # seen
  <2>1. s # Null
    BY DEF Shown
  <2>2. PICK k \in DOMAIN pipe' : s = pipe'[k]
    BY <1>2 DEF Shown
  <2>3. CASE pipe' = pipe
    BY <2>1, <2>2, <2>3 DEF Shown
  <2>4. CASE Emit(x) /\ pipe' = Append(pipe, x)
    <3>1. k \in 1..(Len(pipe) + 1)
      BY <2>2, <2>4
    <3>2. CASE k = Len(pipe) + 1
      BY <2>2, <2>4, <3>2
    <3>3. CASE k \in DOMAIN pipe
      <4>1. pipe'[k] = pipe[k]
        BY <2>4, <3>3
      <4> QED
        BY <2>1, <2>2, <3>3, <4>1 DEF Shown
    <3> QED
      BY <3>1, <3>2, <3>3
  <2> QED
    BY <2>3, <2>4 DEF Emit
<1> QED
  BY <1>1, <1>2

LEMMA ReadShown ==
  ASSUME pipe \in Seq(Shots), Read, NEW s \in Shown'
  PROVE  s \in Shown
<1>1. s # Null
  BY DEF Shown
<1>2. pipe # <<>> /\ seen' = pipe[1] /\ pipe' = Tail(pipe)
  BY DEF Read
<1>3. CASE s = seen'
  BY <1>1, <1>2, <1>3 DEF Shown
<1>4. CASE s # seen'
  <2>1. PICK k \in DOMAIN pipe' : s = pipe'[k]
    BY <1>4 DEF Shown
  <2>2. k + 1 \in DOMAIN pipe /\ s = pipe[k + 1]
    BY <1>2, <2>1
  <2> QED
    BY <1>1, <2>2 DEF Shown
<1> QED
  BY <1>3, <1>4

(* A new result comes from Finish.                                         *)
LEMMA NewResult ==
  ASSUME TypeOK, [Next]_vars, NEW s \in Shown', s.event = "result", s \notin Shown
  PROVE  /\ Finish /\ status' = Outcome
         /\ s = Snapshot("result", status', disp, actual)
<1> USE DEF TypeOK
<1>1. CASE Plan
  <2> DEFINE x == Snapshot("planned", status', disp, actual)
  <2>1. x.event = "planned"
    BY DEF Snapshot
  <2>2. (Emit(x) \/ UNCHANGED pipe) /\ UNCHANGED seen
    BY <1>1 DEF Plan, Broken
  <2> HIDE DEF x
  <2>3. s = x
    BY <2>2, EmitShown
  <2> QED
    BY <2>1, <2>3
<1>2. CASE Finish
  <2> DEFINE x == Snapshot("result", status', disp, actual)
  <2>1. UNCHANGED seen
    BY <1>2 DEF Finish
  <2>2. (Emit(x) /\ status' = Outcome) \/ UNCHANGED pipe
    BY <1>2 DEF Finish, Broken
  <2> HIDE DEF x
  <2>3. CASE UNCHANGED pipe
    BY <2>1, <2>3 DEF Shown
  <2>4. CASE Emit(x) /\ status' = Outcome
    <3>1. s = x
      BY <2>1, <2>4, EmitShown
    <3> QED
      BY <1>2, <2>4, <3>1 DEF x
  <2> QED
    BY <2>2, <2>3, <2>4
<1>3. ASSUME NEW t \in E!Thread, Progress(t)
      PROVE  FALSE
  <2> DEFINE x == Snapshot("progress", status, [disp EXCEPT ![pos[t]] = "completed"], actual)
  <2>1. x.event = "progress"
    BY DEF Snapshot
  <2>2. (Emit(x) \/ UNCHANGED pipe) /\ UNCHANGED seen
    BY <1>3 DEF Progress, Broken
  <2> HIDE DEF x
  <2>3. s = x
    BY <2>2, EmitShown
  <2> QED
    BY <2>1, <2>3
<1>4. CASE Read
  BY <1>4, ReadShown
<1>5. ~UNCHANGED <<pipe, seen>>
  BY DEF Shown
<1>6. CASE PlanningFails \/ Coordinate \/ Signal \/ Tick \/ Pause \/ Wake \/ UNCHANGED vars
  BY <1>5, <1>6 DEF PlanningFails, Coordinate, Signal, Tick, Pause, Wake, Turn, vars, output
<1>7. ASSUME NEW t \in E!Thread, Schedule(t) \/ Record(t) \/ Complete(t)
      PROVE  FALSE
  BY <1>5, <1>7 DEF Schedule, Record, Complete, output
<1> QED
  BY <1>1, <1>2, <1>3, <1>4, <1>6, <1>7 DEF Next, Caller, Thread

LEMMA FinalStays ==
  ASSUME StageInv, [Next]_vars, NEW s, Final(s)
  PROVE  Final(s)'
<1>1. UNCHANGED <<threads, stage, live, known, actual>>
  BY EndedStays DEF Final
<1>2. E!Init => E!Init'
  BY <1>1, InitStays
<1>3. \A x : Those(disp, x)' = Those(disp, x)
  BY <1>1 DEF Those, threads
<1> QED
  BY <1>1, <1>2, <1>3 DEF Final, threads

LEMMA FinalAtFinish ==
  ASSUME StageInv, Threads!IInv, Finish, status' = Outcome,
         NEW s, s = Snapshot("result", status', disp, actual)
  PROVE  Final(s)'
<1>1. stage' = "ended" /\ UNCHANGED <<threads, known, live, actual>>
  BY DEF Finish
<1>2. \A x : ThoseAfter(disp, x) = Those(disp, x)'
  BY <1>1 DEF Those, ThoseAfter, threads
<1>3. /\ s.status = status' /\ s.time = lastEvent'
      /\ s.planned = IF known' THEN Aggregate(Moves, Size) ELSE Null
      /\ s.completed = Aggregate(ThoseAfter(disp, "completed"), actual)
      /\ s.dispositions = [x \in Dispositions |-> Aggregate(ThoseAfter(disp, x), Size)]
      /\ s.progress = IF known' THEN Percent(Aggregate(ThoseAfter(disp, "completed"), Size).total,
                                             Aggregate(Moves, Size).total)
                      ELSE Null
  BY SnapshotIs
<1>4. s.dispositions["completed"] = Aggregate(ThoseAfter(disp, "completed"), Size)
  BY <1>3 DEF Dispositions
<1>5. /\ s.status = "completed" => known /\ phase = "returned"
      /\ s.status = "cancelled" => raised = "cancelled"
      /\ s.status = "planned" => E!Init
  <2>1. raised \in {"none", "failed", "cancelled"}
    BY DEF Threads!IInv, Threads!TypeOK, Threads!Error
  <2> QED
    BY <1>3, <2>1 DEF Finish, Outcome, StageInv
<1>6. E!Init => E!Init'
  BY <1>1, InitStays
<1>7. /\ phase' = phase /\ raised' = raised
  BY <1>1 DEF threads
<1> QED
  BY <1>1, <1>2, <1>3, <1>4, <1>5, <1>6, <1>7 DEF Final

LEMMA ResultStep ==
  ASSUME TypeOK, StageInv, ResultInv, Threads!IInv, [Next]_vars
  PROVE  ResultInv'
<1> SUFFICES ASSUME NEW s \in Shown', s.event = "result"
             PROVE  Final(s)'
  BY DEF ResultInv
<1>1. CASE s \in Shown
  BY <1>1, FinalStays DEF ResultInv
<1>2. CASE s \notin Shown
  BY <1>2, NewResult, FinalAtFinish
<1> QED
  BY <1>1, <1>2

-----------------------------------------------------------------------------
(* What has been printed stays behind.                                     *)
LEMMA KnownStays ==
  ASSUME TypeOK, [Next]_vars
  PROVE  /\ known => known'
         /\ stage' = "planning" => stage = "planning"
<1>1. ASSUME NEW t \in E!Thread, Thread(t)
      PROVE  UNCHANGED <<known, stage>>
  BY <1>1 DEF Thread, Schedule, Record, Complete, Progress, quiet
<1>2. CASE Caller
  BY <1>2 DEF Caller, Plan, PlanningFails, Coordinate, Finish, quiet
<1>3. CASE Signal \/ Tick \/ Read \/ Pause \/ Wake \/ UNCHANGED vars
  BY <1>3 DEF Signal, Tick, Read, Pause, Wake, Turn, vars, quiet
<1> QED
  BY <1>1, <1>2, <1>3 DEF Next

LEMMA ClockStep ==
  ASSUME TypeOK, [Next]_vars
  PROVE  \/ lastEvent' = lastEvent /\ (printing' # Null => printing' = printing)
         \/ lastEvent' = now /\ now - lastEvent >= Second
<1> USE DEF TypeOK
<1>1. ASSUME NEW t \in E!Thread, Complete(t)
      PROVE  \/ lastEvent' = lastEvent /\ printing' = printing
             \/ lastEvent' = now /\ now - lastEvent >= Second
  BY <1>1, ReportAssumption DEF Complete
<1>2. ASSUME NEW t \in E!Thread, Schedule(t) \/ Record(t) \/ Progress(t)
      PROVE  lastEvent' = lastEvent /\ (printing' # Null => printing' = printing)
  BY <1>2 DEF Schedule, Record, Progress
<1>3. CASE Caller \/ Signal \/ Tick \/ Read \/ Pause \/ Wake \/ UNCHANGED vars
  BY <1>3
     DEF Caller, Plan, PlanningFails, Coordinate, Finish, Signal, Tick, Read, Pause, Wake,
         Turn, vars
<1> QED
  BY <1>1, <1>2, <1>3 DEF Next, Thread

LEMMA BehindStays ==
  ASSUME TypeOK, TypeOK', StageInv, Threads!IInv, [Next]_vars, NEW s \in Shots, Behind(s)
  PROVE  Behind(s)'
<1> DEFINE Done    == Those(disp, "completed")
           Waiting == Those(disp, "not_started")
<1>1. s.event = "result" => stage' = "ended"
  BY EndedStays DEF Behind
<1>2. ASSUME s.event # "result"
      PROVE  /\ known'
             /\ s.planned = Aggregate(Moves, Size)
             /\ AtMost(s.completed, Aggregate(Done, actual)')
             /\ AtMost(Aggregate(Waiting, Size)', s.dispositions["not_started"])
  <2>1. /\ known /\ known'
        /\ s.planned = Aggregate(Moves, Size)
        /\ AtMost(s.completed, Aggregate(Done, actual))
        /\ AtMost(Aggregate(Waiting, Size), s.dispositions["not_started"])
    BY <1>2, KnownStays DEF Behind
  <2>2. /\ Done = {i \in Moves : disp[i] = "completed"}
        /\ Done' = {i \in Moves : disp'[i] = "completed"}
        /\ Waiting = {i \in Moves : disp[i] = "not_started"}
        /\ Waiting' = {i \in Moves : disp'[i] = "not_started"}
    BY <2>1 DEF Those
  <2> DEFINE D1 == Done
             D2 == Done'
             W1 == Waiting
             W2 == Waiting'
             b  == actual
             c  == actual'
  <2>3. D2 \in SUBSET Moves /\ D1 \in SUBSET D2 /\ \A i \in D1 : b[i] = c[i]
    BY <2>2, MoveSteps, BytesStay
  <2>4. W1 \in SUBSET Moves /\ W2 \in SUBSET W1
    BY <2>2, MoveSteps
  <2>5. b \in [Moves -> Nat] /\ c \in [Moves -> Nat] /\ Size \in [Moves -> Nat]
    BY ReportAssumption DEF TypeOK
  <2>6. s.completed \in Tally /\ s.dispositions["not_started"] \in Tally
    BY DEF Shots, Dispositions
  <2>7. /\ AtMost(s.completed, Aggregate(D1, b))
        /\ AtMost(Aggregate(W1, Size), s.dispositions["not_started"])
    BY <2>1
  <2>8. /\ Aggregate(Done, actual)' = Aggregate(D2, c)
        /\ Aggregate(Waiting, Size)' = Aggregate(W2, Size)
    OBVIOUS
  <2> HIDE DEF D1, D2, W1, W2, b, c
  <2>9. /\ AtMost(Aggregate(D1, b), Aggregate(D2, c))
        /\ AtMost(Aggregate(W2, Size), Aggregate(W1, Size))
    BY <2>3, <2>4, <2>5, Grows
  <2>10. /\ Aggregate(D1, b) \in Tally /\ Aggregate(D2, c) \in Tally
         /\ Aggregate(W1, Size) \in Tally /\ Aggregate(W2, Size) \in Tally
    BY <2>3, <2>4, <2>5, TallyOf
  <2>11. /\ AtMost(s.completed, Aggregate(D2, c))
         /\ AtMost(Aggregate(W2, Size), s.dispositions["not_started"])
    BY <2>6, <2>7, <2>9, <2>10, AtMostThrough
  <2> QED
    BY <2>1, <2>8, <2>11
<1>3. ASSUME s.event = "progress"
      PROVE  s.time <= lastEvent' /\ (printing' # Null => s.time + Second <= lastEvent')
  <2>1. /\ s.time <= lastEvent
        /\ printing # Null => s.time + Second <= lastEvent
    BY <1>3 DEF Behind
  <2>2. s.time \in Int /\ now \in Int /\ lastEvent \in Int /\ Second \in Nat
    BY ReportAssumption DEF Shots, TypeOK
  <2> QED
    BY <2>1, <2>2, ClockStep
<1> QED
  BY <1>1, <1>2, <1>3 DEF Behind

(* A snapshot of the state a step leads to is behind it, and follows the   *)
(* one printed last.                                                       *)
Current(x) ==
    /\ x.time = lastEvent'
    /\ known' => /\ x.planned = Aggregate(Moves, Size)
                 /\ x.completed = Aggregate(ThoseAfter(disp', "completed"), actual')
                 /\ x.dispositions["not_started"]
                       = Aggregate(ThoseAfter(disp', "not_started"), Size)

LEMMA SnapshotCurrent ==
  ASSUME NEW kind, NEW st, NEW d, NEW b, d = disp', b = actual',
         NEW x, x = Snapshot(kind, st, d, b)
  PROVE  Current(x)
<1>1. /\ x.time = lastEvent'
      /\ x.planned = IF known' THEN Aggregate(Moves, Size) ELSE Null
      /\ x.completed = Aggregate(ThoseAfter(d, "completed"), b)
      /\ x.dispositions = [y \in Dispositions |-> Aggregate(ThoseAfter(d, y), Size)]
  BY SnapshotIs
<1>2. x.dispositions["not_started"] = Aggregate(ThoseAfter(d, "not_started"), Size)
  BY <1>1 DEF Dispositions
<1> QED
  BY <1>1, <1>2 DEF Current

LEMMA CurrentBehind ==
  ASSUME TypeOK', known', NEW x \in Shots, Current(x), x.event = "result" => stage' = "ended",
         x.event = "progress" => printing' = Null
  PROVE  Behind(x)'
<1> DEFINE D == ThoseAfter(disp', "completed")
           W == ThoseAfter(disp', "not_started")
           b == actual'
<1>1. Those(disp, "completed")' = D /\ Those(disp, "not_started")' = W
  BY DEF Those, ThoseAfter
<1>2. D \in SUBSET Moves /\ W \in SUBSET Moves /\ b \in [Moves -> Nat] /\ Size \in [Moves -> Nat]
  BY ReportAssumption DEF ThoseAfter, TypeOK
<1>3. /\ Aggregate(Those(disp, "completed"), actual)' = Aggregate(D, b)
      /\ Aggregate(Those(disp, "not_started"), Size)' = Aggregate(W, Size)
  BY <1>1
<1>4. /\ x.planned = Aggregate(Moves, Size)
      /\ x.completed = Aggregate(D, b)
      /\ x.dispositions["not_started"] = Aggregate(W, Size)
      /\ x.time = lastEvent'
  BY DEF Current
<1> HIDE DEF D, W, b
<1>5. AtMost(Aggregate(D, b), Aggregate(D, b)) /\ AtMost(Aggregate(W, Size), Aggregate(W, Size))
  BY <1>2, Grows
<1>6. lastEvent' \in Int
  BY DEF TypeOK
<1> QED
  BY <1>3, <1>4, <1>5, <1>6 DEF Behind

LEMMA CurrentFollows ==
  ASSUME TypeOK, TypeOK', StageInv, Threads!IInv, [Next]_vars,
         NEW l \in Shots, Behind(l), l.event # "result",
         NEW x \in Shots, Current(x), x.event # "planned",
         x.event = "progress" => printing # Null /\ lastEvent' = lastEvent
  PROVE  Follows(l, x)
<1>1. Behind(l)'
  BY BehindStays
<1>2. /\ Those(disp, "completed")' = ThoseAfter(disp', "completed")
      /\ Those(disp, "not_started")' = ThoseAfter(disp', "not_started")
  BY DEF Those, ThoseAfter
<1>3. /\ known'
      /\ l.planned = Aggregate(Moves, Size)
      /\ AtMost(l.completed, Aggregate(ThoseAfter(disp', "completed"), actual'))
      /\ AtMost(Aggregate(ThoseAfter(disp', "not_started"), Size), l.dispositions["not_started"])
  BY <1>1, <1>2 DEF Behind
<1>4. l.event = "progress" /\ x.event = "progress" => x.time - l.time >= Second
  <2>1. l.event = "progress" /\ printing # Null => l.time + Second <= lastEvent
    BY DEF Behind
  <2>2. l.time \in Int /\ lastEvent \in Int /\ Second \in Nat
    BY ReportAssumption DEF Shots, TypeOK
  <2>3. x.time = lastEvent'
    BY DEF Current
  <2> QED
    BY <2>1, <2>2, <2>3
<1>5. /\ x.planned = l.planned
      /\ AtMost(l.completed, x.completed)
      /\ AtMost(x.dispositions["not_started"], l.dispositions["not_started"])
  BY <1>3 DEF Current
<1> QED
  BY <1>4, <1>5 DEF Follows

LEMMA LatestType ==
  ASSUME TypeOK, Printed
  PROVE  Latest \in Shots
<1>1. CASE pipe = <<>>
  BY <1>1 DEF TypeOK, Printed, Latest
<1>2. CASE pipe # <<>>
  <2>1. Len(pipe) \in 1..Len(pipe)
    BY <1>2 DEF TypeOK
  <2> QED
    BY <1>2, <2>1 DEF TypeOK, Latest
<1> QED
  BY <1>1, <1>2

(* The pipe keeps what it holds, or takes one more, or loses the first.    *)
LEMMA PipeKept ==
  ASSUME TypeOK, TypeOK', StageInv, PipeInv, Threads!IInv, [Next]_vars, UNCHANGED <<pipe, seen>>
  PROVE  PipeInv'
<1>1. Latest' = Latest /\ Printed' = Printed
  BY DEF Latest, Printed
<1>2. Printed => Behind(Latest)'
  <2> SUFFICES ASSUME Printed PROVE Behind(Latest)'
    OBVIOUS
  <2> DEFINE l == Latest
  <2>1. l \in Shots /\ Behind(l)
    BY LatestType DEF PipeInv
  <2>2. PICK s \in Shots : s = l
    BY <2>1
  <2>3. Behind(s)'
    BY <2>1, <2>2, BehindStays
  <2> QED
    BY <1>1, <2>2, <2>3 DEF Behind
<1> QED
  BY <1>1, <1>2, KnownStays DEF PipeInv

LEMMA PipeGrows ==
  ASSUME TypeOK, PipeInv, stage' # "planning", NEW x \in Shots, pipe' = Append(pipe, x),
         UNCHANGED seen, Behind(x)', Printed => Follows(Latest, x)
  PROVE  PipeInv'
<1> DEFINE n == Len(pipe)
<1>1. n \in Nat /\ Len(pipe') = n + 1 /\ pipe' # <<>> /\ pipe'[n + 1] = x
  BY DEF TypeOK
<1>2. \A k \in 1..n : pipe'[k] = pipe[k]
  BY DEF TypeOK
<1>3. pipe # <<>> <=> n > 0
  BY DEF TypeOK
<1> HIDE DEF n
<1>4. pipe # <<>> => Latest = pipe[n]
  BY DEF Latest, n
<1>5. \A k \in 1..(Len(pipe') - 1) : Follows(pipe'[k], pipe'[k + 1])
  <2> SUFFICES ASSUME NEW k \in 1..n PROVE Follows(pipe'[k], pipe'[k + 1])
    BY <1>1
  <2>1. CASE k < n
    <3>1. k \in 1..(Len(pipe) - 1) /\ k + 1 \in 1..n
      BY <1>1, <2>1 DEF n
    <3>2. Follows(pipe[k], pipe[k + 1])
      BY <3>1 DEF PipeInv
    <3> QED
      BY <1>2, <3>1, <3>2
  <2>2. CASE k = n
    <3>1. pipe # <<>> /\ Latest = pipe[n] /\ pipe'[n] = pipe[n]
      BY <1>1, <1>2, <1>3, <1>4, <2>2
    <3>2. Follows(Latest, x)
      BY <3>1 DEF Printed
    <3> QED
      BY <1>1, <2>2, <3>1, <3>2
  <2> QED
    BY <1>1, <2>1, <2>2
<1>6. seen # Null => Follows(seen, pipe'[1])
  <2> SUFFICES ASSUME seen # Null PROVE Follows(seen, pipe'[1])
    OBVIOUS
  <2>1. CASE pipe = <<>>
    <3>1. n = 0 /\ pipe'[1] = x
      BY <1>1, <1>3, <2>1
    <3>2. Latest = seen /\ Printed
      BY <2>1 DEF Latest, Printed
    <3> QED
      BY <3>1, <3>2
  <2>2. CASE pipe # <<>>
    <3>1. pipe'[1] = pipe[1]
      BY <1>1, <1>2, <1>3, <2>2
    <3> QED
      BY <2>2, <3>1 DEF PipeInv
  <2> QED
    BY <2>1, <2>2
<1>7. Behind(Latest)'
  <2>1. Latest' = x
    BY <1>1 DEF Latest
  <2> QED
    BY <2>1 DEF Behind
<1> QED
  BY <1>5, <1>6, <1>7 DEF PipeInv

LEMMA PipeRead ==
  ASSUME TypeOK, StageInv, PipeInv, Read
  PROVE  PipeInv'
<1>1. pipe # <<>> /\ seen' = pipe[1] /\ pipe' = Tail(pipe) /\ stage # "planning"
  BY DEF Read, PipeInv
<1>2. UNCHANGED <<threads, stage, known, actual, printing, lastEvent>>
  BY DEF Read, quiet
<1> DEFINE n == Len(pipe)
<1>3. n \in Nat /\ n >= 1 /\ Len(pipe') = n - 1 /\ \A k \in 1..(n - 1) : pipe'[k] = pipe[k + 1]
  BY <1>1 DEF TypeOK
<1>4. pipe' # <<>> <=> n > 1
  <2>1. pipe' \in Seq(Shots)
    BY <1>1 DEF TypeOK
  <2>2. pipe' # <<>> <=> Len(pipe') > 0
    BY <2>1
  <2> HIDE DEF n
  <2> QED
    BY <1>3, <2>2
<1>5. \A k \in 1..(n - 1) : Follows(pipe[k], pipe[k + 1])
  BY DEF PipeInv
<1>6. Latest = pipe[n]
  BY <1>1 DEF Latest
<1> HIDE DEF n
<1>7. \A k \in 1..(Len(pipe') - 1) : Follows(pipe'[k], pipe'[k + 1])
  <2> SUFFICES ASSUME NEW k \in 1..(n - 2) PROVE Follows(pipe'[k], pipe'[k + 1])
    BY <1>3
  <2>1. k \in 1..(n - 1) /\ k + 1 \in 1..(n - 1)
    BY <1>3
  <2>2. pipe'[k] = pipe[k + 1] /\ pipe'[k + 1] = pipe[k + 1 + 1]
    BY <1>3, <2>1
  <2> QED
    BY <1>5, <2>1, <2>2
<1>8. pipe' # <<>> => Follows(seen', pipe'[1])
  <2> SUFFICES ASSUME n > 1 PROVE Follows(seen', pipe'[1])
    BY <1>4
  <2>1. 1 \in 1..(n - 1)
    BY <1>3
  <2>2. pipe'[1] = pipe[1 + 1]
    BY <1>3, <2>1
  <2> QED
    BY <1>1, <1>5, <2>1, <2>2
<1>9. Latest' = Latest
  <2>1. CASE n = 1
    BY <1>1, <1>4, <1>6, <2>1 DEF Latest
  <2>2. CASE n > 1
    <3>1. n - 1 \in 1..(n - 1)
      BY <1>3, <2>2
    <3>2. pipe'[n - 1] = pipe[n - 1 + 1]
      BY <1>3, <3>1
    <3>3. pipe'[Len(pipe')] = pipe[n]
      BY <1>3, <3>2
    <3>4. Latest' = pipe'[Len(pipe')]
      BY <1>4, <2>2 DEF Latest
    <3> QED
      BY <1>6, <3>3, <3>4
  <2> QED
    BY <1>3, <2>1, <2>2
<1>10. Behind(Latest)'
  <2>1. Behind(Latest)
    BY <1>1 DEF PipeInv, Printed
  <2>2. disp' = disp
    BY <1>2 DEF threads
  <2> QED
    BY <1>2, <1>9, <2>1, <2>2 DEF Behind, Those
<1> QED
  BY <1>1, <1>2, <1>7, <1>8, <1>10 DEF PipeInv

LEMMA PipeStep ==
  ASSUME TypeOK, TypeOK', StageInv, StageInv', PipeInv, Threads!IInv, [Next]_vars
  PROVE  PipeInv'
<1>1. CASE UNCHANGED <<pipe, seen>>
  BY <1>1, PipeKept
<1>2. CASE Plan
  <2> DEFINE shot == Snapshot("planned", status', disp, actual)
  <2>1. shot \in Shots
    BY <1>2, SnapshotType DEF Plan, TypeOK
  <2>2. PICK x \in Shots : x = shot
    BY <2>1
  <2>3. x.event = "planned"
    BY <2>2 DEF Snapshot
  <2>4. CASE Emit(x)
    <3>1. ~Printed /\ UNCHANGED seen
      BY <1>2 DEF Plan, PipeInv, Printed
    <3>2. known' /\ stage' # "planning" /\ disp' = disp /\ actual' = actual
      BY <1>2 DEF Plan, threads
    <3>3. Current(x)
      BY <2>2, <3>2, SnapshotCurrent
    <3>4. Behind(x)'
      BY <2>3, <3>2, <3>3, CurrentBehind
    <3>5. CASE pipe' = pipe
      BY <1>1, <3>1, <3>5
    <3>6. CASE pipe' = Append(pipe, x)
      BY <3>1, <3>2, <3>4, <3>6, PipeGrows
    <3> QED
      BY <2>4, <3>5, <3>6 DEF Emit
  <2>5. CASE UNCHANGED pipe
    BY <1>1, <1>2, <2>5 DEF Plan
  <2> QED
    BY <1>2, <2>2, <2>4, <2>5 DEF Plan, Broken
<1>3. CASE Finish
  <2> DEFINE shot == Snapshot("result", status', disp, actual)
  <2>1. shot \in Shots
    BY <1>3, SnapshotType DEF TypeOK, Finish
  <2>2. PICK x \in Shots : x = shot
    BY <2>1
  <2>3. x.event = "result"
    BY <2>2 DEF Snapshot
  <2>4. CASE Emit(x)
    <3>1. UNCHANGED seen
      BY <1>3 DEF Finish
    <3>2. /\ known' = known /\ stage # "ended" /\ stage' = "ended" /\ disp' = disp
          /\ actual' = actual
      BY <1>3 DEF Finish, threads
    <3>3. Current(x)
      BY <2>2, <3>2, SnapshotCurrent
    <3>4. Behind(x)'
      BY <2>3, <3>2 DEF Behind
    <3>5. Printed => Follows(Latest, x)
      <4> SUFFICES ASSUME Printed PROVE Follows(Latest, x)
        OBVIOUS
      <4>1. Latest \in Shots /\ Behind(Latest)
        BY LatestType DEF PipeInv
      <4>2. Latest.event # "result"
        BY <3>2, <4>1 DEF Behind
      <4> QED
        BY <2>3, <3>3, <4>1, <4>2, CurrentFollows
    <3>6. CASE pipe' = pipe
      BY <1>1, <3>1, <3>6
    <3>7. CASE pipe' = Append(pipe, x)
      BY <3>1, <3>2, <3>4, <3>5, <3>7, PipeGrows
    <3> QED
      BY <2>4, <3>6, <3>7 DEF Emit
  <2>5. CASE UNCHANGED pipe
    BY <1>1, <1>3, <2>5 DEF Finish
  <2> QED
    BY <1>3, <2>2, <2>4, <2>5 DEF Finish, Broken
<1>4. ASSUME NEW t \in E!Thread, Progress(t)
      PROVE  PipeInv'
  <2> DEFINE d == [disp EXCEPT ![pos[t]] = "completed"]
             shot == Snapshot("progress", status, d, actual)
  <2>1. shot \in Shots
    BY <1>4, SnapshotType DEF TypeOK, Progress
  <2>2. PICK x \in Shots : x = shot
    BY <2>1
  <2>3. x.event = "progress"
    BY <2>2 DEF Snapshot
  <2>4. CASE Emit(x) /\ E!Succeed(t)
    <3>1. UNCHANGED <<seen, lastEvent, known, stage>> /\ printing' = Null
      BY <1>4 DEF Progress, quiet
    <3>2. printing = t /\ t # Null
      BY <1>4, ReportAssumption DEF Progress
    <3>3. stage = "executing" /\ known
      BY <3>2 DEF StageInv
    <3>4. disp' = d /\ actual' = actual
      BY <1>4, <2>4 DEF Progress, E!Succeed, E!SetDisp
    <3>5. Current(x)
      <4> HIDE DEF d
      <4> QED
        BY <2>2, <3>4, SnapshotCurrent
    <3>6. Behind(x)'
      BY <2>3, <3>1, <3>3, <3>5, CurrentBehind
    <3>7. Printed => Follows(Latest, x)
      <4> SUFFICES ASSUME Printed PROVE Follows(Latest, x)
        OBVIOUS
      <4>1. Latest \in Shots /\ Behind(Latest)
        BY LatestType DEF PipeInv
      <4>2. Latest.event # "result"
        BY <3>3, <4>1 DEF Behind
      <4> QED
        BY <2>3, <3>1, <3>2, <3>5, <4>1, <4>2, CurrentFollows
    <3>8. CASE pipe' = pipe
      BY <1>1, <3>1, <3>8
    <3>9. CASE pipe' = Append(pipe, x)
      BY <3>1, <3>3, <3>6, <3>7, <3>9, PipeGrows
    <3> QED
      BY <2>4, <3>8, <3>9 DEF Emit
  <2>5. CASE UNCHANGED pipe
    BY <1>1, <1>4, <2>5 DEF Progress
  <2> QED
    BY <1>4, <2>2, <2>4, <2>5 DEF Progress, Broken
<1>5. CASE Read
  BY <1>5, PipeRead
<1>6. CASE PlanningFails \/ Coordinate \/ Signal \/ Tick \/ Pause \/ Wake \/ UNCHANGED vars
  BY <1>1, <1>6 DEF PlanningFails, Coordinate, Signal, Tick, Pause, Wake, Turn, vars, output
<1>7. ASSUME NEW t \in E!Thread, Schedule(t) \/ Record(t) \/ Complete(t)
      PROVE  PipeInv'
  BY <1>1, <1>7 DEF Schedule, Record, Complete, output
<1> QED
  BY <1>2, <1>3, <1>4, <1>5, <1>6, <1>7 DEF Next, Caller, Thread

-----------------------------------------------------------------------------
(* The types, stages, results and the pipe, for every plan and reader.     *)
THEOREM Invariance == Spec => []RInv
<1>1. RInv /\ Threads!IInv /\ [Next]_vars => RInv'
  <2> SUFFICES ASSUME RInv, Threads!IInv, [Next]_vars PROVE RInv'
    OBVIOUS
  <2>1. TypeOK' /\ StageInv'
    BY TypeStep, StageStep DEF RInv
  <2>2. ResultInv'
    BY ResultStep DEF RInv
  <2>3. PipeInv'
    BY <2>1, PipeStep DEF RInv
  <2> QED
    BY <2>1, <2>2, <2>3 DEF RInv
<1> QED
  BY <1>1, InitInv, ThreadsInvariance, PTL DEF Spec

(* Where a result is shown nothing of a move is going on, and what it says *)
(* of the run is so.                                                       *)
LEMMA QuietWhenEnded ==
  ASSUME StageInv, Threads!IInv, stage = "ended"
  PROVE  /\ \A i \in Moves : disp[i] # "active"
         /\ phase = "returned" => \A i \in Moves : disp[i] = "completed"
         /\ raised = "cancelled" => \A i \in Moves : disp[i] # "failed"
<1>1. Threads!Quiescent /\ Threads!FullSuccess /\ Threads!FailureNotMasked
  BY Threads!EndFacts, ThreadsAssumed
<1>2. CASE phase \in E!Ended
  BY <1>1, <1>2, SameSets
     DEF Threads!Quiescent, Threads!FullSuccess, Threads!FailureNotMasked
<1>3. CASE phase \notin E!Ended
  <2>1. E!Init
    BY <1>3 DEF StageInv
  <2> QED
    BY <2>1, SameSets DEF E!Init
<1> QED
  BY <1>2, <1>3

LEMMA ResultHolds ==
  ASSUME RInv, Threads!IInv, NEW s \in Shown, s.event = "result"
  PROVE  /\ known =>
              \A x \in Dispositions :
                  s.dispositions[x] = Aggregate({i \in Moves : disp[i] = x}, Size)
         /\ s.dispositions["active"].total.files = 0
         /\ s.status = "completed" => s.dispositions["completed"] = s.planned /\ s.progress = 100
         /\ s.status = "cancelled" => s.dispositions["failed"].total.files = 0
         /\ s.status = "planned" => s.completed.total.files = 0
<1>1. Final(s) /\ stage = "ended"
  BY DEF RInv, ResultInv, Final
<1>2. \A x \in Dispositions : s.dispositions[x] = Aggregate(Those(disp, x), Size)
  BY <1>1 DEF Final
<1>3. /\ \A i \in Moves : disp[i] # "active"
      /\ phase = "returned" => \A i \in Moves : disp[i] = "completed"
      /\ raised = "cancelled" => \A i \in Moves : disp[i] # "failed"
  BY <1>1, QuietWhenEnded DEF RInv
<1>4. ASSUME known, NEW x \in Dispositions
      PROVE  s.dispositions[x] = Aggregate({i \in Moves : disp[i] = x}, Size)
  BY <1>2, <1>4 DEF Those
<1>5. s.dispositions["active"].total.files = 0
  <2>1. Those(disp, "active") = {}
    BY <1>3 DEF Those
  <2> QED
    BY <1>2, <2>1, NoFiles DEF Dispositions
<1>6. ASSUME s.status = "completed"
      PROVE  s.dispositions["completed"] = s.planned /\ s.progress = 100
  <2>1. known /\ phase = "returned"
    BY <1>1, <1>6 DEF Final
  <2>2. Those(disp, "completed") = Moves
    BY <1>3, <2>1 DEF Those
  <2>3. s.dispositions["completed"] = Aggregate(Moves, Size)
    BY <1>2, <2>2 DEF Dispositions
  <2>4. /\ s.planned = Aggregate(Moves, Size)
        /\ s.progress = Percent(s.dispositions["completed"].total, Aggregate(Moves, Size).total)
    BY <1>1, <2>1 DEF Final
  <2> QED
    BY <2>3, <2>4, AllDone
<1>7. ASSUME s.status = "cancelled"
      PROVE  s.dispositions["failed"].total.files = 0
  <2>1. raised = "cancelled"
    BY <1>1, <1>7 DEF Final
  <2>2. Those(disp, "failed") = {}
    BY <1>3, <2>1 DEF Those
  <2> QED
    BY <1>2, <2>2, NoFiles DEF Dispositions
<1>8. ASSUME s.status = "planned"
      PROVE  s.completed.total.files = 0
  <2>1. E!Init
    BY <1>1, <1>8 DEF Final
  <2>2. Those(disp, "completed") = {}
    BY <2>1, SameSets DEF Those, E!Init
  <2>3. s.completed = Aggregate({}, actual)
    BY <1>1, <2>2 DEF Final
  <2> QED
    BY <2>3, NoFiles
<1> QED
  BY <1>4, <1>5, <1>6, <1>7, <1>8

(* The result is the last word, for every plan and however many workers    *)
(* there are: what it shows stays true, nothing is active, success is all  *)
(* of the plan at 100%, a cancellation hides no failure, and a dry run     *)
(* moved nothing.                                                          *)
THEOREM TerminalSafety == Spec => []TerminalResult
<1>1. RInv /\ Threads!IInv => TerminalResult
  BY ResultHolds DEF TerminalResult
<1> QED
  BY <1>1, Invariance, ThreadsInvariance, PTL

(* Throttled events lose nothing: from one event the reader gets to the    *)
(* next the plan stays, completed files and bytes of every route only      *)
(* grow, pending ones only shrink, progress is decided a second apart, and *)
(* nothing follows the result.                                             *)
THEOREM CumulativeSafety == Spec => Cumulative
<1>1. RInv /\ [Next]_vars => [seen' # seen /\ seen # Null => Follows(seen, seen')]_vars
  <2> SUFFICES ASSUME RInv, Next, seen' # seen, seen # Null PROVE Follows(seen, seen')
    OBVIOUS
  <2>1. Read
    <3>1. ASSUME NEW t \in E!Thread, Thread(t)
          PROVE  seen' = seen
      BY <3>1 DEF Thread, Schedule, Record, Complete, Progress, output
    <3>2. CASE Caller
      BY <3>2 DEF Caller, Plan, PlanningFails, Coordinate, Finish, output
    <3>3. CASE Signal \/ Tick \/ Pause \/ Wake
      BY <3>3 DEF Signal, Tick, Pause, Wake, Turn, output
    <3> QED
      BY <3>1, <3>2, <3>3 DEF Next
  <2> QED
    BY <2>1 DEF Read, RInv, PipeInv, TypeOK
<1> QED
  BY <1>1, Invariance, PTL DEF Spec, Cumulative
=============================================================================
