---------------------------- MODULE ExecutorProof ----------------------------
(***************************************************************************)
(* Theorems about Executor for every plan, every set of HDDs and any       *)
(* number of workers.                                                      *)
(***************************************************************************)
EXTENDS Executor, TLAPS

(* What a thread has done follows from where it is in its loop: the moves  *)
(* before the one it took last are completed, those after it not started.  *)
Behind(t) == \A i \in Work(t) : i < pos[t] => disp[i] = "completed"
Ahead(t)  == \A i \in Work(t) : i > pos[t] => disp[i] = "not_started"

AtCurrent(t) ==
    pos[t] \in Work(t) =>
        /\ at[t] = "loop" => disp[pos[t]] = "completed"
        /\ at[t] = "called" => disp[pos[t]] = "not_started"
        /\ at[t] = "running" => disp[pos[t]] = "active"
        /\ at[t] = "finished" => disp[pos[t]] \in {"completed", "failed", "interrupted"}
        /\ disp[pos[t]] = "failed" => error[t] = "failed"
        /\ disp[pos[t]] = "interrupted" => error[t] = "cancelled"

ThreadOK(t) ==
    /\ pos[t] \in Work(t) \cup {0}
    /\ at[t] \in {"called", "running"} => pos[t] \in Work(t)
    /\ at[t] \in {"absent", "queued", "orphaned"} => pos[t] = 0
    /\ Behind(t)
    /\ Ahead(t)
    /\ AtCurrent(t)

ThreadInv == \A t \in Thread : ThreadOK(t)

(* An exception belongs to a thread that has left its loop; a thread that  *)
(* left it without one has no move left.                                   *)
ErrorInv ==
    /\ \A t \in Thread : error[t] # "none" => at[t] = "finished"
    /\ \A t \in Thread : at[t] = "finished" /\ error[t] = "none" => NoneLeft(t)
    /\ \A t \in Thread : error[t] = "cancelled" => cancel

(* The calling thread's phase and what the threads are doing.              *)
PhaseInv ==
    /\ at[Main] \in {"loop", "called", "running", "finished"}
    /\ phase = "sequential" =>
          \/ at[Main] # "finished"
          \/ error[Main] # "none"
    /\ phase \in {"submitting", "collecting", "unwinding"} => at[Main] = "finished"
    /\ phase = "sequential" => \A d \in Queues : at[d] = "absent"
    /\ phase \in {"submitting", "collecting"} => error[Main] = "none"
    /\ phase = "submitting" => \A d \in Queues : at[d] # "orphaned"
    /\ phase = "collecting" => \A d \in Queues : at[d] \notin {"absent", "orphaned"}
    /\ phase = "unwinding" => error[Main] = "failed"
    /\ (\E d \in Queues : at[d] # "absent") => \A i \in Sequential : disp[i] = "completed"
    /\ phase = "submitting" => \A i \in Sequential : disp[i] = "completed"
    /\ phase \in {"sequential", "submitting"} => collected = {}
    /\ collected # {} => phase \notin {"sequential", "submitting", "unwinding"}
    /\ \A d \in collected : at[d] = "finished"

(* The event is set by the operator, or by the collection of a worker that *)
(* failed of itself.                                                       *)
CancelInv ==
    cancel => signalled \/ \E d \in collected : error[d] = "failed"

EndInv ==
    /\ phase \notin Ended => raised = "none"
    /\ phase = "returned" => /\ raised = "none"
                             /\ \A i \in Moves : disp[i] = "completed"
    /\ phase = "raised" => raised # "none"
    /\ phase \in Ended => /\ at[Main] = "finished"
                          /\ \A t \in Thread : at[t] \in {"absent", "orphaned", "finished"}
                          /\ ~\E d, e \in Queues : at[d] = "orphaned" /\ at[e] = "finished"
    /\ raised = "cancelled" => /\ signalled
                               /\ \A t \in Thread : error[t] # "failed"

IInv == TypeOK /\ ThreadInv /\ ErrorInv /\ PhaseInv /\ CancelInv /\ EndInv

-----------------------------------------------------------------------------
(* The work of the threads partitions the plan.                            *)
LEMMA Works ==
    /\ \A t \in Thread : Work(t) \subseteq Moves
    /\ \A t, u \in Thread : t # u => Work(t) \cap Work(u) = {}
    /\ \A i \in Moves : \E t \in Thread : i \in Work(t)
    /\ Work(Main) = Sequential
    /\ Main \in Thread /\ Main \notin Queues
    /\ Queues \subseteq Thread
    /\ \A d \in Queues : \A i \in Work(d) : i \notin Sequential /\ Dest[i] = d
    /\ \A i \in Moves : i \notin Sequential => Dest[i] \in Queues /\ i \in Work(Dest[i])
<1>1. Main \notin HDD
  BY ExecutorAssumption
<1>2. \A d \in Queues : d \in HDD /\ d # Main
  BY <1>1 DEF Queues
<1>3. \A i \in Moves : i \notin Sequential => Dest[i] \in Queues
  BY DEF Queues, Sequential
<1>4. \A i \in Moves : \E t \in Thread : i \in Work(t)
  BY <1>2, <1>3 DEF Work, Thread, Sequential
<1> QED
  BY <1>2, <1>3, <1>4 DEF Work, Thread, Sequential

THEOREM InitInv == Init => IInv
<1> SUFFICES ASSUME Init PROVE IInv
  OBVIOUS
<1> USE DEF Init
<1>1. TypeOK
  <2>1. at \in [Thread -> {"absent", "queued", "orphaned", "loop", "called",
                          "running", "finished"}]
    OBVIOUS
  <2>2. pos \in [Thread -> 0..N]
    BY ExecutorAssumption
  <2> QED
    BY <2>1, <2>2 DEF TypeOK, Error, Ended
<1>2. ThreadInv
  BY Works DEF ThreadInv, ThreadOK, Behind, Ahead, AtCurrent, Moves, Thread
<1>3. ErrorInv
  BY Works DEF ErrorInv
<1>4. PhaseInv
  BY Works DEF PhaseInv
<1>5. CancelInv /\ EndInv
  BY Works DEF CancelInv, EndInv, Ended
<1> QED
  BY <1>1, <1>2, <1>3, <1>4, <1>5 DEF IInv

LEMMA TypeStep == TypeOK /\ ThreadInv /\ [Next]_vars => TypeOK'
<1> SUFFICES ASSUME TypeOK, ThreadInv, [Next]_vars PROVE TypeOK'
  OBVIOUS
<1> USE Works, ExecutorAssumption DEF TypeOK, Error, Ended
<1>1. ASSUME NEW t \in Thread, Loop(t) PROVE TypeOK'
  <2>1. ASSUME NEW i \in Moves, Take(t, i) PROVE TypeOK'
    BY <2>1 DEF Take, Moves
  <2>2. CASE StopBeforeNext(t)
    BY <2>2 DEF StopBeforeNext, Leave
  <2>3. CASE Activate(t)
    BY <2>3 DEF Activate, SetDisp
  <2>4. CASE Succeed(t)
    BY <2>4 DEF Succeed, SetDisp
  <2>5. CASE SucceedUnreported(t)
    BY <2>5 DEF SucceedUnreported, SetDisp, Leave
  <2>6. CASE Fail(t)
    BY <2>6 DEF Fail, SetDisp, Leave
  <2>7. CASE Interrupt(t)
    BY <2>7 DEF Interrupt, SetDisp, Leave
  <2> QED
    BY <1>1, <2>1, <2>2, <2>3, <2>4, <2>5, <2>6, <2>7 DEF Loop
<1>2. ASSUME NEW d \in Queues, Begin(d) \/ QueueDone(d) PROVE TypeOK'
  BY <1>2 DEF Begin, QueueDone
<1>3. CASE Propagate
  BY <1>3 DEF Propagate
<1>4. CASE SequentialDone
  BY <1>4 DEF SequentialDone
<1>5. ASSUME NEW d \in Queues, Submit(d) PROVE TypeOK'
  BY <1>5 DEF Submit
<1>6. ASSUME NEW d \in Queues, SpawnFails(d) PROVE TypeOK'
  BY <1>6 DEF SpawnFails
<1>7. ASSUME NEW d \in Queues, Collect(d) PROVE TypeOK'
  <2>1. cancel' \in BOOLEAN
    BY <1>7 DEF Collect
  <2> QED
    BY <1>7, <2>1 DEF Collect
<1>8. CASE Join
  BY <1>8 DEF Join
<1>9. CASE Unwound
  BY <1>9 DEF Unwound
<1>10. CASE Signal
  BY <1>10 DEF Signal
<1>11. CASE UNCHANGED vars
  BY <1>11 DEF vars
<1> QED
  BY <1>1, <1>2, <1>3, <1>4, <1>5, <1>6, <1>7, <1>8, <1>9, <1>10, <1>11
  DEF Next, Caller, Worker

(* What a step of a thread's loop leaves alone.                            *)
Frame(t) ==
    /\ \A u \in Thread : u # t =>
          /\ at'[u] = at[u] /\ pos'[u] = pos[u] /\ error'[u] = error[u]
          /\ \A i \in Work(u) : disp'[i] = disp[i]
    /\ at[t] \in {"loop", "called", "running"}
    /\ \/ at'[t] \in {"loop", "called", "running"} /\ error'[t] = error[t]
       \/ at'[t] = "finished" /\ error'[t] = "failed"
       \/ at'[t] = "finished" /\ error'[t] = "cancelled" /\ cancel
    /\ UNCHANGED <<phase, collected, cancel, signalled, raised>>

LEMMA LoopStep ==
  ASSUME TypeOK, ThreadInv, ErrorInv, NEW t \in Thread, Loop(t)
  PROVE  Frame(t) /\ ThreadOK(t)'
<1> USE Works DEF TypeOK
<1>0. /\ ThreadOK(t)
      /\ at[t] \in {"called", "running"} => pos[t] \in Work(t)
      /\ error[t] # "none" => at[t] = "finished"
      /\ \A i \in Work(t) : i \in Nat
      /\ Work(t) \subseteq Moves
      /\ 0 \notin Work(t)
      /\ pos[t] \in Nat
  BY ExecutorAssumption DEF ThreadInv, ThreadOK, ErrorInv, Moves
<1>1. ASSUME NEW i \in Moves, Take(t, i) PROVE Frame(t) /\ ThreadOK(t)'
  <2>1. Frame(t)
    BY <1>1 DEF Take, Frame
  <2>2. /\ pos'[t] = i /\ i \in Work(t) /\ at'[t] = "called" /\ disp' = disp
        /\ error' = error /\ error[t] = "none" /\ i > pos[t]
        /\ \A k \in Work(t) : k > pos[t] => i <= k
    BY <1>0, <1>1 DEF Take, IsNext, Error
  <2>3. disp[i] = "not_started" /\ Ahead(t)'
    BY <1>0, <2>2 DEF ThreadOK, Ahead
  <2>4. Behind(t)'
    BY <1>0, <1>1, <2>2 DEF ThreadOK, Behind, AtCurrent, Take
  <2> QED
    BY <1>0, <2>1, <2>2, <2>3, <2>4 DEF ThreadOK, AtCurrent
<1>2. CASE StopBeforeNext(t)
  BY <1>0, <1>2 DEF StopBeforeNext, Leave, Frame, ThreadOK, Behind, Ahead, AtCurrent
<1>3. ASSUME NEW d, SetDisp(t, d), at[t] \in {"called", "running"}
      PROVE  /\ disp'[pos[t]] = d
             /\ \A u \in Thread : u # t => \A i \in Work(u) : disp'[i] = disp[i]
             /\ \A i \in Work(t) : i # pos[t] => disp'[i] = disp[i]
  BY <1>0, <1>3 DEF SetDisp
<1>4. CASE Activate(t)
  BY <1>0, <1>3, <1>4 DEF Activate, Frame, ThreadOK, Behind, Ahead, AtCurrent
<1>5. CASE Succeed(t)
  BY <1>0, <1>3, <1>5 DEF Succeed, Frame, ThreadOK, Behind, Ahead, AtCurrent
<1>6. CASE SucceedUnreported(t)
  BY <1>0, <1>3, <1>6 DEF SucceedUnreported, Leave, Frame, ThreadOK, Behind, Ahead, AtCurrent
<1>7. CASE Fail(t)
  BY <1>0, <1>3, <1>7 DEF Fail, Leave, Frame, ThreadOK, Behind, Ahead, AtCurrent
<1>8. CASE Interrupt(t)
  BY <1>0, <1>3, <1>8 DEF Interrupt, Leave, Frame, ThreadOK, Behind, Ahead, AtCurrent
<1> QED
  BY <1>1, <1>2, <1>4, <1>5, <1>6, <1>7, <1>8 DEF Loop

(* The steps outside the loops take no move and change no disposition.     *)
Pool == \/ Propagate \/ SequentialDone \/ Join \/ Unwound \/ Signal
        \/ \E d \in Queues : \/ Submit(d) \/ SpawnFails(d) \/ Collect(d)
                             \/ Begin(d) \/ QueueDone(d)

LEMMA Steps == Next <=> Pool \/ \E t \in Thread : Loop(t)
  BY Works DEF Next, Caller, Worker, Pool, Thread

LEMMA PoolThreads ==
  ASSUME TypeOK, ThreadInv, ErrorInv, PhaseInv, Pool
  PROVE  ThreadInv'
<1> USE Works DEF TypeOK
<1>1. pos' = pos /\ disp' = disp
  BY DEF Pool, Propagate, SequentialDone, Join, Unwound, Signal, Submit,
         SpawnFails, Collect, Begin, QueueDone
<1>2. SUFFICES ASSUME NEW t \in Thread PROVE ThreadOK(t)'
  BY DEF ThreadInv
<1>3. Ahead(t)' /\ Behind(t)'
  BY <1>1 DEF ThreadInv, ThreadOK, Ahead, Behind
<1>4. CASE at'[t] = at[t] /\ error'[t] = error[t]
  BY <1>1, <1>3, <1>4 DEF ThreadInv, ThreadOK, AtCurrent
<1>5. CASE at'[t] \in {"queued", "orphaned"} /\ at[t] = "absent"
  BY <1>1, <1>3, <1>5, ExecutorAssumption DEF ThreadInv, ThreadOK, AtCurrent, Moves
<1>6. CASE at'[t] = "loop" /\ at[t] \in {"queued", "orphaned"}
  BY <1>1, <1>3, <1>6, ExecutorAssumption DEF ThreadInv, ThreadOK, AtCurrent, Moves
<1>7. CASE at'[t] = "finished" /\ at[t] = "loop" /\ error'[t] = error[t]
  BY <1>1, <1>3, <1>7 DEF ThreadInv, ThreadOK, AtCurrent
<1>8. CASE t = Main /\ at'[t] = "finished" /\ at[t] = "finished" /\ error[t] = "none"
  BY <1>1, <1>3, <1>8, ExecutorAssumption DEF ThreadInv, ThreadOK, AtCurrent, Moves
<1>9. CASE Propagate \/ Join \/ Unwound \/ Signal
  BY <1>4, <1>9 DEF Propagate, Join, Unwound, Signal
<1>10. CASE SequentialDone
  BY <1>4, <1>7, <1>10 DEF SequentialDone
<1>11. ASSUME NEW d \in Queues, Submit(d) PROVE ThreadOK(t)'
  BY <1>4, <1>5, <1>11 DEF Submit, NextQueue
<1>12. ASSUME NEW d \in Queues, SpawnFails(d) PROVE ThreadOK(t)'
  <2>1. t = Main => at'[t] = "finished" /\ at[t] = "finished" /\ error[t] = "none"
    BY <1>12 DEF SpawnFails, NextQueue, PhaseInv
  <2>2. t # Main => error'[t] = error[t]
    BY <1>12 DEF SpawnFails
  <2> QED
    BY <1>4, <1>5, <1>8, <1>12, <2>1, <2>2 DEF SpawnFails, NextQueue
<1>13. ASSUME NEW d \in Queues, Collect(d) PROVE ThreadOK(t)'
  BY <1>4, <1>13 DEF Collect
<1>14. ASSUME NEW d \in Queues, Begin(d) PROVE ThreadOK(t)'
  BY <1>4, <1>6, <1>14 DEF Begin
<1>15. ASSUME NEW d \in Queues, QueueDone(d) PROVE ThreadOK(t)'
  BY <1>4, <1>7, <1>15 DEF QueueDone
<1> QED
  BY <1>9, <1>10, <1>11, <1>12, <1>13, <1>14, <1>15 DEF Pool

LEMMA ThreadStep == IInv /\ [Next]_vars => ThreadInv'
<1> SUFFICES ASSUME IInv, [Next]_vars PROVE ThreadInv'
  OBVIOUS
<1>1. ASSUME NEW t \in Thread, Loop(t) PROVE ThreadInv'
  <2>1. Frame(t) /\ ThreadOK(t)'
    BY <1>1, LoopStep DEF IInv
  <2>2. ASSUME NEW u \in Thread, u # t PROVE ThreadOK(u)'
    BY <2>1, <2>2, Works DEF Frame, IInv, ThreadInv, ThreadOK, Behind, Ahead, AtCurrent
  <2> QED
    BY <2>1, <2>2 DEF ThreadInv
<1>2. CASE Pool
  BY <1>2, PoolThreads DEF IInv
<1>3. CASE UNCHANGED vars
  BY <1>3 DEF IInv, vars, ThreadInv, ThreadOK, Behind, Ahead, AtCurrent
<1> QED
  BY <1>1, <1>2, <1>3, Steps

LEMMA ErrorStep == IInv /\ [Next]_vars => ErrorInv'
<1> SUFFICES ASSUME IInv, [Next]_vars PROVE ErrorInv'
  OBVIOUS
<1> USE Works DEF IInv, TypeOK, ErrorInv
<1>1. ASSUME NEW t \in Thread, Loop(t) PROVE ErrorInv'
  <2>1. Frame(t)
    BY <1>1, LoopStep
  <2>2. \A u \in Thread : u # t => NoneLeft(u)' = NoneLeft(u)
    BY <2>1 DEF Frame, NoneLeft
  <2> QED
    BY <2>1, <2>2 DEF Frame
<1>2. ASSUME pos' = pos PROVE \A u \in Thread : NoneLeft(u)' = NoneLeft(u)
  BY <1>2 DEF NoneLeft
<1>3. CASE Propagate \/ Join \/ Unwound \/ Signal
  BY <1>2, <1>3 DEF Propagate, Join, Unwound, Signal
<1>4. CASE SequentialDone
  BY <1>2, <1>4 DEF SequentialDone
<1>5. ASSUME NEW d \in Queues, Submit(d) \/ Begin(d) \/ QueueDone(d) PROVE ErrorInv'
  BY <1>2, <1>5 DEF Submit, NextQueue, Begin, QueueDone
<1>6. ASSUME NEW d \in Queues, SpawnFails(d) PROVE ErrorInv'
  BY <1>2, <1>6 DEF SpawnFails, NextQueue, PhaseInv
<1>7. ASSUME NEW d \in Queues, Collect(d) PROVE ErrorInv'
  BY <1>2, <1>7 DEF Collect
<1>8. CASE UNCHANGED vars
  BY <1>2, <1>8 DEF vars
<1> QED
  BY <1>1, <1>3, <1>4, <1>5, <1>6, <1>7, <1>8, Steps DEF Pool

(* When the calling thread has left the SSD moves without an exception,    *)
(* they are completed.                                                     *)
LEMMA SequentialCompleted ==
  ASSUME TypeOK, ThreadInv, at[Main] \in {"loop", "finished"}, NoneLeft(Main),
         error[Main] = "none"
  PROVE  \A i \in Sequential : disp[i] = "completed"
<1>1. ThreadOK(Main) /\ Work(Main) = Sequential /\ Sequential \subseteq Moves
  BY Works DEF ThreadInv
<1>2. \A i \in Sequential : i < pos[Main] \/ i = pos[Main]
  BY <1>1, Works, ExecutorAssumption DEF NoneLeft, TypeOK, Moves
<1> QED
  BY <1>1, <1>2, Works DEF ThreadOK, Behind, AtCurrent, TypeOK

(* The same for a queue.                                                   *)
LEMMA QueueCompleted ==
  ASSUME TypeOK, ThreadInv, NEW d \in Queues, at[d] = "finished", NoneLeft(d),
         error[d] = "none"
  PROVE  \A i \in Work(d) : disp[i] = "completed"
<1>1. ThreadOK(d) /\ Work(d) \subseteq Moves
  BY Works DEF ThreadInv
<1>2. \A i \in Work(d) : i < pos[d] \/ i = pos[d]
  BY <1>1, Works, ExecutorAssumption DEF NoneLeft, TypeOK, Moves
<1> QED
  BY <1>1, <1>2, Works DEF ThreadOK, Behind, AtCurrent, TypeOK

LEMMA PhaseStep == IInv /\ [Next]_vars => PhaseInv'
<1> SUFFICES ASSUME IInv, [Next]_vars PROVE PhaseInv'
  OBVIOUS
<1> USE Works DEF IInv, TypeOK, PhaseInv, Ended
<1>0. \A i \in Sequential : i \in Work(Main)
  OBVIOUS
<1>1. ASSUME NEW t \in Thread, Loop(t) PROVE PhaseInv'
  <2>1. Frame(t)
    BY <1>1, LoopStep
  <2>2. CASE t = Main
    <3>1. phase = "sequential"
      BY <2>1, <2>2 DEF Frame, EndInv
    <3> QED
      BY <2>1, <2>2, <3>1 DEF Frame
  <2>3. CASE t # Main
    <3>1. t \in Queues /\ at[t] # "absent" /\ at'[t] \notin {"absent", "orphaned"}
      BY <2>1, <2>3 DEF Frame, Thread
    <3>2. \A i \in Sequential : disp[i] = "completed" /\ disp'[i] = disp[i]
      BY <2>1, <2>3, <3>1 DEF Frame
    <3>3. \A d \in Queues : at[d] = "absent" <=> at'[d] = "absent"
      BY <2>1, <2>3, <3>1 DEF Frame
    <3>4. \A d \in Queues : at'[d] = "orphaned" => at[d] = "orphaned"
      BY <2>1, <2>3, <3>1 DEF Frame
    <3>5. \A d \in collected : at[d] = "finished" /\ at'[d] = "finished"
      BY <2>1, <2>3, <3>1 DEF Frame
    <3>6. at'[Main] = at[Main] /\ error'[Main] = error[Main]
      BY <2>1, <2>3 DEF Frame
    <3> QED
      BY <2>1, <3>1, <3>2, <3>3, <3>4, <3>5, <3>6 DEF Frame
  <2> QED
    BY <2>2, <2>3
<1>2. CASE Propagate
  BY <1>2 DEF Propagate
<1>3. CASE SequentialDone
  <2>1. \A i \in Sequential : disp[i] = "completed"
    BY <1>3, SequentialCompleted DEF SequentialDone, ErrorInv
  <2> QED
    BY <1>3, <2>1 DEF SequentialDone, ErrorInv
<1>4. ASSUME NEW d \in Queues, Submit(d) PROVE PhaseInv'
  <2>1. \A e \in Queues : at[e] # "orphaned"
    BY <1>4 DEF Submit, NextQueue
  <2> QED
    BY <1>4, <2>1 DEF Submit, NextQueue
<1>5. ASSUME NEW d \in Queues, SpawnFails(d) PROVE PhaseInv'
  BY <1>5 DEF SpawnFails, NextQueue
<1>6. ASSUME NEW d \in Queues, Collect(d) PROVE PhaseInv'
  BY <1>6 DEF Collect
<1>7. ASSUME NEW d \in Queues, Begin(d) PROVE PhaseInv'
  BY <1>7 DEF Begin
<1>8. ASSUME NEW d \in Queues, QueueDone(d) PROVE PhaseInv'
  BY <1>8 DEF QueueDone
<1>9. CASE Join
  BY <1>9 DEF Join
<1>10. CASE Unwound
  BY <1>10 DEF Unwound
<1>11. CASE Signal
  BY <1>11 DEF Signal
<1>12. CASE UNCHANGED vars
  BY <1>12 DEF vars
<1> QED
  BY <1>1, <1>2, <1>3, <1>4, <1>5, <1>6, <1>7, <1>8, <1>9, <1>10, <1>11, <1>12,
     Steps DEF Pool

LEMMA CancelStep == IInv /\ [Next]_vars => CancelInv'
<1> SUFFICES ASSUME IInv, [Next]_vars PROVE CancelInv'
  OBVIOUS
<1> USE Works DEF IInv, TypeOK, CancelInv, Error
<1>1. ASSUME NEW t \in Thread, Loop(t) PROVE CancelInv'
  <2>1. Frame(t)
    BY <1>1, LoopStep
  <2>2. \A d \in collected : d # t
    BY <2>1 DEF Frame, PhaseInv
  <2> QED
    BY <2>1, <2>2 DEF Frame
<1>2. ASSUME NEW d \in Queues, Collect(d) PROVE CancelInv'
  <2>1. CASE error[d] = "none"
    BY <1>2, <2>1 DEF Collect
  <2>2. CASE error[d] = "failed"
    BY <1>2, <2>2 DEF Collect
  <2>3. CASE error[d] = "cancelled"
    BY <1>2, <2>3 DEF Collect, ErrorInv
  <2> QED
    BY <2>1, <2>2, <2>3
<1>3. ASSUME NEW d \in Queues, Submit(d) \/ Begin(d) \/ QueueDone(d) PROVE CancelInv'
  BY <1>3 DEF Submit, Begin, QueueDone
<1>4. ASSUME NEW d \in Queues, SpawnFails(d) PROVE CancelInv'
  BY <1>4 DEF SpawnFails
<1>5. CASE Propagate \/ SequentialDone \/ Join \/ Unwound \/ Signal
  BY <1>5 DEF Propagate, SequentialDone, Join, Unwound, Signal
<1>6. CASE UNCHANGED vars
  BY <1>6 DEF vars
<1> QED
  BY <1>1, <1>2, <1>3, <1>4, <1>5, <1>6, Steps DEF Pool

LEMMA EndStep == IInv /\ [Next]_vars => EndInv'
<1> SUFFICES ASSUME IInv, [Next]_vars PROVE EndInv'
  OBVIOUS
<1> USE Works DEF IInv, TypeOK, EndInv, Error, Ended
<1>1. ASSUME NEW t \in Thread, Loop(t) PROVE EndInv'
  <2>1. Frame(t)
    BY <1>1, LoopStep
  <2>2. phase \notin Ended
    BY <2>1 DEF Frame
  <2> QED
    BY <2>1, <2>2 DEF Frame
<1>2. CASE Propagate
  <2>1. \A d \in Queues : at[d] = "absent" /\ error[d] = "none"
    BY <1>2 DEF Propagate, PhaseInv, ErrorInv
  <2>2. collected = {} /\ at[Main] = "finished"
    BY <1>2 DEF Propagate, PhaseInv, ErrorInv
  <2>3. error[Main] = "cancelled" => signalled
    BY <2>2 DEF ErrorInv, CancelInv
  <2> QED
    BY <1>2, <2>1, <2>2, <2>3 DEF Propagate, Thread
<1>3. CASE SequentialDone
  <2>1. \A i \in Sequential : disp[i] = "completed"
    BY <1>3, SequentialCompleted DEF SequentialDone, ErrorInv
  <2> QED
    BY <1>3, <2>1 DEF SequentialDone, PhaseInv, Thread
<1>4. ASSUME NEW d \in Queues, Submit(d) \/ Collect(d) PROVE EndInv'
  BY <1>4 DEF Submit, Collect, NextQueue
<1>5. ASSUME NEW d \in Queues, SpawnFails(d) PROVE EndInv'
  BY <1>5 DEF SpawnFails, NextQueue
<1>6. ASSUME NEW d \in Queues, Begin(d) \/ QueueDone(d) PROVE EndInv'
  BY <1>6 DEF Begin, QueueDone
<1>7. CASE Join
  <2>1. /\ \A d \in Queues : at[d] = "finished"
        /\ at[Main] = "finished" /\ error[Main] = "none"
    BY <1>7 DEF Join, PhaseInv
  <2>2. CASE raised' = "none"
    <3>1. \A d \in Queues : error[d] = "none" /\ NoneLeft(d)
      BY <1>7, <2>1, <2>2 DEF Join, ErrorInv
    <3>2. \A d \in Queues : \A i \in Work(d) : disp[i] = "completed"
      BY <2>1, <3>1, QueueCompleted
    <3>3. \A i \in Sequential : disp[i] = "completed"
      BY <2>1, SequentialCompleted DEF ErrorInv
    <3>4. \A i \in Moves : disp[i] = "completed"
      BY <3>2, <3>3
    <3> QED
      BY <1>7, <2>1, <2>2, <3>4 DEF Join, Thread
  <2>3. CASE raised' = "failed"
    BY <1>7, <2>1, <2>3 DEF Join, Thread
  <2>4. CASE raised' = "cancelled"
    <3>1. \A d \in Queues : error[d] # "failed"
      BY <1>7, <2>4 DEF Join
    <3>2. signalled
      BY <1>7, <2>4, <3>1 DEF Join, ErrorInv, CancelInv
    <3> QED
      BY <1>7, <2>1, <2>4, <3>1, <3>2 DEF Join, Thread
  <2> QED
    BY <1>7, <2>2, <2>3, <2>4 DEF Join
<1>8. CASE Unwound
  BY <1>8 DEF Unwound, PhaseInv, Thread
<1>9. CASE Signal
  BY <1>9 DEF Signal
<1>10. CASE UNCHANGED vars
  BY <1>10 DEF vars
<1> QED
  BY <1>1, <1>2, <1>3, <1>4, <1>5, <1>6, <1>7, <1>8, <1>9, <1>10, Steps DEF Pool

-----------------------------------------------------------------------------
THEOREM Invariance == Spec => []IInv
<1>1. IInv /\ [Next]_vars => IInv'
  BY TypeStep, ThreadStep, ErrorStep, PhaseStep, CancelStep, EndStep DEF IInv
<1> QED
  BY InitInv, <1>1, PTL DEF Spec

(* Every variable keeps the values the code gives it.                      *)
THEOREM TypeCorrect == Spec => []TypeOK
  BY Invariance, PTL DEF IInv

LEMMA InvInOrder == IInv => InOrder
<1> SUFFICES ASSUME IInv, NEW k \in Moves, NEW i \in Moves, MustPrecede(k, i),
                    disp[i] # "not_started"
             PROVE  disp[k] = "completed"
  BY DEF InOrder
<1>1. PICK t \in Thread : i \in Work(t)
  BY Works
<1>2. i <= pos[t] /\ ThreadOK(t) /\ pos[t] \in Work(t)
  BY <1>1, Works, ExecutorAssumption
  DEF IInv, TypeOK, ThreadInv, ThreadOK, Ahead, Moves
<1>3. CASE k \in Sequential /\ i \notin Sequential
  <2>1. t \in Queues
    BY <1>1, <1>3, Works DEF Thread
  <2>2. at[t] # "absent"
    BY <1>1, <1>2, Works, ExecutorAssumption DEF IInv, TypeOK, ThreadOK, Moves
  <2> QED
    BY <1>3, <2>1, <2>2 DEF IInv, PhaseInv
<1>4. CASE k < i /\ k \in Work(t)
  BY <1>2, <1>4, Works, ExecutorAssumption DEF IInv, TypeOK, ThreadOK, Behind, Moves
<1>5. i \in Sequential => t = Main
  BY <1>1, Works DEF Thread
<1>6. i \notin Sequential => t = Dest[i] /\ t # Main
  BY <1>1, Works DEF Thread
<1> QED
  BY <1>3, <1>4, <1>5, <1>6, Works DEF MustPrecede, Work

(* A move starts only after every move it must follow has completed, for   *)
(* every plan: no destination ever has two writers.                        *)
THEOREM OrderSafety == Spec => []InOrder
  BY Invariance, InvInOrder, PTL

LEMMA ActiveRunning ==
  ASSUME IInv, NEW i \in Moves, disp[i] = "active"
  PROVE  \E t \in Thread : at[t] = "running" /\ pos[t] = i
<1>1. PICK t \in Thread : i \in Work(t)
  BY Works
<1>2. ThreadOK(t) /\ pos[t] \in 0..N /\ Work(t) \subseteq Moves
  BY Works DEF IInv, TypeOK, ThreadInv
<1>3. i = pos[t]
  BY <1>1, <1>2, ExecutorAssumption DEF ThreadOK, Ahead, Behind, Moves
<1> QED
  BY <1>1, <1>2, <1>3, Works, ExecutorAssumption DEF IInv, TypeOK, ThreadOK, AtCurrent, Moves

(* execute_moves ends only when every worker has stopped.                  *)
THEOREM QuiescentSafety == Spec => []Quiescent
<1>1. IInv => Quiescent
  BY ActiveRunning, Works DEF IInv, EndInv, Quiescent
<1> QED
  BY Invariance, <1>1, PTL

(* Returning normally means that the whole plan completed.                 *)
THEOREM SuccessSafety == Spec => []FullSuccess
<1>1. IInv => FullSuccess
  BY DEF IInv, EndInv, FullSuccess
<1> QED
  BY Invariance, <1>1, PTL

LEMMA FailedMoveError ==
  ASSUME IInv, NEW i \in Moves, disp[i] = "failed"
  PROVE  \E t \in Thread : error[t] = "failed"
<1>1. PICK t \in Thread : i \in Work(t)
  BY Works
<1>2. ThreadOK(t) /\ pos[t] \in 0..N /\ Work(t) \subseteq Moves
  BY Works DEF IInv, TypeOK, ThreadInv
<1>3. i = pos[t]
  BY <1>1, <1>2, ExecutorAssumption DEF ThreadOK, Ahead, Behind, Moves
<1> QED
  BY <1>1, <1>2, <1>3 DEF ThreadOK, AtCurrent

(* A failure is never reported as a cancellation, and a cancellation is    *)
(* always the operator's, in whichever order the workers finish.           *)
THEOREM FailureSafety == Spec => []FailureNotMasked
<1>1. IInv => FailureNotMasked
  BY FailedMoveError DEF IInv, EndInv, FailureNotMasked
<1> QED
  BY Invariance, <1>1, PTL

LEMMA TakenPersists ==
  ASSUME IInv, [Next]_vars, cancel
  PROVE  cancel' /\ \A i \in Moves : Taken(i)' => Taken(i)
<1>0. /\ at = [t \in Thread |-> at[t]]
      /\ Main \in Thread /\ Queues \subseteq Thread
  BY Works DEF IInv, TypeOK
<1>1. CASE UNCHANGED vars
  BY <1>1 DEF vars, Taken
<1>2. CASE Pool
  <2>1. cancel' /\ disp' = disp /\ pos' = pos
    BY <1>2 DEF Pool, Propagate, SequentialDone, Join, Unwound, Signal, Submit,
       SpawnFails, Collect, Begin, QueueDone
  <2>2. \A t \in Thread : at'[t] = "called" => at[t] = "called"
    <3>1. ASSUME NEW d \in Queues,
                 \/ Submit(d) \/ SpawnFails(d) \/ Collect(d) \/ Begin(d) \/ QueueDone(d)
          PROVE  \A t \in Thread : at'[t] = "called" => at[t] = "called"
      BY <1>0, <3>1 DEF Submit, SpawnFails, Collect, Begin, QueueDone
    <3>2. CASE Propagate \/ SequentialDone \/ Join \/ Unwound \/ Signal
      BY <1>0, <3>2 DEF Propagate, SequentialDone, Join, Unwound, Signal
    <3> QED
      BY <1>2, <3>1, <3>2 DEF Pool
  <2> QED
    BY <2>1, <2>2 DEF Taken
<1>3. ASSUME NEW t \in Thread, Loop(t)
      PROVE  cancel' /\ \A i \in Moves : Taken(i)' => Taken(i)
  <2>1. ~\E i \in Moves : Take(t, i)
    BY DEF Take
  <2>2. CASE StopBeforeNext(t)
    BY <1>0, <2>2 DEF StopBeforeNext, Leave, Taken
  <2>3. CASE Activate(t)
    BY <2>3, Works DEF IInv, TypeOK, Activate, SetDisp, Taken
  <2>4. ASSUME at[t] = "running", NEW d, SetDisp(t, d), pos' = pos, cancel' = cancel,
               \A u \in Thread : at'[u] = "called" => at[u] = "called"
        PROVE  cancel' /\ \A i \in Moves : Taken(i)' => Taken(i)
    <3>1. pos[t] \in Work(t) /\ disp[pos[t]] = "active"
      BY <2>4, Works DEF IInv, ThreadInv, ThreadOK, AtCurrent
    <3>2. \A i \in Moves : i # pos[t] => disp'[i] = disp[i]
      BY <2>4 DEF IInv, TypeOK, SetDisp
    <3> QED
      BY <2>4, <3>1, <3>2 DEF Taken
  <2>5. CASE Succeed(t) \/ SucceedUnreported(t) \/ Fail(t) \/ Interrupt(t)
    BY <1>0, <2>4, <2>5 DEF Succeed, SucceedUnreported, Fail, Interrupt, Leave
  <2> QED
    BY <1>3, <2>1, <2>2, <2>3, <2>5 DEF Loop
<1> QED
  BY <1>1, <1>2, <1>3, Steps

(* Once the event is set no thread takes a move, for any number of workers *)
(* and whoever set it.                                                     *)
THEOREM StopSafety == Spec => StopsNewWork
<1>1. IInv /\ [Next]_vars =>
        [cancel => cancel' /\ \A i \in Moves : Taken(i)' => Taken(i)]_vars
  BY TakenPersists
<1> QED
  BY Invariance, <1>1, PTL DEF Spec, StopsNewWork

-----------------------------------------------------------------------------
(* The refinement of Batch.                                                *)
LEMMA Outcomes ==
  /\ phase \notin Ended => BatchOutcome = "running"
  /\ phase = "returned" => BatchOutcome = "completed"
  /\ phase = "raised" => BatchOutcome = raised
  BY DEF BatchOutcome, Ended

LEMMA OutcomesNext ==
  /\ phase' \notin Ended => BatchOutcome' = "running"
  /\ phase' = "returned" => BatchOutcome' = "completed"
  /\ phase' = "raised" => BatchOutcome' = raised'
  BY DEF BatchOutcome, Ended

LEMMA EndFacts == IInv => Quiescent /\ FullSuccess /\ FailureNotMasked
  BY ActiveRunning, FailedMoveError, Works
  DEF IInv, EndInv, Quiescent, FullSuccess, FailureNotMasked

LEMMA EndFactsNext == IInv' => Quiescent' /\ FullSuccess' /\ FailureNotMasked'
  BY EndFacts, PTL

LEMMA InOrderNext == IInv' => InOrder'
  BY InvInOrder, PTL

LEMMA BatchLoop ==
  ASSUME IInv, IInv', NEW t \in Thread, Loop(t)
  PROVE  B!Next \/ UNCHANGED <<disp, BatchOutcome>>
<1> USE Works
<1>1. Frame(t) /\ ThreadOK(t) /\ error[t] = "none"
  BY LoopStep DEF IInv, ThreadInv, ErrorInv, TypeOK, Error, Frame
<1>2. phase \notin Ended /\ phase' \notin Ended
  BY <1>1 DEF IInv, EndInv, Frame, Ended
<1>3. BatchOutcome = "running" /\ BatchOutcome' = "running"
  BY <1>2, Outcomes, OutcomesNext
<1>4. ASSUME at[t] \in {"called", "running"} PROVE pos[t] \in Moves /\ pos[t] \in Work(t)
  BY <1>1, <1>4 DEF ThreadOK
<1>5. CASE Activate(t)
  <2>1. pos[t] \in Moves /\ disp[pos[t]] = "not_started"
    BY <1>1, <1>4, <1>5 DEF Activate, ThreadOK, AtCurrent
  <2>2. disp' = [disp EXCEPT ![pos[t]] = "active"]
    BY <1>5 DEF Activate, SetDisp
  <2>3. ASSUME NEW k \in Moves, <<k, pos[t]>> \in Precedes PROVE disp[k] = "completed"
    <3>1. MustPrecede(k, pos[t])
      BY <2>3 DEF Precedes
    <3>2. disp'[pos[t]] = "active"
      BY <2>1, <2>2 DEF IInv, TypeOK
    <3>3. disp'[k] = "completed"
      BY <2>1, <3>1, <3>2, InOrderNext DEF InOrder, MustPrecede
    <3> QED
      BY <2>1, <2>2, <3>2, <3>3 DEF IInv, TypeOK
  <2>4. B!Start(pos[t])
    BY <1>3, <2>1, <2>2, <2>3 DEF B!Start
  <2> QED
    BY <2>1, <2>4 DEF B!Next
<1>6. ASSUME NEW d \in B!Final, SetDisp(t, d), at[t] = "running"
      PROVE  B!Next
  <2>1. pos[t] \in Moves /\ disp[pos[t]] = "active"
    BY <1>1, <1>4, <1>6 DEF ThreadOK, AtCurrent
  <2>2. B!Resolve(pos[t])
    BY <1>3, <1>6, <2>1 DEF B!Resolve, SetDisp
  <2> QED
    BY <2>1, <2>2 DEF B!Next
<1>7. CASE Succeed(t) \/ SucceedUnreported(t) \/ Fail(t) \/ Interrupt(t)
  BY <1>6, <1>7 DEF Succeed, SucceedUnreported, Fail, Interrupt, B!Final
<1>8. CASE StopBeforeNext(t) \/ \E i \in Moves : Take(t, i)
  BY <1>3, <1>8 DEF StopBeforeNext, Take
<1> QED
  BY <1>5, <1>7, <1>8 DEF Loop

LEMMA BatchPool ==
  ASSUME IInv, IInv', Pool
  PROVE  B!Next \/ UNCHANGED <<disp, BatchOutcome>>
<1>1. disp' = disp
  BY DEF Pool, Propagate, SequentialDone, Join, Unwound, Signal, Submit,
         SpawnFails, Collect, Begin, QueueDone
<1>2. CASE phase \notin Ended /\ phase' \in Ended
  <2>1. BatchOutcome = "running" /\ BatchOutcome' \in {"completed", "cancelled", "failed"}
    BY <1>2, Outcomes, OutcomesNext DEF IInv, EndInv, TypeOK, Error, Ended
  <2>2. \A i \in Moves : disp[i] # "active"
    BY <1>1, <1>2, EndFactsNext DEF Quiescent
  <2>3. BatchOutcome' = "completed" => \A i \in Moves : disp[i] = "completed"
    BY <1>1, <1>2, EndFactsNext, OutcomesNext
    DEF FullSuccess, Ended, IInv, EndInv, TypeOK, Error
  <2>4. BatchOutcome' = "cancelled" => \A i \in Moves : disp[i] # "failed"
    BY <1>1, <1>2, EndFactsNext, OutcomesNext DEF FailureNotMasked, Ended
  <2>5. B!Close
    BY <1>1, <2>1, <2>2, <2>3, <2>4 DEF B!Close, B!Outcome
  <2> QED
    BY <2>5 DEF B!Next
<1>3. CASE phase \notin Ended /\ phase' \notin Ended
  BY <1>1, <1>3, Outcomes, OutcomesNext
<1>4. CASE phase \in Ended
  <2>1. phase' = phase /\ raised' = raised
    BY <1>4, Works DEF Pool, Propagate, SequentialDone, Join, Unwound, Signal, Submit,
       SpawnFails, NextQueue, Collect, Begin, QueueDone, Ended
  <2> QED
    BY <1>1, <1>4, <2>1, Outcomes, OutcomesNext DEF Ended
<1> QED
  BY <1>2, <1>3, <1>4

(* The threads, queues and the cancellation event implement the abstract   *)
(* batch: dispositions and outcome change only as Batch allows.            *)
THEOREM Refinement == Spec => BatchSpec
<1>1. Init => B!Init
  BY Outcomes DEF Init, B!Init, Ended
<1>2. IInv /\ IInv' /\ [Next]_vars => [B!Next]_<<disp, BatchOutcome>>
  <2>1. ASSUME UNCHANGED vars PROVE UNCHANGED <<disp, BatchOutcome>>
    BY <2>1 DEF vars, BatchOutcome
  <2> QED
    BY <2>1, BatchLoop, BatchPool, Steps
<1> QED
  BY <1>1, <1>2, Invariance, PTL DEF Spec, BatchSpec, B!Spec, B!vars
=============================================================================
