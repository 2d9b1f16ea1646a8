---------------------------- MODULE SessionProof ----------------------------
(***************************************************************************)
(* Theorems about Session: only one process is inside the lock, its plan   *)
(* stays true of the disk until it has carried it out, fixtures overwrite  *)
(* nothing and are removed, and what a mover reports is so.                *)
(*                                                                         *)
(* Every action is first reduced to what it does to the control of the     *)
(* process that takes it (Control) and to the files (Effect); what follows *)
(* has three and five cases instead of forty.                              *)
(***************************************************************************)
EXTENDS Session, SequenceTheorems, TLAPS

Labels == Outside \cup Inside

(* A step that does not touch the lock never enters it; it is entered when *)
(* it is free, and who gives it up is outside.                             *)
Control(p) ==
    /\ \E l \in Labels, e \in Exceptions : Raise(p, e, l)
    /\ pid' \in {pid, p, Nobody}
    /\ \/ holder' = holder /\ (pc[p] \in Outside => pc'[p] \in Outside)
       \/ holder = Nobody /\ holder' = p
       \/ holder' = (IF holder = p THEN Nobody ELSE holder) /\ pc'[p] \in Outside

(* Nothing happens to the files; the plan is dropped; a plan is made; a    *)
(* move is carried out; or the harness changes its fixtures.               *)
Quiet(p)    == UNCHANGED files /\ (pc'[p] \in Acting => pc[p] \in Acting)
Dropped(p)  == Planned(p, {}) /\ UNCHANGED disk
Made(p)     == UNCHANGED disk /\ \E N \in {Names, FixtureNames} :
                                     \E s \in Plans(N) : Planned(p, s)
Moved(p)    == pc[p] \in Acting /\ \E m \in plan[p] : Commit(p, m) \/ Remove(p, m)
Fixtured(p) == /\ UNCHANGED moves
               /\ disk' \subseteq disk \cup ({First} \X FixtureNames)
               /\ pc[p] \in Inside \ Acting
               /\ pc'[p] \notin Acting

Effect(p) == Quiet(p) \/ Dropped(p) \/ Made(p) \/ Moved(p) \/ Fixtured(p)

Changes(p) == Control(p) /\ Effect(p)

USE DEF Labels, Outside, Inside, Stopped, Acting, Exceptions

LEMMA LockingChanges ==
    ASSUME TypeOK, NEW p \in Procs, Locking(p)
    PROVE  Changes(p)
<1> USE DEF TypeOK, Changes, Control, Effect, Quiet, Dropped, Go, Raise, lock, local, files, moves
<1>1. CASE OpenLock(p)  BY <1>1 DEF OpenLock
<1>2. CASE Acquire(p)   BY <1>2 DEF Acquire
<1>3. CASE Busy(p)      BY <1>3 DEF Busy
<1>4. CASE WritePid(p)  BY <1>4 DEF WritePid
<1>5. CASE Unlock(p)    BY <1>5 DEF Unlock
<1> QED BY <1>1, <1>2, <1>3, <1>4, <1>5 DEF Locking

-----------------------------------------------------------------------------
(* The steps of a mover.                                                   *)

LEMMA PreparationChanges ==
    ASSUME TypeOK, NEW p \in Procs,
           Start(p) \/ Configure(p) \/ Discover(p) \/ MakePlan(p) \/ Publish(p) \/ Announce(p)
    PROVE  Changes(p)
<1> USE DEF TypeOK, Changes, Control, Effect, Quiet, Dropped, Go, Raise, lock, local, files, moves
<1>1. CASE Start(p)            BY <1>1 DEF Start, Alive
<1>2. CASE Configure(p)        BY <1>2 DEF Configure
<1>3. CASE Discover(p)         BY <1>3 DEF Discover
<1>4. CASE MakePlan(p)         BY <1>4 DEF MakePlan, Made
<1>5. CASE WriteTemp(p)        BY <1>5 DEF WriteTemp
<1>6. CASE ReplaceSnapshot(p)  BY <1>6 DEF ReplaceSnapshot
<1>7. CASE SyncDirectory(p)    BY <1>7 DEF SyncDirectory
<1>8. CASE UnlinkTemp(p)       BY <1>8 DEF UnlinkTemp
<1>9. CASE Announce(p)
  <2>1. /\ pc[p] = "announce"
        /\ \/ \E l \in {"install", "unlock"} : Go(p, l)
           \/ Raise(p, "failed", "unlock")
        /\ UNCHANGED <<lock, files>>
        BY <1>9 DEF Announce, Flush, FlushFails
  <2> QED BY <2>1
<1> QED BY <1>1, <1>2, <1>3, <1>4, <1>5, <1>6, <1>7, <1>8, <1>9 DEF Publish

LEMMA ExecutionChanges ==
    ASSUME TypeOK, NEW p \in Procs,
           \/ Handlers(p) \/ Execute(p) \/ Executed(p) \/ Restore(p)
           \/ \E e \in {"failed", "cancelled", "uncaught"} : ExecutionRaises(p, e)
    PROVE  Changes(p)
<1> USE DEF TypeOK, Changes, Control, Effect, Quiet, Go, Raise, lock, local, files, moves
<1>1. CASE Handlers(p)
  <2>1. /\ \/ pc[p] = "install" /\ Go(p, "install2")
           \/ pc[p] = "install2" /\ Go(p, "execute")
        /\ UNCHANGED <<lock, files>>
        BY <1>1 DEF Handlers
  <2> QED BY <2>1
<1>2. CASE Execute(p)   BY <1>2 DEF Execute, Moved
<1>3. CASE Executed(p)  BY <1>3 DEF Executed
<1>4. CASE Restore(p)
  <2>1. /\ \/ pc[p] = "restore" /\ Go(p, "restore2")
           \/ pc[p] = "restore2" /\ Go(p, "unlock")
        /\ UNCHANGED <<lock, files>>
        BY <1>4 DEF Restore
  <2> QED BY <2>1
<1>5. CASE \E e \in {"failed", "cancelled", "uncaught"} : ExecutionRaises(p, e)
      BY <1>5 DEF ExecutionRaises
<1> QED BY <1>1, <1>2, <1>3, <1>4, <1>5

LEMMA EndChanges ==
    ASSUME TypeOK, NEW p \in Procs,
           \/ Finish(p) \/ Report(p) \/ Traceback(p) \/ Exit(p) \/ Fail(p)
           \/ \E s \in {"TERM", "INT"} : Signal(p, s)
           \/ Interrupt(p) \/ Terminate(p) \/ Kill(p) \/ ReaderGone(p)
    PROVE  Changes(p)
<1> USE DEF TypeOK, Changes, Control, Effect, Quiet, Dropped, Go, Raise, lock, local, files, moves
<1>1. CASE Finish(p)
  <2>1. /\ pc[p] = "after"
        /\ Go(p, "exit") \/ Raise(p, "failed", "after")
        /\ UNCHANGED <<lock, files>>
        BY <1>1 DEF Finish, Exits, Flush, FlushFails
  <2> QED BY <2>1
<1>2. CASE Report(p)
  <2>1. pc[p] = "after" /\ Go(p, "exit") /\ UNCHANGED <<lock, files>>
        BY <1>2 DEF Report, Exits
  <2> QED BY <2>1
<1>3. CASE Traceback(p)   BY <1>3 DEF Traceback, Exits
<1>4. CASE Exit(p)        BY <1>4 DEF Exit
<1>5. CASE Fail(p)        BY <1>5 DEF Fail, Handler
<1>6. CASE \E s \in {"TERM", "INT"} : Signal(p, s)  BY <1>6 DEF Signal
<1>7. CASE Interrupt(p)   BY <1>7 DEF Interrupt, Handler, Alive
<1>8. CASE Terminate(p)   BY <1>8 DEF Terminate, Die
<1>9. CASE Kill(p)        BY <1>9 DEF Kill, Die
<1>10. CASE ReaderGone(p) BY <1>10 DEF ReaderGone
<1> QED BY <1>1, <1>2, <1>3, <1>4, <1>5, <1>6, <1>7, <1>8, <1>9, <1>10

(* The steps of a harness.                                                 *)

LEMMA HarnessChanges ==
    ASSUME TypeOK, NEW p \in Harnesses, StartHarness(p) \/ HarnessStep(p)
    PROVE  Changes(p)
<1> USE DEF TypeOK, Changes, Control, Effect, Quiet, Dropped, Go, Raise, ToSweep,
            lock, local, files, moves
<1>0. p \in Procs BY DEF Procs
<1>1. CASE StartHarness(p) BY <1>0, <1>1 DEF StartHarness, Alive
<1>2. CASE Locking(p)      BY <1>0, <1>2, LockingChanges
<1>3. CASE Prepare(p)      BY <1>0, <1>3 DEF Prepare
<1>4. CASE CheckFree(p)    BY <1>0, <1>4 DEF CheckFree
<1>5. CASE Create(p)
  <2>1. Fixtures[made[p] + 1] \in FixtureNames
        BY <1>5, SessionAssumption DEF Create, FixtureNames
  <2> QED BY <1>0, <1>5, <2>1 DEF Create, Fixtured
<1>6. CASE PlanFixtures(p) BY <1>0, <1>6 DEF PlanFixtures, Made
<1>7. CASE MoveFixture(p)  BY <1>0, <1>7 DEF MoveFixture, Moved
<1>8. CASE Verify(p)       BY <1>0, <1>8 DEF Verify
<1>9. CASE Sweep(p)        BY <1>0, <1>9 DEF Sweep, Fixtured
<1>10. CASE Swept(p)       BY <1>0, <1>10 DEF Swept
<1>11. CASE Leave(p)       BY <1>0, <1>11 DEF Leave
<1>12. CASE HarnessFails(p) BY <1>0, <1>12 DEF HarnessFails
<1> QED BY <1>1, <1>2, <1>3, <1>4, <1>5, <1>6, <1>7, <1>8, <1>9, <1>10, <1>11, <1>12
        DEF HarnessStep

-----------------------------------------------------------------------------
(* A step of Session is a power failure or changes the state of one        *)
(* process.                                                                *)
Powered ==
    /\ pc' \in [Procs -> Labels]
    /\ \A p \in Procs : pc'[p] \in Stopped
    /\ holder' = Nobody /\ pid' = Nobody
    /\ UNCHANGED <<exc, files>>

LEMMA NextChanges ==
    ASSUME TypeOK, Next
    PROVE  Powered \/ \E p \in Procs : Changes(p)
<1>1. CASE PowerFailure BY <1>1 DEF PowerFailure, Powered, TypeOK, Alive
<1>2. ASSUME NEW p \in Procs, Begin(p) \/ Step(p)
      PROVE  Changes(p)
      BY <1>2, LockingChanges, PreparationChanges, ExecutionChanges, EndChanges, HarnessChanges
      DEF Begin, Step, MoverStep
<1>3. ASSUME NEW p \in Procs,
             Kill(p) \/ (p \in Movers /\ (ReaderGone(p) \/ Signals(p)))
      PROVE  Changes(p)
      BY <1>3, EndChanges DEF Signals
<1> QED BY <1>1, <1>2, <1>3 DEF Next, Fault, Procs

(* Types.                                                                  *)

MadeOK == made \in [Harnesses -> 0..Len(Fixtures)]

LEMMA MadeType ==
    ASSUME TypeOK, [Next]_vars
    PROVE  MadeOK'
<1> USE SessionAssumption DEF TypeOK, MadeOK
<1>1. CASE UNCHANGED harnessVars BY <1>1 DEF harnessVars
<1>2. ASSUME NEW p \in Harnesses, StartHarness(p) PROVE MadeOK'
      BY <1>2 DEF StartHarness
<1>3. ASSUME NEW p \in Harnesses, Create(p) PROVE MadeOK'
      BY <1>3 DEF Create
<1>4. ASSUME NEW p \in Harnesses, HarnessStep(p), ~Create(p) PROVE UNCHANGED made
      BY <1>4 DEF HarnessStep, harnessVars, Prepare, CheckFree, PlanFixtures, MoveFixture,
                  Verify, Sweep, Swept, Leave, HarnessFails, ToSweep
<1> QED BY <1>1, <1>2, <1>3, <1>4
        DEF Next, Begin, Step, Fault, Kill, ReaderGone, PowerFailure, vars, harnessVars

LEMMA PlansType ==
    ASSUME NEW N \in {Names, FixtureNames}, NEW s \in Plans(N)
    PROVE  /\ s \subseteq Moves(AllNames)
           /\ \A m \in s : Source(m) \in disk /\ Target(m) \notin disk
           /\ \A m, n \in s : Source(m) = Source(n) => m = n
BY DEF Plans, Moves, AllNames

LEMMA TypeStep ==
    ASSUME TypeOK, [Next]_vars
    PROVE  TypeOK'
<1>1. MadeOK' BY MadeType
<1>2. CASE UNCHANGED vars BY <1>2 DEF vars, lock, local, files, moves, harnessVars, TypeOK
<1>3. CASE Powered BY <1>1, <1>3 DEF Powered, files, moves, TypeOK, MadeOK
<1>4. ASSUME NEW p \in Procs, Changes(p) PROVE TypeOK'
  <2>1. /\ pc' \in [Procs -> Outside \cup Inside] /\ exc' \in [Procs -> Exceptions]
        /\ holder' \in Procs \cup {Nobody} /\ pid' \in Procs \cup {Nobody}
        BY <1>4 DEF Changes, Control, Raise, TypeOK
  <2>2. /\ disk' \subseteq Branches \X AllNames
        /\ plan' \in [Procs -> SUBSET Moves(AllNames)]
        /\ placed' \in [Procs -> SUBSET Moves(AllNames)]
        /\ removed' \in [Procs -> SUBSET Moves(AllNames)]
    <3>1. CASE Quiet(p) BY <3>1 DEF Quiet, files, moves, TypeOK
    <3>2. CASE Dropped(p) BY <3>2 DEF Dropped, Planned, TypeOK
    <3>3. CASE Made(p) BY <3>3, PlansType DEF Made, Planned, TypeOK
    <3>4. CASE Moved(p)
      <4>1. PICK m \in plan[p] : Commit(p, m) \/ Remove(p, m) BY <3>4 DEF Moved
      <4>2. m \in Moves(AllNames) BY DEF TypeOK
      <4>3. Target(m) \in Branches \X AllNames
            BY <4>2 DEF Moves, Target
      <4> QED BY <4>1, <4>2, <4>3 DEF Commit, Remove, TypeOK
    <3>5. CASE Fixtured(p)
      <4>1. {First} \X FixtureNames \subseteq Branches \X AllNames
            BY SessionAssumption DEF Branches, AllNames
      <4> QED BY <3>5, <4>1 DEF Fixtured, moves, TypeOK
    <3> QED BY <1>4, <3>1, <3>2, <3>3, <3>4, <3>5 DEF Changes, Effect
  <2> QED BY <1>1, <2>1, <2>2 DEF TypeOK, MadeOK
<1> QED BY <1>2, <1>3, <1>4, NextChanges

LEMMA InitType ==
    ASSUME Init
    PROVE  TypeOK
<1>1. made \in [Harnesses -> 0..Len(Fixtures)] BY SessionAssumption DEF Init
<1> QED BY <1>1, SessionAssumption DEF Init, TypeOK, Branches, AllNames

(* The processes and branches of the model have the types TypeOK gives.    *)
THEOREM TypeCorrect == Spec => []TypeOK
<1>1. Init => TypeOK BY InitType
<1> QED BY <1>1, TypeStep, PTL DEF Spec

-----------------------------------------------------------------------------
(* Mutual exclusion: who is inside has the lock.                           *)
LockInv == \A p \in Procs : pc[p] \notin Outside => holder = p

LEMMA LockStep ==
    ASSUME TypeOK, LockInv, [Next]_vars
    PROVE  LockInv'
<1>1. CASE UNCHANGED vars BY <1>1 DEF vars, lock, local, LockInv
<1>2. CASE Powered BY <1>2 DEF Powered, LockInv
<1>3. ASSUME NEW p \in Procs, Changes(p) PROVE LockInv'
  <2>1. PICK l \in Labels : pc' = [pc EXCEPT ![p] = l] BY <1>3 DEF Changes, Control, Raise
  <2>2. \A q \in Procs : q # p => pc'[q] = pc[q] BY <2>1 DEF TypeOK
  <2> QED BY <1>3, <2>2, ProcessAssumption DEF Changes, Control, LockInv
<1> QED BY <1>1, <1>2, <1>3, NextChanges

LEMMA LockSafety == Spec => [](TypeOK /\ LockInv)
<1>1. Init => LockInv BY DEF Init, LockInv
<1> QED BY <1>1, LockStep, TypeCorrect, PTL DEF Spec

(* At most one process is between taking the lock and releasing it         *)
(* (locking.process_lock), whatever the contenders, signals and kills.     *)
THEOREM ExclusionSafety == Spec => []OneInside
<1>1. LockInv => OneInside BY DEF LockInv, OneInside
<1> QED BY <1>1, LockSafety, PTL

-----------------------------------------------------------------------------
(* The plan of the process inside stays true of the disk: sources of one   *)
(* plan differ and are no targets, what is removed was placed, and nobody  *)
(* else touches the files.                                                 *)
PlanInv ==
    \A p \in Procs :
        /\ removed[p] \subseteq placed[p] /\ placed[p] \subseteq plan[p]
        /\ \A m, n \in plan[p] : Source(m) # Target(n)
        /\ \A m, n \in plan[p] : Source(m) = Source(n) => m = n

IInv == TypeOK /\ LockInv /\ PlanInv /\ PlanFresh

LEMMA PlanStep ==
    ASSUME TypeOK, PlanInv, [Next]_vars
    PROVE  PlanInv'
<1> USE DEF PlanInv
<1>1. CASE UNCHANGED vars BY <1>1 DEF vars, files, moves, Source, Target
<1>2. CASE Powered BY <1>2 DEF Powered, files, moves, Source, Target
<1>3. ASSUME NEW p \in Procs, Changes(p) PROVE PlanInv'
  <2>1. CASE UNCHANGED moves BY <2>1 DEF moves, Source, Target
  <2>2. CASE Planned(p, {}) BY <2>2 DEF Planned, TypeOK, Source, Target
  <2>3. CASE Made(p)
    <3>1. PICK N \in {Names, FixtureNames} : \E s \in Plans(N) : Planned(p, s)
          BY <2>3 DEF Made
    <3>2. PICK s \in Plans(N) : Planned(p, s) BY <3>1
    <3>3. /\ \A m, n \in s : Source(m) # Target(n)
          /\ \A m, n \in s : Source(m) = Source(n) => m = n
          BY PlansType
    <3>4. /\ plan'[p] = s /\ placed'[p] = {} /\ removed'[p] = {}
          /\ \A q \in Procs : q # p => /\ plan'[q] = plan[q] /\ placed'[q] = placed[q]
                                       /\ removed'[q] = removed[q]
          BY <3>2 DEF Planned, TypeOK
    <3> QED BY <3>3, <3>4 DEF Source, Target
  <2>4. CASE Moved(p) BY <2>4 DEF Moved, Commit, Remove, TypeOK, Source, Target
  <2> QED BY <1>3, <2>1, <2>2, <2>3, <2>4
          DEF Changes, Effect, Quiet, Dropped, Fixtured, files
<1> QED BY <1>1, <1>2, <1>3, NextChanges

LEMMA FreshStep ==
    ASSUME IInv, LockInv', [Next]_vars
    PROVE  PlanFresh'
<1> USE DEF PlanFresh
<1>1. CASE UNCHANGED vars
      BY <1>1 DEF IInv, vars, local, files, moves, Source, Target
<1>2. CASE Powered BY <1>2 DEF Powered
<1>3. ASSUME NEW p \in Procs, Changes(p) PROVE PlanFresh'
  <2>1. \A q \in Procs : q # p => pc'[q] = pc[q]
        BY <1>3 DEF Changes, Control, Raise, IInv, TypeOK
  <2>2. pc[p] \in Inside => \A q \in Procs : q # p => pc[q] \in Outside
        BY DEF IInv, LockInv, TypeOK
  <2>3. CASE Quiet(p)
    <3>1. /\ plan' = plan /\ placed' = placed /\ removed' = removed /\ disk' = disk
          /\ \A q \in Procs : pc'[q] \in Acting => pc[q] \in Acting
          BY <2>1, <2>3 DEF Quiet, files, moves
    <3> QED BY <3>1 DEF IInv, Source, Target
  <2>4. CASE Dropped(p)
        BY <2>1, <2>4 DEF Dropped, Source, Target, Planned, IInv, TypeOK
  <2>5. CASE Made(p)
        BY <2>1, <2>5, PlansType DEF Made, Planned, IInv, TypeOK
  <2>6. CASE Fixtured(p)
        BY <2>1, <2>2, <2>6 DEF IInv, Fixtured, moves
  <2>7. CASE Moved(p)
    <3>1. PICK m \in plan[p] : Commit(p, m) \/ Remove(p, m) BY <2>7 DEF Moved
    <3>2. \A q \in Procs : q # p => pc'[q] \notin Acting BY <2>1, <2>2, <2>7 DEF Moved
    <3>3. /\ \A n \in plan[p] : /\ n \notin removed[p] => Source(n) \in disk
                                /\ Target(n) \in disk <=>
                                      \E o \in placed[p] : Target(o) = Target(n)
          BY <2>7 DEF Moved, IInv
    <3>4. CASE Commit(p, m)
          BY <3>2, <3>3, <3>4 DEF Commit, IInv, TypeOK
    <3>5. CASE Remove(p, m)
      <4>1. /\ disk' = disk \ {Source(m)} /\ removed'[p] = removed[p] \cup {m}
            /\ plan' = plan /\ placed' = placed /\ m \in plan[p]
            BY <3>1, <3>5 DEF Remove, IInv, TypeOK
      <4>2. /\ \A n, o \in plan[p] : Source(n) # Target(o)
            /\ \A n, o \in plan[p] : Source(n) = Source(o) => n = o
            BY DEF IInv, PlanInv
      <4>3. \A n \in plan[p] : n \notin removed'[p] => Source(n) \in disk'
            BY <3>3, <4>1, <4>2
      <4>4. \A n \in plan[p] : Target(n) \in disk' <=>
                                   \E o \in placed'[p] : Target(o) = Target(n)
            BY <3>3, <4>1, <4>2
      <4> QED BY <3>2, <4>1, <4>3, <4>4 DEF Source, Target
    <3> QED BY <3>1, <3>4, <3>5
  <2> QED BY <1>3, <2>3, <2>4, <2>5, <2>6, <2>7 DEF Changes, Effect
<1> QED BY <1>1, <1>2, <1>3, NextChanges DEF IInv

(* Until a process has carried out its plan, sources it has still to move  *)
(* are there and its destinations are free of files of others: the lock    *)
(* keeps what planner.plan_moves saw true of the movers and harnesses.     *)
THEOREM FreshSafety == Spec => []PlanFresh
<1>1. Init => IInv
  <2> SUFFICES ASSUME Init PROVE IInv OBVIOUS
  <2> QED BY InitType DEF Init, IInv, PlanInv, LockInv, PlanFresh
<1>2. IInv /\ [Next]_vars => IInv'
      BY TypeStep, LockStep, PlanStep, FreshStep DEF IInv
<1>3. IInv => PlanFresh BY DEF IInv
<1> QED BY <1>1, <1>2, <1>3, PTL DEF Spec

-----------------------------------------------------------------------------
(* The fixtures of the integration harness (test_suite.run).               *)
FixtureFiles == Branches \X FixtureNames

(* Before it has created one a harness has made none; those it has still   *)
(* to create are free; what is left of them its cleanup will look at, and  *)
(* it keeps the lock until it has.                                         *)
FixtureOK(p) ==
    /\ pc[p] \in {"config", "open", "flock", "write", "discover", "check"} => made[p] = 0
    /\ pc[p] = "create" =>
          \A k \in (made[p] + 1)..Len(Fixtures) : <<First, Fixtures[k]>> \notin disk
    /\ pc[p] = "sweep" => disk \cap FixtureFiles \subseteq unswept[p]
    /\ pc[p] = "unlock" /\ made[p] = Len(Fixtures) /\ unswept[p] = {} =>
          FixtureFiles = {} \/ (holder = p /\ disk \cap FixtureFiles = {})

FixtureInv == DOMAIN unswept = Harnesses /\ \A p \in Harnesses : FixtureOK(p)

LEMMA NoFixtures == Len(Fixtures) = 0 => FixtureFiles = {}
BY SessionAssumption DEF FixtureFiles, FixtureNames

LEMMA FixtureLength ==
    /\ Len(Fixtures) \in Nat
    /\ \A k \in 1..Len(Fixtures) : Fixtures[k] \in FixtureNames
    /\ \A j, k \in 1..Len(Fixtures) : Fixtures[j] = Fixtures[k] => j = k
BY SessionAssumption DEF FixtureNames

(* A harness changes its own state only, and counts what it creates.       *)
LEMMA HarnessFrame ==
    ASSUME DOMAIN unswept = Harnesses, TypeOK,
           NEW p \in Harnesses, StartHarness(p) \/ HarnessStep(p)
    PROVE  /\ DOMAIN unswept' = Harnesses
           /\ \A q \in Harnesses \ {p} : made'[q] = made[q] /\ unswept'[q] = unswept[q]
           /\ made' = made \/ made'[p] = 0 \/ Create(p)
<1> USE DEF TypeOK, ToSweep
<1>1. CASE StartHarness(p) BY <1>1 DEF StartHarness
<1>2. CASE Locking(p) /\ UNCHANGED harnessVars BY <1>2 DEF harnessVars
<1>3. CASE Prepare(p) \/ CheckFree(p) \/ Swept(p) \/ Leave(p)
      BY <1>3 DEF Prepare, CheckFree, Swept, Leave, harnessVars
<1>4. CASE Create(p) BY <1>4 DEF Create
<1>5. CASE PlanFixtures(p) BY <1>5 DEF PlanFixtures
<1>6. CASE MoveFixture(p) BY <1>6 DEF MoveFixture, harnessVars
<1>7. CASE Verify(p) BY <1>7 DEF Verify
<1>8. CASE Sweep(p) BY <1>8 DEF Sweep
<1>9. CASE HarnessFails(p) BY <1>9 DEF HarnessFails, harnessVars
<1> QED BY <1>1, <1>2, <1>3, <1>4, <1>5, <1>6, <1>7, <1>8, <1>9 DEF HarnessStep

LEMMA HarnessFixtures ==
    ASSUME TypeOK, LockInv, FixtureInv,
           NEW p \in Harnesses, StartHarness(p) \/ HarnessStep(p)
    PROVE  FixtureOK(p)'
<1> USE FixtureLength DEF TypeOK, FixtureInv, FixtureOK, Go, Raise, files, harnessVars
<1>0. p \in Procs /\ made[p] \in 0..Len(Fixtures)
      BY DEF Procs
<1>1. CASE StartHarness(p) BY <1>0, <1>1 DEF StartHarness
<1>2. CASE Locking(p) /\ UNCHANGED harnessVars
  <2>1. CASE OpenLock(p) \/ Acquire(p) \/ WritePid(p)
        BY <1>0, <1>2, <2>1 DEF OpenLock, Acquire, WritePid
  <2>2. CASE Busy(p) BY <1>0, <1>2, <2>2, NoFixtures DEF Busy
  <2>3. CASE Unlock(p) BY <1>0, <1>2, <2>3 DEF Unlock
  <2> QED BY <1>2, <2>1, <2>2, <2>3 DEF Locking
<1>3. CASE Prepare(p) BY <1>0, <1>3 DEF Prepare
<1>4. CASE CheckFree(p)
  <2>1. CASE \E f \in FixtureNames : <<First, f>> \in disk
        BY <1>0, <1>4, <2>1, NoFixtures DEF CheckFree
  <2>2. CASE ~\E f \in FixtureNames : <<First, f>> \in disk
    <3>1. /\ pc'[p] = "create" /\ made'[p] = 0 /\ disk' = disk
          BY <1>0, <1>4, <2>2 DEF CheckFree
    <3>2. \A k \in 1..Len(Fixtures) : <<First, Fixtures[k]>> \notin disk
          BY <2>2
    <3> QED BY <3>1, <3>2
  <2> QED BY <2>1, <2>2
<1>5. CASE Create(p) BY <1>0, <1>5 DEF Create, local
<1>6. ASSUME NEW e, ToSweep(p, e) PROVE FixtureOK(p)'
  <2>1. pc'[p] = "sweep" /\ unswept'[p] = FixtureFiles
        BY <1>0, <1>6 DEF ToSweep, FixtureFiles
  <2> QED BY <2>1
<1>7. CASE PlanFixtures(p) BY <1>0, <1>6, <1>7 DEF PlanFixtures
<1>8. CASE MoveFixture(p) BY <1>0, <1>8 DEF MoveFixture, local
<1>9. CASE Verify(p) BY <1>6, <1>9 DEF Verify
<1>10. CASE Sweep(p) BY <1>0, <1>10 DEF Sweep, local
<1>11. CASE Swept(p)
  <2>1. holder = p BY <1>0, <1>11 DEF Swept, LockInv
  <2> QED BY <1>0, <1>11, <2>1 DEF Swept, lock
<1>12. CASE Leave(p) BY <1>0, <1>12 DEF Leave
<1>13. CASE HarnessFails(p)
  <2>1. CASE pc[p] = "sweep" /\ Raise(p, "failed", "unlock")
             /\ UNCHANGED <<lock, files, harnessVars>>
    <3>1. holder = p BY <1>0, <2>1 DEF LockInv
    <3> QED BY <1>0, <2>1, <3>1 DEF lock
  <2>2. CASE pc[p] \in {"config", "open"} /\ Raise(p, "failed", "after")
        BY <1>0, <2>2
  <2>3. CASE /\ \/ pc[p] \in {"write", "discover", "check"}
                \/ pc[p] = "create" /\ made[p] < Len(Fixtures)
             /\ Raise(p, "failed", "unlock")
             /\ UNCHANGED <<lock, files, harnessVars>>
        BY <1>0, <2>3, NoFixtures
  <2> QED BY <1>6, <1>13, <2>1, <2>2, <2>3 DEF HarnessFails
<1> QED BY <1>1, <1>2, <1>3, <1>4, <1>5, <1>7, <1>8, <1>9, <1>10, <1>11, <1>12, <1>13
        DEF HarnessStep

(* Who is not inside changes no file.                                      *)
LEMMA OutsideKeepsDisk ==
    ASSUME NEW p \in Procs, Changes(p), pc[p] \in Outside
    PROVE  disk' = disk
BY DEF Changes, Effect, Quiet, Dropped, Planned, Made, Moved, Fixtured, files

(* A harness that is inside, or cleans up, or has just cleaned up, keeps   *)
(* everybody else from the files.                                          *)
LEMMA OthersKeepFixtures ==
    ASSUME TypeOK, LockInv, NEW q \in Procs, Changes(q), NEW p \in Harnesses \ {q},
           FixtureOK(p), made'[p] = made[p], unswept'[p] = unswept[p]
    PROVE  FixtureOK(p)'
<1>1. p \in Procs /\ pc'[p] = pc[p]
      BY DEF Changes, Control, Raise, TypeOK, Procs
<1>2. ASSUME holder = p PROVE disk' = disk /\ holder' = p
  <2>1. pc[q] \in Outside BY <1>2 DEF LockInv
  <2> QED BY <1>1, <1>2, <2>1, OutsideKeepsDisk, ProcessAssumption DEF Changes, Control
<1>3. pc[p] \in {"create", "sweep"} => holder = p
      BY <1>1 DEF LockInv
<1> QED BY <1>1, <1>2, <1>3 DEF FixtureOK

LEMMA FixtureStep ==
    ASSUME TypeOK, LockInv, FixtureInv, [Next]_vars
    PROVE  FixtureInv'
<1>1. CASE UNCHANGED vars
      BY <1>1 DEF vars, lock, local, files, harnessVars, FixtureInv, FixtureOK
<1>2. CASE PowerFailure /\ UNCHANGED harnessVars
      BY <1>2 DEF PowerFailure, FixtureInv, FixtureOK, harnessVars, TypeOK, Alive, Procs
<1>3. ASSUME NEW q \in Procs, Changes(q), UNCHANGED harnessVars,
             q \in Harnesses => pc'[q] = "dead"
      PROVE  FixtureInv'
  <2>1. ASSUME NEW p \in Harnesses PROVE FixtureOK(p)'
    <3>1. CASE p = q BY <1>3, <3>1 DEF FixtureOK
    <3>2. CASE p # q BY <1>3, <3>2, OthersKeepFixtures DEF FixtureInv, harnessVars
    <3> QED BY <3>1, <3>2
  <2> QED BY <1>3, <2>1 DEF FixtureInv, harnessVars
<1>4. ASSUME NEW p \in Movers, Begin(p) \/ Step(p) PROVE FixtureInv'
  <2>1. p \in Procs /\ p \notin Harnesses BY ProcessAssumption DEF Procs
  <2>2. Changes(p) /\ UNCHANGED harnessVars
        BY <1>4, <2>1, LockingChanges, PreparationChanges, ExecutionChanges, EndChanges
        DEF Begin, Step, MoverStep
  <2> QED BY <1>3, <2>1, <2>2
<1>5. ASSUME NEW p \in Harnesses, Begin(p) \/ Step(p) PROVE FixtureInv'
  <2>1. p \in Procs /\ p \notin Movers BY ProcessAssumption DEF Procs
  <2>2. StartHarness(p) \/ HarnessStep(p) BY <1>5, <2>1 DEF Begin, Step
  <2>3. Changes(p) BY <2>2, HarnessChanges
  <2>4. /\ DOMAIN unswept' = Harnesses
        /\ \A q \in Harnesses \ {p} : made'[q] = made[q] /\ unswept'[q] = unswept[q]
        BY <2>2, HarnessFrame DEF FixtureInv
  <2>5. \A q \in Harnesses \ {p} : FixtureOK(q)'
        BY <2>1, <2>3, <2>4, OthersKeepFixtures DEF FixtureInv
  <2> QED BY <2>2, <2>4, <2>5, HarnessFixtures DEF FixtureInv
<1>6. ASSUME NEW p \in Procs, Kill(p) PROVE FixtureInv'
  <2>1. pc'[p] = "dead" /\ UNCHANGED harnessVars
        BY <1>6 DEF Kill, Die, Raise, TypeOK
  <2> QED BY <1>3, <1>6, <2>1, EndChanges
<1>7. ASSUME NEW p \in Movers, ReaderGone(p) \/ Signals(p), UNCHANGED harnessVars
      PROVE  FixtureInv'
  <2>1. p \in Procs /\ p \notin Harnesses BY ProcessAssumption DEF Procs
  <2> QED BY <1>3, <1>7, <2>1, EndChanges DEF Signals
<1>8. CASE Fault
      BY <1>2, <1>6, <1>7, <1>8 DEF Fault, ReaderGone, PowerFailure
<1> QED BY <1>1, <1>4, <1>5, <1>8 DEF Next, Procs

LEMMA FixtureSafety == Spec => [](TypeOK /\ LockInv /\ FixtureInv)
<1>1. Init => FixtureInv BY DEF Init, FixtureInv, FixtureOK, Procs
<1> QED BY <1>1, FixtureStep, LockSafety, PTL DEF Spec

(* A harness that created all its fixtures and whose cleanup looked at all *)
(* its names leaves none on any branch, wherever its moves or an earlier   *)
(* mover brought them (the finally block of test_suite.run).               *)
THEOREM SweptSafety == Spec => []FixturesSwept
<1>1. FixtureInv => FixturesSwept
      BY DEF FixtureInv, FixtureOK, FixturesSwept, FixtureFiles
<1> QED BY <1>1, FixtureSafety, PTL

(* No fixture is created over a file that is there: the lock keeps the     *)
(* names free between the check of all and the creation of the last.       *)
THEOREM OverwriteSafety == Spec => NoOverwrite
<1>1. ASSUME TypeOK, FixtureInv, Next, NEW p \in Harnesses, made'[p] > made[p]
      PROVE  <<First, Fixtures[made'[p]]>> \notin disk
  <2>1. PICK q \in Harnesses : StartHarness(q) \/ HarnessStep(q)
        BY <1>1, FixtureLength DEF Next, Begin, Step, Fault, Kill, ReaderGone, PowerFailure,
           harnessVars, TypeOK
  <2>2. q = p
        BY <1>1, <2>1, HarnessFrame, FixtureLength DEF FixtureInv, TypeOK
  <2>3. CASE Create(p)
        BY <1>1, <2>3, FixtureLength DEF Create, FixtureInv, FixtureOK, TypeOK
  <2>4. CASE ~Create(p)
        BY <1>1, <2>1, <2>2, <2>4, HarnessFrame, FixtureLength DEF FixtureInv, TypeOK
  <2> QED BY <2>3, <2>4
<1>2. TypeOK /\ FixtureInv /\ [Next]_vars =>
         [\A p \in Harnesses : made'[p] > made[p] => <<First, Fixtures[made'[p]]>> \notin disk]_vars
      BY <1>1
<1> QED BY <1>2, FixtureSafety, PTL DEF Spec, NoOverwrite

-----------------------------------------------------------------------------
(* The results and the accounting of a mover (cli.main).  The theorems     *)
(* below follow from an invariant that says of every mover, step by step,  *)
(* what its buffer may hold and how its scan relates to the snapshots.     *)
Snapshots == [scan : Nat, synced : BOOLEAN]

Lines == Remarks \cup {"planned", "completed", "failed", "cancelled"}

RunRecord == [mode : {"human", "json", "events"}, live : BOOLEAN, excluding : BOOLEAN,
              handled : SUBSET {"TERM", "INT"}, cancel : BOOLEAN,
              scan : Nat, temp : Snapshots, code : Int,
              buf : Seq(Lines), out : Seq(Lines), reader : BOOLEAN]

RunType ==
    /\ run \in [Movers -> RunRecord]
    /\ scans \in Nat
    /\ snapshot \in Snapshots /\ safe \in Snapshots

(* Before anything but an event may have been printed: no exception, or    *)
(* one on its way through the finally block of publish_snapshot.           *)
Preparing == {"config", "open", "flock", "write", "discover", "plan", "temp", "replace",
              "dirsync", "announce", "install", "install2", "execute"}

(* What a mover has printed while it works.  An event that could not be    *)
(* flushed stays in the buffer of a process without a reader.              *)
Printing(p) ==
    /\ run[p].code = 0
    /\ NoResult(run[p].out)
    /\ pc[p] \in Preparing => exc[p] = "none"
    /\ pc[p] \in Preparing \cup {"untemp"} \/ exc[p] \in {"none", "uncaught"}
          => NoResult(run[p].buf)
    /\ run[p].mode # "human" /\ run[p].reader => NoResult(run[p].buf)
    /\ run[p].mode = "human" /\ exc[p] = "failed" =>
          NoResult(run[p].buf) \/ OneResult(run[p].buf, "failed")
    /\ run[p].mode = "json" => NoResult(run[p].buf)
    /\ exc[p] = "cancelled" =>
          /\ run[p].cancel
          /\ run[p].mode = "human" => OneResult(run[p].buf, "cancelled")

(* What ExitTruth says of one mover that ends.                             *)
Truthful(p) ==
    /\ Status(p) \in {-1, 0, 1, 120, 130}
    /\ Status(p) = 0 =>
          exc[p] = "none" /\ OneResult(Delivered(p), IF run[p].live THEN "completed" ELSE "planned")
    /\ Status(p) = 130 => run[p].cancel /\ OneResult(Delivered(p), "cancelled")
    /\ Status(p) = 1 =>
          \/ NoResult(Delivered(p)) /\ (exc[p] = "uncaught" \/ ~Machine(p))
          \/ OneResult(Delivered(p), "failed") /\ exc[p] # "uncaught"
    /\ Status(p) = 120 => ~run[p].reader
    /\ Status(p) = -1 => exc[p] = "interrupt"

ReportOK(p) ==
    /\ pc[p] \notin {"move", "check", "create", "sweep"}
    /\ Alive(p) /\ pc[p] # "exit" => Printing(p)
    /\ pc[p] = "exit" => Truthful(p)

(* From its scan on, the snapshots are no newer than the scan of the mover *)
(* inside; once it has published without an exception they hold it.        *)
Publishing(p) == (pc[p] = "plan" /\ run[p].excluding) \/ pc[p] \in {"temp", "replace"}
Published(p)  ==
    \/ pc[p] \in {"untemp", "unlock", "after"} /\ exc[p] = "none"
    \/ pc[p] \in {"announce", "install", "install2", "execute", "restore", "restore2"}
    \/ pc[p] = "exit" /\ run[p].code = 0

ScanOK(p) ==
    /\ run[p].scan <= scans
    /\ Publishing(p) => snapshot.scan <= run[p].scan
    /\ pc[p] = "plan" /\ ~run[p].excluding => run[p].scan = 0
    /\ pc[p] = "replace" => run[p].temp = [scan |-> run[p].scan, synced |-> TRUE]
    /\ pc[p] = "dirsync" => snapshot.scan = run[p].scan
    /\ Published(p) => run[p].scan <= safe.scan

ScansOK ==
    /\ snapshot.synced /\ safe.synced
    /\ safe.scan <= snapshot.scan /\ snapshot.scan <= scans

RunInv ==
    /\ RunType
    /\ ScansOK
    /\ \A p \in Movers : ReportOK(p) /\ ScanOK(p)

-----------------------------------------------------------------------------
(* What was printed, as a sequence of lines.                               *)
LEMMA Literals ==
    ASSUME NEW a, NEW b
    PROVE  /\ DOMAIN <<a>> = {1} /\ <<a>>[1] = a
           /\ DOMAIN <<a, b>> = {1, 2} /\ <<a, b>>[1] = a /\ <<a, b>>[2] = b
OBVIOUS

LEMMA LiteralType ==
    ASSUME NEW S, NEW a \in S, NEW b \in S
    PROVE  <<a>> \in Seq(S) /\ <<a, b>> \in Seq(S)
<1>1. <<a>> = Append(<<>>, a) /\ <<a, b>> = Append(<<a>>, b) OBVIOUS
<1>2. Append(<<>>, a) \in Seq(S) OBVIOUS
<1>3. Append(<<a>>, b) \in Seq(S) BY <1>1, <1>2
<1> QED BY <1>1, <1>2, <1>3

LEMMA RemarkResult ==
    ASSUME NEW a \in Remarks
    PROVE  NoResult(<<a>>)
BY Literals DEF NoResult, ResultsIn

LEMMA LineResult ==
    ASSUME NEW a, a \notin Remarks, NEW b \in Remarks
    PROVE  OneResult(<<a>>, a) /\ OneResult(<<a, b>>, a)
<1>1. ResultsIn(<<a>>) = {1} BY Literals DEF ResultsIn
<1>2. ResultsIn(<<a, b>>) = {1} BY Literals DEF ResultsIn
<1> QED BY Literals, <1>1, <1>2 DEF OneResult

(* Printing what is no result changes no result.                           *)
LEMMA SilentBoth ==
    ASSUME NEW S, NEW s \in Seq(S), NEW t \in Seq(S), NoResult(s), NoResult(t)
    PROVE  NoResult(s \o t)
<1> SUFFICES ASSUME NEW j \in DOMAIN (s \o t) PROVE (s \o t)[j] \in Remarks
    BY DEF NoResult, ResultsIn
<1>1. CASE j <= Len(s) BY <1>1 DEF NoResult, ResultsIn
<1>2. CASE j > Len(s)
  <2>1. j - Len(s) \in DOMAIN t /\ t[j - Len(s)] = (s \o t)[j] BY <1>2
  <2> QED BY <2>1 DEF NoResult, ResultsIn
<1> QED BY <1>1, <1>2

LEMMA SilentAfter ==
    ASSUME NEW S, NEW s \in Seq(S), NEW t \in Seq(S), NoResult(t), NEW r, OneResult(s, r)
    PROVE  OneResult(s \o t, r)
<1>1. PICK k \in DOMAIN s : ResultsIn(s) = {k} /\ s[k] = r BY DEF OneResult
<1>2. k \in DOMAIN (s \o t) /\ (s \o t)[k] = r BY <1>1
<1>3. ResultsIn(s \o t) = {k}
  <2>1. ASSUME NEW j \in DOMAIN (s \o t), (s \o t)[j] \notin Remarks PROVE j = k
    <3>1. CASE j <= Len(s) BY <1>1, <2>1, <3>1 DEF ResultsIn
    <3>2. CASE j > Len(s)
      <4>1. j - Len(s) \in DOMAIN t /\ t[j - Len(s)] = (s \o t)[j] BY <3>2
      <4> QED BY <2>1, <4>1 DEF NoResult, ResultsIn
    <3> QED BY <3>1, <3>2
  <2>2. r \notin Remarks BY <1>1 DEF ResultsIn
  <2> QED BY <1>2, <2>1, <2>2 DEF ResultsIn
<1> QED BY <1>2, <1>3 DEF OneResult

LEMMA SilentBefore ==
    ASSUME NEW S, NEW s \in Seq(S), NEW t \in Seq(S), NoResult(s), NEW r, OneResult(t, r)
    PROVE  OneResult(s \o t, r)
<1>1. PICK k \in DOMAIN t : ResultsIn(t) = {k} /\ t[k] = r BY DEF OneResult
<1>2. k + Len(s) \in DOMAIN (s \o t) /\ (s \o t)[k + Len(s)] = r BY <1>1
<1>3. ResultsIn(s \o t) = {k + Len(s)}
  <2>1. ASSUME NEW j \in DOMAIN (s \o t), (s \o t)[j] \notin Remarks PROVE j = k + Len(s)
    <3>1. CASE j <= Len(s) BY <2>1, <3>1 DEF NoResult, ResultsIn
    <3>2. CASE j > Len(s)
      <4>1. j - Len(s) \in DOMAIN t /\ t[j - Len(s)] = (s \o t)[j] BY <3>2
      <4>2. j - Len(s) = k BY <1>1, <2>1, <4>1 DEF ResultsIn
      <4> QED BY <4>2, <1>1
    <3> QED BY <3>1, <3>2
  <2>2. r \notin Remarks BY <1>1 DEF ResultsIn
  <2> QED BY <1>2, <2>1, <2>2 DEF ResultsIn
<1> QED BY <1>2, <1>3 DEF OneResult

LEMMA Empty ==
    ASSUME NEW S, NEW s \in Seq(S)
    PROVE  s \o <<>> = s /\ <<>> \in Seq(S) /\ NoResult(<<>>)
BY DEF NoResult, ResultsIn

LEMMA NotEmpty ==
    ASSUME NEW S, NEW s \in Seq(S), NEW a, NEW b
    PROVE  s \o <<a>> # <<>> /\ s \o <<a, b>> # <<>>
OBVIOUS

LEMMA LineTypes ==
    /\ "prose" \in Remarks /\ "planned event" \in Remarks
    /\ \A a \in {"planned", "completed", "failed", "cancelled"} : a \notin Remarks
    /\ \A a \in Remarks \cup {"planned", "completed", "failed", "cancelled"} : a \in Lines
BY DEF Remarks, Lines

-----------------------------------------------------------------------------
(* What a step of a mover keeps.                                           *)
Own(p) ==
    /\ run' \in [Movers -> RunRecord]
    /\ \A q \in Movers \ {p} : run'[q] = run[q]

Time(p) ==
    /\ scans' \in Nat /\ snapshot' \in Snapshots /\ safe' \in Snapshots
    /\ ScansOK'
    /\ scans <= scans' /\ safe.scan <= safe'.scan
    /\ snapshot' # snapshot => pc[p] = "replace"

Keeps(p) == Own(p) /\ Time(p) /\ ReportOK(p)' /\ ScanOK(p)'

LEMMA NothingSaid ==
    ASSUME RunInv, NEW p, UNCHANGED moverVars
    PROVE  Own(p) /\ Time(p)
BY DEF RunInv, RunType, moverVars, outputs, published, Own, Time, ScansOK, Snapshots

LEMMA RunLocking ==
    ASSUME TypeOK, RunInv, NEW p \in Movers, Locking(p), UNCHANGED moverVars
    PROVE  Keeps(p)
<1> USE DEF Procs, TypeOK, RunInv, ReportOK, ScanOK, Printing, Preparing, Published, Publishing,
            Alive, Stopped, Go, Raise, moverVars, outputs, published
<1>1. CASE OpenLock(p)  BY <1>1, NothingSaid DEF OpenLock, Keeps
<1>2. CASE Acquire(p)   BY <1>2, NothingSaid DEF Acquire, Keeps
<1>3. CASE Busy(p)      BY <1>3, NothingSaid DEF Busy, Keeps
<1>4. CASE WritePid(p)  BY <1>4, NothingSaid DEF WritePid, Keeps
<1>5. CASE Unlock(p)    BY <1>5, NothingSaid DEF Unlock, Keeps
<1> QED BY <1>1, <1>2, <1>3, <1>4, <1>5 DEF Locking

(* The record of one mover is rewritten, those of the others stay.         *)
LEMMA Rewritten ==
    ASSUME RunType, NEW p \in Movers, NEW r \in RunRecord, run' = [run EXCEPT ![p] = r]
    PROVE  Own(p) /\ run'[p] = r
BY DEF Own, RunType

LEMMA RunDiscover ==
    ASSUME TypeOK, RunInv, NEW p \in Movers, Discover(p)
    PROVE  Keeps(p)
<1> DEFINE n == IF run[p].excluding THEN scans + 1 ELSE 0
           r == [run[p] EXCEPT !.scan = n]
<1>1. run[p] \in RunRecord /\ r \in RunRecord
  <2>1. run[p] \in RunRecord /\ n \in Nat BY DEF RunInv, RunType
  <2> HIDE DEF n
  <2> QED BY <2>1 DEF RunRecord
<1>2. Own(p) /\ run'[p] = r BY <1>1, Rewritten DEF Discover, RunInv
<1>3. pc[p] = "discover" /\ pc'[p] = "plan" /\ exc'[p] = exc[p]
      BY DEF Discover, Go, TypeOK, Procs
<1>4. ReportOK(p)'
      BY <1>1, <1>2, <1>3 DEF RunRecord, RunInv, ReportOK, Printing, Preparing, Alive, Stopped
<1>5. Time(p)
      BY DEF RunInv, RunType, ScansOK, Snapshots, Discover, published, Time
<1>6. ScanOK(p)'
      BY <1>1, <1>2, <1>3 DEF RunRecord, RunInv, RunType, ScansOK, Snapshots, Discover, published,
         ScanOK, Publishing, Published
<1> QED BY <1>2, <1>4, <1>5, <1>6 DEF Keeps

LEMMA RunMakePlan ==
    ASSUME TypeOK, RunInv, NEW p \in Movers, MakePlan(p)
    PROVE  Keeps(p)
<1>1. /\ pc[p] = "plan" /\ exc'[p] = exc[p]
      /\ pc'[p] = IF run[p].excluding THEN "temp" ELSE "announce"
      BY DEF MakePlan, Go, TypeOK, Procs
<1>2. UNCHANGED moverVars BY DEF MakePlan
<1>3. ReportOK(p)'
  BY <1>1, <1>2
  DEF RunInv, ReportOK, Printing, Preparing, Alive, Stopped, moverVars, outputs
<1>4. ScanOK(p)'
  <2>1. /\ ScanOK(p) /\ run' = run /\ scans' = scans /\ snapshot' = snapshot /\ safe' = safe
        /\ safe.scan \in Nat
        BY <1>2 DEF RunInv, RunType, Snapshots, moverVars, outputs, published
  <2>2. CASE run[p].excluding
        BY <1>1, <2>1, <2>2 DEF ScanOK, Publishing, Published
  <2>3. CASE ~run[p].excluding
        BY <1>1, <2>1, <2>3 DEF ScanOK, Publishing, Published
  <2> QED BY <2>2, <2>3
<1> QED BY <1>2, <1>3, <1>4, NothingSaid DEF Keeps

LEMMA RunPublish ==
    ASSUME TypeOK, RunInv, NEW p \in Movers, Publish(p)
    PROVE  Keeps(p)
<1> USE DEF Snapshots, NoSnapshot
<1>1. run[p] \in RunRecord BY DEF RunInv, RunType
<1>2. CASE WriteTemp(p)
  <2> DEFINE x == [scan |-> run[p].scan, synced |-> TRUE]
             r == [run[p] EXCEPT !.temp = x]
  <2>1. r \in RunRecord BY <1>1 DEF RunRecord
  <2>2. Own(p) /\ run'[p] = r BY <1>2, <2>1, Rewritten DEF WriteTemp, RunInv
  <2>3. pc[p] = "temp" /\ pc'[p] = "replace" /\ exc'[p] = exc[p]
        BY <1>2 DEF WriteTemp, Go, TypeOK, Procs
  <2>4. ReportOK(p)'
        BY <1>1, <2>2, <2>3 DEF RunRecord, RunInv, ReportOK, Printing, Preparing, Alive, Stopped
  <2>5. Time(p)
        BY <1>2 DEF WriteTemp, RunInv, RunType, ScansOK, published, Time
  <2>6. /\ run'[p].scan = run[p].scan /\ run'[p].temp = x
        BY <1>1, <2>2 DEF RunRecord
  <2>7. ScanOK(p)'
        BY <1>2, <2>3, <2>6 DEF WriteTemp, RunInv, published, ScanOK, Publishing, Published
  <2> QED BY <2>2, <2>4, <2>5, <2>7 DEF Keeps
<1>3. CASE ReplaceSnapshot(p)
  <2> DEFINE r == [run[p] EXCEPT !.temp = NoSnapshot]
  <2>1. r \in RunRecord BY <1>1 DEF RunRecord
  <2>2. Own(p) /\ run'[p] = r BY <1>3, <2>1, Rewritten DEF ReplaceSnapshot, RunInv
  <2>3. pc[p] = "replace" /\ pc'[p] = "dirsync" /\ exc'[p] = exc[p]
        BY <1>3 DEF ReplaceSnapshot, Go, TypeOK, Procs
  <2>4. ReportOK(p)'
        BY <1>1, <2>2, <2>3 DEF RunRecord, RunInv, ReportOK, Printing, Preparing, Alive, Stopped
  <2>5. /\ snapshot' = [scan |-> run[p].scan, synced |-> TRUE]
        /\ snapshot.scan <= run[p].scan /\ run[p].scan <= scans /\ run[p].scan \in Nat
        BY <1>1, <1>3, <2>3 DEF ReplaceSnapshot, RunInv, ScanOK, Publishing, RunRecord
  <2>6. Time(p)
        BY <1>3, <2>3, <2>5 DEF ReplaceSnapshot, RunInv, RunType, ScansOK, Time
  <2>7. run'[p].scan = run[p].scan
        BY <1>1, <2>2 DEF RunRecord
  <2>8. ScanOK(p)'
        BY <1>3, <2>3, <2>5, <2>7 DEF ReplaceSnapshot, RunInv, ScanOK, Publishing, Published
  <2> QED BY <2>2, <2>4, <2>6, <2>8 DEF Keeps
<1>4. CASE SyncDirectory(p)
  <2>1. /\ pc[p] = "dirsync" /\ pc'[p] = "untemp" /\ exc'[p] = exc[p] /\ run' = run
        /\ scans' = scans /\ safe' = snapshot /\ snapshot' = snapshot
        BY <1>4 DEF SyncDirectory, Go, TypeOK, Procs, outputs
  <2>2. ReportOK(p)'
        BY <2>1 DEF RunInv, ReportOK, Printing, Preparing, Alive, Stopped
  <2>3. Time(p) /\ Own(p) BY <2>1 DEF RunInv, RunType, ScansOK, Time, Own
  <2>4. run[p].scan \in Nat /\ run[p].scan <= scans /\ snapshot.scan = run[p].scan
        BY <1>1, <2>1 DEF RunInv, RunRecord, ScanOK
  <2>5. ScanOK(p)' BY <2>1, <2>4 DEF ScanOK, Publishing, Published
  <2> QED BY <2>2, <2>3, <2>5 DEF Keeps
<1>5. CASE UnlinkTemp(p)
  <2> DEFINE r == [run[p] EXCEPT !.temp = NoSnapshot]
  <2>1. r \in RunRecord BY <1>1 DEF RunRecord
  <2>2. Own(p) /\ run'[p] = r BY <1>5, <2>1, Rewritten DEF UnlinkTemp, RunInv
  <2>3. /\ pc[p] = "untemp" /\ exc'[p] = exc[p]
        /\ pc'[p] = IF exc[p] = "none" THEN "announce" ELSE "unlock"
        BY <1>5 DEF UnlinkTemp, Go, TypeOK, Procs
  <2>4. ReportOK(p)'
        BY <1>1, <2>2, <2>3 DEF RunRecord, RunInv, ReportOK, Printing, Preparing, Alive, Stopped
  <2>5. Time(p)
        BY <1>5 DEF UnlinkTemp, RunInv, RunType, ScansOK, published, Time
  <2>6. run'[p].scan = run[p].scan
        BY <1>1, <2>2 DEF RunRecord
  <2>7. ScanOK(p)'
        BY <1>5, <2>3, <2>6 DEF UnlinkTemp, RunInv, published, ScanOK, Publishing, Published
  <2> QED BY <2>2, <2>4, <2>5, <2>7 DEF Keeps
<1> QED BY <1>2, <1>3, <1>4, <1>5 DEF Publish

LEMMA RunBegin ==
    ASSUME TypeOK, RunInv, NEW p \in Movers, Start(p) \/ Configure(p)
    PROVE  Keeps(p)
<1> USE DEF Procs, TypeOK, RunInv, ReportOK, ScanOK, Printing, Preparing, Published, Publishing,
            Alive, Stopped, Go, Raise, moverVars, outputs, published, Keeps
<1>1. CASE Start(p)
      BY <1>1, SessionAssumption, Empty, SMTT(30)
      DEF Start, Fresh, NoSnapshot, Own, Time, RunRecord, RunType, ScansOK, Snapshots
<1>2. CASE Configure(p) BY <1>2, NothingSaid DEF Configure
<1> QED BY <1>1, <1>2

(* After the publication nobody scans; what is published stays so.         *)
LEMMA Scanned ==
    ASSUME RunInv, NEW p \in Movers, UNCHANGED <<scans, published>>,
           run'[p].scan = run[p].scan, pc'[p] \notin {"plan", "temp", "replace", "dirsync"},
           Published(p)' => Published(p)
    PROVE  ScanOK(p)' /\ Time(p)
BY DEF RunInv, RunType, Snapshots, ScansOK, published, ScanOK, Publishing, Time

(* Printing, flushing and exiting change what was printed, what was        *)
(* delivered and the exit code, and nothing else.                          *)
Says(p, o, b, c) ==
    /\ Own(p)
    /\ run'[p].out = o /\ run'[p].buf = b /\ run'[p].code = c
    /\ run'[p].mode = run[p].mode /\ run'[p].live = run[p].live
    /\ run'[p].cancel = run[p].cancel /\ run'[p].scan = run[p].scan
    /\ run'[p].reader = run[p].reader

LEMMA Rewriting ==
    ASSUME RunType, NEW p \in Movers, NEW o \in Seq(Lines), NEW b \in Seq(Lines), NEW c \in Int
    PROVE  /\ run' = [run EXCEPT ![p].buf = b] => Says(p, run[p].out, b, run[p].code)
           /\ run' = [run EXCEPT ![p].out = o, ![p].buf = b] => Says(p, o, b, run[p].code)
           /\ run' = [run EXCEPT ![p].code = c, ![p].buf = b] => Says(p, run[p].out, b, c)
           /\ run' = [run EXCEPT ![p].out = o, ![p].buf = b, ![p].code = c] => Says(p, o, b, c)
<1>1. run[p] \in RunRecord BY DEF RunType
<1>2. ASSUME NEW r \in RunRecord, run' = [run EXCEPT ![p] = r]
      PROVE  Own(p) /\ run'[p] = r
      BY <1>2, Rewritten
<1>3. /\ [run[p] EXCEPT !.buf = b] \in RunRecord
      /\ [run[p] EXCEPT !.out = o, !.buf = b] \in RunRecord
      /\ [run[p] EXCEPT !.code = c, !.buf = b] \in RunRecord
      /\ [run[p] EXCEPT !.out = o, !.buf = b, !.code = c] \in RunRecord
      BY <1>1 DEF RunRecord
<1>4. ASSUME run' = [run EXCEPT ![p].buf = b]
      PROVE  Says(p, run[p].out, b, run[p].code)
  <2>1. Own(p) /\ run'[p] = [run[p] EXCEPT !.buf = b] BY <1>2, <1>3, <1>4
  <2> QED BY <1>1, <2>1 DEF Says, RunRecord
<1>5. ASSUME run' = [run EXCEPT ![p].out = o, ![p].buf = b]
      PROVE  Says(p, o, b, run[p].code)
  <2>1. Own(p) /\ run'[p] = [run[p] EXCEPT !.out = o, !.buf = b] BY <1>2, <1>3, <1>5
  <2> QED BY <1>1, <2>1 DEF Says, RunRecord
<1>6. ASSUME run' = [run EXCEPT ![p].code = c, ![p].buf = b]
      PROVE  Says(p, run[p].out, b, c)
  <2> DEFINE r == [run[p] EXCEPT !.code = c, !.buf = b]
  <2>1. r \in RunRecord /\ run' = [run EXCEPT ![p] = r] BY <1>3, <1>6
  <2>2. Own(p) /\ run'[p] = r BY <1>2, <2>1
  <2> QED BY <1>1, <2>2 DEF Says, RunRecord
<1>7. ASSUME run' = [run EXCEPT ![p].out = o, ![p].buf = b, ![p].code = c]
      PROVE  Says(p, o, b, c)
  <2>1. Own(p) /\ run'[p] = [run[p] EXCEPT !.out = o, !.buf = b, !.code = c] BY <1>2, <1>3, <1>7
  <2> QED BY <1>1, <2>1 DEF Says, RunRecord
<1> QED BY <1>4, <1>5, <1>6, <1>7

LEMMA Saying ==
    ASSUME RunType, NEW p \in Movers, NEW s \in Seq(Lines), NEW c \in Int
    PROVE  /\ Printed(p, s) => Says(p, run[p].out, run[p].buf \o s, run[p].code)
           /\ Exits(p, c, s) => Says(p, run[p].out, run[p].buf \o s, c)
           /\ \A l : Flush(p, s, l) => Says(p, run[p].out \o run[p].buf \o s, <<>>, run[p].code)
           /\ run' = [run EXCEPT ![p].out = @ \o run[p].buf \o s, ![p].buf = <<>>,
                                 ![p].code = c] =>
                 Says(p, run[p].out \o run[p].buf \o s, <<>>, c)
           /\ run[p].buf \in Seq(Lines) /\ run[p].out \in Seq(Lines)
<1>1. run[p].buf \in Seq(Lines) /\ run[p].out \in Seq(Lines) BY DEF RunType, RunRecord
<1>2. /\ run[p].buf \o s \in Seq(Lines) /\ run[p].out \o run[p].buf \o s \in Seq(Lines)
      /\ <<>> \in Seq(Lines)
      BY <1>1
<1>3. Printed(p, s) => Says(p, run[p].out, run[p].buf \o s, run[p].code)
      BY <1>1, <1>2, Rewriting DEF Printed
<1>4. Exits(p, c, s) => Says(p, run[p].out, run[p].buf \o s, c)
      BY <1>1, <1>2, Rewriting DEF Exits
<1>5. ASSUME NEW l, Flush(p, s, l)
      PROVE  Says(p, run[p].out \o run[p].buf \o s, <<>>, run[p].code)
      BY <1>1, <1>2, <1>5, Rewriting DEF Flush
<1>6. run' = [run EXCEPT ![p].out = @ \o run[p].buf \o s, ![p].buf = <<>>, ![p].code = c] =>
         Says(p, run[p].out \o run[p].buf \o s, <<>>, c)
      BY <1>1, <1>2, Rewriting
<1> QED BY <1>1, <1>3, <1>4, <1>5, <1>6

LEMMA RunAnnounce ==
    ASSUME TypeOK, RunInv, NEW p \in Movers, Announce(p)
    PROVE  Keeps(p)
<1> DEFINE s == <<"planned event">>
<1>1. /\ RunType /\ s \in Seq(Lines) /\ NoResult(s)
      /\ run[p].code \in Int /\ run[p].buf \in Seq(Lines) /\ run[p].out \in Seq(Lines)
      BY LineTypes, LiteralType, RemarkResult DEF RunInv, RunType, RunRecord
<1>2. pc[p] = "announce" /\ UNCHANGED <<scans, published>> BY DEF Announce
<1>3. exc[p] = "none" /\ Printing(p) /\ NoResult(run[p].buf)
      BY <1>2 DEF RunInv, ReportOK, Printing, Preparing, Alive, Stopped
<1> HIDE DEF s
<1>4. CASE UNCHANGED run /\ Go(p, IF run[p].live THEN "install" ELSE "unlock")
  <2>1. pc'[p] = (IF run[p].live THEN "install" ELSE "unlock") /\ exc'[p] = exc[p]
        BY <1>4 DEF Go, TypeOK, Procs
  <2>2. ReportOK(p)' BY <1>3, <1>4, <2>1 DEF ReportOK, Printing, Preparing, Alive, Stopped
  <2>3. ScanOK(p)' /\ Time(p) BY <1>2, <1>3, <1>4, <2>1, Scanned DEF Published
  <2> QED BY <1>4, <2>2, <2>3 DEF Keeps, Own, RunInv, RunType
<1>5. CASE Flush(p, s, IF run[p].live THEN "install" ELSE "unlock")
  <2>1. Says(p, run[p].out \o run[p].buf \o s, <<>>, run[p].code)
        BY <1>1, <1>5, Saying
  <2>2. pc'[p] = (IF run[p].live THEN "install" ELSE "unlock") /\ exc'[p] = exc[p]
        BY <1>5 DEF Flush, Go, TypeOK, Procs
  <2>3. NoResult(run'[p].out) /\ NoResult(run'[p].buf)
    <3>1. NoResult(run[p].out \o run[p].buf) /\ run[p].out \o run[p].buf \in Seq(Lines)
          BY <1>1, <1>3, SilentBoth DEF Printing
    <3>2. NoResult(run[p].out \o run[p].buf \o s) BY <1>1, <3>1, SilentBoth
    <3> QED BY <1>1, <2>1, <3>2, Empty DEF Says
  <2>4. ReportOK(p)'
        BY <1>3, <2>1, <2>2, <2>3 DEF Says, ReportOK, Printing, Preparing, Alive, Stopped
  <2>5. ScanOK(p)' /\ Time(p) BY <1>2, <1>3, <2>1, <2>2, Scanned DEF Says, Published
  <2> QED BY <2>1, <2>4, <2>5 DEF Keeps, Says
<1>6. CASE FlushFails(p, s, "unlock")
  <2>1. Says(p, run[p].out, run[p].buf \o s, run[p].code)
        BY <1>1, <1>6, Saying DEF FlushFails
  <2>2. /\ pc'[p] = "unlock" /\ exc'[p] = "failed"
        /\ run[p].mode = "events" /\ ~run[p].reader
        BY <1>6 DEF FlushFails, Raise, TypeOK, Procs
  <2>3. ReportOK(p)'
        BY <1>3, <2>1, <2>2 DEF Says, ReportOK, Printing, Preparing, Alive, Stopped
  <2>4. ScanOK(p)' /\ Time(p) BY <1>2, <1>3, <2>1, <2>2, Scanned DEF Says, Published
  <2> QED BY <2>1, <2>3, <2>4 DEF Keeps, Says
<1> QED BY <1>2, <1>4, <1>5, <1>6 DEF Announce, s

(* The same for the handlers, the event of the handlers and the reader.    *)
SaysNothing(p) ==
    /\ Own(p)
    /\ run'[p].out = run[p].out /\ run'[p].buf = run[p].buf /\ run'[p].code = run[p].code
    /\ run'[p].mode = run[p].mode /\ run'[p].live = run[p].live
    /\ run'[p].excluding = run[p].excluding
    /\ run'[p].scan = run[p].scan /\ run'[p].temp = run[p].temp

LEMMA Handling ==
    ASSUME RunType, NEW p \in Movers, NEW h \in SUBSET {"TERM", "INT"}
    PROVE  /\ run' = [run EXCEPT ![p].handled = h] =>
                 SaysNothing(p) /\ run'[p].cancel = run[p].cancel /\ run'[p].reader = run[p].reader
           /\ run' = [run EXCEPT ![p].cancel = TRUE] =>
                 SaysNothing(p) /\ run'[p].cancel /\ run'[p].reader = run[p].reader
           /\ run' = [run EXCEPT ![p].reader = FALSE] =>
                 SaysNothing(p) /\ run'[p].cancel = run[p].cancel /\ ~run'[p].reader
<1>1. run[p] \in RunRecord BY DEF RunType
<1>2. /\ [run[p] EXCEPT !.handled = h] \in RunRecord
      /\ [run[p] EXCEPT !.cancel = TRUE] \in RunRecord
      /\ [run[p] EXCEPT !.reader = FALSE] \in RunRecord
      BY <1>1 DEF RunRecord
<1>3. ASSUME NEW r \in RunRecord, run' = [run EXCEPT ![p] = r]
      PROVE  Own(p) /\ run'[p] = r
      BY <1>3, Rewritten
<1>4. ASSUME run' = [run EXCEPT ![p].handled = h]
      PROVE  SaysNothing(p) /\ run'[p].cancel = run[p].cancel /\ run'[p].reader = run[p].reader
  <2>1. Own(p) /\ run'[p] = [run[p] EXCEPT !.handled = h] BY <1>2, <1>3, <1>4
  <2> QED BY <1>1, <2>1 DEF SaysNothing, RunRecord
<1>5. ASSUME run' = [run EXCEPT ![p].cancel = TRUE]
      PROVE  SaysNothing(p) /\ run'[p].cancel /\ run'[p].reader = run[p].reader
  <2>1. Own(p) /\ run'[p] = [run[p] EXCEPT !.cancel = TRUE] BY <1>2, <1>3, <1>5
  <2> QED BY <1>1, <2>1 DEF SaysNothing, RunRecord
<1>6. ASSUME run' = [run EXCEPT ![p].reader = FALSE]
      PROVE  SaysNothing(p) /\ run'[p].cancel = run[p].cancel /\ ~run'[p].reader
  <2>1. Own(p) /\ run'[p] = [run[p] EXCEPT !.reader = FALSE] BY <1>2, <1>3, <1>6
  <2> QED BY <1>1, <2>1 DEF SaysNothing, RunRecord
<1> QED BY <1>4, <1>5, <1>6

LEMMA RunHandlers ==
    ASSUME TypeOK, RunInv, NEW p \in Movers, Handlers(p) \/ Restore(p)
    PROVE  Keeps(p)
<1>1. /\ SaysNothing(p) /\ run'[p].cancel = run[p].cancel /\ run'[p].reader = run[p].reader
      /\ \/ pc[p] = "install" /\ pc'[p] = "install2"
         \/ pc[p] = "install2" /\ pc'[p] = "execute"
         \/ pc[p] = "restore" /\ pc'[p] = "restore2"
         \/ pc[p] = "restore2" /\ pc'[p] = "unlock"
      /\ exc'[p] = exc[p]
      /\ UNCHANGED <<scans, published>>
  <2>1. RunType /\ run[p].handled \in SUBSET {"TERM", "INT"} BY DEF RunInv, RunType, RunRecord
  <2>2. CASE Handlers(p)
    <3>1. PICK s \in {"TERM", "INT"} :
              /\ pc[p] = IF s = "TERM" THEN "install" ELSE "install2"
              /\ run' = [run EXCEPT ![p].handled = run[p].handled \cup {s}]
              /\ Go(p, IF s = "TERM" THEN "install2" ELSE "execute")
          BY <2>2 DEF Handlers
    <3>2. run[p].handled \cup {s} \in SUBSET {"TERM", "INT"} BY <2>1
    <3> QED BY <2>1, <2>2, <3>1, <3>2, Handling DEF Handlers, Go, TypeOK, Procs
  <2>3. CASE Restore(p)
    <3>1. PICK s \in {"TERM", "INT"} :
              /\ pc[p] = IF s = "TERM" THEN "restore" ELSE "restore2"
              /\ run' = [run EXCEPT ![p].handled = run[p].handled \ {s}]
              /\ Go(p, IF s = "TERM" THEN "restore2" ELSE "unlock")
          BY <2>3 DEF Restore
    <3>2. run[p].handled \ {s} \in SUBSET {"TERM", "INT"} BY <2>1
    <3> QED BY <2>1, <2>3, <3>1, <3>2, Handling DEF Restore, Go, TypeOK, Procs
  <2> QED BY <2>2, <2>3
<1>2. ReportOK(p)'
      BY <1>1 DEF RunInv, SaysNothing, ReportOK, Printing, Preparing, Alive, Stopped
<1>3. ScanOK(p)' /\ Time(p) BY <1>1, Scanned DEF SaysNothing, Published
<1> QED BY <1>1, <1>2, <1>3 DEF Keeps, SaysNothing

LEMMA RunExecution ==
    ASSUME TypeOK, RunInv, NEW p \in Movers,
           \/ Execute(p) \/ Executed(p)
           \/ \E e \in {"failed", "cancelled", "uncaught"} : ExecutionRaises(p, e)
    PROVE  Keeps(p)
<1>0. /\ pc[p] = "execute" /\ RunType
      /\ Printing(p) /\ exc[p] = "none" /\ NoResult(run[p].buf)
      BY DEF RunInv, ReportOK, Printing, Preparing, Alive, Stopped,
             Execute, Executed, ExecutionRaises
<1>1. CASE Execute(p)
      BY <1>0, <1>1, NothingSaid
      DEF Execute, Keeps, RunInv, local, moverVars, outputs, published, ReportOK, Printing,
          Preparing, Alive, Stopped, ScanOK, Publishing, Published
<1>2. CASE Executed(p)
  <2>1. pc'[p] = "restore" /\ exc'[p] = exc[p] /\ UNCHANGED moverVars
        BY <1>2 DEF Executed, Go, TypeOK, Procs
  <2> QED BY <1>0, <2>1, NothingSaid
          DEF Keeps, RunInv, moverVars, outputs, published, ReportOK, Printing,
              Preparing, Alive, Stopped, ScanOK, Publishing, Published
<1>3. ASSUME NEW e \in {"failed", "cancelled", "uncaught"}, ExecutionRaises(p, e)
      PROVE  Keeps(p)
  <2> DEFINE s == IF Machine(p) \/ e = "uncaught" THEN <<>> ELSE <<e>>
  <2>1. /\ s \in Seq(Lines) /\ run[p].code \in Int
        /\ run[p].buf \in Seq(Lines) /\ run[p].out \in Seq(Lines)
    <3>1. e # "uncaught" => <<e>> \in Seq(Lines) BY LineTypes, LiteralType
    <3> QED BY <1>0, <3>1, Empty DEF RunType, RunRecord
  <2>2. Says(p, run[p].out, run[p].buf \o s, run[p].code)
    <3>1. Printed(p, s) BY <1>3 DEF ExecutionRaises
    <3> HIDE DEF s
    <3> QED BY <1>0, <2>1, <3>1, Saying
  <2>3. /\ pc'[p] = "restore" /\ exc'[p] = e /\ UNCHANGED <<scans, published>>
        /\ e = "cancelled" => run[p].cancel
        BY <1>3 DEF ExecutionRaises, Raise, TypeOK, Procs
  <2>4. IF Machine(p) \/ e = "uncaught" THEN NoResult(run'[p].buf) ELSE OneResult(run'[p].buf, e)
    <3>1. CASE Machine(p) \/ e = "uncaught"
          BY <1>0, <2>1, <2>2, <3>1, Empty DEF Says
    <3>2. CASE ~(Machine(p) \/ e = "uncaught")
      <4>1. s = <<e>> /\ OneResult(s, e) BY <3>2, LineTypes, LineResult
      <4> HIDE DEF s
      <4> QED BY <1>0, <2>1, <2>2, <3>2, <4>1, SilentBefore DEF Says
    <3> QED BY <3>1, <3>2
  <2> HIDE DEF s
  <2>5. ReportOK(p)'
        BY <1>0, <2>2, <2>3, <2>4 DEF Says, Machine, ReportOK, Printing, Preparing, Alive, Stopped
  <2>6. ScanOK(p)' /\ Time(p) BY <1>0, <2>2, <2>3, Scanned DEF Says, Published
  <2> QED BY <2>2, <2>5, <2>6 DEF Keeps, Says
<1> QED BY <1>1, <1>2, <1>3

LEMMA Delivery ==
    ASSUME NEW p \in Movers, NEW o, NEW b, NEW c, Says(p, o, b, c)
    PROVE  /\ Delivered(p)' = (IF run[p].reader THEN o \o b ELSE o)
           /\ Status(p)' = (IF run[p].reader \/ b = <<>> THEN c ELSE 120)
           /\ Machine(p)' = Machine(p)
BY DEF Says, Delivered, Status, Machine

(* Where the result of a mover is printed: it works no more.               *)
LEMMA AtEnd ==
    ASSUME RunInv, NEW p \in Movers, pc[p] = "after"
    PROVE  /\ Printing(p) /\ RunType /\ run[p].mode \in {"human", "json", "events"}
           /\ run[p].code \in Int /\ run[p].buf \in Seq(Lines) /\ run[p].out \in Seq(Lines)
           /\ NoResult(run[p].out)
BY DEF RunInv, ReportOK, Printing, Alive, Stopped, RunType, RunRecord

LEMMA RunFinish ==
    ASSUME TypeOK, RunInv, NEW p \in Movers, Finish(p)
    PROVE  Keeps(p)
<1> DEFINE x == IF run[p].live THEN "completed" ELSE "planned"
           s == <<x>>
<1>1. pc[p] = "after" /\ exc[p] = "none" /\ UNCHANGED <<scans, published>> BY DEF Finish
<1>2. /\ Printing(p) /\ RunType
      /\ run[p].code \in Int /\ run[p].buf \in Seq(Lines) /\ run[p].out \in Seq(Lines)
      /\ NoResult(run[p].out) /\ NoResult(run[p].buf) /\ run[p].code = 0
      BY <1>1, AtEnd DEF Printing
<1>3. s \in Seq(Lines) /\ OneResult(s, x) /\ run[p].buf \o s # <<>>
      BY <1>2, LineTypes, LiteralType, LineResult, NotEmpty
<1>4. Published(p) BY <1>1 DEF Published
<1> HIDE DEF s
<1>5. CASE Exits(p, 0, s)
  <2>1. Says(p, run[p].out, run[p].buf \o s, 0) BY <1>2, <1>3, <1>5, Saying
  <2>2. pc'[p] = "exit" /\ exc'[p] = exc[p] BY <1>5 DEF Exits, Go, TypeOK, Procs
  <2>3. OneResult(run[p].out \o (run[p].buf \o s), x)
    <3>1. OneResult(run[p].buf \o s, x) /\ run[p].buf \o s \in Seq(Lines)
          BY <1>2, <1>3, SilentBefore
    <3> QED BY <1>2, <3>1, SilentBefore
  <2>4. Truthful(p)'
        BY <1>1, <1>3, <2>1, <2>2, <2>3, Delivery DEF Says, Truthful, Machine, Delivered, Status
  <2>5. ReportOK(p)' BY <2>2, <2>4 DEF ReportOK
  <2>6. ScanOK(p)' /\ Time(p) BY <1>1, <1>4, <2>1, <2>2, Scanned DEF Says
  <2> QED BY <2>1, <2>5, <2>6 DEF Keeps, Says
<1>6. CASE Flush(p, s, "exit")
  <2> DEFINE o == run[p].out \o run[p].buf \o s
  <2>1. Says(p, o, <<>>, 0) BY <1>2, <1>3, <1>6, Saying
  <2>2. pc'[p] = "exit" /\ exc'[p] = exc[p] /\ run[p].reader
        BY <1>6 DEF Flush, Go, TypeOK, Procs
  <2>3. OneResult(o, x) /\ o \o <<>> = o
    <3>1. NoResult(run[p].out \o run[p].buf) /\ run[p].out \o run[p].buf \in Seq(Lines)
          BY <1>2, SilentBoth
    <3>2. OneResult(o, x) BY <1>3, <3>1, SilentBefore
    <3>3. o \in Seq(Lines) BY <1>3, <3>1
    <3> HIDE DEF o
    <3> QED BY <3>2, <3>3, Empty
  <2> HIDE DEF o
  <2>4. Truthful(p)'
        BY <1>1, <2>1, <2>2, <2>3, Delivery DEF Says, Truthful, Machine, Delivered, Status
  <2>5. ReportOK(p)' BY <2>2, <2>4 DEF ReportOK
  <2>6. ScanOK(p)' /\ Time(p) BY <1>1, <1>4, <2>1, <2>2, Scanned DEF Says
  <2> QED BY <2>1, <2>5, <2>6 DEF Keeps, Says
<1>7. CASE FlushFails(p, s, "after")
  <2>1. Says(p, run[p].out, run[p].buf \o s, run[p].code)
        BY <1>2, <1>3, <1>7, Saying DEF FlushFails
  <2>2. /\ pc'[p] = "after" /\ exc'[p] = "failed"
        /\ run[p].mode = "events" /\ ~run[p].reader
        BY <1>7 DEF FlushFails, Raise, TypeOK, Procs
  <2>3. ReportOK(p)'
        BY <1>2, <2>1, <2>2 DEF Says, ReportOK, Printing, Preparing, Alive, Stopped
  <2>4. ScanOK(p)' /\ Time(p) BY <1>1, <1>4, <2>1, <2>2, Scanned DEF Says
  <2> QED BY <2>1, <2>3, <2>4 DEF Keeps, Says
<1> QED BY <1>5, <1>6, <1>7 DEF Finish, s

LEMMA RunReport ==
    ASSUME TypeOK, RunInv, NEW p \in Movers, Report(p)
    PROVE  Keeps(p)
<1>1. /\ pc[p] = "after" /\ exc[p] \in {"failed", "cancelled"} /\ UNCHANGED <<scans, published>>
      /\ pc'[p] = "exit" /\ exc'[p] = exc[p]
      BY DEF Report, Exits, Go, TypeOK, Procs
<1>2. /\ Printing(p) /\ RunType
      /\ run[p].code \in Int /\ run[p].buf \in Seq(Lines) /\ run[p].out \in Seq(Lines)
      /\ NoResult(run[p].out)
      /\ Code(p) = (IF exc[p] = "cancelled" THEN 130 ELSE 1) /\ Code(p) \in Int
      BY <1>1, AtEnd DEF Code
<1>3. /\ <<exc[p]>> \in Seq(Lines) /\ <<exc[p], "prose">> \in Seq(Lines)
      /\ <<"prose">> \in Seq(Lines) /\ NoResult(<<"prose">>)
      /\ OneResult(<<exc[p]>>, exc[p])
      /\ \A b \in Seq(Lines) : /\ b \o <<exc[p]>> # <<>> /\ b \o <<exc[p], "prose">> # <<>>
                               /\ b \o <<"prose">> # <<>>
      BY <1>1, LineTypes, LiteralType, LineResult, RemarkResult, NotEmpty
<1>4. ASSUME NEW o, NEW b, NEW c \in Int \ {0}, Says(p, o, b, c), Truthful(p)'
      PROVE  Keeps(p)
  <2>1. ReportOK(p)' BY <1>1, <1>4 DEF ReportOK
  <2>2. ScanOK(p)' /\ Time(p) BY <1>1, <1>4, Scanned DEF Says, Published
  <2> QED BY <1>4, <2>1, <2>2 DEF Keeps, Says
<1>5. CASE run[p].mode = "human" /\ Exits(p, Code(p), <<"prose">>)
  <2> DEFINE b == run[p].buf \o <<"prose">>
  <2>1. Says(p, run[p].out, b, Code(p)) BY <1>2, <1>3, <1>5, Saying
  <2>2. /\ NoResult(run[p].buf) => NoResult(run[p].out \o b)
        /\ \A r : OneResult(run[p].buf, r) => OneResult(run[p].out \o b, r)
    <3>1. b \in Seq(Lines) BY <1>2, <1>3
    <3>2. /\ NoResult(run[p].buf) => NoResult(b)
          /\ \A r : OneResult(run[p].buf, r) => OneResult(b, r)
          BY <1>2, <1>3, SilentBoth, SilentAfter
    <3> HIDE DEF b
    <3> QED BY <1>2, <3>1, <3>2, SilentBoth, SilentBefore
  <2>3. b # <<>> BY <1>2, <1>3
  <2> HIDE DEF b
  <2>4. Truthful(p)'
        BY <1>1, <1>2, <1>5, <2>1, <2>2, <2>3, Delivery
        DEF Says, Truthful, Printing, Machine, Delivered, Status
  <2> QED BY <1>2, <1>4, <2>1, <2>4
<1>6. CASE run[p].mode = "json" /\ Exits(p, Code(p), <<exc[p]>>)
  <2> DEFINE b == run[p].buf \o <<exc[p]>>
  <2>1. Says(p, run[p].out, b, Code(p)) BY <1>2, <1>3, <1>6, Saying
  <2>2. OneResult(run[p].out \o b, exc[p])
    <3>1. b \in Seq(Lines) /\ NoResult(run[p].buf) BY <1>2, <1>3, <1>6 DEF Printing
    <3>2. OneResult(b, exc[p]) BY <1>2, <1>3, <3>1, SilentBefore
    <3> HIDE DEF b
    <3> QED BY <1>2, <3>1, <3>2, SilentBefore
  <2>3. b # <<>> BY <1>2, <1>3
  <2> HIDE DEF b
  <2>4. Truthful(p)'
        BY <1>1, <1>2, <1>6, <2>1, <2>2, <2>3, Delivery
        DEF Says, Truthful, Printing, Machine, Delivered, Status
  <2> QED BY <1>2, <1>4, <2>1, <2>4
<1>7. CASE /\ run[p].mode = "events" /\ run[p].reader
           /\ run' = [run EXCEPT ![p].out = @ \o run[p].buf \o <<exc[p]>>,
                                 ![p].buf = <<>>, ![p].code = Code(p)]
  <2> DEFINE o == run[p].out \o run[p].buf \o <<exc[p]>>
  <2>0. run[p].mode = "events" /\ run[p].reader BY <1>7
  <2>1. Says(p, o, <<>>, Code(p)) BY <1>2, <1>3, <1>7, Saying
  <2>2. OneResult(o, exc[p]) /\ o \o <<>> = o
    <3>1. NoResult(run[p].out \o run[p].buf) /\ run[p].out \o run[p].buf \in Seq(Lines)
          BY <1>2, <1>7, SilentBoth DEF Printing
    <3>2. OneResult(o, exc[p]) BY <1>3, <3>1, SilentBefore
    <3>3. o \in Seq(Lines) BY <1>3, <3>1
    <3> HIDE DEF o
    <3> QED BY <3>2, <3>3, Empty
  <2> HIDE DEF o
  <2>3. Truthful(p)'
    <3>1. Status(p)' = Code(p)
          BY <2>0, <2>1, Delivery
    <3>3. Delivered(p)' = o
      <4>1. Delivered(p)' = o \o <<>> BY <2>0, <2>1 DEF Says, Delivered
      <4> QED BY <2>2, <4>1
    <3>4. Machine(p)' 
          BY <2>0, <2>1 DEF Says, Machine
    <3>5. run'[p].cancel = run[p].cancel
          BY <2>1 DEF Says
    <3>2. exc[p] = "cancelled" => run[p].cancel BY <1>2 DEF Printing
    <3> QED BY <1>1, <1>2, <2>2, <3>1, <3>2, <3>3, <3>4, <3>5 DEF Truthful
  <2> QED BY <1>2, <1>4, <2>1, <2>3
<1>8. CASE /\ run[p].mode = "events" /\ ~run[p].reader
           /\ Exits(p, 1, <<exc[p], "prose">>)
  <2> DEFINE s == <<exc[p], "prose">>
             b == run[p].buf \o s
  <2>1. s \in Seq(Lines) /\ Exits(p, 1, s) /\ b # <<>> BY <1>2, <1>3, <1>8
  <2> HIDE DEF s
  <2>2. ASSUME NEW c \in Int, Exits(p, c, s) PROVE Says(p, run[p].out, b, c)
        BY <1>2, <2>1, <2>2, Saying
  <2>3. Says(p, run[p].out, b, 1) BY <2>1, <2>2
  <2> HIDE DEF b
  <2>4. Truthful(p)' BY <1>8, <2>1, <2>3, Delivery DEF Says, Truthful, Machine, Delivered, Status
  <2> QED BY <1>4, <2>3, <2>4
<1> QED BY <1>5, <1>6, <1>7, <1>8 DEF Report

LEMMA RunTraceback ==
    ASSUME TypeOK, RunInv, NEW p \in Movers, Traceback(p)
    PROVE  Keeps(p)
<1> DEFINE c == IF exc[p] = "uncaught" THEN 1 ELSE -1
           b == run[p].buf \o <<>>
<1>1. /\ pc[p] = "after" /\ exc[p] \in {"uncaught", "interrupt"} /\ UNCHANGED <<scans, published>>
      /\ pc'[p] = "exit" /\ exc'[p] = exc[p]
      BY DEF Traceback, Exits, Go, TypeOK, Procs
<1>2. /\ Printing(p) /\ RunType /\ run[p].buf \in Seq(Lines) /\ run[p].out \in Seq(Lines)
      /\ NoResult(run[p].out) /\ c \in Int \ {0} /\ <<>> \in Seq(Lines) /\ b = run[p].buf
      BY <1>1, AtEnd, Empty
<1>3. Exits(p, c, <<>>) BY DEF Traceback
<1>4. (c = 1 /\ exc[p] = "uncaught") \/ (c = -1 /\ exc[p] = "interrupt")
      BY <1>1
<1> HIDE DEF c
<1>5. Says(p, run[p].out, b, c) BY <1>2, <1>3, Saying
<1>6. exc[p] = "uncaught" => NoResult(run[p].buf) /\ NoResult(run[p].out \o run[p].buf)
      BY <1>2, SilentBoth DEF Printing
<1>7. Truthful(p)'
      BY <1>1, <1>2, <1>4, <1>5, <1>6 DEF Says, Truthful, Delivered, Status
<1>8. ReportOK(p)' BY <1>1, <1>7 DEF ReportOK
<1>9. ScanOK(p)' /\ Time(p) BY <1>1, <1>2, <1>5, Scanned DEF Says, Published
<1> QED BY <1>5, <1>8, <1>9 DEF Keeps, Says

(* A mover that is gone has no arguments and no output.                    *)
LEMMA RunGone ==
    ASSUME TypeOK, RunInv, NEW p \in Movers,
           run' = [q \in Movers |-> IF q = p THEN NotRunning ELSE run[q]],
           pc'[p] \in {"ended", "terminated", "dead"}, UNCHANGED <<scans, published>>
    PROVE  Keeps(p)
<1>1. /\ NotRunning \in RunRecord /\ NotRunning.scan = 0
      BY Empty DEF NotRunning, Fresh, RunRecord, NoSnapshot, Snapshots
<1>2. Own(p) /\ run'[p].scan = 0 BY <1>1 DEF Own, RunInv, RunType
<1>3. ReportOK(p)' BY DEF ReportOK, Alive, Stopped
<1>4. ScanOK(p)' /\ Time(p)
      BY <1>2
      DEF RunInv, RunType, Snapshots, ScansOK, published, ScanOK, Publishing, Published, Time
<1> QED BY <1>2, <1>3, <1>4 DEF Keeps

(* An exception, raised by the code or by a signal.                        *)
LEMMA RunRaises ==
    ASSUME TypeOK, RunInv, NEW p \in Movers, Fail(p) \/ Interrupt(p)
    PROVE  Keeps(p)
<1>1. /\ UNCHANGED moverVars
      /\ exc'[p] \in {"failed", "uncaught", "interrupt"} /\ Alive(p) /\ pc[p] # "exit"
      /\ exc'[p] # "interrupt" =>
            pc[p] \in {"config", "open", "flock", "write", "discover", "plan",
                       "temp", "replace", "dirsync", "untemp"}
      /\ pc'[p] \in {"untemp", "unlock", "after"}
      BY DEF Fail, Interrupt, Handler, Raise, TypeOK, Procs, Alive, Stopped
<1>2. /\ Printing(p) BY <1>1 DEF RunInv, ReportOK
<1>3. ReportOK(p)'
  <2>1. exc'[p] # "interrupt" => NoResult(run[p].buf)
        BY <1>1, <1>2 DEF Printing, Preparing
  <2>2. pc'[p] = "untemp" => NoResult(run[p].buf)
    <3>1. pc'[p] = "untemp" => pc[p] \in {"temp", "replace", "dirsync"}
          BY DEF Fail, Interrupt, Handler, Raise, TypeOK, Procs
    <3> QED BY <1>2, <3>1 DEF Printing, Preparing
  <2> QED BY <1>1, <1>2, <2>1, <2>2 DEF ReportOK, Printing, Preparing, moverVars, outputs
<1>4. ScanOK(p)' /\ Time(p) /\ Own(p)
      BY <1>1, NothingSaid, Scanned DEF Published, moverVars, outputs, published
<1> QED BY <1>3, <1>4 DEF Keeps

(* A signal sets the event; the reader goes.                               *)
LEMMA RunSignal ==
    ASSUME TypeOK, RunInv, NEW p \in Movers,
           ReaderGone(p) \/ \E s \in {"TERM", "INT"} : Signal(p, s)
    PROVE  Keeps(p)
<1>1. /\ SaysNothing(p) /\ (run[p].cancel => run'[p].cancel)
      /\ (run'[p].reader => run[p].reader) /\ (run'[p].reader # run[p].reader => ~run'[p].reader)
      /\ pc' = pc /\ exc' = exc /\ Alive(p) /\ UNCHANGED <<scans, published>>
  <2>1. RunType /\ {} \in SUBSET {"TERM", "INT"} BY DEF RunInv
  <2>2. CASE ReaderGone(p) BY <2>1, <2>2, Handling DEF ReaderGone, local
  <2>3. CASE \E s \in {"TERM", "INT"} : Signal(p, s) BY <2>1, <2>3, Handling DEF Signal, local
  <2> QED BY <2>2, <2>3
<1>2. run[p].out \in Seq(Lines) /\ run[p].reader \in BOOLEAN /\ run'[p].reader \in BOOLEAN
      BY <1>1 DEF RunInv, RunType, RunRecord, SaysNothing, Own
<1>3. ASSUME pc[p] # "exit" PROVE ReportOK(p)'
      BY <1>1, <1>3 DEF RunInv, SaysNothing, ReportOK, Printing, Preparing, Alive
<1>4. ASSUME pc[p] = "exit" PROVE ReportOK(p)'
  <2>1. Truthful(p) BY <1>4 DEF RunInv, ReportOK
  <2>2. run[p].buf = <<>> => run[p].out \o run[p].buf = run[p].out BY <1>2, Empty
  <2>3. ASSUME run'[p].reader = run[p].reader PROVE Truthful(p)'
    <3>1. /\ Status(p)' = Status(p) /\ Delivered(p)' = Delivered(p) /\ Machine(p)' = Machine(p)
          /\ exc'[p] = exc[p] /\ run'[p].live = run[p].live
          BY <1>1, <2>3 DEF Status, Delivered, Machine, SaysNothing
    <3> QED BY <1>1, <2>1, <2>3, <3>1 DEF Truthful
  <2>4. ASSUME run[p].reader, ~run'[p].reader PROVE Truthful(p)'
    <3>1. CASE run[p].buf = <<>>
      <4>1. /\ Status(p)' = Status(p) /\ Delivered(p)' = Delivered(p) /\ Machine(p)' = Machine(p)
            /\ exc'[p] = exc[p] /\ run'[p].live = run[p].live
            BY <1>1, <2>2, <2>4, <3>1 DEF Status, Delivered, Machine, SaysNothing
      <4> QED BY <1>1, <2>1, <2>4, <4>1 DEF Truthful
    <3>2. CASE run[p].buf # <<>>
      <4>1. Status(p)' = 120 BY <1>1, <2>4, <3>2 DEF Status, SaysNothing
      <4> QED BY <2>4, <4>1 DEF Truthful
    <3> QED BY <3>1, <3>2
  <2>5. Truthful(p)' BY <1>1, <1>2, <2>3, <2>4
  <2> QED BY <1>1, <1>4, <2>5 DEF ReportOK
<1>5. ScanOK(p)' /\ Time(p)
  <2>1. Time(p) BY <1>1 DEF RunInv, RunType, ScansOK, Snapshots, published, Time
  <2>2. ScanOK(p)'
        BY <1>1 DEF RunInv, SaysNothing, ScanOK, Publishing, Published, published
  <2> QED BY <2>1, <2>2
<1> QED BY <1>1, <1>3, <1>4, <1>5 DEF Keeps, SaysNothing

-----------------------------------------------------------------------------
(* Every step of a mover keeps its part of the invariant.                  *)
LEMMA MoverKeeps ==
    ASSUME TypeOK, RunInv, NEW p \in Movers, Start(p) \/ MoverStep(p) \/ Signals(p) \/ ReaderGone(p)
    PROVE  Keeps(p)
<1>1. ASSUME Exit(p) \/ Terminate(p) PROVE Keeps(p)
  <2>1. run' = [run EXCEPT ![p] = NotRunning] BY <1>1 DEF Exit, Terminate
  <2>2. run' = [q \in Movers |-> IF q = p THEN NotRunning ELSE run[q]]
        BY <2>1 DEF RunInv, RunType
  <2>3. pc'[p] \in {"ended", "terminated"} /\ UNCHANGED <<scans, published>>
        BY <1>1 DEF Exit, Terminate, Die, Raise, TypeOK, Procs
  <2> QED BY <2>2, <2>3, RunGone
<1>2. ASSUME Signals(p) \/ ReaderGone(p) PROVE Keeps(p)
      BY <1>1, <1>2, RunRaises, RunSignal DEF Signals
<1>3. ASSUME MoverStep(p) PROVE Keeps(p)
      BY <1>1, <1>3, RunLocking, RunBegin, RunDiscover, RunMakePlan, RunPublish, RunAnnounce,
         RunHandlers, RunExecution, RunFinish, RunReport, RunTraceback, RunRaises
      DEF MoverStep
<1> QED BY <1>2, <1>3, RunBegin

(* The parts of the others stay: a snapshot is replaced inside the lock,   *)
(* and what is durable is only replaced by something newer.                *)
LEMMA OthersKeepRun ==
    ASSUME TypeOK, LockInv, RunInv, NEW p \in Procs, Changes(p), Time(p),
           NEW q \in Movers \ {p}, run'[q] = run[q]
    PROVE  ReportOK(q)' /\ ScanOK(q)'
<1>1. q \in Procs /\ pc'[q] = pc[q] /\ exc'[q] = exc[q]
      BY DEF Changes, Control, Raise, TypeOK, Procs
<1>2. ReportOK(q)'
  <2>1. ReportOK(q) BY DEF RunInv
  <2>2. /\ Status(q)' = Status(q) /\ Delivered(q)' = Delivered(q) /\ Machine(q)' = Machine(q)
        BY DEF Status, Delivered, Machine
  <2>3. Truthful(q) => Truthful(q)' BY <1>1, <2>2 DEF Truthful
  <2> QED BY <1>1, <2>1, <2>3 DEF ReportOK, Printing, Alive
<1>3. ScanOK(q)'
  <2>1. snapshot' = snapshot \/ pc[q] \in Outside
        BY <1>1 DEF Time, LockInv, Outside, Stopped
  <2>2. pc[q] \in Outside => ~Publishing(q) /\ pc[q] \notin {"plan", "replace", "dirsync"}
        BY DEF Outside, Stopped, Publishing
  <2>3. run[q].scan \in Nat /\ scans \in Nat /\ scans' \in Nat /\ safe.scan \in Nat
        /\ safe'.scan \in Nat
        BY DEF RunInv, RunType, RunRecord, Snapshots, Time
  <2>4. ScanOK(q) /\ scans <= scans' /\ safe.scan <= safe'.scan BY DEF RunInv, Time
  <2> QED BY <1>1, <2>1, <2>2, <2>3, <2>4 DEF ScanOK, Publishing, Published
<1> QED BY <1>2, <1>3

LEMMA RunStep ==
    ASSUME TypeOK, LockInv, RunInv, [Next]_vars
    PROVE  RunInv'
<1>1. ASSUME NEW p \in Procs, Changes(p), Own(p), Time(p),
             p \in Movers => ReportOK(p)' /\ ScanOK(p)'
      PROVE  RunInv'
  <2>1. ASSUME NEW q \in Movers PROVE ReportOK(q)' /\ ScanOK(q)'
        BY <1>1, OthersKeepRun DEF Own
  <2> QED BY <1>1, <2>1 DEF Own, Time, RunInv, RunType
<1>2. ASSUME NEW p \in Movers,
             Begin(p) \/ Step(p) \/ ReaderGone(p) \/ Signals(p)
      PROVE  RunInv'
  <2>1. p \in Procs /\ p \notin Harnesses BY ProcessAssumption DEF Procs
  <2>2. Changes(p)
        BY <1>2, <2>1, LockingChanges, PreparationChanges, ExecutionChanges, EndChanges
        DEF Begin, Step, MoverStep, Signals
  <2>3. Keeps(p) BY <1>2, <2>1, MoverKeeps DEF Begin, Step
  <2> QED BY <1>1, <2>1, <2>2, <2>3 DEF Keeps
<1>3. ASSUME NEW p \in Harnesses, Begin(p) \/ Step(p) PROVE RunInv'
  <2>1. p \in Procs /\ p \notin Movers BY ProcessAssumption DEF Procs
  <2>2. Changes(p) /\ UNCHANGED moverVars
        BY <1>3, <2>1, HarnessChanges DEF Begin, Step
  <2> QED BY <1>1, <2>1, <2>2, NothingSaid
<1>4. ASSUME NEW p \in Procs, Kill(p) PROVE RunInv'
  <2>1. Changes(p) BY <1>4, EndChanges
  <2>2. /\ run' = [q \in Movers |-> IF q = p THEN NotRunning ELSE run[q]]
        /\ pc'[p] = "dead" /\ UNCHANGED <<scans, published>>
        BY <1>4 DEF Kill, Die, Raise, TypeOK
  <2>3. CASE p \in Movers
    <3>1. Keeps(p) BY <2>2, <2>3, RunGone
    <3> QED BY <1>1, <2>1, <3>1 DEF Keeps
  <2>4. CASE p \notin Movers
    <3>1. run' = run BY <2>2, <2>4 DEF RunInv, RunType
    <3>2. UNCHANGED moverVars BY <2>2, <3>1 DEF moverVars, outputs
    <3> QED BY <1>1, <2>1, <2>4, <3>2, NothingSaid
  <2> QED BY <2>3, <2>4
<1>5. CASE PowerFailure
  <2>1. /\ run' = run /\ scans' = scans /\ snapshot' \in {snapshot, safe} /\ safe' = snapshot'
        /\ \A p \in Movers : pc'[p] \in Stopped
        BY <1>5 DEF PowerFailure, outputs, Alive, Stopped, Procs
  <2>2. RunType' /\ ScansOK' BY <2>1 DEF RunInv, RunType, ScansOK, Snapshots
  <2>3. ASSUME NEW p \in Movers PROVE ReportOK(p)' /\ ScanOK(p)'
        BY <2>1 DEF ReportOK, Alive, Stopped, ScanOK, Publishing, Published, RunInv
  <2> QED BY <2>2, <2>3 DEF RunInv
<1>6. CASE UNCHANGED vars
  <2>1. RunType' /\ ScansOK'
        BY <1>6 DEF vars, moverVars, outputs, published, RunInv, RunType, ScansOK
  <2>2. ASSUME NEW p \in Movers PROVE ReportOK(p)' /\ ScanOK(p)'
    <3>1. /\ Status(p)' = Status(p) /\ Delivered(p)' = Delivered(p) /\ Machine(p)' = Machine(p)
          /\ pc' = pc /\ exc' = exc /\ UNCHANGED moverVars
          BY <1>6 DEF Status, Delivered, Machine, vars, local, moverVars, outputs
    <3>2. Truthful(p) => Truthful(p)' BY <3>1 DEF Truthful, moverVars, outputs
    <3> QED BY <3>1, <3>2 DEF RunInv, ReportOK, Printing, Alive, ScanOK, Publishing, Published,
            moverVars, outputs, published
  <2> QED BY <2>1, <2>2 DEF RunInv
<1> QED BY <1>2, <1>3, <1>4, <1>5, <1>6 DEF Next, Fault, Procs

LEMMA RunInit == Init => RunInv
<1> SUFFICES ASSUME Init PROVE RunInv OBVIOUS
<1>1. NotRunning \in RunRecord /\ NotRunning.scan = 0
      BY Empty DEF NotRunning, Fresh, RunRecord, NoSnapshot, Snapshots
<1>2. /\ run = [p \in Movers |-> NotRunning] /\ scans = 0
      /\ snapshot = [scan |-> 0, synced |-> TRUE] /\ safe = [scan |-> 0, synced |-> TRUE]
      /\ \A p \in Movers : pc[p] = "idle"
      BY DEF Init, NoSnapshot, Procs
<1>3. RunType /\ ScansOK BY <1>1, <1>2 DEF RunType, ScansOK, Snapshots
<1>4. ASSUME NEW p \in Movers PROVE ReportOK(p) /\ ScanOK(p)
      BY <1>1, <1>2 DEF ReportOK, Alive, Stopped, ScanOK, Publishing, Published
<1> QED BY <1>3, <1>4 DEF RunInv

LEMMA RunSafety == Spec => [](RunInv)
BY RunInit, RunStep, LockSafety, PTL DEF Spec

(* The exit status of a mover that ends by itself agrees with the results  *)
(* its reader was given, in each of the three output modes, whoever        *)
(* signals it and whenever the reader goes (cli.run and cli.main).         *)
THEOREM TruthSafety == Spec => []ExitTruth
<1>1. RunInv => ExitTruth
  <2> SUFFICES ASSUME RunInv, NEW p \in Movers, pc[p] = "exit"
               PROVE  CASE Status(p) = 0   ->
                             /\ exc[p] = "none"
                             /\ OneResult(Delivered(p), IF run[p].live THEN "completed"
                                                        ELSE "planned")
                        [] Status(p) = 130 ->
                             run[p].cancel /\ OneResult(Delivered(p), "cancelled")
                        [] Status(p) = 1   ->
                             IF exc[p] = "uncaught" THEN NoResult(Delivered(p))
                             ELSE \/ OneResult(Delivered(p), "failed")
                                  \/ ~Machine(p) /\ NoResult(Delivered(p))
                        [] Status(p) = 120 -> ~run[p].reader
                        [] OTHER           -> exc[p] = "interrupt"
      BY DEF ExitTruth
  <2>1. Truthful(p) BY DEF RunInv, ReportOK
  <2>2. CASE Status(p) = 0 BY <2>1, <2>2 DEF Truthful
  <2>3. CASE Status(p) = 130 BY <2>1, <2>3 DEF Truthful
  <2>4. CASE Status(p) = 1 BY <2>1, <2>4 DEF Truthful
  <2>5. CASE Status(p) = 120 BY <2>1, <2>5 DEF Truthful
  <2>6. CASE Status(p) = -1 BY <2>1, <2>6 DEF Truthful
  <2> QED BY <2>1, <2>2, <2>3, <2>4, <2>5, <2>6 DEF Truthful
<1> QED BY <1>1, RunSafety, PTL

(* The snapshot readers see is whole and not older than what a power       *)
(* failure leaves, and the accounting of a mover that goes on, or ends     *)
(* with 0, is durable (accounting.publish_snapshot under the lock).        *)
THEOREM SnapshotSafety == Spec => []SnapshotKept
<1>1. RunInv => SnapshotKept
  <2> SUFFICES ASSUME RunInv PROVE SnapshotKept OBVIOUS
  <2>1. ASSUME NEW p \in Movers,
               \/ pc[p] \in Acting \ {"temp", "replace", "dirsync", "untemp"}
               \/ pc[p] = "exit" /\ Status(p) = 0
        PROVE  safe.scan >= run[p].scan
    <3>1. Published(p)
          BY <2>1 DEF Acting, Published, Status, RunInv, ReportOK
    <3>2. run[p].scan \in Nat /\ safe.scan \in Nat
          BY DEF RunInv, RunType, RunRecord, Snapshots
    <3> QED BY <3>1, <3>2 DEF RunInv, ScanOK
  <2> QED BY <2>1 DEF SnapshotKept, RunInv, ScansOK
<1> QED BY <1>1, RunSafety, PTL
=============================================================================
