------------------------------ MODULE Session ------------------------------
(***************************************************************************)
(* Movers and integration harnesses that share one lock file, one snapshot *)
(* and one pool, and may be stopped, killed and started again.             *)
(***************************************************************************)
EXTENDS Run, Harness

CONSTANTS Files,      \* files of the pool at the beginning
          MaxStarts,  \* bound: processes started
          MaxFaults   \* bound: signals, kills, lost readers and power failures

ASSUME SessionAssumption ==
    /\ Files \subseteq Branches \X (Names \cup FixtureNames)
    /\ Fixtures \in Seq(FixtureNames)
    /\ \A j, k \in DOMAIN Fixtures : Fixtures[j] = Fixtures[k] => j = k
    /\ First \in Ssd
    /\ \A p \in Movers : Args[p] \subseteq [mode : {"human", "json", "events"},
                                            live : BOOLEAN, excluding : BOOLEAN]

VARIABLES starts, faults

bounds == <<starts, faults>>
vars   == <<lock, local, files, moverVars, harnessVars, bounds>>

Init ==
    /\ pc = [p \in Procs |-> "idle"]
    /\ exc = [p \in Procs |-> "none"]
    /\ holder = Nobody /\ pid = Nobody
    /\ disk = Files
    /\ plan = [p \in Procs |-> {}]
    /\ placed = [p \in Procs |-> {}]
    /\ removed = [p \in Procs |-> {}]
    /\ run = [p \in Movers |-> NotRunning]
    /\ scans = 0
    /\ snapshot = NoSnapshot /\ safe = NoSnapshot
    /\ live = [p \in Harnesses |-> FALSE]
    /\ made = [p \in Harnesses |-> 0]
    /\ unswept = [p \in Harnesses |-> {}]
    /\ starts = 0 /\ faults = 0

Step(p) ==
    /\ \/ p \in Movers /\ MoverStep(p) /\ UNCHANGED harnessVars
       \/ p \in Harnesses /\ HarnessStep(p) /\ UNCHANGED moverVars
    /\ UNCHANGED bounds

Begin(p) ==
    /\ starts < MaxStarts
    /\ starts' = starts + 1
    /\ \/ p \in Movers /\ Start(p) /\ UNCHANGED harnessVars
       \/ p \in Harnesses /\ StartHarness(p) /\ UNCHANGED moverVars
    /\ UNCHANGED faults

(* Any process can be killed; the harness is also by a signal.             *)
Kill(p) ==
    /\ Die(p, "dead")
    /\ run' = [q \in Movers |-> IF q = p THEN NotRunning ELSE run[q]]
    /\ UNCHANGED <<scans, published, harnessVars>>

ReaderGone(p) ==
    /\ Alive(p)
    /\ run[p].reader
    /\ run' = [run EXCEPT ![p].reader = FALSE]
    /\ UNCHANGED <<lock, local, files, scans, published, harnessVars>>

(* Power fails: every process is gone, so is the lock file (/run), and the *)
(* rename of a snapshot whose directory was not synced may be undone.      *)
PowerFailure ==
    /\ \E p \in Procs : Alive(p)
    /\ pc' = [p \in Procs |-> IF Alive(p) THEN "dead" ELSE pc[p]]
    /\ holder' = Nobody
    /\ pid' = Nobody
    /\ snapshot' \in {snapshot, safe}
    /\ safe' = snapshot'
    /\ UNCHANGED <<exc, files, outputs, harnessVars>>

Fault ==
    /\ faults < MaxFaults
    /\ faults' = faults + 1
    /\ \/ \E p \in Procs : Kill(p)
       \/ \E p \in Movers : ReaderGone(p)
       \/ \E p \in Movers : Signals(p) /\ UNCHANGED harnessVars
       \/ PowerFailure
    /\ UNCHANGED starts

Next == Fault \/ \E p \in Procs : Begin(p) \/ Step(p)

Spec == Init /\ [][Next]_vars

-----------------------------------------------------------------------------
Outside == Stopped \cup {"config", "open", "flock", "unlock", "after", "exit"}
Inside  == {"write", "discover", "plan", "temp", "replace", "dirsync", "untemp",
            "announce", "install", "install2", "execute", "restore", "restore2",
            "check", "create", "move", "sweep"}

AllNames   == Names \cup FixtureNames
Exceptions == {"none", "failed", "cancelled", "uncaught", "interrupt"}

TypeOK ==
    /\ pc \in [Procs -> Outside \cup Inside]
    /\ exc \in [Procs -> Exceptions]
    /\ holder \in Procs \cup {Nobody} /\ pid \in Procs \cup {Nobody}
    /\ disk \subseteq Branches \X AllNames
    /\ plan \in [Procs -> SUBSET Moves(AllNames)]
    /\ placed \in [Procs -> SUBSET Moves(AllNames)]
    /\ removed \in [Procs -> SUBSET Moves(AllNames)]
    /\ made \in [Harnesses -> 0..Len(Fixtures)]

(* At most one process is between taking the lock and releasing it,        *)
(* contenders, signals and kills notwithstanding.                          *)
OneInside == \A p, q \in Procs : pc[p] \notin Outside /\ pc[q] \notin Outside => p = q

(* From planning until the last move no other process changes what the     *)
(* plan was made from: a move that is left finds its source in place and   *)
(* its destination free, unless a move of the same plan took it, and what  *)
(* was committed stays.                                                    *)
Acting == {"temp", "replace", "dirsync", "untemp", "announce", "install", "install2",
           "execute", "restore", "restore2", "move"}

PlanFresh ==
    \A p \in Procs : pc[p] \in Acting =>
        \A m \in plan[p] :
            /\ m \notin removed[p] => Source(m) \in disk
            /\ Target(m) \in disk <=> \E n \in placed[p] : Target(n) = Target(m)

(* The exit status of a mover that ends by itself agrees with the results  *)
(* it delivered (docs/reporting.md, "Terminal and error behavior"): 0 is   *)
(* one result of success, 130 one of a cancellation that somebody asked    *)
(* for, 1 one of a failure (in human mode perhaps only prose); a result is *)
(* missing only if the reader left, or if nothing catches the exception.   *)
Remarks         == {"prose", "planned event"}
ResultsIn(s)    == {k \in DOMAIN s : s[k] \notin Remarks}
NoResult(s)     == ResultsIn(s) = {}
OneResult(s, r) == \E k \in DOMAIN s : ResultsIn(s) = {k} /\ s[k] = r

ExitTruth ==
    \A p \in Movers : pc[p] = "exit" =>
        CASE Status(p) = 0   -> /\ exc[p] = "none"
                                /\ OneResult(Delivered(p), IF run[p].live THEN "completed"
                                                           ELSE "planned")
          [] Status(p) = 130 -> run[p].cancel /\ OneResult(Delivered(p), "cancelled")
          [] Status(p) = 1   ->
                 IF exc[p] = "uncaught" THEN NoResult(Delivered(p))
                 ELSE \/ OneResult(Delivered(p), "failed")
                      \/ ~Machine(p) /\ NoResult(Delivered(p))
          [] Status(p) = 120 -> ~run[p].reader
          [] OTHER           -> exc[p] = "interrupt"

(* The snapshot readers see is whole and no older than the durable one,    *)
(* and accounting that a mover goes on to report is durable: no power      *)
(* failure takes it back, if its directory itself is durable (the parent   *)
(* of one that publish_snapshot has just made is not synced).              *)
SnapshotKept ==
    /\ snapshot.synced
    /\ safe.scan <= snapshot.scan
    /\ \A p \in Movers :
          \/ pc[p] \in Acting \ {"temp", "replace", "dirsync", "untemp"}
          \/ pc[p] = "exit" /\ Status(p) = 0
          => safe.scan >= run[p].scan

(* A harness that created all its fixtures and could clean up leaves none  *)
(* on any branch, wherever its moves or an earlier mover brought them.     *)
FixturesSwept ==
    \A p \in Harnesses :
        pc[p] = "unlock" /\ made[p] = Len(Fixtures) /\ unswept[p] = {} =>
            disk \cap (Branches \X FixtureNames) = {}

(* "Refusing to overwrite existing integration fixtures": no file is       *)
(* overwritten when a fixture is created.                                  *)
NoOverwrite ==
    [][\A p \in Harnesses : made'[p] > made[p] =>
          <<First, Fixtures[made'[p]]>> \notin disk]_vars

(* "a caller ending a duration window receives `cancelled`" (docs/         *)
(* reporting.md:86-87): a live mover at work is not killed by SIGTERM.     *)
StopReported ==
    [][\A p \in Movers :
          pc[p] \notin Outside \cup {"write"} /\ run[p].live => pc'[p] # "terminated"]_vars
=============================================================================
