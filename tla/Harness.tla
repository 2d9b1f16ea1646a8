------------------------------ MODULE Harness ------------------------------
(***************************************************************************)
(* test_suite.run: the integration harness plans and moves fixtures of its *)
(* own in a dedicated directory of every branch, under the lock of the     *)
(* mover, and removes them whatever happens once all are created.          *)
(***************************************************************************)
EXTENDS Process

CONSTANTS Fixtures,  \* sequence of fixture names
          First      \* the SSD that is given the fixtures

FixtureNames == {Fixtures[k] : k \in DOMAIN Fixtures}

VARIABLES
    live,   \* --live of each harness
    made,   \* fixtures each harness has created
    unswept \* files its cleanup has still to look at

harnessVars == <<live, made, unswept>>

StartHarness(p) ==
    /\ ~Alive(p)
    /\ Raise(p, "none", "config")
    /\ Planned(p, {})
    /\ \E b \in BOOLEAN : live' = [live EXCEPT ![p] = b]
    /\ made' = [made EXCEPT ![p] = 0]
    /\ UNCHANGED <<lock, disk, unswept>>

(* The scope, the configuration and the unit tests; discovery and mkdir.   *)
Prepare(p) ==
    /\ \/ pc[p] = "config" /\ Go(p, "open")
       \/ pc[p] = "discover" /\ Go(p, "check")
    /\ UNCHANGED <<lock, files, harnessVars>>

(* Mutant: nobody looks.                                                   *)
CheckNothing(p) ==
    /\ pc[p] = "check"
    /\ Go(p, "create")
    /\ UNCHANGED <<lock, files, harnessVars>>

(* Only the SSD that gets the fixtures is asked.                           *)
CheckFree(p) ==
    /\ pc[p] = "check"
    /\ IF \E f \in FixtureNames : <<First, f>> \in disk
       THEN Raise(p, "failed", "unlock")
       ELSE Go(p, "create")
    /\ UNCHANGED <<lock, files, harnessVars>>

Create(p) ==
    /\ pc[p] = "create"
    /\ made[p] < Len(Fixtures)
    /\ disk' = disk \cup {<<First, Fixtures[made[p] + 1]>>}
    /\ made' = [made EXCEPT ![p] = @ + 1]
    /\ UNCHANGED <<lock, local, moves, live, unswept>>

(* The cleanup begins with all fixture names on every branch.              *)
ToSweep(p, e) ==
    /\ Raise(p, e, "sweep")
    /\ unswept' = [unswept EXCEPT ![p] = Branches \X FixtureNames]

PlanFixtures(p) ==
    /\ pc[p] = "create"
    /\ made[p] = Len(Fixtures)
    /\ \E s \in Plans(FixtureNames) :
          /\ Planned(p, s)
          /\ IF Cardinality(s) = Len(Fixtures) /\ live[p]
             THEN Go(p, "move") /\ UNCHANGED unswept
             ELSE ToSweep(p, IF Cardinality(s) = Len(Fixtures) THEN "none" ELSE "failed")
    /\ UNCHANGED <<lock, disk, live, made>>

(* One move after the other.                                               *)
MoveFixture(p) ==
    /\ pc[p] = "move"
    /\ \E m \in plan[p] : \/ removed[p] = placed[p] /\ Commit(p, m)
                          \/ Remove(p, m)
    /\ UNCHANGED <<lock, local, harnessVars>>

Verify(p) ==
    /\ pc[p] = "move"
    /\ removed[p] = plan[p]
    /\ ToSweep(p, IF \A m \in plan[p] : Source(m) \notin disk /\ Target(m) \in disk
                  THEN "none" ELSE "failed")
    /\ UNCHANGED <<lock, files, live, made>>

(* Mutant: only the branch that got the fixtures is cleaned.               *)
SweepFirst(p) ==
    /\ pc[p] = "sweep"
    /\ unswept[p] # {}
    /\ disk' = disk \ ({First} \X FixtureNames)
    /\ unswept' = [unswept EXCEPT ![p] = {}]
    /\ UNCHANGED <<lock, local, moves, live, made>>

Sweep(p) ==
    /\ pc[p] = "sweep"
    /\ unswept[p] # {}
    /\ LET x == CHOOSE x \in unswept[p] : TRUE
       IN  /\ disk' = disk \ {x}
           /\ unswept' = [unswept EXCEPT ![p] = @ \ {x}]
    /\ UNCHANGED <<lock, local, moves, live, made>>

Swept(p) ==
    /\ pc[p] = "sweep"
    /\ unswept[p] = {}
    /\ Go(p, "unlock")
    /\ UNCHANGED <<lock, files, harnessVars>>

Leave(p) ==
    /\ pc[p] = "after"
    /\ Go(p, "ended")
    /\ UNCHANGED <<lock, files, harnessVars>>

(* An exception, or a KeyboardInterrupt: the harness handles no signal.    *)
(* Before the try block the fixtures created so far stay.                  *)
HarnessFails(p) ==
    \/ /\ pc[p] \in {"config", "open"}
       /\ Raise(p, "failed", "after")
       /\ UNCHANGED <<lock, files, harnessVars>>
    \/ /\ \/ pc[p] \in {"write", "discover", "check", "sweep"}
          \/ pc[p] = "create" /\ made[p] < Len(Fixtures)
       /\ Raise(p, "failed", "unlock")
       /\ UNCHANGED <<lock, files, harnessVars>>
    \/ /\ \/ pc[p] = "move"
          \/ pc[p] = "create" /\ made[p] = Len(Fixtures)
       /\ ToSweep(p, "failed")
       /\ UNCHANGED <<lock, files, live, made>>

HarnessStep(p) ==
    \/ Locking(p) /\ UNCHANGED harnessVars
    \/ Prepare(p) \/ CheckFree(p) \/ Create(p) \/ PlanFixtures(p) \/ MoveFixture(p)
    \/ Verify(p) \/ Sweep(p) \/ Swept(p) \/ Leave(p) \/ HarnessFails(p)
=============================================================================
