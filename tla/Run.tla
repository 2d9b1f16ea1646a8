-------------------------------- MODULE Run --------------------------------
(***************************************************************************)
(* cli.main of one mover process: configuration, lock, discovery and scan, *)
(* plan, publication of the snapshot (accounting.publish_snapshot), signal *)
(* handlers, execution, and the result in one of three output modes.       *)
(* Standard output is a pipe to a reader that may go away: `buf` is what   *)
(* was printed and not yet flushed, `out` what was delivered.              *)
(***************************************************************************)
EXTENDS Process

CONSTANTS Names,   \* relative paths
          Args     \* arguments each mover is started with: output mode, --live, exclusions

VARIABLES
    run,       \* of each mover: arguments, handlers and output
    scans,     \* exclusion scans made so far, the time of observation
    snapshot,  \* the published accounting, as other programs read it
    safe       \* what a power failure leaves of it for certain

outputs   == <<run, scans>>
published == <<snapshot, safe>>
moverVars == <<outputs, published>>

(* A snapshot is the number of its scan and whether its bytes are synced.  *)
NoSnapshot == [scan |-> 0, synced |-> TRUE]

Fresh(a) == [mode |-> a.mode, live |-> a.live, excluding |-> a.excluding,
             handled |-> {}, cancel |-> FALSE, scan |-> 0, temp |-> NoSnapshot,
             code |-> 0, buf |-> <<>>, out |-> <<>>, reader |-> TRUE]

NotRunning == Fresh([mode |-> "json", live |-> FALSE, excluding |-> FALSE])

Machine(p) == run[p].mode # "human"
Printed(p, s) == run' = [run EXCEPT ![p].buf = @ \o s]

(* A new process of the mover, its arguments parsed.                       *)
Start(p) ==
    /\ ~Alive(p)
    /\ Raise(p, "none", "config")
    /\ \E a \in Args[p] : run' = [run EXCEPT ![p] = Fresh(a)]
    /\ Planned(p, {})
    /\ UNCHANGED <<lock, disk, scans, published>>

Configure(p) ==
    /\ pc[p] = "config"
    /\ Go(p, "open")
    /\ UNCHANGED <<lock, files, moverVars>>

(* Discovery and, if paths are excluded, the scan of their SSD usage: both *)
(* are module Survey.                                                      *)
Discover(p) ==
    /\ pc[p] = "discover"
    /\ Go(p, "plan")
    /\ IF run[p].excluding THEN scans' = scans + 1 ELSE UNCHANGED scans
    /\ run' = [run EXCEPT ![p].scan = IF run[p].excluding THEN scans + 1 ELSE 0]
    /\ UNCHANGED <<lock, files, published>>

MakePlan(p) ==
    /\ pc[p] = "plan"
    /\ \E s \in Plans(Names) : Planned(p, s)
    /\ Go(p, IF run[p].excluding THEN "temp" ELSE "announce")
    /\ UNCHANGED <<lock, disk, moverVars>>

-----------------------------------------------------------------------------
(* publish_snapshot: a synced temporary file replaces the snapshot, then   *)
(* the directory is synced; whatever fails, the temporary file goes.  The  *)
(* directory is there and durable: its mkdir is not modelled.              *)

(* Mutant: the temporary file is not synced.                               *)
WriteTempUnsynced(p) ==
    /\ pc[p] = "temp"
    /\ run' = [run EXCEPT ![p].temp = [scan |-> run[p].scan, synced |-> FALSE]]
    /\ Go(p, "replace")
    /\ UNCHANGED <<lock, files, scans, published>>

WriteTemp(p) ==
    /\ pc[p] = "temp"
    /\ run' = [run EXCEPT ![p].temp = [scan |-> run[p].scan, synced |-> TRUE]]
    /\ Go(p, "replace")
    /\ UNCHANGED <<lock, files, scans, published>>

ReplaceSnapshot(p) ==
    /\ pc[p] = "replace"
    /\ snapshot' = run[p].temp
    /\ run' = [run EXCEPT ![p].temp = NoSnapshot]
    /\ Go(p, "dirsync")
    /\ UNCHANGED <<lock, files, scans, safe>>

SyncDirectory(p) ==
    /\ pc[p] = "dirsync"
    /\ safe' = snapshot
    /\ Go(p, "untemp")
    /\ UNCHANGED <<lock, files, outputs, snapshot>>

UnlinkTemp(p) ==
    /\ pc[p] = "untemp"
    /\ run' = [run EXCEPT ![p].temp = NoSnapshot]
    /\ Go(p, IF exc[p] = "none" THEN "announce" ELSE "unlock")
    /\ UNCHANGED <<lock, files, scans, published>>

Publish(p) == WriteTemp(p) \/ ReplaceSnapshot(p) \/ SyncDirectory(p) \/ UnlinkTemp(p)

-----------------------------------------------------------------------------
(* An event is printed and flushed: delivered with all that was buffered,  *)
(* or left in the buffer by an OSError.                                    *)
Flush(p, s, l) ==
    /\ run[p].mode = "events"
    /\ run[p].reader
    /\ run' = [run EXCEPT ![p].out = @ \o run[p].buf \o s, ![p].buf = <<>>]
    /\ Go(p, l)

FlushFails(p, s, l) ==
    /\ run[p].mode = "events"
    /\ ~run[p].reader
    /\ Printed(p, s)
    /\ Raise(p, "failed", l)

(* report.plan: the event "planned".                                       *)
Announce(p) ==
    /\ pc[p] = "announce"
    /\ LET next == IF run[p].live THEN "install" ELSE "unlock"
       IN  \/ run[p].mode # "events" /\ Go(p, next) /\ UNCHANGED run
           \/ Flush(p, <<"planned event">>, next)
           \/ FlushFails(p, <<"planned event">>, "unlock")
    /\ UNCHANGED <<lock, files, scans, published>>

(* The handlers of SIGTERM and then of SIGINT are installed before the     *)
(* batch and restored after it.                                            *)
Handlers(p) ==
    /\ \E s \in {"TERM", "INT"} :
          /\ pc[p] = IF s = "TERM" THEN "install" ELSE "install2"
          /\ run' = [run EXCEPT ![p].handled = @ \cup {s}]
          /\ Go(p, IF s = "TERM" THEN "install2" ELSE "execute")
    /\ UNCHANGED <<lock, files, scans, published>>

Restore(p) ==
    /\ \E s \in {"TERM", "INT"} :
          /\ pc[p] = IF s = "TERM" THEN "restore" ELSE "restore2"
          /\ run' = [run EXCEPT ![p].handled = @ \ {s}]
          /\ Go(p, IF s = "TERM" THEN "restore2" ELSE "unlock")
    /\ UNCHANGED <<lock, files, scans, published>>

(* execute_moves, as modules Executor and Mover show it to behave: it      *)
(* returns when every move is done; a cancellation leaves every file in    *)
(* one place; a failure may leave a committed move with its source.        *)
Execute(p) ==
    /\ pc[p] = "execute"
    /\ \E m \in plan[p] : Commit(p, m) \/ Remove(p, m)
    /\ UNCHANGED <<lock, local, moverVars>>

Executed(p) ==
    /\ pc[p] = "execute"
    /\ removed[p] = plan[p]
    /\ Go(p, "restore")
    /\ UNCHANGED <<lock, files, moverVars>>

(* The except clause of _run renders the result in human mode; "uncaught"  *)
(* passes it by, a TypeError of the configuration a worker reads again.    *)
ExecutionRaises(p, e) ==
    /\ pc[p] = "execute"
    /\ \/ e \in {"failed", "uncaught"} /\ removed[p] # plan[p]
       \/ e = "failed" /\ run[p].mode = "events" /\ ~run[p].reader
       \/ e = "cancelled" /\ run[p].cancel /\ removed[p] = placed[p] /\ placed[p] # plan[p]
    /\ Printed(p, IF Machine(p) \/ e = "uncaught" THEN <<>> ELSE <<e>>)
    /\ Raise(p, e, "restore")
    /\ UNCHANGED <<lock, files, scans, published>>

-----------------------------------------------------------------------------
(* After the lock: the result of a run without exception ...               *)
Exits(p, c, s) ==
    /\ run' = [run EXCEPT ![p].code = c, ![p].buf = @ \o s]
    /\ Go(p, "exit")

Finish(p) ==
    /\ pc[p] = "after"
    /\ exc[p] = "none"
    /\ LET s == <<IF run[p].live THEN "completed" ELSE "planned">>
       IN  \/ run[p].mode # "events" /\ Exits(p, 0, s)
           \/ Flush(p, s, "exit")
           \/ FlushFails(p, s, "after")
    /\ UNCHANGED <<lock, files, scans, published>>

(* ... and of one that raised.  In a machine mode run() reports it; if     *)
(* that fails, and in human mode, main() prints a line of prose.           *)
Code(p) == IF exc[p] = "cancelled" THEN 130 ELSE 1

(* Mutant: a cancellation is reported as a failure.                        *)
ReportAsFailure(p) ==
    /\ pc[p] = "after"
    /\ exc[p] \in {"failed", "cancelled"}
    /\ Exits(p, Code(p), <<"failed">>)
    /\ UNCHANGED <<lock, files, scans, published>>

Report(p) ==
    /\ pc[p] = "after"
    /\ exc[p] \in {"failed", "cancelled"}
    /\ \/ run[p].mode = "human" /\ Exits(p, Code(p), <<"prose">>)
       \/ run[p].mode = "json" /\ Exits(p, Code(p), <<exc[p]>>)
       \/ /\ run[p].mode = "events" /\ run[p].reader
          /\ run' = [run EXCEPT ![p].out = @ \o run[p].buf \o <<exc[p]>>,
                                ![p].buf = <<>>, ![p].code = Code(p)]
          /\ Go(p, "exit")
       \/ /\ run[p].mode = "events" /\ ~run[p].reader
          /\ Exits(p, 1, <<exc[p], "prose">>)
    /\ UNCHANGED <<lock, files, scans, published>>

(* An exception that neither run() nor main() catches: a traceback.        *)
Traceback(p) ==
    /\ pc[p] = "after"
    /\ exc[p] \in {"uncaught", "interrupt"}
    /\ Exits(p, IF exc[p] = "uncaught" THEN 1 ELSE -1, <<>>)
    /\ UNCHANGED <<lock, files, scans, published>>

(* The interpreter flushes stdout at exit; status 120 if it cannot.        *)
Delivered(p) == IF run[p].reader THEN run[p].out \o run[p].buf ELSE run[p].out
Status(p)    == IF run[p].reader \/ run[p].buf = <<>> THEN run[p].code ELSE 120

Exit(p) ==
    /\ pc[p] = "exit"
    /\ Raise(p, "none", "ended")
    /\ run' = [run EXCEPT ![p] = NotRunning]
    /\ UNCHANGED <<lock, files, scans, published>>

-----------------------------------------------------------------------------
(* Where an exception goes from each step: through the finally blocks.     *)
Handler(l) == CASE l \in {"config", "open", "after"}     -> "after"
                [] l \in {"temp", "replace", "dirsync"} -> "untemp"
                [] OTHER                                -> "unlock"

(* The code raises one of the exceptions that run() catches; "uncaught" is *)
(* any other: CalledProcessError of a discovery command, TypeError of a    *)
(* configured value.                                                       *)
Fail(p) ==
    /\ pc[p] \in {"config", "open", "flock", "write", "discover", "plan",
                 "temp", "replace", "dirsync", "untemp"}
    /\ \E e \in {"failed", "uncaught"} :
          /\ e = "uncaught" => pc[p] \in {"config", "discover"}
          /\ Raise(p, e, Handler(pc[p]))
    /\ UNCHANGED <<lock, files, moverVars>>

(* A signal sets the event while its handler is installed.  Otherwise      *)
(* SIGTERM kills the process and SIGINT raises KeyboardInterrupt.          *)
Signal(p, s) ==
    /\ Alive(p)
    /\ s \in run[p].handled
    /\ run' = [run EXCEPT ![p].cancel = TRUE]
    /\ UNCHANGED <<lock, local, files, scans, published>>

Interrupt(p) ==
    /\ Alive(p)
    /\ pc[p] # "exit"
    /\ "INT" \notin run[p].handled
    /\ Raise(p, "interrupt", Handler(pc[p]))
    /\ UNCHANGED <<lock, files, moverVars>>

Terminate(p) ==
    /\ "TERM" \notin run[p].handled
    /\ Die(p, "terminated")
    /\ run' = [run EXCEPT ![p] = NotRunning]
    /\ UNCHANGED <<scans, published>>

MoverStep(p) ==
    \/ Locking(p) /\ UNCHANGED moverVars
    \/ Configure(p) \/ Discover(p) \/ MakePlan(p) \/ Publish(p) \/ Announce(p)
    \/ Handlers(p) \/ Execute(p) \/ Executed(p) \/ Restore(p)
    \/ \E e \in {"failed", "cancelled", "uncaught"} : ExecutionRaises(p, e)
    \/ Finish(p) \/ Report(p) \/ Traceback(p) \/ Exit(p) \/ Fail(p)

Signals(p) == Interrupt(p) \/ Terminate(p) \/ \E s \in {"TERM", "INT"} : Signal(p, s)
=============================================================================
