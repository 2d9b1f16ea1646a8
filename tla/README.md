# Verification of nas-mover

nas-mover moves files of a mergerfs pool: it levels its SSD branches and, when
every SSD is above a watermark, spills files to HDD branches. It plans all
moves first, then runs them: SSD moves one after the other, HDD moves with one
worker per destination HDD. This directory holds TLA+ models of that program,
the TLC runs that check them and the TLAPS proofs about them. Paths are
relative to `src/src/nas_mover` unless they start with `docs/` or `README`,
which are the repository's own.

## 1. Inventory

A live run goes through the parts in this order: `cli` takes the process lock,
`discovery` reads the pool, `accounting` measures the excluded paths,
`planner` (asking `policy`) makes one plan, `accounting` publishes its
snapshot, `reporting` takes the plan, and `executor` runs it. The executor
calls the wrapper of `reporting`, which calls `transfer`. The threads of the
executor, the transfers and the signal handlers share one cancellation event;
transfers share the disk with each other, with users and with the operator,
who may edit the exclusions while a run is going on.

**Executor** (`executor.py`, with `ExecutionReport.wrap`).
*State*: where each thread is in its queue, the futures, the event, the
disposition of each move.
*Operations*: run the SSD moves, submit one queue per HDD, begin and end a
queue, take a move, record how it ended, collect a future, join, raise.
*Hard*: workers end, fail and are cancelled in any order; a thread may not
start; printing an event may fail inside a worker; the caller releases the
process lock afterwards.
*Correct when*: moves to one destination never overlap, the call never ends
before its workers, a normal return means that the whole plan completed, a
failure is never reported as a cancellation, and a failure or a signal stops
new work.

**Transfer** (`transfer.py`, `accounting.is_excluded`).
*State*: partial file, source, destination, what is durable.
*Operations*: check, stat, copy, flush, copy times, recheck, hash, final
check, rename, sync the directory, unlink the source, clean up.
*Hard*: users write, remove and create files and the operator excludes paths
between any two system calls; calls fail; the power fails; cancellation comes
at any time.
*Correct when*: what users last wrote is never lost, an existing destination
is not replaced, a protected file is not moved, no partial file is left that
could be removed, and the way a call ends tells where the file is.

**Planner** (`planner.py`, `models.py`) and **policies** (`policy.py`).
*State*: simulated free and used bytes and planned directories of each branch,
the files already looked at, the plan.
*Operations*: balance one file, pass over one file, spill one file, leave one
file, end either loop, choose a destination with one of twenty policies.
*Hard*: each decision rests on the simulation of the earlier ones; there are
several reserves; sizes and usage do not add up (sparse files, reserved
blocks, links); the plan is made in one order and executed concurrently.
*Correct when*: reserves are kept, the simulation drifts from what
execution leaves only by what sizes do not tell, moves do not depend on each other's names, and
planning goes on while a move is possible.

**Command line and signals** (`cli.py`), **process lock** (`locking.py`).
*State*: the lock file, the signal handlers, what was printed and what of it
was delivered.
*Operations*: lock, discover, scan, plan, publish, install handlers, execute,
restore handlers, unlock, finish, print, exit.
*Hard*: several processes; a signal before, during and after execution; an
output that fails while a failure is reported; death in any step.
*Correct when*: one process at a time works on the pool, from a plan that
nobody else invalidates, and the exit status agrees with the results delivered.

**Excluded-path accounting** (`accounting.py`).
*State*: the published snapshot.
*Operations*: measure the excluded roots entry by entry, write, sync, rename,
sync the directory, unlink.
*Hard*: files come and go meanwhile; exclusions overlap; failure and crash
between the steps.
*Correct when*: a file is counted once and never also a candidate, readers see
a complete old or new snapshot, and accounting a run reports is durable.

**Report** (`reporting.py`).
*State*: dispositions, actual sizes, status, time of the last event, a lock.
*Operations*: plan, wrap, event, finish, snapshot.
*Hard*: state and output share one lock, and the output is a pipe to a reader
that may be slow or gone.
*Correct when*: the result is true and final, events are cumulative, and a run
ends whatever a reader that goes on or leaves does.

**Discovery** (`discovery.py`), **configuration** (`config.py`).
*State*: none of their own; they read the state of mounts, of mergerfs and of
one TOML file with a sequence of commands.
*Operations*: `parse_fstab`, or mount, type, branch list and reserve of the
running pool; then mount point, capacity and kind of each branch.
*Hard*: mounts and configuration change between two commands.
*Correct when*: a branch that is accepted is described by its own file system.

**Integration harness** (`test_suite.py`, `sandbox.py`, `sandbox_cli.py`).
*State*: fixtures on the branches.
*Operations*: check, create, plan, move, verify, remove.
*Hard*: cleanup after a partial run, beside movers and after crashes.
*Correct when*: it overwrites nothing and leaves no fixture it could remove.

`original-oneshot.py` is the program before the package existed; nothing
imports it. `__init__.py`, `__main__.py` and `core.py` only name what is
elsewhere.

## 2. Modules

| Module | Stands for | Uses |
| --- | --- | --- |
| `Batch` | what a live batch promises | |
| `Executor` | `execute_moves`, `_run_serial_queue`, `wrap` | implements `Batch` |
| `ExecutorProof` | theorems about `Executor` | `Executor`, `Batch` |
| `AtomicMove` | what one `execute_move` promises | |
| `Transfer` | `execute_move` and its helpers, with the interference of the world | implements `AtomicMove` |
| `TransferProof` | theorems about `Transfer`: names and steps, then contents | `Transfer`, `AtomicMove` |
| `Mover` | `execute_moves` over `report.wrap(execute_move)` | instances of `Executor` and `Transfer` that share `cancel` |
| `MoverProof` | theorems about `Mover` | instances of `ExecutorProof` and `TransferProof` |
| `Policy` | `choose_destination` and its helpers | |
| `Choice` | one call of `choose_destination` | `Policy` |
| `Planner` | `plan_moves` | `Policy` |
| `PlannerProof` | theorems about `Planner` and `Choice` | `Planner`, `Choice`, `FiniteFacts` |
| `FiniteFacts` | lemmas: best elements of finite sets, sums, fractions | |
| `Survey` | what a run reads: `config`, `discovery`, `scan_exclusions`, `scan_files` | |
| `SurveyProof` | theorems about `Survey` | `Survey`, `FiniteFacts` |
| `Report` | `ExecutionReport` with its reader | an instance of `Executor` |
| `ReportProof` | theorems about `Report` | `Report`, an instance of `ExecutorProof`, `FiniteFacts` |
| `Process` | what processes share: the lock, the files, moves and plans | |
| `Run` | `cli.main` of one mover, with `publish_snapshot` | `Process` |
| `Harness` | `test_suite.run` with `Sandbox` | `Process` |
| `Session` | movers and harnesses together, with faults | `Run`, `Harness` |
| `SessionProof` | theorems about `Session` and the movers and harnesses in it | `Session` |
| `MCExecutor`, `MCTransfer`, `MCMover`, `MCChoice`, `MCPlanner`, `MCSurvey`, `MCReport`, `MCSession` | model values and instances of the runs | |

Definitions marked "Mutant" are wrong forms of the definition below them, one
for each kind of bug a property is meant to catch; no specification uses them.

### Executor

`at[t]` is where thread `t` is: the calling thread (`Main`) in the loop over
`sequential`, a worker in `_run_serial_queue`. A worker is `absent` before
`pool.submit`, `queued` in the pool, in the `loop`, in the wrapper before its
lock (`called`), in the move (`running`), or `finished`. `phase` is the line
the calling thread is at: the sequential loop (53-56), submitting (66-75),
collecting with `as_completed` (76-81), the exit of the `with` block when a
submission raised (`unwinding`), or the end. Taking a move and checking the
event (lines 21-24) is one step: between the check and the call there is nothing
other threads can see. The wrapper's two updates under the report's lock are
the steps `Activate` and `Succeed`/`Fail`/`Interrupt`; that a completed move's
event cannot be printed is `SucceedUnreported`. `SpawnFails` is a pool that
queues the work and then cannot start a thread; that queue is `orphaned` until
another worker is free. A signal only sets the event. What a move does to files
is left open: it takes any time and ends in any way.

`Batch` has no threads: a move starts when the moves it must follow have
completed, is resolved once, and the batch closes once with an outcome the
dispositions justify.

### Transfer

One action per system call or check, in the order of lines 78-132: `Enter`
(79-88), `CheckDestination` (90), `StatSource` (92-94), `OpenFiles`, `CopyChunk`,
`Flush`, `CopyStat` (`_copy_file`), `Recheck` (97-108), `HashChunk` and
`Compare` (sha256), `FinalCheck`, `Replace`, `SyncDirectory`, `UnlinkSource`;
`Abort` goes to the handler that removes the partial file (`Cleanup`,
`CleanupFails`). A file is a sequence of chunks, an mtime and whether its
contents are synced; a chunk is the number of the write that made it, so two
files are equal exactly when no write tells them apart. `durable` holds the
names whose directory was synced; a `Crash` may undo any other rename and loses
unsynced contents. `UserWrite` (a quiet write keeps the timestamp),
`UserRemove`, `UserCreate`, `Exclude` and `Link` are the world; `late` records
interference after the last check that could notice it, and is what the
properties exempt: no code can do better without locks that users honour.
`placed` and `orig` are history, and so is `stuck`: the calls whose removal of the
partial file now there failed (`CleanupFails`). `PartialRemoved` exempts these
calls alone; a call that fails in any other way has removed its partial file, a
stale one it met included. The `shutil.copy2` path taken without a
cancellation callback (only by the integration harness) is not modelled.

### Mover

`Mover` instantiates both modules with one `cancel`. `Enter` and `Leave` are
the joint steps: the wrapper records the move as active and the call begins;
the call ended and the wrapper records how. `OneWriter` is about destination
branches, as the queues are: no two calls below one branch are between opening a
partial file and having renamed or removed it. Everything else is a step of one of
the two. It is what shows that the executor's assumption about moves and the
transfer's assumption about its callers (calls with one partial file take
turns) hold together.

### Policy, Choice and Planner

A branch is its order in the pool. A policy answers the set of branches it may
choose: a random policy has several, None is the empty set. Usages are compared
by cross-multiplication, where the code compares floats. `_shared_depth` walks
up from the parent; here it is the deepest prefix that exists. `Choice` asks
every policy one question; `Twin` pairs each most-shared-path policy with the
existing-path policy that prefers alike.

`Planner` makes one step per iteration: `Balance` and `PassOver` are the first
loop with and without room on the emptiest SSD, `Spill` and `Leave` the second,
`StopBalancing` and `StopSpilling` their ends; `Apply` is `_apply`. A file is a
number in the order of `scan_files`, so `next_file` is the smallest one of its
branch not yet considered. `start` is history.

`_apply` counts `st_size` on both sides of a move. What a move really does is
given by two more constants: unlinking file `f` frees `Frees[f]` bytes, fewer
than its size if it is sparse or has another link, and its copy takes
`Takes[f]`, which may be more (a last block). The plan does promise space that
execution does not leave; `DriftBounded` says how much: at most the holes
(`Hole`) of the files sent away and the slack (`Slack`) of those received. An HDD
receives only, and is charged the size of every file.

### Survey

One action per external command, system call or directory entry, in the order
of `_run`: `Load` (validation), `ReadFstab` or the four commands of
`discover_runtime_pool`, then `RequirePool` (the pool's own mount, also for
`--fstab`), `RequireBranch`, `ReadCapacity`, `ReadKind` per branch, `Enough` (two
SSDs and an HDD). Of each SSD `LookAt` asks for an excluded root (`lstat` in
`scan_exclusions`) and `Measure` then visits the root and each entry below it, a
step later: a root that goes in between fails the survey or counts as a present
one without files, and only one that `LookAt` misses is recorded as absent.
`Visit` is one directory of the scope. Between any two of them `World` unmounts,
mounts, reconfigures mergerfs, removes or creates files. A branch that is not
mounted is read as an empty directory of the root file system (`Behind`,
`Visible`). `records` keeps for each root the set of files counted in place of
the three sums, so that counting twice can be seen. A vanished entry fails the
scan, or is passed over when it goes between its `lstat` and the question of its
kind. `gone` and `touched` are history: what was unmounted after its check, and
which entries the world changed.

A scope may lead through a link (`Detours`). `Goal` says where a link leads: out of
the branch, which `scan_files` refuses (`Outside`), or to a path of it, and then
the walk lists what is there (`Real`) under the names it was reached by, with
which `is_excluded` is asked. So an excluded file may become a candidate under
a name that has the link in it. `EachFileOnce` says that this is the only way to
another name; each file under its own name is protected and counted, or a
candidate, in any case. `SurveyAssumption` limits this to one link on a scope, and
no exclusion leads through a link. Resolving a scope and listing its first
directory are one step.

### Report

`Report` wraps the threads of `Executor` with what it leaves out: actual sizes
(a source may have grown), the clock and the throttle, the lock, and the pipe.
`Complete` is the assignment under the lock; if an event is due the thread
holds the lock (`printing`) until `Progress` has written to the pipe, which
waits for room, or raises because the reader is gone (the move stays completed
and the worker raises). `Record` waits for the lock. `Finish` is
`report.finish` after the batch. An event is the whole snapshot: `Aggregate`
over planned, completed and each disposition, in all and by route.

### Process, Run, Harness and Session

`pc` is the line a process is at, `exc` the exception on its way through the
`finally` blocks (`Handler` says where from each step). `OpenLock`, `Acquire`,
`Busy`, `WritePid` and `Unlock` are `process_lock`; a refused contender runs
into the same unlock as the holder, and the kernel frees the lock of a process
that dies. A plan is any set of moves whose sources are on an SSD and whose
names are free (`Planner` has what is chosen); `Execute` is a batch with its
two visible effects per move, as `Executor` and `Transfer` show it to behave.

`Run` has the steps of `_run` between lock and unlock, `publish_snapshot` among
them, and `run` and `main` after it: what is printed in the modes human, json
and events, when it is flushed (events at once, the rest at exit), the
handlers, and the status. `Fail` is an exception the code catches, `uncaught`
one that nobody catches: a failed command of discovery, a value of the wrong type
when the configuration is read, first or again by a worker in the middle of the
execution. `flock` may fail otherwise than by finding the lock taken.
`publish_snapshot` finds its directory there; making it is not modelled.

`Harness` has the fixtures: `CheckFree` asks one SSD, `Create` makes one file
after the other, from the plan on every way out passes `Sweep`.

`Session` lets movers and harnesses start, be signalled, killed, lose their
reader, and the power fail, which frees every lock and may undo a rename whose
directory was not synced.

## 3. Runs

Sizes are distinct states.

* `executor_mixed` (12 thousand): two SSD moves and four HDD moves in three
  queues, one of two, interleaved in the plan; a signal at any time; failing
  events and threads. Three queues are needed for a third worker that runs while
  two errors are collected, two moves in a queue for what a stop leaves undone,
  two SSD moves for the order before the pool. Order, joins, error
  precedence, refinement of `Batch`, termination.
* `transfer_size` (64 thousand): one move of two chunks with up to two user
  writes and every kind of interference at once. Two chunks let a write hit
  a chunk already copied and one still to be copied; two writes let one hide
  the size change of the other.
* `mover` (583 thousand): a move between SSDs, then two SSDs that hold the same
  path and one HDD for both, and a second HDD; verified with sha256, with I/O
  errors, failing threads and events, a signal, a power failure, one write
  (also quiet) and created destinations. One write is enough because the
  effect on one move of several is the subject of `transfer_size`.
* `planner_uneven` (13 thousand): policy eplfs on two SSDs and three HDDs of
  different sizes, one without capacity; every usage of the SSDs, several of the
  HDDs; seven files, among them a twin, a name taken on an HDD, and a sparse file
  larger than what its SSD uses that frees 2 of its 12 bytes.
* `policy` (107 thousand): each policy on three branches, one without
  capacity, for every free space, every planned directory, every parent, and
  files of no size.
* `session` (2.9 million): two movers, one in all three output modes, live and
  dry, and a harness with two fixtures; two starts and two faults. Two
  processes make every race for the lock; two starts of one mover are a
  restart after a crash; two faults let a power failure or a kill follow a
  signal or a lost reader. A file with a fixture's name is on the other SSD.
* `report` (437 thousand): four moves on three routes, one of an empty file;
  sources that grow by a byte; a pipe of one event; a second of two ticks, three
  ticks in all, so that one event is throttled between two that are not.
* `survey` (1.7 million): nine calls (runtime and fstab, overlapping
  exclusions, scopes that are a directory, a file, a link out of the branch and
  a link to a directory with an excluded one below it, an exclusion below a
  file, one that escapes) on three branches, with five branch lists, and two
  changes of the world. Two are needed to unmount and mount again behind a
  check.

Four runs each end with a counterexample to a sentence the repository says of
the program:

* `transfer_conflict`: "Missing, changing, or conflicting files fail according to
  existing transfer behavior" (`docs/reporting.md:53-54`). A file created
  under the destination name during the copy is replaced.
* `planner_reserve`: "of each HDD's total capacity" (`config.example.toml:35-36`).
  The largest reserve of all HDDs is asked of every HDD.
* `planner_excess`: "move excess SSD files to eligible HDD branches"
  (`README.md:45`). A file the first loop passed over is never offered to an
  HDD.
* `session_signal`: "a caller ending a duration window receives `cancelled`"
  (`docs/reporting.md:85-87`). A SIGTERM while a live mover discovers, plans
  or publishes, or has just restored its handlers, kills it: no result, no
  status 130.

The counterexamples to the two planner sentences were replayed with
`plan_moves` itself and gave the same plans.

### Seen while modelling

Facts the models contain that a reader of the code may not expect:

* A command of discovery that fails raises `CalledProcessError`, which neither
  `run` nor `main` catches: a traceback, status 1, and no result in a machine
  mode. So does a configured value of the wrong type.
* When the reader has gone, a result that stays in the buffer gives the
  interpreter's status 120 whatever the run did (`Status`).
* A reader that neither reads nor leaves stops every worker at the lock of the
  report, and a signal does not help: without the fairness of `Wake` the
  property `Ends` is violated.
* Progress events are decided a second apart; when a print was held up two may
  reach the reader closer together.
* A branch unmounted just after its check is read as the root file system. Its
  excluded roots are then recorded as absent, and the snapshot is complete.
* The docstring of `discover_runtime_pool` calls the control attributes
  authoritative for the reserve; `minfreespace` in the mount options wins
  (`discovery.py:136`). List and reserve are read by different commands and may
  belong to different configurations.
* `--fstab` accepts a branch twice; runtime discovery refuses it.
* `--scope` naming a file plans nothing. Through a link that stays inside the
  branch the scan lists files under the link's name, excluded and counted ones
  among them, since exclusions are compared by name. A live run refuses to move
  any of them: `_check_source_path` finds the link (`Enter` of `Transfer`).
* A plan counts on `st_size` bytes of every file it moves away, also of a sparse
  one.
* `excluded_paths = "data"` is accepted as four paths of one character. A
  configuration that is cut short while it is rewritten may be valid TOML
  without its exclusions, hence "change it atomically" (`README.md:199`).
* After a crash between rename and unlink of a move both copies stay: the next
  plan finds the name taken and goes elsewhere or leaves the file.
* The harness deletes a user's file that has a fixture's name on a branch other
  than the first SSD, which alone is asked before.
* Planning does not go back to balancing after a spill; a file larger than the
  tolerance can leave one SSD over the watermark and another far below.
* If the pool cannot start a thread nobody collects futures, and a worker that
  fails stops no other, although the docstring of `execute_moves` says so.

### Bounds

`N`, `Moves` and the plans bound the number of moves, `MaxChunks` the length of
a file, `MaxWrites` the writes by users, `Starts` the initial usages, `Bytes`,
`Names` and `Sizes` the questions to a policy, `MaxStarts` and `MaxFaults` the
processes and faults of a session, `MaxPlan` its plans, `MaxTime` the clock,
`Growth` the growth of a source, `MaxChanges` the changes of the world. Except
for `MaxPlan`, which limits the choice of a plan, none of them occurs in a guard
of the program's own actions, only in those of the environment and in initial
states. `Capacity` is the size of the pipe, which the system has too.

### Fairness

* `Executor`: weak fairness of the calling thread and of each worker: threads
  of one process are scheduled, and a move ends (`Transfer` shows that). No
  fairness of signals.
* `Transfer`: weak fairness of `Proceed` of a call that has begun: a system call
  that does not fail returns. None of the world, of failures or of calls
  beginning. `CallEnds` depends on users writing finitely often, since
  the copy loop reads until the end of a file that may grow.
* `Mover`: weak fairness of the calling thread, of each worker and of each
  call.
* `Planner`: weak fairness of `Next`, a sequential loop.

* `Report`: weak fairness of the caller and of each thread; a reader that pauses
  goes on or leaves (`WF` of `Wake`), and one that goes on reads what there is
  (`SF` of `Read`, since it may pause again). No fairness of signals, of pauses
  or of the clock. That a reader does one of the two is an assumption about the
  caller of the program, which the code cannot enforce.
* `Session` and `Survey` state no fairness: their properties are of safety.

Deadlock is not checked in any run, because each of these systems stops when its
work is done; that it does not stop before is what the termination properties
say, and for `Session` and `Survey`, whose bounded environment may simply be
used up, nothing does.

## 4. Proofs

`tlapm` checks the theorems for every value of the constants that the named
assumptions allow. They assume what the code guarantees of its input:
`ExecutorAssumption` (a destination per move, `Main` is no HDD),
`TransferAssumption` (no destination is a source, sources differ),
`AbsentAssumption` (no file is "no file"), `MoverAssumption` (both for a plan
whose event is set only by the operator or the batch),
`PlannerAssumption` (branches have an order, SSDs and HDDs are disjoint and
finite, percentages and sizes are natural numbers, a name is used once in a
directory, directories exist with their parents, usage fits the device),
`ChoiceAssumption` (finitely many branches, sizes and times are numbers),
`SurveyAssumption` (entries are in directories that exist, no exclusion leads
through a link and a scope through one at most, lists and fstab entries name
branches),
`ReportAssumption` (as for the executor; sizes, times and the pipe's size are
natural numbers, `Null` is no thread),
`ProcessAssumption` and `SessionAssumption` (a process is a mover or a harness
and `Nobody` is none, fixtures are a sequence of different names, the first SSD
is an SSD, the arguments of a mover are those argparse lets through). No number
of processes, files, starts or faults is assumed. Three theorems have a
hypothesis beyond these. Two (`ContentSafety`, `BatchContentSafety`) assume
`Noticeable`: a world in which users write without a change of size and
timestamp is one where the operator asked for sha256. It is the condition under
which the program promises to notice a write at all. `OnceSafety` assumes of
calls with `--fstab` that the fstab names no branch twice (`Unambiguous`): the
code checks that for the list of the running pool and not for the fstab, and
a branch named twice is scanned twice.

**Executor.** `IInv` is the conjunction of `TypeOK`; `ThreadInv`, which derives
the dispositions of a thread's moves from where the thread is in its loop
(those before its position completed, the one at it as the thread's state says,
those after it not started); `ErrorInv`, which derives exceptions from
positions; `PhaseInv`, which ties the calling thread's phase to what workers
may be doing; `CancelInv`, that the event is set by the operator or for a
collected failure; and `EndInv`. None of `InOrder`, `Quiescent`, `FullSuccess`
and `FailureNotMasked` is inductive: each speaks of dispositions or errors and
holds because of positions and phases. For example "raised cancelled means
nobody failed" needs that a peer can be cancelled without the operator only
after a failure has been collected, and that the error of that failure
stays. The theorems `TypeCorrect`, `OrderSafety`, `QuiescentSafety`,
`SuccessSafety`, `FailureSafety`, `StopSafety` follow, and `Refinement` maps
every step to a step of `Batch` or a stutter.

**Transfer.** Every action is first reduced to its effect on where the call
stands (`Control`) and on names (`Names`); the rest of a proof has six cases
instead of twenty. `IInv` says that the step determines the result so far and
the place of the file, and that a protected file reaches the rename only if the
protection came too late. `NameInv` says that calls to one destination take
turns and that from the existence check on only a user can fill the
destination. From these follow `ProtectionSafety`, `ClobberSafety` and
`Refinement` (of `AtomicMove`).

**Contents.** `Preserved` says that users' contents are at the source or, once
the call has put them there, durably at the destination. It is far from
inductive, since what is put there was read in pieces earlier. `DiskInv` says
of every step what the three files hold: the source holds what users last gave
it until the call unlinks it; the partial file exists, and is synced, during
the steps that need it; if the timestamp is still the one noted before the
copy, what was copied is how the source begins (`CopyOK`), hence all of it when
the sizes agree too; what was hashed is how the source begins as long as no
write came too late (`HashOK`); at the rename the partial file equals
the source (`CheckedOK`); what was placed stays, because no other call to that
destination is past its existence check (`PlacedOK`, from `NameInv`). `LostInv`
is `Preserved` with the steps between rename and unlink spelled out. From
these follow `DiskSafety`, `TypeCorrect` and `ContentSafety`. `PartialSafety` is
a separate invariant, `LeftInv`: a partial file belongs to a call that is still
copying or cleaning, or was there before and no call has come to it yet, or is one
whose removal failed in a call that is `stuck` and has ended as failed.

**Live batch.** `MoverInv` is the invariant of the threads, that of the calls,
and `LinkInv`: a call runs exactly while a thread is in the move, and an ended
call has the disposition the wrapper recorded. From it every step of `Mover` is
a step of `Executor` (`BatchIsExecutor`) and one of `Transfer`
(`BatchIsCalls`); the second needs the first, because the condition under which
`Transfer` lets a call begin (no other call to its destination is under way) is
what the threads' queues guarantee. So nothing is proved twice: `BatchFiles`,
`BatchOutcomes` and `BatchContentSafety` are the theorems of the parts, for
threads and calls in any interleaving. `CreditSafety`, `OneWriterSafety` and
`CleanSafety` are about both at once and follow from `LinkInv`: the queues put calls
of one branch in one thread, and a thread is in one call.

**Planner.** `IInv` is `TypeOK`; `CapacityInv` (used and free fit the device);
`ReserveKept`, which is inductive with it because credit to a source never
takes from a receiver; `PlanInv` (planned files are considered, planned once,
and their destination name is free); `DirInv` (under an existing-path policy
what the plan creates on an HDD exists there already, so a planned directory
never attracts a file). `PolicySound` is the lemma about all twenty policies: an
answer was offered, has room, and under an existing-path policy has the
directory. `TypeCorrect`, `ReserveSafety`, `IndependentMoves` and
`ExistingPathSafety` follow. `SpaceSafety` needs `SpaceInv` besides: what is
free is at most what was free at the start, with the sizes of all planned
moves out of the branch added and those into it subtracted. `Apply` adds one
move to the plan and so one size to two of these sums. From sizes to what is
really freed and taken leads `SumBounded`: a size is at most what is freed plus
the hole, what is taken at most the size plus the slack, and so are the sums. `ExhaustiveSafety` is
about `StopSpilling`: no SSD is the one to spill from, and since some SSD of a
finite set is the fullest there is none to choose from.

**Choice.** `RoomSafety` needs that each of the ways to prefer a branch prefers
one: scores, percentages of devices of different size (a product of four
numbers, `Fractions`), and the number of directories shared. The last is an
order because who shares a directory shares those above it. `SharedSafety`
rests on the same: who has the parent shares all of it, hence more than who
has not, and among those a most-shared-path policy prefers as its twin does.

**Finite sets.** A property of all finite sets or sums cannot be proved with the
library's induction theorems, which take the property as an operator. It can
be proved by looking at a smallest counterexample, which
`FS_StrictSubsetOrderingWellFounded` and `WFMin` provide for any set of finite
sets. `FiniteFacts` states what follows: an order on a finite set has an
unbeaten element (`Unbeaten`, `FirstOfBest`), and `SumFunctionOnSet`, whose
definition sums recursively in an order nobody knows, grows by what is added
(`SumAdd`), from the existence (`AddsExists`) and uniqueness (`AddsUnique`) of
the function the recursion defines.

**Session.** Every action is first reduced to what it does to the lock and to
the files (`LockingChanges` to `NextChanges`), so that the proofs below have
one case per kind of effect instead of one per action. `ExclusionSafety`
rests on `LockInv`: a process inside is the holder of the lock. This is
stronger than `OneInside` and inductive because only the holder, or the death of
a process, frees the lock, although everybody runs through the same unlock.
`FreshSafety` needs it: a step of another process changes the disk only from
inside, hence not while this one acts. For the process itself it needs that
what is committed and removed belongs to the plan and that moves of one plan
have different sources. `TypeCorrect` gives both their types.

`SweptSafety` and `OverwriteSafety` are about the harness and rest on
`FixtureInv`: fixtures not yet created are not on the first SSD while a harness
creates them, those on any disk while it sweeps are still to be swept. Both
again need that nobody else is inside.

**Mover runs.** `ExitTruth` is a statement about a step, the exit, of a process
that printed its result some steps, exceptions and handlers earlier. `RunInv`
says for each step and exception what the output buffer and the output already
delivered may hold: no result before the run has ended, at most one after, in a
machine mode with a reader never one that is only buffered (`Printing`). For
accounting it relates the scan of the mover inside to the snapshots: not newer
until it is published, durable since (`ScanOK`). `TruthSafety` and
`SnapshotSafety` follow. The prover found a fault of the model here: a `CASE` with
overlapping guards picks an arbitrary arm, which TLC does not show, since it
takes the first one. `ExitTruth`, `Visit` of `Survey` and `Outcome` of `Report`
had such guards; now they have none.

**Survey.** `Grounded` relates what was found at the end to checks made many
commands earlier, while the world unmounts and mounts. `FoundInv` says for
every branch found so far that it is mounted or was unmounted since its check
and then has no file left that counts as untouched (`Seated`), and that its
capacity and kind are those of its own device unless it went away.
`EachFileOnce` is about two walks over trees that change. The invariant has for
each walk three parts: its type; soundness, that what is recorded was there, is
below the root and was not touched; and completeness, that every file that stays
(`Fixed`) is recorded or below an entry still in `todo`. The order in which
entries are visited is left open, so completeness has to hold of any set `todo`:
taking one entry off replaces it by its children, and a file below a directory
is the directory or below exactly one child of it (lemmas on `Below`, `Parents`
and `Children`). A root that `LookAt` has found is in `todo` a second time, as an
entry of itself; until then it has no record. In the second
walk what is listed is named below the scope (`Naming`), and a name is that of the
entry itself if no link is on the scope (`Direct`).
A root has one record (`RecordOnce`), and since `Roots` leaves
out an exclusion below another one, a file is below one root at most.
`RecordInv` needs that no branch is found twice, `CandidateInv` does not.

The proof found a fault of the model, which the runs could not show: `Next`
offered `Measure` and `Visit` the paths that some tree may hold, so that an
excluded root or a scope that exists nowhere would never have been looked at.
Now it offers them the root and the scope as well.

**Report.** The threads under the report take steps of `Executor` only
(`ReportedIsExecutor`), so its invariant holds of them and is not proved again.
`RInv` adds `StageInv` (the batch runs in one stage, and a thread that prints is
in a move, so that no one prints once the batch has ended); `ResultInv`, that
every result in the pipe or read is the snapshot of the state the run ended in
(`Final`), which no longer changes; and `PipeInv`: events in the pipe follow one
another, and the last one printed is behind the state (`Behind`): its completed
counters are at most, and its pending ones at least, those of the state, route
by route, and while a thread prints its time is a second before the thread's.
`Behind` is what makes `Cumulative` inductive. It is kept by every step because a
completed move stays completed with the bytes it had, no move becomes not
started, and an aggregate over more moves is not smaller (`Grows`, from the sums
of `FiniteFacts`); a new snapshot is equal to the state, so it follows the
last one. `TerminalSafety` combines `Final` with what `ExecutorProof` says of an
ended batch; 100% needs that the sizes of the completed moves add up to the
plan's also when they are zero (`AllDone`).

**Only model-checked.**

* Liveness (`Termination`, `CallEnds`, `FailureCancels`, `Ends`), which is beyond
  the prover. Every invariant and every action property of a passing run is
  stated by a theorem.
* `OwnReserve`, `ExcessMoved` and `StopReported` are violated by the code, and
  `ConflictsFail` is too; see the runs above.

## 5. Not modelled, and why

* `original-oneshot.py`, `__init__`, `__main__`, `core`, tests and packaging: no
  behaviour of the installed program beyond what is modelled.
* Syntax: TOML, fstab quoting, sizes such as `4G`, the output of commands, the
  text of `render`, timestamps and durations. What is accepted and what values
  come out is modelled where a property depends on it.
* `argparse` (status 2, `--help`) and the running of pytest by the harness.
* Float comparison of percentages: exact here. Rounding matters only to a usage
  within one unit in the last place of a threshold.
* Directories in `Transfer`: `mkdir` of missing parents and the durability of
  their entries; `durable` is per destination name. Likewise the directory of the
  snapshot: `publish_snapshot` makes it if it is missing (`accounting.py:88`) and
  syncs it, but not its parent, so a power failure may take the first snapshot
  ever published, with its directory. `SnapshotKept` supposes that the directory is
  there.
* Reading from an open source whose name was removed or replaced: the
  model reads what the name holds now.
* The `shutil.copy2` path of `_copy_file`, without cancellation and without
  `fsync` of the data, which only the integration harness takes.
* `sandbox_cli`: it writes and removes files of a directory that it alone uses.
* Exclusions that lead through a link: `lstat` follows the link, `is_excluded`
  compares names (`SurveyAssumption` leaves them out). A scope through two links,
  and a link put on the scope between `resolve` and the walk.
* An `flock` that fails to unlock.
* Platforms other than posix, where `process_lock` takes no lock.
* SIGINT after `main` has returned.

## 6. Plan

1. *Done*: all modules above, and the proofs of every safety property their
   runs check.
2. Next: directories and their durability in `Transfer`, and the copy without a
   callback, composed with `Harness`.
