------------------------------- MODULE Survey -------------------------------
(***************************************************************************)
(* What a run reads before it plans: the configuration, the topology of    *)
(* the pool (discovery.py), the usage of excluded paths (accounting.py)    *)
(* and the files that may be moved (planner.scan_files), while the world   *)
(* goes on changing all of them.  A path is a sequence of names, a device  *)
(* a file system; behind a branch that is not mounted is the root file     *)
(* system, with an empty directory.                                        *)
(***************************************************************************)
EXTENDS Naturals, SequencesExt, FiniteSetsExt

CONSTANTS
    Branches,          \* directories that are branches of some configuration
    Device, Root,      \* file system of each branch; the root file system
    Total, Rota,       \* capacity and lsblk ROTA of each file system
    Mergerfs, Mounts,  \* where the pool is mounted; mount points of other kinds
    Lists, MinFrees,   \* runtime branch lists and reserves mergerfs may have
    Options,           \* minfreespace as the mount options may show it, or None
    Fstab,             \* mergerfs entries of the fstab
    Kind,              \* what each path is when it exists: "dir", "file", "link"
    Goal,              \* path each link leads to in its branch, or None if it leaves it
    Partials,          \* names that begin with .nas-mover.
    Setups,            \* what may be mounted and stored when the survey begins
    Calls,             \* command lines and configurations
    None,
    MaxChanges         \* bound: changes of the world

VARIABLES
    mounted, list, minfree, tree,  \* the world
    call, pc,
    pool,              \* [branches, reserve] as read
    found,             \* branches accepted so far
    i,                 \* the branch looked at
    todo,              \* entries of it still to be visited
    records,           \* excluded_paths of the snapshot
    candidates,        \* files that may be moved, with their branch
    changes,
    gone, touched      \* history: branches unmounted once checked, entries changed

world   == <<mounted, list, minfree, tree>>
history == <<changes, gone, touched>>
reading == <<call, pool, found, i, todo, records, candidates>>
vars    == <<world, history, pc, reading>>

Paths == DOMAIN Kind
Below(p, d) == IsPrefix(d, p)
Parents(p)  == {SubSeq(p, 1, n) : n \in 1..(Len(p) - 1)}

Link(c, n) == SubSeq(c.scope, 1, n)
Links(c, S) == {n \in 1..Len(c.scope) : Link(c, n) \in S /\ Kind[Link(c, n)] = "link"}

Known == Paths \cup {c.scope : c \in Calls} \cup UNION {c.excluded : c \in Calls}
Names == UNION {ToSet(p) : p \in Known}
Pool  == Seq([path : Branches, mode : {"RW", "RO", "NC", "none"}, reserve : Nat])

(* A path is the resolved name of an entry: above it there are directories *)
(* only.  No exclusion leads through a link (is_excluded compares names,   *)
(* lstat follows the links before the last name), and a scope through one  *)
(* at most.                                                                *)
ASSUME SurveyAssumption ==
    /\ \A p \in Known : p \in Seq(Names)
    /\ \A p \in Paths : /\ p # <<>> /\ Kind[p] \in {"dir", "file", "link"}
                        /\ \A d \in Parents(p) : d \in Paths /\ Kind[d] = "dir"
    /\ \A c \in Calls : \A n \in Links(c, Paths) :
          LET goal == Goal[Link(c, n)] IN
          goal # None =>
             LET to == goal \o SubSeq(c.scope, n + 1, Len(c.scope)) IN
             \A m \in 1..Len(to) : SubSeq(to, 1, m) \in Paths => Kind[SubSeq(to, 1, m)] # "link"
    /\ \A s \in Setups : DOMAIN s.tree = Branches
    /\ \A s \in Setups, b \in Branches : \A p \in s.tree[b] :
          p \in Paths /\ \A d \in Parents(p) : d \in s.tree[b] /\ Kind[d] = "dir"
    /\ \A c \in Calls : \A e \in c.excluded, p \in Paths :
          Kind[p] = "link" /\ Below(e, p) => e = p
    /\ Lists \subseteq Pool /\ \A e \in Fstab : e.branches \in Pool

Init ==
    /\ \E s \in Setups : mounted = s.mounted /\ tree = s.tree
    /\ list \in Lists
    /\ minfree \in MinFrees
    /\ call \in Calls
    /\ pc = "load"
    /\ pool = [branches |-> <<>>, reserve |-> 0]
    /\ found = <<>> /\ i = 1 /\ todo = {} /\ records = {} /\ candidates = {}
    /\ changes = 0 /\ gone = {} /\ touched = {}

Goto(l)  == pc' = l /\ UNCHANGED <<world, history>>
Refuse   == Goto("failed") /\ UNCHANGED reading

(* MoverConfig.validate and the scope check of cli._run: excluded paths    *)
(* name something inside a branch.                                         *)
Relative(p) == ".." \notin ToSet(p)
Valid == Relative(call.scope) /\ \A p \in call.excluded : p # <<>> /\ Relative(p)

Load ==
    /\ pc = "load"
    /\ IF Valid
       THEN Goto(IF call.fstab THEN "fstab" ELSE "mount") /\ UNCHANGED reading
       ELSE Refuse

-----------------------------------------------------------------------------
Pooled(b, r, l) ==
    /\ pool' = [branches |-> b, reserve |-> r]
    /\ Goto(l)
    /\ UNCHANGED <<call, found, i, todo, records, candidates>>

(* parse_fstab: the only entry, or the only one at the selected mount.     *)
Matching == {e \in Fstab : call.mount \in {None, e.mount}}

ReadFstab ==
    /\ pc = "fstab"
    /\ IF Cardinality(Matching) = 1
       THEN \E e \in Matching :
               IF \A n \in DOMAIN e.branches : e.branches[n].mode \in {"RW", "none"}
               THEN Pooled(e.branches, e.reserve, "pool")
               ELSE Refuse
       ELSE Refuse

(* discover_runtime_pool: the mount is there, is mergerfs, and its control *)
(* file gives the branches ...                                             *)
Mountpoint == IF call.mount = None THEN Mergerfs ELSE call.mount

RequireMount ==
    /\ pc = "mount"
    /\ IF Mountpoint \in mounted \cup Mounts THEN Goto("fstype") /\ UNCHANGED reading
       ELSE Refuse

CheckFsType ==
    /\ pc = "fstype"
    /\ IF Mountpoint = Mergerfs /\ Mergerfs \in mounted
       THEN Goto("list") /\ UNCHANGED reading
       ELSE Refuse

ReadList ==
    /\ pc = "list"
    /\ IF /\ Mergerfs \in mounted
          /\ list # <<>>
          /\ \A n \in DOMAIN list : list[n].mode = "RW"
          /\ \A m, n \in DOMAIN list : list[m].path = list[n].path => m = n
       THEN Pooled(list, 0, "minfree")
       ELSE Refuse

(* ... and the reserve, unless the mount options show one.                 *)
ReadMinFree ==
    /\ pc = "minfree"
    /\ \E o \in Options :
          LET r == IF o # None THEN o ELSE minfree
          IN  IF Mergerfs \in mounted /\ r # None THEN Pooled(pool.branches, r, "pool")
              ELSE Refuse

RuntimePool == RequireMount \/ CheckFsType \/ ReadList \/ ReadMinFree

-----------------------------------------------------------------------------
(* discover_branches and stat_branch, branch by branch.                    *)
Entry  == pool.branches[i]
Behind == IF Entry.path \in mounted THEN Device[Entry.path] ELSE Root

PoolMount == IF call.fstab THEN (CHOOSE e \in Matching : TRUE).mount ELSE Mountpoint

RequirePool ==
    /\ pc = "pool"
    /\ IF PoolMount \in mounted \cup Mounts THEN Goto("branch") /\ UNCHANGED reading
       ELSE Refuse

(* Mutant: the mount of the branch is not required.                        *)
RequireNothing ==
    /\ pc = "branch"
    /\ i <= Len(pool.branches)
    /\ Goto("capacity") /\ UNCHANGED reading

RequireBranch ==
    /\ pc = "branch"
    /\ i <= Len(pool.branches)
    /\ IF Entry.path \in mounted THEN Goto("capacity") /\ UNCHANGED reading
       ELSE Refuse

ReadCapacity ==
    /\ pc = "capacity"
    /\ found' = Append(found, [path |-> Entry.path, reserve |-> Entry.reserve,
                               total |-> Total[Behind], rotational |-> None])
    /\ Goto("kind")
    /\ UNCHANGED <<call, pool, i, todo, records, candidates>>

ReadKind ==
    /\ pc = "kind"
    /\ IF Rota[Behind] \in BOOLEAN
       THEN /\ found' = [found EXCEPT ![i].rotational = Rota[Behind]]
            /\ i' = i + 1
            /\ Goto("branch")
            /\ UNCHANGED <<call, pool, todo, records, candidates>>
       ELSE Refuse

Ssds == {n \in DOMAIN found : ~found[n].rotational}

Enough ==
    /\ pc = "branch"
    /\ i > Len(pool.branches)
    /\ IF Cardinality(Ssds) >= 2 /\ Ssds # DOMAIN found
       THEN /\ i' = 0
            /\ Goto(IF call.excluded = {} THEN "scan" ELSE "account")
            /\ UNCHANGED <<call, pool, found, todo, records, candidates>>
       ELSE Refuse

Discover == RequirePool \/ RequireBranch \/ ReadCapacity \/ ReadKind \/ Enough

-----------------------------------------------------------------------------
Branch     == found[i].path
Visible    == IF Branch \in mounted THEN tree[Branch] ELSE {}
Children(d) == {p \in Visible : Len(p) = Len(d) + 1 /\ Below(p, d)}
Excluded(p) == \E e \in call.excluded : Below(p, e)

(* Mutant: overlapping exclusions are all measured.                        *)
AllRoots == call.excluded

(* scan_exclusions: an exclusion inside another is not measured again.     *)
Roots == {p \in call.excluded : \A e \in call.excluded : Below(p, e) => e = p}

Record(r, p, s) == [branch |-> Branch, path |-> r, present |-> p, files |-> s]
Measured(r) == CHOOSE x \in records : x.branch = Branch /\ x.path = r

(* The next SSD, or what follows the last one.                             *)
NextSsd(l, work, after) ==
    /\ pc = l
    /\ todo = {}
    /\ LET rest == {n \in Ssds : n > i}
       IN  \/ \E n \in rest : /\ \A m \in rest : n <= m
                              /\ i' = n /\ todo' = work /\ Goto(l)
           \/ rest = {} /\ i' = 0 /\ UNCHANGED todo /\ Goto(after)
    /\ UNCHANGED <<call, pool, found, records, candidates>>

Account == NextSsd("account", {<<r>> : r \in Roots}, "scan")

(* scan_exclusions asks for each root first: a missing one is recorded as  *)
(* such, and below a file it cannot even be asked for.                     *)
LookAt(r) ==
    /\ pc = "account"
    /\ <<r>> \in todo
    /\ IF \E d \in Parents(r) : d \in Visible /\ Kind[d] = "file" THEN Refuse
       ELSE /\ records' = records \cup {Record(r, r \in Visible, {})}
            /\ todo' = (todo \ {<<r>>}) \cup (IF r \in Visible THEN {<<r, r>>} ELSE {})
            /\ Goto("account")
            /\ UNCHANGED <<call, pool, found, i, candidates>>

(* _measure: one entry, the root again included.  One that vanished fails  *)
(* the survey, unless it went between its lstat and the question of its    *)
(* kind.                                                                   *)
Measure(r, p) ==
    /\ pc = "account"
    /\ <<r, p>> \in todo
    /\ LET is(k) == p \in Visible /\ Kind[p] = k
           new == IF is("file") THEN {p} ELSE {}
       IN  /\ todo' = (todo \ {<<r, p>>}) \cup (IF is("dir") THEN {r} \X Children(p) ELSE {})
           /\ records' = (records \ {Measured(r)}) \cup
                             {[Measured(r) EXCEPT !.files = @ \cup new]}
    /\ Goto("account")
    /\ UNCHANGED <<call, pool, found, i, candidates>>

MeasureVanished(r, p) ==
    /\ pc = "account"
    /\ <<r, p>> \in todo
    /\ p \notin Visible
    /\ Refuse

-----------------------------------------------------------------------------
(* scan_files: the scope resolves inside the branch, through a link if one *)
(* is there; below it, excluded and partial names are pruned and links     *)
(* neither followed nor listed.  An entry keeps the name it was reached    *)
(* by, and that is what exclusions are compared with.                      *)
Detours == Links(call, Visible)
Outside == \E n \in Detours : Goal[Link(call, n)] = None
Real(p) == IF Detours = {} THEN p
           ELSE LET n == CHOOSE n \in Detours : TRUE
                IN  Goal[Link(call, n)] \o SubSeq(p, n + 1, Len(p))

Walkable == \/ Real(call.scope) = <<>>
            \/ Real(call.scope) \in Visible /\ Kind[Real(call.scope)] = "dir"
Listed(d, k) ==
    {p \in {Append(d, Last(q)) : q \in {q \in Children(Real(d)) : Kind[q] = k}} :
        Last(p) \notin Partials /\ ~Excluded(p)}

Scan == NextSsd("scan", {call.scope}, "done")

Visit(d) ==
    /\ pc = "scan"
    /\ d \in todo
    /\ CASE d = call.scope /\ Outside -> Refuse
         [] d = call.scope /\ ~Outside /\ (Excluded(d) \/ ~Walkable) ->
               /\ todo' = todo \ {d}
               /\ Goto("scan")
               /\ UNCHANGED <<call, pool, found, i, records, candidates>>
         [] OTHER ->
               /\ candidates' = candidates \cup
                     ({Branch} \X Listed(d, "file"))
               /\ todo' = (todo \ {d}) \cup Listed(d, "dir")
               /\ Goto("scan")
               /\ UNCHANGED <<call, pool, found, i, records>>

-----------------------------------------------------------------------------
Checked == {pool.branches[n].path : n \in 1..(i - 1)} \cup
           (IF pc \in {"capacity", "kind"} THEN {Entry.path} ELSE {}) \cup
           (IF pc \in {"account", "scan"} THEN Branches ELSE {})

Unmount(m) ==
    /\ mounted' = mounted \ {m}
    /\ gone' = gone \cup ({m} \cap Checked)
    /\ touched' = touched \cup {<<m, p>> : p \in Paths}
    /\ UNCHANGED <<list, minfree, tree>>

Mount(m) ==
    /\ mounted' = mounted \cup {m}
    /\ touched' = touched \cup {<<m, p>> : p \in Paths}
    /\ UNCHANGED <<list, minfree, tree, gone>>

Reconfigure ==
    /\ list' \in Lists
    /\ minfree' \in MinFrees
    /\ UNCHANGED <<mounted, tree, gone, touched>>

Vanish(b, p) ==
    /\ p \in tree[b]
    /\ tree' = [tree EXCEPT ![b] = {q \in @ : ~Below(q, p)}]
    /\ touched' = touched \cup {<<b, q>> : q \in {q \in Paths : Below(q, p)}}
    /\ UNCHANGED <<mounted, list, minfree, gone>>

Appear(b, p) ==
    /\ p \notin tree[b]
    /\ \A d \in Parents(p) : d \in tree[b] /\ Kind[d] = "dir"
    /\ tree' = [tree EXCEPT ![b] = @ \cup {p}]
    /\ touched' = touched \cup {<<b, p>>}
    /\ UNCHANGED <<mounted, list, minfree, gone>>

World ==
    /\ pc \notin {"done", "failed"}
    /\ changes < MaxChanges
    /\ changes' = changes + 1
    /\ \/ \E m \in Branches \cup {Mergerfs} : Unmount(m) \/ Mount(m)
       \/ Reconfigure
       \/ \E b \in Branches, p \in Paths : Vanish(b, p) \/ Appear(b, p)
    /\ UNCHANGED <<pc, reading>>

Next ==
    \/ Load \/ ReadFstab \/ RuntimePool \/ Discover \/ Account \/ Scan \/ World
    \/ \E r \in call.excluded :
          LookAt(r) \/ \E p \in Paths \cup {r} : Measure(r, p) \/ MeasureVanished(r, p)
    \/ \E d \in todo : Visit(d)

Spec == Init /\ [][Next]_vars

-----------------------------------------------------------------------------
(* Discovery "fails closed" (README.md, "Runtime discovery"): the capacity *)
(* and the kind of a branch it accepts are those of the branch's own file  *)
(* system and not of the one behind its mount point, unless the branch was *)
(* unmounted after it had been checked; and branch and reserve are an      *)
(* entry of one list that mergerfs had.                                    *)
Grounded ==
    \A n \in DOMAIN found :
        LET got == found[n]
        IN  /\ got.path \notin gone =>
                  /\ got.total = Total[Device[got.path]]
                  /\ got.rotational \in {None, Rota[Device[got.path]]}
            /\ ~call.fstab => \E l \in Lists :
                  [path |-> got.path, mode |-> "RW", reserve |-> got.reserve] \in ToSet(l)

(* Of an SSD's regular files each one that stays where it is during the    *)
(* survey is either protected, and counted exactly once however exclusions *)
(* overlap, or a candidate by its own name if that is below the scope and  *)
(* not a partial file's.  A root that is there is never reported as        *)
(* missing.  No file is a candidate by another name, an excluded one       *)
(* neither, unless the scope itself leads through a link: then it does so  *)
(* by a name that has this link in it, and _check_source_path refuses it.  *)
InScope(p) == Below(p, call.scope) /\ p # call.scope
Partial(p) == \E n \in 1..Len(p) : n > Len(call.scope) /\ p[n] \in Partials
Linked(p)  == \E n \in Links(call, Paths) : Below(p, Link(call, n))

EachFileOnce ==
    pc = "done" =>
        /\ \A b \in {found[n].path : n \in Ssds}, p \in Paths :
              <<b, p>> \notin touched =>
                  LET here == p \in tree[b] /\ Kind[p] = "file"
                      counts == {r \in records : r.branch = b /\ p \in r.files}
                  IN  /\ <<b, p>> \in candidates <=>
                            here /\ ~Excluded(p) /\ InScope(p) /\ ~Partial(p)
                      /\ Cardinality(counts) = IF here /\ Excluded(p) THEN 1 ELSE 0
                      /\ \A r \in records : r.branch = b /\ r.path = p =>
                            (r.present <=> p \in tree[b])
        /\ \A c \in candidates : c[2] \in Paths \/ Linked(c[2])
=============================================================================
