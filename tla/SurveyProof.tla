---------------------------- MODULE SurveyProof ----------------------------
(***************************************************************************)
(* Theorems about Survey for any pool, any directory trees, any exclusions *)
(* and any number of changes of the world while it runs.                   *)
(***************************************************************************)
EXTENDS Survey, FiniteFacts

(* The runtime list of branches is checked for duplicates, the fstab that  *)
(* --fstab names is not.                                                   *)
Unambiguous ==
    \A e \in Fstab : \A m, n \in DOMAIN e.branches :
        e.branches[m].path = e.branches[n].path => m = n

Fixed(b, p) == <<b, p>> \notin touched
Path(n)     == found[n].path

(* The steps before any branch is looked at, those for each branch, and    *)
(* those for each SSD.                                                     *)
Early  == {"load", "fstab", "mount", "fstype", "list", "minfree", "pool"}
Middle == {"branch", "capacity", "kind"}
Late   == {"account", "scan", "done"}

Totals  == {Total[Device[b]] : b \in Branches} \cup {Total[Root]}
Finding == [path : Branches, reserve : Nat, total : Totals, rotational : BOOLEAN \cup {None}]

CallInv ==
    /\ pc \in Early \cup Middle \cup Late \cup {"failed"}
    /\ call \in Calls
    /\ pc \notin {"load", "failed"} => Valid
    /\ pc = "fstab" => call.fstab
    /\ pc \in {"mount", "fstype", "list", "minfree"} => ~call.fstab

(* Entries are in directories that are there.                              *)
TreeInv ==
    /\ DOMAIN tree = Branches
    /\ \A b \in Branches : \A p \in tree[b] :
          p \in Paths /\ \A d \in Parents(p) : d \in tree[b] /\ Kind[d] = "dir"

(* The branches are those of mergerfs, or those of the fstab.              *)
Distinct ==
    \A m, n \in DOMAIN pool.branches :
        pool.branches[m].path = pool.branches[n].path => m = n

PoolInv ==
    /\ list \in Lists
    /\ pool.branches \in Pool
    /\ ~call.fstab /\ pool.branches # <<>> =>
          /\ pool.branches \in Lists
          /\ \A n \in DOMAIN pool.branches : pool.branches[n].mode = "RW"
    /\ Unambiguous \/ ~call.fstab => Distinct

(* A branch that was checked is mounted, or everything is known to have    *)
(* been unmounted since.                                                   *)
Seated(b) == b \in mounted \/ (b \in gone /\ \A p \in Paths : ~Fixed(b, p))

FoundInv ==
    /\ found \in Seq(Finding)
    /\ i \in Nat
    /\ Len(found) <= Len(pool.branches)
    /\ \A n \in DOMAIN found :
          /\ found[n].path = pool.branches[n].path
          /\ found[n].reserve = pool.branches[n].reserve
          /\ pc # "failed" => Seated(found[n].path)
          /\ found[n].path \notin gone =>
                /\ found[n].total = Total[Device[found[n].path]]
                /\ found[n].rotational \in {None, Rota[Device[found[n].path]]}
    /\ pc \in Early => found = <<>> /\ i = 1
    /\ pc \in {"branch", "capacity"} => i = Len(found) + 1
    /\ pc = "kind" => i = Len(found)
    /\ pc \in {"capacity", "kind"} => i \in DOMAIN pool.branches /\ Seated(Entry.path)
    /\ \A n \in DOMAIN found :
          pc \in Late \/ n < i => found[n].rotational \in BOOLEAN
    /\ pc \in Late => Len(found) = Len(pool.branches) /\ i \in {0} \cup Ssds

(* One step of the accounting of excluded paths.                           *)
Accounting ==
    \E r \in call.excluded :
        LookAt(r) \/ \E p \in Paths \cup {r} : Measure(r, p) \/ MeasureVanished(r, p)

(* What has been measured on an SSD: begun, and not yet visited.           *)
Measuring(n)  == pc = "account" /\ n = i
Measurable(n) == pc \in {"scan", "done"} \/ (pc = "account" /\ n <= i)
RecordOf(b, r) == {x \in records : x.branch = b /\ x.path = r}

RecordType ==
    /\ pc \notin Late \cup {"failed"} => records = {} /\ todo = {}
    /\ pc \in Late /\ i = 0 => todo = {}
    /\ pc = "account" =>
          \A t \in todo : \E r \in Roots :
              \/ t = <<r>>
              \/ /\ <<r>> \notin todo /\ RecordOf(Path(i), r) # {}
                 /\ \E p \in Known : t = <<r, p>> /\ Below(p, r)
    /\ pc \in Late =>
          \A x \in records :
              /\ x = [branch |-> x.branch, path |-> x.path,
                      present |-> x.present, files |-> x.files]
              /\ x.present \in BOOLEAN
              /\ x.path \in Roots
              /\ \E n \in Ssds : Measurable(n) /\ x.branch = Path(n)

(* A root has no record before it is looked at and one afterwards.         *)
RecordOnce ==
    pc \in Late =>
        \A n \in Ssds, r \in Roots :
            Measurable(n) =>
                IF Measuring(n) /\ <<r>> \in todo
                THEN RecordOf(Path(n), r) = {}
                ELSE \E x \in records : RecordOf(Path(n), r) = {x}

(* What is recorded is true of what has not changed.                       *)
RecordSound ==
    pc \in Late =>
        \A x \in records :
            /\ \A p \in x.files :
                  /\ p \in Paths /\ Kind[p] = "file" /\ Below(p, x.path)
                  /\ Fixed(x.branch, p) => p \in tree[x.branch]
            /\ x.path \in Paths /\ Fixed(x.branch, x.path) =>
                  (x.present <=> x.path \in tree[x.branch])

(* A file that stays is recorded, or it is yet to be visited, or its root  *)
(* or a directory above it.                                                *)
Pending(r, p) == <<r>> \in todo \/ \E q \in Known : <<r, q>> \in todo /\ Below(p, q)

RecordComplete ==
    pc \in Late =>
        \A n \in Ssds, r \in Roots : Measurable(n) =>
            \A p \in tree[Path(n)] :
                Fixed(Path(n), p) /\ Kind[p] = "file" /\ Below(p, r) =>
                    \/ Measuring(n) /\ Pending(r, p)
                    \/ \E x \in RecordOf(Path(n), r) : p \in x.files

RecordInv == RecordOnce /\ RecordSound /\ RecordComplete

RecordAfter(b, r) == {x \in records' : x.branch = b /\ x.path = r}

(* The same for the walk below the scope.                                  *)
Wanted(p) == Kind[p] = "file" /\ ~Excluded(p) /\ InScope(p) /\ ~Partial(p)

(* A scope with a link on its way leads to no entry by its own name.       *)
Aliased == Links(call, Paths) # {}

CandidateType ==
    /\ pc \notin {"scan", "done", "failed"} => candidates = {}
    /\ pc = "scan" =>
          \A d \in todo : /\ d \in Seq(Names) /\ Below(d, call.scope) /\ ~Partial(d)
                          /\ ~Aliased => d \in Known

(* What is known of a candidate, by the name the walk gave it.             *)
Justified(n, p) ==
    /\ InScope(p)
    /\ ~Aliased => /\ p \in Paths /\ Wanted(p)
                   /\ Fixed(Path(n), p) => p \in tree[Path(n)]

CandidateSound ==
    pc \in {"scan", "done"} =>
        \A c \in candidates : \E n \in Ssds, p \in Seq(Names) :
            c = <<Path(n), p>> /\ Justified(n, p)

CandidateComplete ==
    pc \in {"scan", "done"} =>
        \A n \in Ssds : (pc = "scan" => n <= i) =>
            \A p \in tree[Path(n)] :
                Fixed(Path(n), p) /\ Wanted(p) =>
                    \/ pc = "scan" /\ n = i /\ \E d \in todo : Below(p, d) /\ p # d
                    \/ <<Path(n), p>> \in candidates

CandidateInv == CandidateType /\ CandidateSound /\ CandidateComplete

Base == CallInv /\ TreeInv /\ PoolInv /\ FoundInv /\ RecordType

IInv == Base /\ (Distinct => RecordInv) /\ CandidateInv

-----------------------------------------------------------------------------
(* Paths: one is below another if it begins with all of its names.         *)
LEMMA BelowIs ==
  ASSUME NEW p \in Seq(Names), NEW d \in Seq(Names)
  PROVE  Below(p, d) <=> Len(d) <= Len(p) /\ \A k \in 1..Len(d) : d[k] = p[k]
<1>1. ASSUME Len(d) <= Len(p)
      PROVE  /\ SubSeq(d, 1, Len(d)) = d
             /\ SubSeq(p, 1, Len(d)) \in Seq(Names) /\ Len(SubSeq(p, 1, Len(d))) = Len(d)
             /\ \A k \in 1..Len(d) : SubSeq(p, 1, Len(d))[k] = p[k]
  BY <1>1
<1>2. ASSUME Len(d) <= Len(p), \A k \in 1..Len(d) : d[k] = p[k]
      PROVE  SubSeq(p, 1, Len(d)) = d
  BY <1>1, <1>2
<1> QED
  BY <1>1, <1>2 DEF Below, IsPrefix

LEMMA BelowOrder ==
  ASSUME NEW p \in Seq(Names), NEW d \in Seq(Names), NEW e \in Seq(Names)
  PROVE  /\ Below(p, p)
         /\ Below(p, d) /\ Below(d, e) => Below(p, e)
         /\ Below(p, d) /\ Below(d, p) => p = d
         /\ Below(p, d) /\ Below(p, e) => Below(d, e) \/ Below(e, d)
         /\ Below(p, d) /\ Len(d) = Len(p) => p = d
<1>1. Below(p, p)
  BY BelowIs
<1>2. Below(p, d) /\ Below(d, e) => Below(p, e)
  BY BelowIs
<1>3. ASSUME Below(p, d), Len(d) = Len(p) PROVE p = d
  BY <1>3, BelowIs
<1>4. Below(p, d) /\ Below(d, p) => p = d
  BY <1>3, BelowIs
<1>5. Below(p, d) /\ Below(p, e) => Below(d, e) \/ Below(e, d)
  <2>1. Len(d) <= Len(e) \/ Len(e) <= Len(d)
    OBVIOUS
  <2> QED
    BY <2>1, BelowIs
<1> QED
  BY <1>1, <1>2, <1>3, <1>4, <1>5

(* A path below a directory is one of its entries or below one of them,    *)
(* and the directory is a parent of it.                                    *)
Step(p, d) == SubSeq(p, 1, Len(d) + 1)

LEMMA Stepping ==
  ASSUME NEW p \in Seq(Names), NEW d \in Seq(Names), Below(p, d), p # d
  PROVE  /\ Len(d) < Len(p)
         /\ Step(p, d) \in Seq(Names) /\ Len(Step(p, d)) = Len(d) + 1
         /\ Last(Step(p, d)) = p[Len(d) + 1]
         /\ Below(Step(p, d), d) /\ Below(p, Step(p, d))
         /\ Step(p, d) = p \/ Step(p, d) \in Parents(p)
         /\ d # <<>> => d \in Parents(p)
<1>1. Len(d) < Len(p) /\ \A k \in 1..Len(d) : d[k] = p[k]
  <2>1. Len(d) # Len(p)
    BY BelowOrder
  <2> QED
    BY <2>1, BelowIs
<1> DEFINE q == Step(p, d)
<1>2. /\ q \in Seq(Names) /\ Len(q) = Len(d) + 1
      /\ \A k \in 1..(Len(d) + 1) : q[k] = p[k]
  BY <1>1 DEF Step
<1>3. q = p \/ q \in Parents(p)
  <2>1. CASE Len(p) = Len(d) + 1
    BY <1>2, <2>1
  <2>2. CASE Len(p) # Len(d) + 1
    <3>1. Len(d) + 1 \in 1..(Len(p) - 1)
      BY <1>1, <2>2
    <3> QED
      BY <3>1 DEF Step, Parents
  <2> QED
    BY <2>1, <2>2
<1>4. Last(q) = p[Len(d) + 1]
  BY <1>2 DEF Last
<1> HIDE DEF q
<1>5. Below(q, d) /\ Below(p, q)
  BY <1>1, <1>2, BelowIs
<1>6. ASSUME d # <<>> PROVE d \in Parents(p)
  <2>1. Len(d) \in 1..(Len(p) - 1)
    BY <1>1, <1>6
  <2>2. SubSeq(p, 1, Len(d)) = d
    BY <1>1
  <2> QED
    BY <2>1, <2>2 DEF Parents
<1> QED
  BY <1>1, <1>2, <1>3, <1>4, <1>5, <1>6 DEF q

(* The first of several numbers.                                           *)
LEMMA FirstOf ==
  ASSUME NEW S \in SUBSET Nat, S # {}
  PROVE  \E n \in S : \A m \in S : n <= m
<1>1. PICK x \in S : TRUE
  OBVIOUS
<1> DEFINE T == S \cap (0..x)
           R == {r \in T \X T : r[1] < r[2]}
<1>2. IsFiniteSet(T) /\ T # {} /\ T \subseteq Nat
  <2>1. IsFiniteSet(0..x) /\ x \in 0..x /\ T \subseteq 0..x
    BY <1>1, FS_Interval
  <2> QED
    BY <2>1, <1>1, FS_Subset
<1>3. \A a, b \in T : <<a, b>> \in R <=> a < b
  OBVIOUS
<1>4. S \subseteq T \cup {n \in Nat : n > x}
  BY <1>1
<1> HIDE DEF R
<1>5. \A n \in T : n <= x
  BY <1>1
<1> HIDE DEF T
<1>6. PICK n \in T : \A m \in T : <<m, n>> \notin R
  <2>1. \A a \in T : <<a, a>> \notin R
    BY <1>2, <1>3
  <2>2. \A a, b, c \in T : <<a, b>> \in R /\ <<b, c>> \in R => <<a, c>> \in R
    BY <1>2, <1>3
  <2> QED
    BY <1>2, <2>1, <2>2, Unbeaten
<1>7. n \in Nat /\ n <= x /\ n \in S
  BY <1>2, <1>5 DEF T
<1>8. ASSUME NEW m \in S PROVE n <= m
  <2>1. CASE m \in T
    <3>1. ~(m < n)
      BY <1>3, <1>6, <2>1
    <3> QED
      BY <1>7, <3>1
  <2>2. CASE m \notin T
    BY <1>1, <1>4, <1>7, <2>2
  <2> QED
    BY <2>1, <2>2
<1> QED
  BY <1>7, <1>8

(* An excluded path is below exactly one root.                             *)
LEMMA OneRoot ==
  ASSUME CallInv, pc \notin {"load", "failed"}, NEW p \in Known
  PROVE  /\ Excluded(p) => \E r \in Roots : Below(p, r)
         /\ \A r \in Roots : Below(p, r) => Excluded(p)
         /\ \A r \in Roots, s \in Roots : Below(p, r) /\ Below(p, s) => r = s
<1>1. Roots \subseteq call.excluded /\ call.excluded \subseteq Known /\ Known \subseteq Seq(Names)
  BY SurveyAssumption DEF CallInv, Roots, Known
<1>2. ASSUME NEW r \in Roots, NEW s \in Roots, Below(p, r), Below(p, s) PROVE r = s
  BY <1>1, <1>2, BelowOrder DEF Roots
<1>3. ASSUME Excluded(p) PROVE \E r \in Roots : Below(p, r)
  <2> DEFINE E == {e \in call.excluded : Below(p, e)}
             L == {Len(e) : e \in E}
  <2>1. E # {} /\ \A e \in E : Len(e) \in Nat
    BY <1>1, <1>3 DEF Excluded
  <2>2. PICK n \in L : \A m \in L : n <= m
    <3>1. L \in SUBSET Nat /\ L # {}
      BY <2>1
    <3> HIDE DEF L
    <3> QED
      BY <3>1, FirstOf
  <2>3. PICK e \in E : \A f \in E : Len(e) <= Len(f)
    BY <2>2
  <2>4. ASSUME NEW f \in call.excluded, Below(e, f) PROVE f = e
    <3>1. e \in Seq(Names) /\ f \in Seq(Names) /\ p \in Seq(Names)
      BY <1>1
    <3>2. Below(p, f)
      BY <2>4, <3>1, BelowOrder
    <3>3. Len(f) = Len(e)
      BY <2>3, <2>4, <3>1, <3>2, BelowIs
    <3> QED
      BY <2>4, <3>1, <3>3, BelowOrder
  <2> QED
    BY <2>4 DEF Roots
<1> QED
  BY <1>1, <1>2, <1>3 DEF Excluded

-----------------------------------------------------------------------------
LEMMA Initially == Init => IInv
<1> SUFFICES ASSUME Init PROVE IInv
  OBVIOUS
<1>1. CallInv
  BY DEF Init, CallInv, Early
<1>2. TreeInv
  BY SurveyAssumption DEF Init, TreeInv
<1>3. PoolInv
  <2>1. <<>> \in Pool
    BY DEF Pool
  <2> QED
    BY <2>1 DEF Init, PoolInv, Distinct
<1>4. FoundInv
  BY DEF Init, FoundInv, Early, Middle, Late
<1>5. RecordType /\ RecordInv
  BY DEF Init, RecordType, RecordInv, RecordOnce, RecordSound, RecordComplete, Late
<1>6. CandidateInv
  BY DEF Init, CandidateInv, CandidateType, CandidateSound, CandidateComplete
<1> QED
  BY <1>1, <1>2, <1>3, <1>4, <1>5, <1>6 DEF IInv, Base

(* What the steps of the survey leave alone, and those of the world.       *)
LEMMA Frame ==
  ASSUME Next
  PROVE  \/ World /\ UNCHANGED <<pc, reading>>
         \/ UNCHANGED <<world, history>> /\ call' = call
<1>1. CASE Load
  BY <1>1 DEF Load, Goto, Refuse, reading
<1>2. CASE ReadFstab
  BY <1>2 DEF ReadFstab, Pooled, Goto, Refuse, reading
<1>3. CASE RuntimePool
  BY <1>3 DEF RuntimePool, RequireMount, CheckFsType, ReadList, ReadMinFree, Pooled,
              Goto, Refuse, reading
<1>4. CASE Discover
  BY <1>4 DEF Discover, RequirePool, RequireBranch, ReadCapacity, ReadKind, Enough,
              Goto, Refuse, reading
<1>5. CASE Account \/ Scan
  BY <1>5 DEF Account, Scan, NextSsd, Goto
<1>6. CASE World
  BY <1>6 DEF World
<1>7. CASE Accounting
  BY <1>7 DEF Accounting, LookAt, Measure, MeasureVanished, Goto, Refuse, reading
<1>8. CASE \E d \in todo : Visit(d)
  BY <1>8 DEF Visit, Goto, Refuse, reading
<1> QED
  BY <1>1, <1>2, <1>3, <1>4, <1>5, <1>6, <1>7, <1>8 DEF Next, Accounting

LEMMA CallStep == CallInv /\ [Next]_vars => CallInv'
<1> SUFFICES ASSUME CallInv, [Next]_vars PROVE CallInv'
  OBVIOUS
<1> USE DEF CallInv, Valid, Early, Middle, Late
<1>1. CASE Load
  BY <1>1 DEF Load, Goto, Refuse, reading
<1>2. CASE ReadFstab
  BY <1>2 DEF ReadFstab, Pooled, Goto, Refuse, reading
<1>3. CASE RuntimePool
  BY <1>3 DEF RuntimePool, RequireMount, CheckFsType, ReadList, ReadMinFree, Pooled,
              Goto, Refuse, reading
<1>4. CASE Discover
  BY <1>4 DEF Discover, RequirePool, RequireBranch, ReadCapacity, ReadKind, Enough,
              Goto, Refuse, reading
<1>5. CASE Account \/ Scan
  BY <1>5 DEF Account, Scan, NextSsd, Goto
<1>6. CASE World
  BY <1>6 DEF World, reading
<1>7. CASE Accounting
  BY <1>7 DEF Accounting, LookAt, Measure, MeasureVanished, Goto, Refuse, reading
<1>8. CASE \E d \in todo : Visit(d)
  BY <1>8 DEF Visit, Goto, Refuse, reading
<1>9. CASE UNCHANGED vars
  BY <1>9 DEF vars, reading
<1> QED
  BY <1>1, <1>2, <1>3, <1>4, <1>5, <1>6, <1>7, <1>8, <1>9 DEF Next, Accounting

(* The directories above an entry are above it.                            *)
LEMMA Above ==
  ASSUME NEW p \in Seq(Names), NEW d \in Parents(p)
  PROVE  d \in Seq(Names) /\ Below(p, d) /\ p # d
<1>1. PICK n \in 1..(Len(p) - 1) : d = SubSeq(p, 1, n)
  BY DEF Parents
<1>2. d \in Seq(Names) /\ Len(d) = n /\ n <= Len(p) /\ n # Len(p) /\ \A k \in 1..n : d[k] = p[k]
  BY <1>1
<1> QED
  BY <1>2, BelowIs

(* The world changes only what is recorded as touched.                     *)
LEMMA WorldTree ==
  ASSUME TreeInv, World
  PROVE  /\ TreeInv'
         /\ touched \subseteq touched' /\ gone \subseteq gone'
         /\ \A b \in Branches, p \in Paths :
               <<b, p>> \notin touched' => (p \in tree'[b] <=> p \in tree[b])
<1> DEFINE Held == /\ TreeInv'
                  /\ touched \subseteq touched' /\ gone \subseteq gone'
                  /\ \A b \in Branches, p \in Paths :
                        <<b, p>> \notin touched' => (p \in tree'[b] <=> p \in tree[b])
<1>1. ASSUME NEW m, Unmount(m) \/ Mount(m) PROVE Held
  BY <1>1 DEF Unmount, Mount, TreeInv
<1>2. ASSUME Reconfigure PROVE Held
  BY <1>2 DEF Reconfigure, TreeInv
<1>3. ASSUME NEW a \in Branches, NEW q \in Paths, Vanish(a, q) PROVE Held
  <2>1. /\ DOMAIN tree' = Branches
        /\ tree'[a] = {p \in tree[a] : ~Below(p, q)}
        /\ \A b \in Branches \ {a} : tree'[b] = tree[b]
    BY <1>3 DEF Vanish, TreeInv
  <2>2. ASSUME NEW p \in tree'[a], NEW d \in Parents(p)
        PROVE  p \in Paths /\ d \in tree'[a] /\ Kind[d] = "dir"
    <3>1. p \in Paths /\ d \in Paths /\ d \in tree[a] /\ Kind[d] = "dir" /\ ~Below(p, q)
      BY <2>1, <2>2 DEF TreeInv
    <3>2. p \in Seq(Names) /\ d \in Seq(Names) /\ q \in Seq(Names)
      BY <3>1, SurveyAssumption DEF Known
    <3>3. ~Below(d, q)
      BY <3>1, <3>2, Above, BelowOrder
    <3> QED
      BY <2>1, <3>1, <3>3
  <2>3. TreeInv'
    BY <2>1, <2>2 DEF TreeInv
  <2>4. touched \subseteq touched' /\ gone' = gone
        /\ \A p \in Paths : Below(p, q) => <<a, p>> \in touched'
    BY <1>3 DEF Vanish
  <2> QED
    BY <2>1, <2>3, <2>4
<1>4. ASSUME NEW a \in Branches, NEW q \in Paths, Appear(a, q) PROVE Held
  <2>1. /\ DOMAIN tree' = Branches
        /\ tree'[a] = tree[a] \cup {q}
        /\ \A b \in Branches \ {a} : tree'[b] = tree[b]
    BY <1>4 DEF Appear, TreeInv
  <2>2. TreeInv'
    BY <1>4, <2>1 DEF TreeInv, Appear
  <2> QED
    BY <1>4, <2>1, <2>2 DEF Appear
<1> QED
  BY <1>1, <1>2, <1>3, <1>4 DEF World

LEMMA TreeStep == TreeInv /\ [Next]_vars => TreeInv'
<1> SUFFICES ASSUME TreeInv, [Next]_vars PROVE TreeInv'
  OBVIOUS
<1>1. World \/ UNCHANGED tree
  BY Frame DEF vars, world
<1> QED
  BY <1>1, WorldTree DEF TreeInv

LEMMA PoolStep == CallInv /\ PoolInv /\ [Next]_vars => PoolInv'
<1> SUFFICES ASSUME CallInv, PoolInv, [Next]_vars PROVE PoolInv'
  OBVIOUS
<1>1. list' \in Lists
  <2>1. World => list' \in Lists
    BY DEF World, Unmount, Mount, Reconfigure, Vanish, Appear, PoolInv
  <2> QED
    BY <2>1, Frame DEF vars, world, PoolInv
<1>2. ASSUME UNCHANGED <<call, pool>> PROVE PoolInv'
  BY <1>1, <1>2 DEF PoolInv, Distinct
<1>3. CASE ReadFstab
  <2>1. CASE pool' = pool
    BY <1>2, <1>3, <2>1, Frame DEF Next, World, reading, Accounting
  <2>2. CASE pool' # pool
    <3>1. /\ call' = call /\ call.fstab
          /\ \E e \in Fstab : pool'.branches = e.branches
      BY <1>3, <2>2 DEF ReadFstab, Pooled, Matching, Goto, Refuse, reading, CallInv
    <3> QED
      BY <1>1, <3>1, SurveyAssumption DEF PoolInv, Distinct, Unambiguous
  <2> QED
    BY <2>1, <2>2
<1>4. CASE ReadList
  <2>1. CASE pool' = pool
    BY <1>2, <1>4, <2>1, Frame DEF Next, World, reading, RuntimePool, Accounting
  <2>2. CASE pool' # pool
    <3>1. /\ call' = call /\ pool'.branches = list
          /\ \A n \in DOMAIN list : list[n].mode = "RW"
          /\ \A m, n \in DOMAIN list : list[m].path = list[n].path => m = n
      BY <1>4, <2>2 DEF ReadList, Pooled, Goto, Refuse, reading
    <3> QED
      BY <1>1, <3>1, SurveyAssumption DEF PoolInv, Distinct
  <2> QED
    BY <2>1, <2>2
<1>5. CASE ReadMinFree
  <2>1. call' = call /\ pool'.branches = pool.branches
    BY <1>5 DEF ReadMinFree, Pooled, Goto, Refuse, reading
  <2> QED
    BY <1>1, <2>1 DEF PoolInv, Distinct
<1>6. CASE Load \/ RequireMount \/ CheckFsType \/ Discover \/ Account \/ Scan
  <2>1. UNCHANGED <<call, pool>>
    BY <1>6 DEF Load, RequireMount, CheckFsType, Discover, RequirePool, RequireBranch,
                ReadCapacity, ReadKind, Enough, Account, Scan, NextSsd, Goto, Refuse, reading
  <2> QED
    BY <1>2, <2>1
<1>7. CASE World \/ UNCHANGED vars
  BY <1>2, <1>7 DEF World, vars, reading
<1>8. CASE Accounting
  BY <1>2, <1>8 DEF Accounting, LookAt, Measure, MeasureVanished, Refuse, reading
<1>9. CASE \E d \in todo : Visit(d)
  BY <1>2, <1>9 DEF Visit, Refuse, reading
<1> QED
  BY <1>3, <1>4, <1>5, <1>6, <1>7, <1>8, <1>9 DEF Next, RuntimePool, Accounting

-----------------------------------------------------------------------------
(* An accepted branch is still mounted, or known to have been unmounted.   *)
LEMMA WorldSeated ==
  ASSUME World, NEW b \in Checked, Seated(b)
  PROVE  Seated(b)'
<1>1. ASSUME NEW m, Unmount(m) PROVE Seated(b)'
  <2>1. CASE m = b
    BY <1>1, <2>1 DEF Seated, Unmount, Fixed
  <2>2. CASE m # b
    BY <1>1, <2>2 DEF Seated, Unmount, Fixed
  <2> QED
    BY <2>1, <2>2
<1>2. ASSUME NEW m, Mount(m) PROVE Seated(b)'
  BY <1>2 DEF Seated, Mount, Fixed
<1>3. ASSUME Reconfigure PROVE Seated(b)'
  BY <1>3 DEF Seated, Reconfigure, Fixed
<1>4. ASSUME NEW a, NEW p, Vanish(a, p) \/ Appear(a, p) PROVE Seated(b)'
  BY <1>4 DEF Seated, Vanish, Appear, Fixed
<1> QED
  BY <1>1, <1>2, <1>3, <1>4 DEF World

(* The branches of the pool, and those accepted so far.                    *)
LEMMA Sequences ==
  ASSUME PoolInv, FoundInv
  PROVE  /\ Len(pool.branches) \in Nat /\ DOMAIN pool.branches = 1..Len(pool.branches)
         /\ \A n \in DOMAIN pool.branches : /\ pool.branches[n].path \in Branches
                                           /\ pool.branches[n].reserve \in Nat
                                           /\ pool.branches[n] =
                                                [path |-> pool.branches[n].path,
                                                 mode |-> pool.branches[n].mode,
                                                 reserve |-> pool.branches[n].reserve]
         /\ found \in Seq(Finding) /\ i \in Nat
         /\ Len(found) \in Nat /\ DOMAIN found = 1..Len(found)
         /\ Len(found) <= Len(pool.branches)
<1> DEFINE E == [path : Branches, mode : {"RW", "RO", "NC", "none"}, reserve : Nat]
<1>1. pool.branches \in Seq(E)
  BY DEF PoolInv, Pool
<1>2. \A e \in E : /\ e.path \in Branches /\ e.reserve \in Nat
                  /\ e = [path |-> e.path, mode |-> e.mode, reserve |-> e.reserve]
  OBVIOUS
<1> HIDE DEF E
<1>3. /\ Len(pool.branches) \in Nat /\ DOMAIN pool.branches = 1..Len(pool.branches)
      /\ \A n \in DOMAIN pool.branches : pool.branches[n] \in E
  BY <1>1
<1>4. found \in Seq(Finding) /\ i \in Nat /\ Len(found) <= Len(pool.branches)
  BY DEF FoundInv
<1>5. Len(found) \in Nat /\ DOMAIN found = 1..Len(found)
  BY <1>4
<1> QED
  BY <1>2, <1>3, <1>4, <1>5

LEMMA FoundWorld == CallInv /\ PoolInv /\ FoundInv /\ World => FoundInv'
<1> SUFFICES ASSUME CallInv, PoolInv, FoundInv, World PROVE FoundInv'
  OBVIOUS
<1>1. UNCHANGED <<pc, call, pool, found, i>> /\ pc \notin {"done", "failed"}
  BY DEF World, reading
<1>2. gone \subseteq gone'
  BY DEF World, Unmount, Mount, Reconfigure, Vanish, Appear
<1>3. \A n \in DOMAIN pool.branches : pool.branches[n].path \in Branches
  BY Sequences
<1>4. DOMAIN found = 1..Len(found) /\ DOMAIN pool.branches = 1..Len(pool.branches)
      /\ Len(found) \in Nat /\ Len(pool.branches) \in Nat /\ Len(found) <= Len(pool.branches)
  BY Sequences
<1>5. ASSUME NEW n \in DOMAIN found PROVE found[n].path \in Checked
  <2>1. found[n].path = pool.branches[n].path /\ found[n].path \in Branches
    <3>1. n \in DOMAIN pool.branches
      BY <1>4
    <3> QED
      BY <1>3, <3>1 DEF FoundInv
  <2>2. pc \in Middle \cup {"account", "scan"}
    <3>1. found # <<>>
      BY <1>4
    <3> QED
      BY <1>1, <3>1 DEF FoundInv, CallInv, Early, Middle, Late
  <2>3. CASE pc \in {"account", "scan"}
    BY <2>1, <2>3 DEF Checked
  <2>4. CASE pc \in {"branch", "capacity"}
    <3>1. n \in 1..(i - 1)
      BY <1>4, <2>4 DEF FoundInv
    <3> QED
      BY <2>1, <3>1 DEF Checked
  <2>5. CASE pc = "kind"
    <3>1. n \in 1..(i - 1) \/ n = i
      BY <1>4, <2>5 DEF FoundInv
    <3> QED
      BY <2>1, <2>5, <3>1 DEF Checked, Entry
  <2> QED
    BY <2>2, <2>3, <2>4, <2>5 DEF Middle
<1>6. \A n \in DOMAIN found : Seated(found[n].path)'
  BY <1>1, <1>5, WorldSeated DEF FoundInv, Seated, Fixed
<1>7. pc \in {"capacity", "kind"} => Seated(Entry.path)'
  BY <1>1, WorldSeated DEF FoundInv, Checked, Seated, Fixed, Entry
<1> QED
  BY <1>1, <1>2, <1>6, <1>7 DEF FoundInv, Ssds, Entry

LEMMA FoundCapacity == CallInv /\ PoolInv /\ FoundInv /\ ReadCapacity => FoundInv'
<1> SUFFICES ASSUME CallInv, PoolInv, FoundInv, ReadCapacity PROVE FoundInv'
  OBVIOUS
<1> DEFINE new == [path |-> Entry.path, reserve |-> Entry.reserve,
                   total |-> Total[Behind], rotational |-> None]
<1>1. /\ UNCHANGED <<world, history, call, pool, i>>
      /\ pc = "capacity" /\ pc' = "kind" /\ found' = Append(found, new)
  BY DEF ReadCapacity, Goto
<1>2. i \in DOMAIN pool.branches /\ i = Len(found) + 1 /\ Seated(Entry.path)
  BY <1>1 DEF FoundInv
<1>3. Entry.path \in Branches /\ Entry.reserve \in Nat
  BY <1>2, Sequences DEF Entry
<1>4. new \in Finding
  BY <1>3 DEF Finding, Totals, Behind
<1>5. new.path \notin gone => /\ new.total = Total[Device[new.path]]
                              /\ new.rotational = None
  BY <1>2 DEF Seated, Behind
<1>6. new.path = Entry.path /\ new.reserve = Entry.reserve
  OBVIOUS
<1> HIDE DEF new
<1>7. /\ found' \in Seq(Finding) /\ Len(found') = i
      /\ \A n \in DOMAIN found' :
            \/ n = i /\ found'[n] = new
            \/ n \in DOMAIN found /\ found'[n] = found[n] /\ n < i
  <2>1. found \in Seq(Finding) /\ Len(found) \in Nat /\ DOMAIN found = 1..Len(found)
    BY Sequences
  <2>2. found' = Append(found, new) /\ i = Len(found) + 1
    BY <1>1, <1>2
  <2> QED
    BY <1>4, <2>1, <2>2
<1>8. i <= Len(pool.branches) /\ i \in Nat
  BY <1>2, Sequences
<1>9. \A b : Seated(b)' <=> Seated(b)
  BY <1>1 DEF Seated, Fixed, world, history
<1>10. ASSUME NEW n \in DOMAIN found'
       PROVE  /\ found'[n].path = pool.branches[n].path
              /\ found'[n].reserve = pool.branches[n].reserve
              /\ Seated(found'[n].path)
              /\ found'[n].path \notin gone =>
                    /\ found'[n].total = Total[Device[found'[n].path]]
                    /\ found'[n].rotational \in {None, Rota[Device[found'[n].path]]}
              /\ n < i => found'[n].rotational \in BOOLEAN
  <2>1. CASE n = i /\ found'[n] = new
    BY <1>2, <1>5, <1>6, <1>8, <2>1 DEF Entry
  <2>2. CASE n \in DOMAIN found /\ found'[n] = found[n] /\ n < i
    BY <1>1, <2>2 DEF FoundInv
  <2> QED
    BY <1>7, <2>1, <2>2
<1>11. UNCHANGED <<gone, pool, i>> /\ Entry' = Entry
  BY <1>1 DEF history, Entry
<1> QED
  BY <1>1, <1>2, <1>7, <1>8, <1>9, <1>10, <1>11 DEF FoundInv, Early, Middle, Late

LEMMA FoundKind == CallInv /\ PoolInv /\ FoundInv /\ ReadKind => FoundInv'
<1> SUFFICES ASSUME CallInv, PoolInv, FoundInv, ReadKind PROVE FoundInv'
  OBVIOUS
<1>1. UNCHANGED <<world, history, call, pool>> /\ pc = "kind"
  BY DEF ReadKind, Goto, Refuse, reading
<1>2. \A b : Seated(b)' <=> Seated(b)
  BY <1>1 DEF Seated, Fixed, world, history
<1>3. i \in DOMAIN pool.branches /\ i = Len(found) /\ Seated(Entry.path)
  BY <1>1 DEF FoundInv
<1>4. UNCHANGED <<gone, pool>> /\ i \in Nat /\ Len(pool.branches) \in Nat
      /\ DOMAIN pool.branches = 1..Len(pool.branches)
  BY <1>1, Sequences DEF history
<1>5. CASE pc' = "failed" /\ UNCHANGED <<found, i>>
  BY <1>1, <1>2, <1>4, <1>5 DEF FoundInv, Early, Middle, Late
<1>6. CASE /\ Rota[Behind] \in BOOLEAN /\ pc' = "branch" /\ i' = i + 1
           /\ found' = [found EXCEPT ![i].rotational = Rota[Behind]]
  <2> DEFINE new == [found[i] EXCEPT !.rotational = Rota[Behind]]
  <2>1. found \in Seq(Finding) /\ i \in DOMAIN found /\ found[i] \in Finding
    BY <1>3, <1>4 DEF FoundInv
  <2>2. /\ new \in Finding /\ new.path = found[i].path /\ new.reserve = found[i].reserve
        /\ new.total = found[i].total /\ new.rotational = Rota[Behind]
    BY <1>6, <2>1 DEF Finding
  <2>3. found' = [found EXCEPT ![i] = new]
    BY <1>6
  <2> HIDE DEF new
  <2>4. /\ found' \in Seq(Finding) /\ Len(found') = Len(found) /\ DOMAIN found' = DOMAIN found
        /\ \A n \in DOMAIN found : found'[n] = IF n = i THEN new ELSE found[n]
    BY <2>1, <2>2, <2>3
  <2>5. found[i].path = Entry.path
    BY <2>1 DEF FoundInv, Entry
  <2>6. Entry.path \notin gone => Rota[Behind] = Rota[Device[Entry.path]]
    BY <1>3 DEF Seated, Behind
  <2>7. ASSUME NEW n \in DOMAIN found
        PROVE  /\ found'[n].path = pool.branches[n].path
               /\ found'[n].reserve = pool.branches[n].reserve
               /\ Seated(found'[n].path)
               /\ found'[n].path \notin gone =>
                     /\ found'[n].total = Total[Device[found'[n].path]]
                     /\ found'[n].rotational \in {None, Rota[Device[found'[n].path]]}
               /\ found'[n].rotational \in BOOLEAN
    <3>1. CASE n = i
      BY <1>1, <1>6, <2>1, <2>2, <2>4, <2>5, <2>6, <3>1 DEF FoundInv
    <3>2. CASE n # i
      <4>1. n < i
        BY <1>3, <2>1, <3>2
      <4> QED
        BY <1>1, <2>4, <3>2, <4>1 DEF FoundInv
    <3> QED
      BY <3>1, <3>2
  <2>8. Len(found) <= Len(pool.branches) /\ i + 1 = Len(found) + 1 /\ i + 1 \in Nat
    BY <1>3, <1>4
  <2> QED
    BY <1>1, <1>2, <1>4, <1>6, <2>4, <2>7, <2>8 DEF FoundInv, Early, Middle, Late
<1> QED
  BY <1>5, <1>6 DEF ReadKind, Goto, Refuse, reading

LEMMA FoundStep == CallInv /\ PoolInv /\ FoundInv /\ [Next]_vars => FoundInv'
<1> SUFFICES ASSUME CallInv, PoolInv, FoundInv, [Next]_vars PROVE FoundInv'
  OBVIOUS
<1> USE DEF Early, Middle, Late
<1>1. CASE World
  BY <1>1, FoundWorld
<1>2. CASE ReadCapacity
  BY <1>2, FoundCapacity
<1>3. CASE ReadKind
  BY <1>3, FoundKind
<1> DEFINE Still == UNCHANGED <<world, history, found>>
<1>4. ASSUME Still PROVE (\A b : Seated(b)' <=> Seated(b)) /\ gone' = gone /\ Ssds' = Ssds
  BY <1>4 DEF Seated, Fixed, world, history, Ssds
<1>5. Ssds \subseteq DOMAIN found
  BY DEF Ssds
<1>6. ASSUME Still, UNCHANGED i, pc \in Early, pc' \in Early \cup {"failed", "branch"}
      PROVE  FoundInv'
  <2>1. found = <<>> /\ i = 1 /\ found' = <<>> /\ i' = 1
    BY <1>6 DEF FoundInv
  <2>2. Len(pool'.branches) \in Nat
    BY PoolStep DEF PoolInv, Pool
  <2> QED
    BY <1>4, <1>6, <2>1, <2>2 DEF FoundInv
<1>7. ASSUME Still, UNCHANGED <<i, pool>>, pc' = pc \/ pc' = "failed" PROVE FoundInv'
  BY <1>4, <1>7 DEF FoundInv, Entry
<1>8. ASSUME Still, pc \in Late, pc' \in Late, i' \in {0} \cup Ssds, pool' = pool PROVE FoundInv'
  <2>1. i' \in Nat
    BY <1>5, <1>8, Sequences
  <2> QED
    BY <1>4, <1>8, <2>1 DEF FoundInv
<1>9. CASE Load \/ ReadFstab \/ RuntimePool \/ RequirePool
  BY <1>6, <1>9 DEF Load, ReadFstab, RuntimePool, RequireMount, CheckFsType, ReadList,
                    ReadMinFree, RequirePool, Pooled, Goto, Refuse, reading
<1>10. CASE RequireBranch
  <2>1. CASE pc' = "failed"
    BY <1>7, <1>10, <2>1 DEF RequireBranch, Goto, Refuse, reading
  <2>2. CASE pc' # "failed"
    <3>1. /\ Still /\ UNCHANGED <<i, pool>> /\ pc = "branch" /\ pc' = "capacity"
          /\ i <= Len(pool.branches) /\ Entry.path \in mounted
      BY <1>10, <2>2 DEF RequireBranch, Goto, Refuse, reading
    <3>2. i \in DOMAIN pool.branches /\ Seated(Entry.path) /\ Entry' = Entry /\ i = Len(found) + 1
      BY <3>1, Sequences DEF Seated, FoundInv, Entry
    <3> QED
      BY <1>4, <3>1, <3>2 DEF FoundInv
  <2> QED
    BY <2>1, <2>2
<1>11. CASE Enough
  <2>1. CASE pc' = "failed"
    BY <1>7, <1>11, <2>1 DEF Enough, Goto, Refuse, reading
  <2>2. CASE pc' # "failed"
    <3>1. /\ Still /\ pool' = pool /\ pc = "branch" /\ pc' \in {"scan", "account"}
          /\ i > Len(pool.branches) /\ i' = 0
      BY <1>11, <2>2 DEF Enough, Goto, Refuse, reading
    <3>2. Len(found) = Len(pool.branches) /\ \A n \in DOMAIN found : n < i
      BY <3>1, Sequences DEF FoundInv
    <3>3. \A n \in DOMAIN found : found[n].rotational \in BOOLEAN
      BY <3>2 DEF FoundInv
    <3> QED
      BY <1>4, <3>1, <3>2, <3>3 DEF FoundInv
  <2> QED
    BY <2>1, <2>2
<1>12. CASE Account \/ Scan
  <2>1. /\ Still /\ pc \in Late /\ pc' \in Late /\ pool' = pool
        /\ i' = 0 \/ i' \in Ssds
    BY <1>12 DEF Account, Scan, NextSsd, Goto
  <2> QED
    BY <1>8, <2>1
<1>13. CASE Accounting
  BY <1>7, <1>13 DEF Accounting, LookAt, Measure, MeasureVanished, Goto, Refuse, reading
<1>14. CASE \E d \in todo : Visit(d)
  <2>1. Still /\ UNCHANGED <<i, pool>> /\ (pc' = pc \/ pc' = "failed")
    BY <1>14 DEF Visit, Goto, Refuse, reading
  <2> QED
    BY <1>7, <2>1
<1>15. CASE UNCHANGED vars
  <2>1. Still /\ UNCHANGED <<i, pool, pc>>
    BY <1>15 DEF vars, reading
  <2> QED
    BY <1>7, <2>1
<1> QED
  BY <1>1, <1>2, <1>3, <1>9, <1>10, <1>11, <1>12, <1>13, <1>14, <1>15 DEF Next, Discover, Accounting

-----------------------------------------------------------------------------
(* The SSDs the survey measures and walks, and what it sees of one.        *)
LEMMA Surveyed ==
  ASSUME PoolInv, FoundInv, pc \in Late
  PROVE  /\ Ssds \subseteq Nat \ {0} /\ i \in Nat /\ (i = 0 \/ i \in Ssds)
         /\ \A n \in Ssds : Path(n) \in Branches /\ Seated(Path(n))
         /\ Distinct => \A m, n \in Ssds : Path(m) = Path(n) => m = n
<1>1. \A n \in Ssds : n \in DOMAIN found /\ n \in DOMAIN pool.branches /\ n \in Nat \ {0}
  BY Sequences DEF Ssds
<1>2. \A n \in Ssds : Path(n) = pool.branches[n].path /\ Seated(Path(n))
  BY <1>1 DEF FoundInv, Path, Late
<1>3. \A n \in Ssds : Path(n) \in Branches
  BY <1>1, <1>2, Sequences
<1>4. i \in Nat /\ (i = 0 \/ i \in Ssds)
  BY DEF FoundInv
<1> QED
  BY <1>1, <1>2, <1>3, <1>4 DEF Distinct

LEMMA Seeing ==
  ASSUME TreeInv, PoolInv, FoundInv, pc \in Late, i \in Ssds
  PROVE  /\ Branch = Path(i) /\ Branch \in Branches
         /\ Visible \subseteq tree[Branch] /\ tree[Branch] \subseteq Paths
         /\ \A p \in Paths : Fixed(Branch, p) => (p \in Visible <=> p \in tree[Branch])
<1>1. Branch = Path(i) /\ Branch \in Branches /\ Seated(Branch)
  BY Surveyed DEF Branch, Path
<1>2. Visible \subseteq tree[Branch] /\ tree[Branch] \subseteq Paths
  BY <1>1 DEF TreeInv, Visible
<1>3. ASSUME NEW p \in Paths, Fixed(Branch, p) PROVE Visible = tree[Branch]
  BY <1>1, <1>3 DEF Seated, Visible
<1> QED
  BY <1>1, <1>2, <1>3

LEMMA Knowledge == /\ Paths \subseteq Known /\ Known \subseteq Seq(Names)
                   /\ CallInv => call.excluded \subseteq Known /\ call.scope \in Known
                   /\ Roots \subseteq call.excluded
<1>1. CallInv => call.excluded \subseteq Known /\ call.scope \in Known
  BY DEF CallInv, Known
<1> QED
  BY <1>1, SurveyAssumption DEF Known, Roots

LEMMA Childhood ==
  ASSUME CallInv, TreeInv, PoolInv, FoundInv, pc \in Late, i \in Ssds,
         NEW d \in Known, NEW p \in Children(d)
  PROVE  /\ p \in Paths /\ p \in tree[Branch] /\ p \in Seq(Names)
         /\ Len(p) = Len(d) + 1 /\ Below(p, d) /\ p # d
         /\ \A e \in Known : Below(d, e) => Below(p, e) /\ p # e
<1>1. p \in Visible /\ Len(p) = Len(d) + 1 /\ Below(p, d)
  BY DEF Children
<1>2. p \in Paths /\ p \in tree[Branch] /\ p \in Seq(Names) /\ d \in Seq(Names)
  BY <1>1, Seeing, Knowledge
<1>3. ASSUME NEW e \in Known, Below(d, e) PROVE Below(p, e) /\ p # e
  <2>1. e \in Seq(Names)
    BY Knowledge
  <2>2. Below(p, e)
    BY <1>1, <1>2, <1>3, <2>1, BelowOrder
  <2>3. Len(e) <= Len(d)
    BY <1>2, <1>3, <2>1, BelowIs
  <2> QED
    BY <1>1, <1>2, <2>1, <2>2, <2>3
<1>4. p # d
  BY <1>1, <1>2
<1> QED
  BY <1>1, <1>2, <1>3, <1>4

(* A root gets its record when it is looked at ...                         *)
LEMMA Look ==
  ASSUME Base, NEW r \in call.excluded, LookAt(r), pc' # "failed"
  PROVE  /\ r \in Roots /\ i \in Ssds /\ Branch = Path(i)
         /\ pc = "account" /\ pc' = "account" /\ <<r>> \in todo
         /\ UNCHANGED <<world, history, call, pool, found, i>>
         /\ records' = records \cup {Record(r, r \in Visible, {})}
         /\ todo' = (todo \ {<<r>>}) \cup (IF r \in Visible THEN {<<r, r>>} ELSE {})
<1>1. /\ pc = "account" /\ pc' = "account" /\ <<r>> \in todo
      /\ UNCHANGED <<world, history, call, pool, found, i>>
      /\ records' = records \cup {Record(r, r \in Visible, {})}
      /\ todo' = (todo \ {<<r>>}) \cup (IF r \in Visible THEN {<<r, r>>} ELSE {})
  BY DEF LookAt, Goto, Refuse
<1>2. r \in Roots
  BY <1>1 DEF Base, RecordType
<1>3. i \in Ssds /\ Branch = Path(i)
  BY <1>1, Surveyed DEF Base, RecordType, Late, Branch, Path
<1> QED
  BY <1>1, <1>2, <1>3

(* ... and each of its entries is added to it.                             *)
Updated(r, p, x, y) ==
    /\ x \in RecordOf(Branch, r)
    /\ records' = (records \ {x}) \cup {y}
    /\ y = [branch |-> Branch, path |-> r, present |-> x.present,
            files |-> x.files \cup (IF p \in Visible /\ Kind[p] = "file" THEN {p} ELSE {})]

LEMMA Update ==
  ASSUME Base, NEW r \in call.excluded, NEW p \in Paths \cup {r}, Measure(r, p)
  PROVE  /\ r \in Roots /\ p \in Known /\ Below(p, r) /\ i \in Ssds /\ Branch = Path(i)
         /\ pc = "account" /\ <<r, p>> \in todo /\ <<r>> \notin todo
         /\ \E x, y : Updated(r, p, x, y)
<1>1. pc = "account" /\ <<r, p>> \in todo
  BY DEF Measure
<1>2. i \in Ssds /\ Branch = Path(i)
  BY <1>1, Surveyed DEF Base, RecordType, Late, Branch, Path
<1>3. r \in Roots /\ p \in Known /\ Below(p, r) /\ <<r>> \notin todo /\ RecordOf(Branch, r) # {}
  BY <1>1, <1>2 DEF Base, RecordType
<1> DEFINE x == Measured(r)
           y == [x EXCEPT !.files = @ \cup (IF p \in Visible /\ Kind[p] = "file" THEN {p} ELSE {})]
<1>4. x \in RecordOf(Branch, r)
  BY <1>3 DEF Measured, RecordOf
<1>5. records' = (records \ {x}) \cup {y}
  BY DEF Measure
<1>6. x = [branch |-> Branch, path |-> r, present |-> x.present, files |-> x.files]
  <2> HIDE DEF x
  <2> QED
    BY <1>1, <1>4 DEF Base, RecordType, RecordOf, Late
<1>7. y = [branch |-> Branch, path |-> r, present |-> x.present,
           files |-> x.files \cup (IF p \in Visible /\ Kind[p] = "file" THEN {p} ELSE {})]
  <2> HIDE DEF x
  <2>1. \A b, q, e, g, h :
           [[branch |-> b, path |-> q, present |-> e, files |-> g] EXCEPT !.files = @ \cup h] =
           [branch |-> b, path |-> q, present |-> e, files |-> g \cup h]
    OBVIOUS
  <2> QED
    BY <1>6, <2>1
<1> HIDE DEF x, y
<1>8. Updated(r, p, x, y)
  BY <1>4, <1>5, <1>7 DEF Updated
<1> QED
  BY <1>1, <1>2, <1>3, <1>8

LEMMA TypeLook ==
  ASSUME Base, NEW r \in call.excluded, LookAt(r), pc' # "failed"
  PROVE  RecordType'
<1> DEFINE new == Record(r, r \in Visible, {})
<1>1. /\ r \in Roots /\ i \in Ssds /\ Branch = Path(i) /\ pc = "account" /\ pc' = "account"
      /\ UNCHANGED <<world, history, call, pool, found, i>>
      /\ records' = records \cup {new}
      /\ todo' = (todo \ {<<r>>}) \cup (IF r \in Visible THEN {<<r, r>>} ELSE {})
  BY Look
<1>2. Roots' = Roots /\ Ssds' = Ssds
      /\ \A n : Path(n)' = Path(n) /\ (Measurable(n)' <=> Measurable(n))
  BY <1>1 DEF Roots, Ssds, Path, Measurable
<1>3. /\ new = [branch |-> new.branch, path |-> new.path,
                present |-> new.present, files |-> new.files]
      /\ new.present \in BOOLEAN /\ new.path = r /\ new.branch = Path(i)
  BY <1>1 DEF Record
<1>4. Measurable(i) /\ i # 0
  BY <1>1, Surveyed DEF Measurable, Base, Late
<1> HIDE DEF new
<1>5. ASSUME NEW x \in records'
      PROVE  /\ x = [branch |-> x.branch, path |-> x.path,
                     present |-> x.present, files |-> x.files]
             /\ x.present \in BOOLEAN
             /\ x.path \in Roots
             /\ \E n \in Ssds : Measurable(n) /\ x.branch = Path(n)
  <2>1. CASE x \in records
    BY <1>1, <2>1 DEF Base, RecordType, Late
  <2>2. CASE x = new
    BY <1>1, <1>3, <1>4, <2>2
  <2> QED
    BY <1>1, <2>1, <2>2
<1>6. /\ \A s : RecordOf(Path(i), s) \subseteq RecordAfter(Path(i), s)
      /\ new \in RecordAfter(Path(i), r)
      /\ \A s : <<s>> \notin todo => <<s>> \notin todo'
      /\ <<r>> \notin todo'
  BY <1>1, <1>3 DEF RecordOf, RecordAfter
<1>7. ASSUME NEW t \in todo'
      PROVE  \E s \in Roots :
                \/ t = <<s>>
                \/ /\ <<s>> \notin todo' /\ RecordAfter(Path(i), s) # {}
                   /\ \E q \in Known : t = <<s, q>> /\ Below(q, s)
  <2>1. CASE t = <<r, r>>
    <3>1. r \in Known /\ Below(r, r)
      BY <1>1, Knowledge, BelowOrder DEF Base
    <3> QED
      BY <1>1, <1>6, <2>1, <3>1
  <2>2. CASE t \in todo
    <3>1. PICK s \in Roots :
             \/ t = <<s>>
             \/ /\ <<s>> \notin todo /\ RecordOf(Path(i), s) # {}
                /\ \E q \in Known : t = <<s, q>> /\ Below(q, s)
      BY <1>1, <2>2 DEF Base, RecordType
    <3> QED
      BY <1>6, <3>1
  <2> QED
    BY <1>1, <2>1, <2>2
<1> QED
  BY <1>1, <1>2, <1>4, <1>5, <1>7 DEF RecordType, Late, RecordOf, RecordAfter

LEMMA TypeMeasure ==
  ASSUME Base, NEW r \in call.excluded, NEW p \in Paths \cup {r}, Measure(r, p)
  PROVE  RecordType'
<1>1. /\ pc = "account" /\ pc' = "account" /\ <<r, p>> \in todo
      /\ UNCHANGED <<call, pool, found, i, tree, mounted>>
  BY DEF Measure, Goto, world
<1>2. /\ r \in Roots /\ p \in Known /\ Below(p, r) /\ <<r>> \notin todo
      /\ i \in Ssds /\ Branch = Path(i)
  BY Update
<1>3. PICK x, y : Updated(r, p, x, y)
  BY Update
<1>4. Roots' = Roots /\ Ssds' = Ssds
      /\ \A n : Path(n)' = Path(n) /\ (Measurable(n)' <=> Measurable(n))
  BY <1>1 DEF Roots, Ssds, Path, Measurable
<1>5. todo' = todo \ {<<r, p>>} \/ todo' = (todo \ {<<r, p>>}) \cup ({r} \X Children(p))
  BY DEF Measure
<1>6. ASSUME NEW q \in Children(p) PROVE q \in Known /\ Below(q, r)
  <2>1. r \in Known
    BY <1>2, Knowledge DEF Base
  <2>2. q \in Paths /\ Below(q, r)
    BY <1>1, <1>2, <2>1, Childhood DEF Base, Late
  <2> QED
    BY <2>2, Knowledge
<1>7. x \in records /\ x.branch = Branch /\ x.path = r /\ y.branch = Branch /\ y.path = r
      /\ y = [branch |-> y.branch, path |-> y.path, present |-> y.present, files |-> y.files]
      /\ y.present = x.present
  BY <1>3 DEF Updated, RecordOf
<1>8. /\ \A s : RecordOf(Branch, s) # {} => RecordAfter(Branch, s) # {}
      /\ \A s : <<s>> \in todo' <=> <<s>> \in todo
  <2>1. ASSUME NEW s, NEW z \in RecordOf(Branch, s) PROVE RecordAfter(Branch, s) # {}
    <3>1. z \in RecordAfter(Branch, s) \/ z = x
      BY <1>3 DEF Updated, RecordOf, RecordAfter
    <3>2. z = x => y \in RecordAfter(Branch, s)
      BY <1>3, <1>7 DEF Updated, RecordOf, RecordAfter
    <3> QED
      BY <3>1, <3>2
  <2>2. \A s : <<s>> # <<r, p>> /\ <<s>> \notin {r} \X Children(p)
    OBVIOUS
  <2> QED
    BY <1>5, <2>1, <2>2
<1>9. ASSUME NEW t \in todo'
      PROVE  \E s \in Roots :
                \/ t = <<s>>
                \/ /\ <<s>> \notin todo' /\ RecordAfter(Path(i), s) # {}
                   /\ \E q \in Known : t = <<s, q>> /\ Below(q, s)
  <2>1. CASE t \in {r} \X Children(p)
    <3>1. PICK q \in Children(p) : t = <<r, q>>
      BY <2>1
    <3>2. RecordAfter(Path(i), r) # {}
      BY <1>2, <1>3, <1>8 DEF Updated
    <3> QED
      BY <1>2, <1>6, <1>8, <3>1, <3>2
  <2>2. CASE t \in todo
    <3>1. PICK s \in Roots :
             \/ t = <<s>>
             \/ /\ <<s>> \notin todo /\ RecordOf(Path(i), s) # {}
                /\ \E q \in Known : t = <<s, q>> /\ Below(q, s)
      BY <1>1, <2>2 DEF Base, RecordType
    <3> QED
      BY <1>2, <1>8, <3>1
  <2> QED
    BY <1>5, <2>1, <2>2
<1>10. ASSUME NEW z \in records'
       PROVE  /\ z = [branch |-> z.branch, path |-> z.path,
                      present |-> z.present, files |-> z.files]
              /\ z.present \in BOOLEAN
              /\ z.path \in Roots
              /\ \E n \in Ssds : Measurable(n) /\ z.branch = Path(n)
  <2>1. CASE z \in records
    BY <1>1, <2>1 DEF Base, RecordType, Late
  <2>2. CASE z = y
    <3>1. x.present \in BOOLEAN /\ \E n \in Ssds : Measurable(n) /\ x.branch = Path(n)
      BY <1>1, <1>7 DEF Base, RecordType, Late
    <3> QED
      BY <1>2, <1>7, <2>2, <3>1
  <2> QED
    BY <1>3, <2>1, <2>2 DEF Updated
<1>11. i # 0
  BY <1>1, <1>2, Surveyed DEF Base, Late
<1> QED
  BY <1>1, <1>4, <1>9, <1>10, <1>11 DEF RecordType, Late, RecordOf, RecordAfter

(* The next SSD is a later one; after the last there is none.              *)
LEMMA Following ==
  ASSUME PoolInv, FoundInv, NEW l \in {"account", "scan"}, NEW work, NEW after \in Late,
         NextSsd(l, work, after)
  PROVE  /\ pc = l /\ todo = {}
         /\ UNCHANGED <<world, history, call, pool, found, records, candidates>>
         /\ Roots' = Roots /\ Ssds' = Ssds /\ \A n : Path(n)' = Path(n)
         /\ \/ /\ i' \in Ssds /\ i < i' /\ todo' = work /\ pc' = l
               /\ \A m \in Ssds : m > i => i' <= m
            \/ i' = 0 /\ todo' = {} /\ pc' = after /\ \A m \in Ssds : m <= i
<1>1. /\ pc = l /\ todo = {}
      /\ UNCHANGED <<world, history, call, pool, found, records, candidates>>
  BY DEF NextSsd, Goto
<1>2. Roots' = Roots /\ Ssds' = Ssds /\ \A n : Path(n)' = Path(n)
  BY <1>1 DEF Roots, Ssds, Path
<1>3. i \in Nat /\ Ssds \subseteq Nat
  BY <1>1, Surveyed DEF Late
<1>4. \/ /\ i' \in Ssds /\ i < i' /\ todo' = work /\ pc' = l
         /\ \A m \in Ssds : m > i => i' <= m
      \/ i' = 0 /\ todo' = {} /\ pc' = after /\ \A m \in Ssds : m <= i
  BY <1>1, <1>3 DEF NextSsd, Goto
<1> QED
  BY <1>1, <1>2, <1>4

LEMMA TypeNext ==
  ASSUME Base, NEW l \in {"account", "scan"}, NEW work, NEW after \in {"scan", "done"},
         NextSsd(l, work, after), l = "account" => work = {<<r>> : r \in Roots},
         l = "scan" => after = "done"
  PROVE  RecordType'
<1>1. after \in Late /\ pc = l /\ pc' \in {l, after}
  BY Following DEF Late, Base
<1>2. /\ UNCHANGED records /\ Roots' = Roots /\ Ssds' = Ssds /\ \A n : Path(n)' = Path(n)
      /\ i' # 0 \/ todo' = {}
      /\ pc' = "account" => /\ l = "account"
                            /\ todo' = {} \/ todo' = {<<r>> : r \in Roots}
  <2>1. /\ UNCHANGED records /\ Roots' = Roots /\ Ssds' = Ssds /\ \A n : Path(n)' = Path(n)
        /\ \/ i' \in Ssds /\ i < i' /\ todo' = work /\ pc' = l
           \/ i' = 0 /\ todo' = {} /\ pc' = after
    BY <1>1, Following DEF Base
  <2>2. 0 \notin Ssds
    BY <1>1, Surveyed DEF Base, Late
  <2> QED
    BY <2>1, <2>2
<1>3. \A n \in Ssds : Measurable(n) => Measurable(n)'
  BY <1>1, Following, Surveyed DEF Measurable, Base, Late
<1>4. ASSUME pc' = "account", NEW t \in todo' PROVE \E s \in Roots : t = <<s>>
  BY <1>2, <1>4
<1>5. \A x \in records :
        /\ x = [branch |-> x.branch, path |-> x.path,
                present |-> x.present, files |-> x.files]
        /\ x.present \in BOOLEAN
        /\ x.path \in Roots
        /\ \E n \in Ssds : Measurable(n) /\ x.branch = Path(n)
  BY <1>1 DEF Base, RecordType, Late
<1> QED
  BY <1>1, <1>2, <1>3, <1>4, <1>5 DEF RecordType, Late

LEMMA TypeStep == Base /\ [Next]_vars => RecordType'
<1> SUFFICES ASSUME Base, [Next]_vars PROVE RecordType'
  OBVIOUS
<1>1. ASSUME UNCHANGED <<call, found, i, todo, records, pc>> PROVE RecordType'
  BY <1>1 DEF Base, RecordType, RecordOf, Roots, Ssds, Measurable, Path
<1>2. ASSUME UNCHANGED <<call, found, i, records>>, pc' = "failed" PROVE RecordType'
  BY <1>2 DEF Base, RecordType, Late
<1>3. ASSUME UNCHANGED <<todo, records>>, pc \notin Late \cup {"failed"},
             pc' \notin Late \/ i' = 0
      PROVE  RecordType'
  BY <1>3 DEF Base, RecordType, Late
<1>4. CASE World \/ UNCHANGED vars
  BY <1>1, <1>4 DEF World, vars, reading
<1>5. CASE Load \/ ReadFstab \/ RuntimePool \/ Discover
  <2>1. /\ UNCHANGED <<todo, records>> /\ pc \notin Late \cup {"failed"}
        /\ pc' \notin Late \/ i' = 0
    BY <1>5 DEF Load, ReadFstab, RuntimePool, RequireMount, CheckFsType, ReadList, ReadMinFree,
                Discover, RequirePool, RequireBranch, ReadCapacity, ReadKind, Enough, Pooled,
                Goto, Refuse, reading, Late
  <2> QED
    BY <1>3, <2>1
<1>6. CASE Account
  BY <1>6, TypeNext DEF Account
<1>7. CASE Scan
  BY <1>7, TypeNext DEF Scan
<1>8. ASSUME NEW r \in call.excluded, NEW p \in Paths \cup {r}, Measure(r, p) PROVE RecordType'
  BY <1>8, TypeMeasure
<1>11. ASSUME NEW r \in call.excluded, LookAt(r) PROVE RecordType'
  <2>1. CASE pc' # "failed"
    BY <1>11, <2>1, TypeLook
  <2>2. CASE pc' = "failed"
    BY <1>2, <1>11, <2>2 DEF LookAt, Goto, Refuse, reading
  <2> QED
    BY <2>1, <2>2
<1>9. ASSUME NEW r \in call.excluded, NEW p \in Paths \cup {r}, MeasureVanished(r, p)
      PROVE  RecordType'
  BY <1>2, <1>9 DEF MeasureVanished, Goto, Refuse, reading
<1>10. ASSUME NEW d \in todo, Visit(d) PROVE RecordType'
  <2>1. pc = "scan" /\ i # 0
    BY <1>10 DEF Visit, Base, RecordType, Late
  <2>2. UNCHANGED <<call, found, i, records>> /\ pc' \in {"scan", "failed"}
    BY <1>10 DEF Visit, Goto, Refuse, reading
  <2>3. Roots' = Roots /\ Ssds' = Ssds /\ \A n : Path(n)' = Path(n)
    BY <2>2 DEF Roots, Ssds, Path
  <2> QED
    BY <1>2, <2>1, <2>2, <2>3 DEF Base, RecordType, Late, Measurable
<1> QED
  BY <1>4, <1>5, <1>6, <1>7, <1>8, <1>9, <1>10, <1>11 DEF Next, Accounting

LEMMA BaseStep == Base /\ [Next]_vars => Base'
  BY CallStep, TreeStep, PoolStep, FoundStep, TypeStep DEF Base

-----------------------------------------------------------------------------
(* An entry that stays was seen and so were the directories above it.      *)
LEMMA Seen ==
  ASSUME Base, pc \in Late, i \in Ssds,
         NEW p \in tree[Branch], Fixed(Branch, p), NEW d \in Known, Below(p, d), p # d
  PROVE  /\ p \in Paths /\ p \in Visible
         /\ d # <<>> => d \in Visible /\ Kind[d] = "dir"
         /\ Step(p, d) \in Children(d) /\ Step(p, d) \in Paths /\ Below(p, Step(p, d))
         /\ Step(p, d) # p => Kind[Step(p, d)] = "dir"
         /\ Len(d) < Len(p) /\ Last(Step(p, d)) = p[Len(d) + 1]
<1>1. p \in Paths /\ p \in Visible /\ Visible = tree[Branch]
  <2>1. Branch \in Branches /\ p \in Paths /\ p \in Visible
    BY Seeing DEF Base
  <2> QED
    BY <2>1 DEF Visible
<1>2. p \in Seq(Names) /\ d \in Seq(Names)
  BY <1>1, Knowledge
<1>3. \A e \in Parents(p) : e \in tree[Branch] /\ Kind[e] = "dir"
  BY Seeing DEF Base, TreeInv
<1>4. /\ Len(d) < Len(p)
      /\ Step(p, d) \in Seq(Names) /\ Len(Step(p, d)) = Len(d) + 1
      /\ Last(Step(p, d)) = p[Len(d) + 1]
      /\ Below(Step(p, d), d) /\ Below(p, Step(p, d))
      /\ Step(p, d) = p \/ Step(p, d) \in Parents(p)
      /\ d # <<>> => d \in Parents(p)
  BY <1>2, Stepping
<1>5. Step(p, d) \in tree[Branch] /\ Step(p, d) \in Paths
  BY <1>1, <1>3, <1>4, Seeing DEF Base
<1> QED
  BY <1>1, <1>3, <1>4, <1>5 DEF Children

(* The invariant of the records, in terms of what they are after a step    *)
(* of the accounting.                                                      *)
Sound(x) ==
    /\ \A q \in x.files :
          /\ q \in Paths /\ Kind[q] = "file" /\ Below(q, x.path)
          /\ Fixed(x.branch, q) => q \in tree[x.branch]
    /\ x.path \in Paths /\ Fixed(x.branch, x.path) => (x.present <=> x.path \in tree[x.branch])

LEMMA RecordAgain ==
  ASSUME pc = "account", pc' = "account", UNCHANGED <<world, history, call, pool, found, i>>
  PROVE  /\ RecordOnce' <=>
               \A n \in Ssds, s \in Roots : Measurable(n) =>
                   IF Measuring(n) /\ <<s>> \in todo'
                   THEN RecordAfter(Path(n), s) = {}
                   ELSE \E x \in records' : RecordAfter(Path(n), s) = {x}
         /\ RecordSound' <=> \A x \in records' : Sound(x)
         /\ RecordComplete' <=>
               \A n \in Ssds, s \in Roots : Measurable(n) =>
                   \A q \in tree[Path(n)] : Fixed(Path(n), q) /\ Kind[q] = "file" /\ Below(q, s) =>
                       \/ Measuring(n) /\ Pending(s, q)'
                       \/ \E x \in RecordAfter(Path(n), s) : q \in x.files
<1>1. /\ Roots' = Roots /\ Ssds' = Ssds
      /\ \A n : /\ Path(n)' = Path(n) /\ (Measurable(n)' <=> Measurable(n))
                /\ (Measuring(n)' <=> Measuring(n))
      /\ \A b, q : Fixed(b, q)' <=> Fixed(b, q)
      /\ tree' = tree
      /\ \A b, r : RecordOf(b, r)' = RecordAfter(b, r)
      /\ pc' \in Late
  BY DEF Roots, Ssds, Path, Measurable, Measuring, Fixed, world, history, RecordOf, RecordAfter,
         Late
<1>2. RecordOnce' <=>
         \A n \in Ssds, s \in Roots : Measurable(n) =>
             IF Measuring(n) /\ <<s>> \in todo'
             THEN RecordAfter(Path(n), s) = {}
             ELSE \E x \in records' : RecordAfter(Path(n), s) = {x}
  BY <1>1 DEF RecordOnce
<1>3. RecordSound' <=> \A x \in records' : Sound(x)
  BY <1>1 DEF RecordSound, Sound
<1>4. RecordComplete' <=>
         \A n \in Ssds, s \in Roots : Measurable(n) =>
             \A q \in tree[Path(n)] : Fixed(Path(n), q) /\ Kind[q] = "file" /\ Below(q, s) =>
                 \/ Measuring(n) /\ Pending(s, q)'
                 \/ \E x \in RecordAfter(Path(n), s) : q \in x.files
  BY <1>1 DEF RecordComplete
<1> QED
  BY <1>2, <1>3, <1>4

LEMMA RecordLook ==
  ASSUME Base, Distinct, RecordInv, NEW r \in call.excluded, LookAt(r), pc' # "failed"
  PROVE  RecordInv'
<1> DEFINE new == Record(r, r \in Visible, {})
<1>1. /\ r \in Roots /\ i \in Ssds /\ Branch = Path(i)
      /\ pc = "account" /\ pc' = "account" /\ <<r>> \in todo
      /\ UNCHANGED <<world, history, call, pool, found, i>>
      /\ records' = records \cup {new}
      /\ todo' = (todo \ {<<r>>}) \cup (IF r \in Visible THEN {<<r, r>>} ELSE {})
  BY Look
<1>2. /\ Measurable(i) /\ Measuring(i) /\ i \in Nat /\ r \in Known
      /\ \A n \in Ssds : Path(n) = Branch => n = i
      /\ Branch \in Branches /\ Visible \subseteq tree[Branch] /\ tree[Branch] \subseteq Paths
      /\ \A q \in Paths : Fixed(Branch, q) => (q \in Visible <=> q \in tree[Branch])
  BY <1>1, Surveyed, Seeing, Knowledge DEF Measurable, Measuring, Base, Late
<1>3. new.branch = Branch /\ new.path = r /\ new.files = {} /\ (new.present <=> r \in Visible)
  BY DEF Record
<1> HIDE DEF new
<1>4. RecordOf(Branch, r) = {}
  BY <1>1, <1>2 DEF RecordInv, RecordOnce, Late
<1>5. /\ RecordAfter(Branch, r) = {new} /\ new \in records'
      /\ \A b, s : b # Branch \/ s # r => RecordAfter(b, s) = RecordOf(b, s)
  BY <1>1, <1>3, <1>4 DEF RecordOf, RecordAfter
<1>6. RecordOnce'
  <2> SUFFICES ASSUME NEW n \in Ssds, NEW s \in Roots, Measurable(n)
               PROVE  IF Measuring(n) /\ <<s>> \in todo'
                      THEN RecordAfter(Path(n), s) = {}
                      ELSE \E x \in records' : RecordAfter(Path(n), s) = {x}
    BY <1>1, RecordAgain
  <2>1. CASE n = i /\ s = r
    <3>1. <<r>> \notin todo'
      BY <1>1
    <3> QED
      BY <1>1, <1>5, <2>1, <3>1
  <2>2. CASE ~(n = i /\ s = r)
    <3>1. RecordAfter(Path(n), s) = RecordOf(Path(n), s)
      BY <1>1, <1>2, <1>5, <2>2
    <3>2. Measuring(n) => (<<s>> \in todo' <=> <<s>> \in todo)
      BY <1>1, <2>2 DEF Measuring
    <3>3. IF Measuring(n) /\ <<s>> \in todo
          THEN RecordOf(Path(n), s) = {}
          ELSE \E x \in records : RecordOf(Path(n), s) = {x}
      BY <1>1 DEF RecordInv, RecordOnce, Late
    <3> QED
      BY <1>1, <3>1, <3>2, <3>3
  <2> QED
    BY <2>1, <2>2
<1>7. RecordSound'
  <2>1. \A x \in records : Sound(x)
    BY <1>1 DEF RecordInv, RecordSound, Late, Sound
  <2>2. Sound(new)
    BY <1>2, <1>3 DEF Sound
  <2> QED
    BY <1>1, <2>1, <2>2, RecordAgain
<1>8. RecordComplete'
  <2> SUFFICES ASSUME NEW n \in Ssds, NEW s \in Roots, Measurable(n), NEW q \in tree[Path(n)],
                      Fixed(Path(n), q), Kind[q] = "file", Below(q, s)
               PROVE  \/ Measuring(n) /\ Pending(s, q)'
                      \/ \E x \in RecordAfter(Path(n), s) : q \in x.files
    BY <1>1, RecordAgain
  <2>1. \/ Measuring(n) /\ Pending(s, q)
        \/ \E x \in RecordOf(Path(n), s) : q \in x.files
    BY <1>1 DEF RecordInv, RecordComplete, Late
  <2>2. CASE \E x \in RecordOf(Path(n), s) : q \in x.files
    BY <1>4, <1>5, <2>2
  <2>3. CASE Measuring(n) /\ <<s>> \in todo /\ s = r
    <3>1. n = i /\ Path(n) = Branch
      BY <1>1, <2>3 DEF Measuring
    <3>2. r \in Visible
      <4>1. CASE q = r
        BY <1>2, <3>1, <4>1
      <4>2. CASE q # r
        <5>1. r # <<>>
          BY <1>1 DEF Base, CallInv, Valid, Roots
        <5> QED
          BY <1>1, <1>2, <2>3, <3>1, <4>2, <5>1, Seen DEF Late
      <4> QED
        BY <4>1, <4>2
    <3>3. <<r, r>> \in todo'
      BY <1>1, <3>2
    <3> QED
      BY <1>2, <2>3, <3>3 DEF Pending
  <2>4. CASE Measuring(n) /\ <<s>> \in todo /\ s # r
    <3>1. <<s>> \in todo'
      BY <1>1, <2>4
    <3> QED
      BY <2>4, <3>1 DEF Pending
  <2>5. ASSUME Measuring(n), NEW t \in Known, <<s, t>> \in todo, Below(q, t)
        PROVE  Pending(s, q)'
    <3>1. <<s, t>> \in todo'
      BY <1>1, <2>5
    <3> QED
      BY <2>5, <3>1 DEF Pending
  <2> QED
    BY <2>1, <2>2, <2>3, <2>4, <2>5 DEF Pending
<1> QED
  BY <1>6, <1>7, <1>8 DEF RecordInv

LEMMA RecordMeasure ==
  ASSUME Base, Distinct, RecordInv,
         NEW r \in call.excluded, NEW p \in Paths \cup {r}, Measure(r, p)
  PROVE  RecordInv'
<1>1. /\ r \in Roots /\ p \in Known /\ Below(p, r) /\ i \in Ssds /\ pc = "account"
      /\ <<r, p>> \in todo /\ <<r>> \notin todo /\ r \in Known /\ Branch = Path(i)
  BY Update, Knowledge DEF Base
<1>2. PICK x, y : Updated(r, p, x, y)
  BY Update
<1>3. pc' = "account" /\ UNCHANGED <<world, history, call, pool, found, i>>
  BY DEF Measure, Goto
<1>4. /\ Measurable(i) /\ Measuring(i) /\ i \in Nat
      /\ \A n \in Ssds : Path(n) = Branch => n = i
      /\ Branch \in Branches /\ Visible \subseteq tree[Branch] /\ tree[Branch] \subseteq Paths
      /\ \A q \in Paths : Fixed(Branch, q) => (q \in Visible <=> q \in tree[Branch])
  BY <1>1, Surveyed, Seeing DEF Measurable, Measuring, Base, Late
<1>5. /\ todo' \subseteq (todo \ {<<r, p>>}) \cup ({r} \X Children(p))
      /\ todo \ {<<r, p>>} \subseteq todo'
      /\ p \in Visible /\ Kind[p] = "dir" => {r} \X Children(p) \subseteq todo'
  BY DEF Measure
<1>6. \A s : <<s>> \in todo' <=> <<s>> \in todo
  <2>1. \A s : <<s>> # <<r, p>> /\ <<s>> \notin {r} \X Children(p)
    OBVIOUS
  <2> QED
    BY <1>5, <2>1
<1>7. r # <<>> /\ p # <<>>
  <2>1. r # <<>>
    BY <1>1 DEF Base, CallInv, Valid, Roots
  <2>2. r \in Seq(Names) /\ p \in Seq(Names)
    BY <1>1, Knowledge
  <2> QED
    BY <1>1, <2>1, <2>2, BelowIs
<1>8. RecordOf(Branch, r) = {x}
  <2>1. PICK z : RecordOf(Branch, r) = {z}
    BY <1>1, <1>4 DEF RecordInv, RecordOnce, Late
  <2> QED
    BY <1>2, <2>1 DEF Updated
<1>9. /\ y.branch = Branch /\ y.path = r /\ y.present = x.present
      /\ y.files = x.files \cup (IF p \in Visible /\ Kind[p] = "file" THEN {p} ELSE {})
      /\ x.branch = Branch /\ x.path = r /\ x \in records
      /\ records' = (records \ {x}) \cup {y}
  BY <1>2 DEF Updated, RecordOf
<1>10. /\ RecordAfter(Branch, r) = {y} /\ y \in records'
       /\ \A b, s : b # Branch \/ s # r => RecordAfter(b, s) = RecordOf(b, s)
  BY <1>8, <1>9 DEF RecordOf, RecordAfter
<1>11. RecordOnce'
  <2> SUFFICES ASSUME NEW n \in Ssds, NEW s \in Roots, Measurable(n)
               PROVE  IF Measuring(n) /\ <<s>> \in todo'
                      THEN RecordAfter(Path(n), s) = {}
                      ELSE \E z \in records' : RecordAfter(Path(n), s) = {z}
    BY <1>1, <1>3, RecordAgain
  <2>1. CASE n = i /\ s = r
    BY <1>1, <1>6, <1>10, <2>1
  <2>2. CASE ~(n = i /\ s = r)
    <3>1. RecordAfter(Path(n), s) = RecordOf(Path(n), s)
      BY <1>1, <1>4, <1>10, <2>2
    <3>2. IF Measuring(n) /\ <<s>> \in todo
          THEN RecordOf(Path(n), s) = {}
          ELSE \E z \in records : RecordOf(Path(n), s) = {z}
      BY <1>1 DEF RecordInv, RecordOnce, Late
    <3>3. \A z : z \in RecordAfter(Path(n), s) => z \in records'
      BY DEF RecordAfter
    <3> QED
      BY <1>6, <3>1, <3>2, <3>3
  <2> QED
    BY <2>1, <2>2
<1>12. RecordSound'
  <2>1. \A z \in records : Sound(z)
    BY <1>1 DEF RecordInv, RecordSound, Late, Sound
  <2>2. Sound(x)
    BY <1>9, <2>1
  <2>3. p \in Visible => p \in Paths /\ p \in tree[Branch]
    BY <1>4
  <2>4. Sound(y)
    BY <1>1, <1>9, <2>2, <2>3 DEF Sound
  <2> QED
    BY <1>1, <1>3, <1>9, <2>1, <2>4, RecordAgain
<1>13. RecordComplete'
  <2> SUFFICES ASSUME NEW n \in Ssds, NEW s \in Roots, Measurable(n), NEW q \in tree[Path(n)],
                      Fixed(Path(n), q), Kind[q] = "file", Below(q, s)
               PROVE  \/ Measuring(n) /\ Pending(s, q)'
                      \/ \E z \in RecordAfter(Path(n), s) : q \in z.files
    BY <1>1, <1>3, RecordAgain
  <2>1. \/ Measuring(n) /\ Pending(s, q)
        \/ \E z \in RecordOf(Path(n), s) : q \in z.files
    BY <1>1 DEF RecordInv, RecordComplete, Late
  <2>2. CASE \E z \in RecordOf(Path(n), s) : q \in z.files
    <3>1. CASE Path(n) = Branch /\ s = r
      BY <1>8, <1>9, <1>10, <2>2, <3>1
    <3>2. CASE ~(Path(n) = Branch /\ s = r)
      BY <1>10, <2>2, <3>2
    <3> QED
      BY <3>1, <3>2
  <2>3. CASE Measuring(n) /\ <<s>> \in todo
    BY <1>6, <2>3 DEF Pending
  <2>4. ASSUME Measuring(n), NEW t \in Known, <<s, t>> \in todo, Below(q, t)
        PROVE  \/ Pending(s, q)'
               \/ \E z \in RecordAfter(Path(n), s) : q \in z.files
    <3>1. CASE <<s, t>> # <<r, p>>
      BY <1>5, <2>4, <3>1 DEF Pending
    <3>2. CASE <<s, t>> = <<r, p>>
      <4>1. n = i /\ s = r /\ t = p /\ Path(n) = Branch
        BY <1>1, <2>4, <3>2 DEF Measuring
      <4>2. CASE q = p
        <5>1. p \in Visible
          BY <1>4, <4>1, <4>2
        <5> QED
          BY <1>9, <1>10, <4>1, <4>2, <5>1
      <4>3. CASE q # p
        <5>1. /\ p \in Visible /\ Kind[p] = "dir"
              /\ Step(q, p) \in Children(p) /\ Step(q, p) \in Known /\ Below(q, Step(q, p))
          BY <1>1, <1>7, <2>4, <4>1, <4>3, Seen, Knowledge DEF Late
        <5>2. <<r, Step(q, p)>> \in todo'
          BY <1>5, <5>1
        <5> QED
          BY <4>1, <5>1, <5>2 DEF Pending
      <4> QED
        BY <4>2, <4>3
    <3> QED
      BY <3>1, <3>2
  <2> QED
    BY <2>1, <2>2, <2>3, <2>4 DEF Pending
<1> QED
  BY <1>11, <1>12, <1>13 DEF RecordInv

LEMMA RecordWorld == Base /\ RecordInv /\ World => RecordInv'
<1> SUFFICES ASSUME Base, RecordInv, World PROVE RecordInv'
  OBVIOUS
<1>1. UNCHANGED <<pc, call, found, i, todo, records>>
  BY DEF World, reading
<1>2. /\ Roots' = Roots /\ Ssds' = Ssds
      /\ \A n : /\ Path(n)' = Path(n) /\ (Measurable(n)' <=> Measurable(n))
                /\ (Measuring(n)' <=> Measuring(n))
      /\ \A b, r : RecordAfter(b, r) = RecordOf(b, r)
  BY <1>1 DEF Roots, Ssds, Path, Measurable, Measuring, RecordOf, RecordAfter
<1>3. /\ TreeInv'
      /\ \A b, p : Fixed(b, p)' => Fixed(b, p)
      /\ \A b \in Branches, p \in Paths : Fixed(b, p)' => (p \in tree'[b] <=> p \in tree[b])
  BY WorldTree DEF Base, Fixed
<1>4. RecordOnce'
  BY <1>1, <1>2 DEF RecordInv, RecordOnce, RecordOf, RecordAfter
<1>5. CASE pc \notin Late
  BY <1>1, <1>4, <1>5 DEF RecordInv, RecordSound, RecordComplete
<1>6. CASE pc \in Late
  <2>1. /\ \A n \in Ssds : Path(n) \in Branches
        /\ \A x \in records : x.branch \in Branches
    BY <1>6, Surveyed DEF Base, RecordType
  <2>2. RecordSound'
    <3> SUFFICES ASSUME NEW x \in records
                 PROVE  /\ \A p \in x.files :
                              /\ p \in Paths /\ Kind[p] = "file" /\ Below(p, x.path)
                              /\ Fixed(x.branch, p)' => p \in tree'[x.branch]
                        /\ x.path \in Paths /\ Fixed(x.branch, x.path)' =>
                              (x.present <=> x.path \in tree'[x.branch])
      BY <1>1 DEF RecordSound, Fixed
    <3>1. /\ \A p \in x.files :
                /\ p \in Paths /\ Kind[p] = "file" /\ Below(p, x.path)
                /\ Fixed(x.branch, p) => p \in tree[x.branch]
          /\ x.path \in Paths /\ Fixed(x.branch, x.path) =>
                (x.present <=> x.path \in tree[x.branch])
      BY <1>6 DEF RecordInv, RecordSound
    <3> QED
      BY <1>3, <2>1, <3>1 DEF Fixed
  <2>3. RecordComplete'
    <3> SUFFICES ASSUME NEW n \in Ssds, NEW r \in Roots, Measurable(n), NEW p \in tree'[Path(n)],
                        <<Path(n), p>> \notin touched', Kind[p] = "file", Below(p, r)
                 PROVE  \/ Measuring(n) /\ Pending(r, p)
                        \/ \E x \in RecordOf(Path(n), r) : p \in x.files
      BY <1>1, <1>2 DEF RecordComplete, Fixed, RecordOf, RecordAfter, Pending
    <3>1. p \in tree[Path(n)] /\ Fixed(Path(n), p)
      <4>1. p \in Paths /\ Path(n) \in Branches
        BY <1>3, <2>1 DEF TreeInv
      <4> QED
        BY <1>3, <4>1 DEF Fixed
    <3> QED
      BY <1>6, <3>1 DEF RecordInv, RecordComplete
  <2> QED
    BY <1>4, <2>2, <2>3 DEF RecordInv
<1> QED
  BY <1>5, <1>6

(* On the next SSD each root is still to be looked at, on the earlier ones *)
(* nothing is left to do.                                                  *)
LEMMA RecordAccount == Base /\ Distinct /\ RecordInv /\ Account => RecordInv'
<1> SUFFICES ASSUME Base, Distinct, RecordInv, Account PROVE RecordInv'
  OBVIOUS
<1>1. /\ pc = "account" /\ todo = {}
      /\ UNCHANGED <<world, history, call, pool, found, records>>
      /\ Roots' = Roots /\ Ssds' = Ssds /\ \A n : Path(n)' = Path(n)
      /\ \/ i' \in Ssds /\ i < i' /\ todo' = {<<r>> : r \in Roots} /\ pc' = "account"
            /\ \A m \in Ssds : m > i => i' <= m
         \/ i' = 0 /\ todo' = {} /\ pc' = "scan" /\ \A m \in Ssds : m <= i
  BY Following DEF Account, Base, Late
<1>2. /\ tree' = tree /\ (\A b, p : Fixed(b, p)' <=> Fixed(b, p))
      /\ \A b, r : RecordAfter(b, r) = RecordOf(b, r)
  BY <1>1 DEF world, history, Fixed, RecordOf, RecordAfter
<1>3. Ssds \subseteq Nat /\ i \in Nat
  BY <1>1, Surveyed DEF Base, Late
<1>4. ASSUME NEW n \in Ssds, Measurable(n)'
      PROVE  IF pc' = "account" /\ n = i' THEN Measuring(n)' /\ ~Measurable(n)
             ELSE Measurable(n) /\ ~Measuring(n)'
  <2>1. n \in Nat /\ i' \in Nat
    BY <1>1, <1>3
  <2>2. CASE pc' = "account"
    <3>1. n <= i' /\ i < i' /\ (n > i => i' <= n)
      BY <1>1, <1>4, <2>2 DEF Measurable
    <3>2. n = i' \/ n <= i
      BY <1>3, <2>1, <3>1
    <3> QED
      BY <1>1, <1>3, <2>1, <2>2, <3>1, <3>2 DEF Measurable, Measuring
  <2>3. CASE pc' # "account"
    BY <1>1, <2>1, <2>3 DEF Measurable, Measuring
  <2> QED
    BY <2>2, <2>3
<1>5. ASSUME NEW n \in Ssds, NEW r \in Roots, ~Measurable(n) PROVE RecordOf(Path(n), r) = {}
  <2>1. ASSUME NEW x \in records, x.branch = Path(n) PROVE FALSE
    <3>1. PICK m \in Ssds : Measurable(m) /\ Path(m) = Path(n)
      BY <1>1, <2>1 DEF Base, RecordType, Late
    <3>2. m = n
      BY <1>1, <3>1, Surveyed DEF Base, Late
    <3> QED
      BY <1>5, <3>1, <3>2
  <2> QED
    BY <2>1 DEF RecordOf
<1>6. RecordOnce'
  <2> SUFFICES ASSUME NEW n \in Ssds, NEW r \in Roots, Measurable(n)'
               PROVE  IF Measuring(n)' /\ <<r>> \in todo'
                      THEN RecordOf(Path(n), r) = {}
                      ELSE \E x \in records : RecordOf(Path(n), r) = {x}
    BY <1>1, <1>2 DEF RecordOnce, RecordOf, RecordAfter
  <2>1. CASE pc' = "account" /\ n = i'
    <3>1. <<r>> \in todo'
      BY <1>1, <2>1
    <3> QED
      BY <1>4, <1>5, <2>1, <3>1
  <2>2. CASE ~(pc' = "account" /\ n = i')
    BY <1>1, <1>4, <2>2 DEF RecordInv, RecordOnce, Late
  <2> QED
    BY <2>1, <2>2
<1>7. RecordSound'
  BY <1>1, <1>2 DEF RecordInv, RecordSound, Late
<1>8. RecordComplete'
  <2> SUFFICES ASSUME NEW n \in Ssds, NEW r \in Roots, Measurable(n)', NEW p \in tree[Path(n)],
                      Fixed(Path(n), p), Kind[p] = "file", Below(p, r)
               PROVE  \/ Measuring(n)' /\ Pending(r, p)'
                      \/ \E x \in RecordOf(Path(n), r) : p \in x.files
    BY <1>1, <1>2 DEF RecordComplete, RecordOf, RecordAfter
  <2>1. CASE pc' = "account" /\ n = i'
    <3>1. <<r>> \in todo'
      BY <1>1, <2>1
    <3> QED
      BY <1>4, <2>1, <3>1 DEF Pending
  <2>2. CASE ~(pc' = "account" /\ n = i')
    BY <1>1, <1>4, <2>2 DEF RecordInv, RecordComplete, Late, Pending
  <2> QED
    BY <2>1, <2>2
<1> QED
  BY <1>6, <1>7, <1>8 DEF RecordInv

LEMMA RecordEnough == Base /\ Enough => RecordInv'
<1> SUFFICES ASSUME Base, Enough PROVE RecordInv'
  OBVIOUS
<1>1. CASE pc' = "failed"
  BY <1>1 DEF RecordInv, RecordOnce, RecordSound, RecordComplete, Late
<1>2. CASE pc' # "failed"
  <2>1. /\ pc = "branch" /\ UNCHANGED <<call, found, records, pool>> /\ i' = 0
        /\ pc' = IF call.excluded = {} THEN "scan" ELSE "account"
    BY <1>2 DEF Enough, Goto, Refuse
  <2>2. records' = {} /\ Roots' = Roots /\ Ssds' = Ssds
    BY <2>1 DEF Base, RecordType, Roots, Ssds, Late
  <2>3. Ssds \subseteq Nat \ {0}
    BY Sequences DEF Base, Ssds
  <2>4. \A n \in Ssds, r \in Roots : ~Measurable(n)'
    BY <2>1, <2>3 DEF Measurable, Roots
  <2> QED
    BY <2>2, <2>4 DEF RecordInv, RecordOnce, RecordSound, RecordComplete
<1> QED
  BY <1>1, <1>2

LEMMA RecordStep ==
  Base /\ (Distinct => RecordInv) /\ [Next]_vars => (Distinct' => RecordInv')
<1> SUFFICES ASSUME Base, Distinct => RecordInv, [Next]_vars, Distinct' PROVE RecordInv'
  OBVIOUS
<1>1. CASE pc' \notin Late
  BY <1>1 DEF RecordInv, RecordOnce, RecordSound, RecordComplete
<1>2. CASE Enough
  BY <1>2, RecordEnough
<1>3. ASSUME UNCHANGED <<world, history, call, found, pool, records>>,
             pc \in {"scan", "done"}, pc' \in {"scan", "done"}
      PROVE  RecordInv'
  <2>1. /\ RecordInv
        /\ Roots' = Roots /\ Ssds' = Ssds /\ tree' = tree
        /\ \A n : /\ Path(n)' = Path(n) /\ Measurable(n)' /\ ~Measuring(n)'
                  /\ Measurable(n) /\ ~Measuring(n)
        /\ \A b, p : Fixed(b, p)' <=> Fixed(b, p)
        /\ \A b, r : RecordAfter(b, r) = RecordOf(b, r)
    BY <1>3 DEF Distinct, Roots, Ssds, Path, Measurable, Measuring, Fixed, world, history,
                RecordOf, RecordAfter
  <2> QED
    BY <1>3, <2>1 DEF RecordInv, RecordOnce, RecordSound, RecordComplete, Late,
                      RecordOf, RecordAfter
<1>4. CASE World
  BY <1>4, RecordWorld DEF World, reading, Distinct
<1>5. CASE Account
  BY <1>5, RecordAccount DEF Account, NextSsd, Distinct
<1>6. CASE Scan
  <2>1. UNCHANGED <<world, history, call, found, pool, records>> /\ pc = "scan"
        /\ pc' \in {"scan", "done"}
    BY <1>6, Following DEF Scan, Base, Late
  <2> QED
    BY <1>3, <2>1
<1>7. ASSUME NEW r \in call.excluded, NEW p \in Paths \cup {r}, Measure(r, p) PROVE RecordInv'
  BY <1>7, RecordMeasure DEF Measure, Distinct
<1>8. ASSUME NEW d \in todo, Visit(d) PROVE RecordInv'
  <2>1. /\ UNCHANGED <<world, history, call, found, pool, records>>
        /\ pc = "scan" /\ pc' \in {"scan", "failed"}
    BY <1>8 DEF Visit, Goto, Refuse, reading
  <2> QED
    BY <1>1, <1>3, <2>1 DEF Late
<1>9. CASE UNCHANGED vars
  <2>1. UNCHANGED <<pc, call, found, i, todo, records, tree, touched, pool>>
    BY <1>9 DEF vars, world, history, reading
  <2> QED
    BY <2>1 DEF RecordInv, RecordOnce, RecordSound, RecordComplete, RecordOf, Roots, Ssds,
                Path, Measurable, Measuring, Fixed, Distinct, Pending
<1>10. CASE Load \/ ReadFstab \/ RuntimePool \/ RequirePool \/ RequireBranch \/ ReadCapacity
            \/ ReadKind
  <2>1. pc' \notin Late
    BY <1>10 DEF Load, ReadFstab, RuntimePool, RequireMount, CheckFsType, ReadList, ReadMinFree,
                 RequirePool, RequireBranch, ReadCapacity, ReadKind, Pooled, Goto, Refuse, Late
  <2> QED
    BY <1>1, <2>1
<1>11. ASSUME NEW r \in call.excluded, NEW p \in Paths \cup {r}, MeasureVanished(r, p)
       PROVE  RecordInv'
  BY <1>1, <1>11 DEF MeasureVanished, Refuse, Goto, Late
<1>12. ASSUME NEW r \in call.excluded, LookAt(r) PROVE RecordInv'
  <2>1. CASE pc' = "failed"
    BY <1>1, <2>1 DEF Late
  <2>2. CASE pc' # "failed"
    <3>1. Distinct
      BY <1>12, <2>2, Look DEF Distinct
    <3> QED
      BY <1>12, <2>2, <3>1, RecordLook
  <2> QED
    BY <2>1, <2>2
<1> QED
  BY <1>2, <1>4, <1>5, <1>6, <1>7, <1>8, <1>9, <1>10, <1>11, <1>12 DEF Next, Discover, Accounting

-----------------------------------------------------------------------------
LEMMA CandidateWorld == Base /\ CandidateInv /\ World => CandidateInv'
<1> SUFFICES ASSUME Base, CandidateInv, World PROVE CandidateInv'
  OBVIOUS
<1>1. UNCHANGED <<pc, call, found, i, todo, candidates>>
  BY DEF World, reading
<1>2. /\ Ssds' = Ssds
      /\ \A n : Path(n)' = Path(n)
      /\ \A p : /\ (Wanted(p)' <=> Wanted(p)) /\ (Partial(p)' <=> Partial(p))
                /\ (InScope(p)' <=> InScope(p))
      /\ Aliased' <=> Aliased
  BY <1>1 DEF Ssds, Path, Wanted, Excluded, InScope, Partial, Aliased
<1>3. /\ TreeInv'
      /\ \A b, p : Fixed(b, p)' => Fixed(b, p)
      /\ \A b \in Branches, p \in Paths : Fixed(b, p)' => (p \in tree'[b] <=> p \in tree[b])
  BY WorldTree DEF Base, Fixed
<1>4. CandidateType'
  BY <1>1, <1>2 DEF CandidateInv, CandidateType
<1>5. CASE pc \notin {"scan", "done"}
  BY <1>1, <1>4, <1>5 DEF CandidateInv, CandidateSound, CandidateComplete
<1>6. CASE pc \in {"scan", "done"}
  <2>1. \A n \in Ssds : Path(n) \in Branches
    BY <1>6, Surveyed DEF Base, Late
  <2>2. CandidateSound'
    <3>1. ASSUME NEW n \in Ssds, NEW p, Justified(n, p) PROVE Justified(n, p)'
      BY <1>2, <1>3, <2>1, <3>1 DEF Justified, Fixed
    <3>2. ASSUME NEW c \in candidates
          PROVE  \E n \in Ssds, p \in Seq(Names) : c = <<Path(n), p>> /\ Justified(n, p)
      BY <1>6 DEF CandidateInv, CandidateSound
    <3> QED
      BY <1>1, <1>2, <3>1, <3>2 DEF CandidateSound
  <2>3. CandidateComplete'
    <3> SUFFICES ASSUME NEW n \in Ssds, pc = "scan" => n <= i, NEW p \in tree'[Path(n)],
                        <<Path(n), p>> \notin touched', Wanted(p)
                 PROVE  \/ pc = "scan" /\ n = i /\ \E d \in todo : Below(p, d) /\ p # d
                        \/ <<Path(n), p>> \in candidates
      BY <1>1, <1>2 DEF CandidateComplete, Fixed
    <3>1. p \in tree[Path(n)] /\ Fixed(Path(n), p)
      <4>1. p \in Paths /\ Path(n) \in Branches
        BY <1>3, <2>1 DEF TreeInv
      <4> QED
        BY <1>3, <4>1 DEF Fixed
    <3> QED
      BY <1>6, <3>1 DEF CandidateInv, CandidateComplete
  <2> QED
    BY <1>4, <2>2, <2>3 DEF CandidateInv
<1> QED
  BY <1>5, <1>6

LEMMA CandidateScan == Base /\ CandidateInv /\ Scan => CandidateInv'
<1> SUFFICES ASSUME Base, CandidateInv, Scan PROVE CandidateInv'
  OBVIOUS
<1>1. /\ pc = "scan" /\ todo = {}
      /\ UNCHANGED <<world, history, call, found, candidates>>
      /\ Ssds' = Ssds /\ \A n : Path(n)' = Path(n)
      /\ \/ i' \in Ssds /\ i < i' /\ todo' = {call.scope} /\ pc' = "scan"
            /\ \A m \in Ssds : m > i => i' <= m
         \/ i' = 0 /\ todo' = {} /\ pc' = "done" /\ \A m \in Ssds : m <= i
  BY Following DEF Scan, Base, Late
<1>2. /\ tree' = tree /\ (\A b, p : Fixed(b, p)' <=> Fixed(b, p))
      /\ \A p : /\ (Wanted(p)' <=> Wanted(p)) /\ (Partial(p)' <=> Partial(p))
                /\ (InScope(p)' <=> InScope(p))
      /\ Aliased' <=> Aliased
  BY <1>1 DEF world, history, Fixed, Wanted, Excluded, InScope, Partial, Aliased
<1>3. Ssds \subseteq Nat /\ i \in Nat /\ i' \in Nat
  <2>1. Ssds \subseteq Nat /\ i \in Nat
    BY <1>1, Surveyed DEF Base, Late
  <2>2. CASE i' \in Ssds
    BY <2>1, <2>2
  <2>3. CASE i' = 0
    BY <2>1, <2>3
  <2> QED
    BY <1>1, <2>2, <2>3
<1>4. call.scope \in Known /\ call.scope \in Seq(Names) /\ Below(call.scope, call.scope)
      /\ ~Partial(call.scope)
  <2>1. call.scope \in Known /\ call.scope \in Seq(Names)
    BY Knowledge DEF Base
  <2> QED
    BY <2>1, BelowOrder DEF Partial
<1>5. CandidateType'
  BY <1>1, <1>2, <1>4 DEF CandidateType
<1>6. CandidateSound'
  <2>1. \A n, p : Justified(n, p)' <=> Justified(n, p)
    BY <1>1, <1>2 DEF Justified
  <2> QED
    BY <1>1, <2>1 DEF CandidateInv, CandidateSound
<1>7. CandidateComplete'
  <2> SUFFICES ASSUME NEW n \in Ssds, pc' = "scan" => n <= i', NEW p \in tree[Path(n)],
                      Fixed(Path(n), p), Wanted(p)
               PROVE  \/ pc' = "scan" /\ n = i' /\ \E d \in todo' : Below(p, d) /\ p # d
                      \/ <<Path(n), p>> \in candidates
    BY <1>1, <1>2 DEF CandidateComplete
  <2>1. n \in Nat
    BY <1>3
  <2>2. CASE n <= i
    BY <1>1, <2>2 DEF CandidateInv, CandidateComplete
  <2>3. CASE n > i
    <3>1. pc' = "scan" /\ n = i' /\ todo' = {call.scope}
      BY <1>1, <1>3, <2>1, <2>3
    <3> QED
      BY <3>1 DEF Wanted, InScope
  <2> QED
    BY <1>3, <2>1, <2>2, <2>3
<1> QED
  BY <1>5, <1>6, <1>7 DEF CandidateInv

(* A directory is passed over, or what is listed in it is taken.           *)
Passed(d) ==
    /\ d = call.scope /\ (Excluded(d) \/ ~Walkable)
    /\ todo' = todo \ {d} /\ UNCHANGED candidates

Taken(d) ==
    /\ candidates' = candidates \cup ({Branch} \X Listed(d, "file"))
    /\ todo' = (todo \ {d}) \cup Listed(d, "dir")

LEMMA Visiting ==
  ASSUME NEW d, Visit(d)
  PROVE  /\ pc = "scan" /\ d \in todo
         /\ UNCHANGED <<world, history, call, pool, found, i, records>>
         /\ \/ pc' = "failed" /\ UNCHANGED candidates
            \/ pc' = "scan" /\ (Passed(d) \/ Taken(d))
<1>1. CASE d = call.scope /\ Outside
  BY <1>1 DEF Visit, Goto, Refuse, reading
<1>2. CASE d = call.scope /\ ~Outside /\ (Excluded(d) \/ ~Walkable)
  BY <1>2 DEF Visit, Goto, Passed
<1>3. CASE /\ ~(d = call.scope /\ Outside)
           /\ ~(d = call.scope /\ ~Outside /\ (Excluded(d) \/ ~Walkable))
  BY <1>3 DEF Visit, Goto, Taken
<1> QED
  BY <1>1, <1>2, <1>3

(* What is listed in a directory is below the scope by its name.           *)
LEMMA Naming ==
  ASSUME Base, pc = "scan", i \in Ssds, NEW d \in Seq(Names), Below(d, call.scope), ~Partial(d),
         NEW k, NEW p \in Listed(d, k)
  PROVE  p \in Seq(Names) /\ InScope(p) /\ Below(p, call.scope) /\ ~Partial(p)
<1>1. PICK q \in Children(Real(d)) : p = Append(d, Last(q)) /\ Last(p) \notin Partials
  BY DEF Listed
<1>2. q \in Paths /\ q \in Seq(Names) /\ q # <<>>
  <2>1. q \in Paths
    BY <1>1, Seeing DEF Base, Late, Children
  <2> QED
    BY <2>1, Knowledge, SurveyAssumption
<1>3. Last(q) \in Names
  BY <1>2 DEF Last
<1>4. /\ p \in Seq(Names) /\ Len(p) = Len(d) + 1 /\ Last(p) = p[Len(p)]
      /\ \A n \in 1..Len(d) : p[n] = d[n]
  BY <1>1, <1>3 DEF Last
<1>5. call.scope \in Seq(Names) /\ Len(call.scope) <= Len(d)
      /\ \A n \in 1..Len(call.scope) : call.scope[n] = d[n]
  BY Knowledge, BelowIs DEF Base
<1>6. Below(p, call.scope) /\ p # call.scope
  BY <1>4, <1>5, BelowIs
<1>7. ASSUME NEW n \in 1..Len(p), n > Len(call.scope) PROVE p[n] \notin Partials
  <2>1. CASE n = Len(p)
    BY <1>1, <1>4, <2>1
  <2>2. CASE n # Len(p)
    <3>1. n \in 1..Len(d) /\ p[n] = d[n]
      BY <1>4, <2>2
    <3> QED
      BY <1>7, <3>1 DEF Partial
  <2> QED
    BY <2>1, <2>2
<1> QED
  BY <1>4, <1>6, <1>7 DEF InScope, Partial

(* Where no link can be on the way, a name is that of the entry itself.    *)
LEMMA Direct ==
  ASSUME Base, pc = "scan", i \in Ssds, ~Aliased
  PROVE  /\ ~Outside /\ \A p : Real(p) = p
         /\ \A d \in Known : \A k : Listed(d, k) =
               {p \in Children(d) : Kind[p] = k /\ Last(p) \notin Partials /\ ~Excluded(p)}
<1>1. Detours = {}
  BY Seeing DEF Base, Late, Detours, Links, Aliased
<1>2. ~Outside /\ \A p : Real(p) = p
  BY <1>1 DEF Outside, Real
<1>3. ASSUME NEW d \in Known, NEW q \in Children(d) PROVE Append(d, Last(q)) = q
  <2>1. q \in Seq(Names) /\ d \in Seq(Names) /\ Len(q) = Len(d) + 1 /\ Below(q, d)
    BY Childhood, Knowledge DEF Base, Late
  <2>2. Last(q) = q[Len(d) + 1] /\ Last(q) \in Names
    BY <2>1 DEF Last
  <2>3. \A n \in 1..Len(d) : q[n] = d[n]
    BY <2>1, BelowIs
  <2> DEFINE z == Append(d, Last(q))
  <2>4. z \in Seq(Names) /\ Len(z) = Len(q) /\ \A n \in 1..Len(q) : z[n] = q[n]
    BY <2>1, <2>2, <2>3
  <2> QED
    BY <2>1, <2>4
<1>4. ASSUME NEW d \in Known, NEW k
      PROVE  Listed(d, k) =
               {p \in Children(d) : Kind[p] = k /\ Last(p) \notin Partials /\ ~Excluded(p)}
  <2>1. {Append(d, Last(q)) : q \in {q \in Children(Real(d)) : Kind[q] = k}} =
        {q \in Children(d) : Kind[q] = k}
    BY <1>2, <1>3
  <2> QED
    BY <2>1 DEF Listed
<1> QED
  BY <1>2, <1>4

(* Below a link no path is the name of an entry.                           *)
LEMMA NoneBelow ==
  ASSUME CallInv, Aliased, NEW p \in Paths
  PROVE  ~InScope(p)
<1> SUFFICES ASSUME InScope(p) PROVE FALSE
  OBVIOUS
<1>1. PICK n \in 1..Len(call.scope) : Link(call, n) \in Paths /\ Kind[Link(call, n)] = "link"
  BY DEF Aliased, Links
<1>2. p \in Seq(Names) /\ call.scope \in Seq(Names)
  BY Knowledge
<1>3. Len(call.scope) < Len(p) /\ \A m \in 1..Len(call.scope) : call.scope[m] = p[m]
  BY <1>2, Stepping, BelowIs DEF InScope
<1>4. SubSeq(p, 1, n) = SubSeq(call.scope, 1, n) /\ n \in 1..(Len(p) - 1)
  BY <1>2, <1>3
<1>5. Link(call, n) \in Parents(p)
  BY <1>4 DEF Parents, Link
<1> QED
  BY <1>1, <1>5, SurveyAssumption

LEMMA CandidateVisit == Base /\ CandidateInv /\ (\E d : Visit(d)) => CandidateInv'
<1> SUFFICES ASSUME Base, CandidateInv, NEW d, Visit(d) PROVE CandidateInv'
  OBVIOUS
<1>1. /\ pc = "scan" /\ d \in todo
      /\ UNCHANGED <<world, history, call, pool, found, i, records>>
  BY Visiting
<1>2. CASE pc' = "failed"
  BY <1>2 DEF CandidateInv, CandidateType, CandidateSound, CandidateComplete
<1>3. CASE pc' = "scan" /\ (Passed(d) \/ Taken(d))
  <2>1. i \in Ssds /\ Branch = Path(i) /\ Branch \in Branches
    BY <1>1, Surveyed DEF Base, RecordType, Late, Branch, Path
  <2>2. /\ d \in Seq(Names) /\ Below(d, call.scope) /\ ~Partial(d) /\ (~Aliased => d \in Known)
        /\ call.scope \in Known /\ call.scope \in Seq(Names)
    BY <1>1, Knowledge DEF CandidateInv, CandidateType, Base
  <2>3. /\ Ssds' = Ssds /\ (\A n : Path(n)' = Path(n)) /\ tree' = tree
        /\ \A b, p : Fixed(b, p)' <=> Fixed(b, p)
        /\ \A p : /\ (Wanted(p)' <=> Wanted(p)) /\ (Partial(p)' <=> Partial(p))
                  /\ (InScope(p)' <=> InScope(p))
        /\ Aliased' <=> Aliased
    BY <1>1 DEF Ssds, Path, world, history, Fixed, Wanted, Excluded, InScope, Partial, Aliased
  <2>4. ASSUME NEW k, NEW p \in Listed(d, k)
        PROVE  /\ p \in Seq(Names) /\ InScope(p) /\ Below(p, call.scope) /\ ~Partial(p)
               /\ ~Aliased => /\ p \in Paths /\ p \in tree[Branch]
                              /\ Kind[p] = k /\ ~Excluded(p)
    <3>1. p \in Seq(Names) /\ InScope(p) /\ Below(p, call.scope) /\ ~Partial(p)
      BY <1>1, <2>1, <2>2, Naming
    <3>2. ASSUME ~Aliased PROVE p \in Children(d) /\ Kind[p] = k /\ ~Excluded(p)
      BY <1>1, <2>1, <2>2, <3>2, Direct
    <3>3. ASSUME ~Aliased PROVE p \in Paths /\ p \in tree[Branch]
      BY <1>1, <2>1, <2>2, <3>2, <3>3, Childhood DEF Base, Late
    <3> QED
      BY <3>1, <3>2, <3>3
  <2>5. CandidateType'
    <3>1. \A e \in todo' : e \in todo \/ e \in Listed(d, "dir")
      BY <1>3 DEF Passed, Taken
    <3>2. \A e \in todo' : /\ e \in Seq(Names) /\ Below(e, call.scope) /\ ~Partial(e)
                           /\ ~Aliased => e \in Known
      BY <1>1, <2>4, <3>1, Knowledge DEF CandidateInv, CandidateType
    <3> QED
      BY <1>1, <1>3, <2>3, <3>2 DEF CandidateType
  <2>6. CandidateSound'
    <3>1. \A n, p : Justified(n, p)' <=> Justified(n, p)
      BY <2>3 DEF Justified
    <3> SUFFICES ASSUME NEW c \in candidates'
                 PROVE  \E n \in Ssds, p \in Seq(Names) : c = <<Path(n), p>> /\ Justified(n, p)
      BY <2>3, <3>1 DEF CandidateSound
    <3>2. CASE c \in candidates
      BY <1>1, <3>2 DEF CandidateInv, CandidateSound
    <3>3. CASE c \notin candidates
      <4>1. PICK p \in Listed(d, "file") : c = <<Branch, p>>
        BY <1>3, <3>3 DEF Passed, Taken
      <4>2. Justified(i, p) /\ p \in Seq(Names)
        BY <2>1, <2>4, <4>1 DEF Justified, Wanted
      <4> QED
        BY <2>1, <4>1, <4>2
    <3> QED
      BY <3>2, <3>3
  <2>7. CASE Aliased
    <3>1. \A n \in Ssds : \A p \in tree[Path(n)] : p \in Paths
      BY <1>1, Surveyed DEF Base, TreeInv, Late
    <3>2. \A n \in Ssds : \A p \in tree[Path(n)] : ~Wanted(p)
      BY <2>7, <3>1, NoneBelow DEF Wanted, Base
    <3>3. CandidateComplete'
      BY <2>3, <3>2 DEF CandidateComplete
    <3> QED
      BY <2>5, <2>6, <3>3 DEF CandidateInv
  <2>8. CASE ~Aliased
    <3>1. d \in Known
      BY <2>2, <2>8
    <3> SUFFICES CandidateComplete'
      BY <2>5, <2>6 DEF CandidateInv
    <3> SUFFICES ASSUME NEW n \in Ssds, n <= i, NEW p \in tree[Path(n)],
                        Fixed(Path(n), p), Wanted(p)
                 PROVE  \/ n = i /\ \E e \in todo' : Below(p, e) /\ p # e
                        \/ <<Path(n), p>> \in candidates'
      BY <1>1, <1>3, <2>3 DEF CandidateComplete
    <3>2. \/ n = i /\ \E e \in todo : Below(p, e) /\ p # e
          \/ <<Path(n), p>> \in candidates
      BY <1>1 DEF CandidateInv, CandidateComplete
    <3>3. candidates \subseteq candidates' /\ todo \ {d} \subseteq todo'
      BY <1>3 DEF Passed, Taken
    <3>4. ASSUME n = i, Below(p, d), p # d
          PROVE  \/ \E e \in todo' : Below(p, e) /\ p # e
                 \/ <<Path(n), p>> \in candidates'
      <4>1. /\ p \in Paths /\ p \in Visible
            /\ d # <<>> => d \in Visible /\ Kind[d] = "dir"
            /\ Step(p, d) \in Children(d) /\ Step(p, d) \in Paths /\ Below(p, Step(p, d))
            /\ Step(p, d) # p => Kind[Step(p, d)] = "dir"
            /\ Len(d) < Len(p) /\ Last(Step(p, d)) = p[Len(d) + 1]
        BY <1>1, <2>1, <3>1, <3>4, Seen DEF Late
      <4>2. p \in Seq(Names) /\ Step(p, d) \in Seq(Names)
        BY <4>1, Knowledge
      <4>3. ASSUME NEW q \in Seq(Names), Below(p, q) PROVE ~Excluded(q)
        <5>1. ASSUME NEW e \in call.excluded, Below(q, e) PROVE FALSE
          <6>1. e \in Seq(Names)
            BY Knowledge DEF Base
          <6>2. Below(p, e)
            BY <4>2, <4>3, <5>1, <6>1, BelowOrder
          <6> QED
            BY <6>2 DEF Wanted, Excluded
        <5> QED
          BY <5>1 DEF Excluded
      <4>4. CASE Passed(d)
        <5>1. Real(d) = d
          BY <1>1, <2>1, <2>8, Direct
        <5> QED
          BY <2>2, <3>4, <4>1, <4>3, <4>4, <5>1 DEF Passed, Walkable
      <4>5. CASE Taken(d)
        <5>1. ASSUME NEW k, Kind[Step(p, d)] = k PROVE Step(p, d) \in Listed(d, k)
          <6>1. Len(d) + 1 \in 1..Len(p) /\ Len(d) + 1 > Len(call.scope)
            BY <2>2, <4>1, <4>2, BelowIs
          <6>2. Last(Step(p, d)) \notin Partials
            BY <4>1, <6>1 DEF Wanted, Partial
          <6> QED
            BY <1>1, <2>1, <2>8, <3>1, <4>1, <4>2, <4>3, <5>1, <6>2, Direct
        <5>2. CASE Step(p, d) = p
          BY <2>1, <3>4, <4>5, <5>1, <5>2 DEF Taken, Wanted
        <5>3. CASE Step(p, d) # p
          BY <4>1, <4>5, <5>1, <5>3 DEF Taken
        <5> QED
          BY <5>2, <5>3
      <4> QED
        BY <1>3, <4>4, <4>5
    <3> QED
      BY <3>2, <3>3, <3>4
  <2> QED
    BY <2>7, <2>8
<1> QED
  BY <1>2, <1>3, Visiting

LEMMA CandidateStep == Base /\ CandidateInv /\ [Next]_vars => CandidateInv'
<1> SUFFICES ASSUME Base, CandidateInv, [Next]_vars PROVE CandidateInv'
  OBVIOUS
<1>1. ASSUME pc' \notin {"scan", "done"},
             (UNCHANGED candidates /\ pc \notin {"scan", "done", "failed"}) \/ pc' = "failed"
      PROVE  CandidateInv'
  BY <1>1 DEF CandidateInv, CandidateType, CandidateSound, CandidateComplete
<1>2. ASSUME pc' \in {"scan", "account"}, pc \in {"branch", "account"}, UNCHANGED candidates,
             i' = 0 /\ todo' = {} /\ Ssds' = Ssds, Ssds \subseteq Nat \ {0}
      PROVE  CandidateInv'
  <2>1. candidates' = {}
    BY <1>2 DEF CandidateInv, CandidateType
  <2>2. \A n \in Ssds : ~(n <= i')
    BY <1>2
  <2> QED
    BY <1>2, <2>1, <2>2 DEF CandidateInv, CandidateType, CandidateSound, CandidateComplete
<1>3. CASE World
  BY <1>3, CandidateWorld
<1>4. CASE Scan
  BY <1>4, CandidateScan
<1>5. CASE \E d \in todo : Visit(d)
  BY <1>5, CandidateVisit
<1>6. CASE Enough
  <2>1. CASE pc' = "failed"
    BY <1>1, <2>1
  <2>2. CASE pc' # "failed"
    <3>1. /\ pc = "branch" /\ UNCHANGED <<found, candidates, todo>> /\ i' = 0
          /\ pc' \in {"scan", "account"}
      BY <1>6, <2>2 DEF Enough, Goto, Refuse
    <3>2. todo' = {} /\ Ssds' = Ssds
      BY <3>1 DEF Base, RecordType, Ssds, Late
    <3>3. Ssds \subseteq Nat \ {0}
      BY Sequences DEF Base, Ssds
    <3> QED
      BY <1>2, <3>1, <3>2, <3>3
  <2> QED
    BY <2>1, <2>2
<1>7. CASE Account
  <2>1. /\ pc = "account" /\ todo = {} /\ UNCHANGED candidates /\ Ssds' = Ssds
        /\ pc' = "account" \/ (pc' = "scan" /\ i' = 0 /\ todo' = {})
    BY <1>7, Following DEF Account, Base, Late
  <2>2. Ssds \subseteq Nat \ {0}
    BY Sequences DEF Base, Ssds
  <2> QED
    BY <1>1, <1>2, <2>1, <2>2
<1>8. CASE UNCHANGED vars
  <2>1. UNCHANGED <<pc, call, found, i, todo, candidates, tree, touched>>
    BY <1>8 DEF vars, world, history, reading
  <2>2. /\ Ssds' = Ssds /\ (\A n : Path(n)' = Path(n)) /\ (Aliased' <=> Aliased)
        /\ \A p : /\ (Wanted(p)' <=> Wanted(p)) /\ (Partial(p)' <=> Partial(p))
                  /\ (InScope(p)' <=> InScope(p))
        /\ \A b, p : Fixed(b, p)' <=> Fixed(b, p)
    BY <2>1 DEF Ssds, Path, Fixed, Wanted, Excluded, InScope, Partial, Aliased
  <2>3. \A n, p : Justified(n, p)' <=> Justified(n, p)
    BY <2>1, <2>2 DEF Justified
  <2>4. CandidateType'
    BY <2>1, <2>2 DEF CandidateInv, CandidateType
  <2>5. CandidateSound'
    BY <2>1, <2>2, <2>3 DEF CandidateInv, CandidateSound
  <2>6. CandidateComplete'
    BY <2>1, <2>2 DEF CandidateInv, CandidateComplete
  <2> QED
    BY <2>4, <2>5, <2>6 DEF CandidateInv
<1>9. CASE Load \/ ReadFstab \/ RuntimePool \/ RequirePool \/ RequireBranch \/ ReadCapacity
           \/ ReadKind
  <2>1. pc' \notin {"scan", "done"} /\ UNCHANGED candidates
        /\ pc \notin {"scan", "done", "failed"}
    BY <1>9 DEF Load, ReadFstab, RuntimePool, RequireMount, CheckFsType, ReadList, ReadMinFree,
                RequirePool, RequireBranch, ReadCapacity, ReadKind, Pooled, Goto, Refuse, reading
  <2> QED
    BY <1>1, <2>1
<1>10. CASE Accounting
  <2>1. pc = "account" /\ pc' \in {"account", "failed"} /\ UNCHANGED candidates
    BY <1>10 DEF Accounting, LookAt, Measure, MeasureVanished, Goto, Refuse, reading
  <2> QED
    BY <1>1, <2>1
<1> QED
  BY <1>3, <1>4, <1>5, <1>6, <1>7, <1>8, <1>9, <1>10 DEF Next, Discover, Accounting

-----------------------------------------------------------------------------
THEOREM Invariance == Spec => []IInv
<1>1. IInv /\ [Next]_vars => IInv'
  BY BaseStep, RecordStep, CandidateStep DEF IInv
<1> QED
  BY Initially, <1>1, PTL DEF Spec

(* A finding is that of a branch of mergerfs and describes it.             *)
LEMMA GroundedHolds == Base => Grounded
<1> SUFFICES ASSUME Base, NEW n \in DOMAIN found
             PROVE  /\ found[n].path \notin gone =>
                          /\ found[n].total = Total[Device[found[n].path]]
                          /\ found[n].rotational \in {None, Rota[Device[found[n].path]]}
                    /\ ~call.fstab => \E l \in Lists :
                          [path |-> found[n].path, mode |-> "RW",
                           reserve |-> found[n].reserve] \in ToSet(l)
  BY DEF Grounded
<1>1. found[n].path \notin gone =>
         /\ found[n].total = Total[Device[found[n].path]]
         /\ found[n].rotational \in {None, Rota[Device[found[n].path]]}
  BY DEF Base, FoundInv
<1>2. ASSUME ~call.fstab
      PROVE  \E l \in Lists : [path |-> found[n].path, mode |-> "RW",
                               reserve |-> found[n].reserve] \in ToSet(l)
  <2> DEFINE b == pool.branches
  <2>1. n \in DOMAIN b /\ b # <<>>
    <3>1. n \in 1..Len(b) /\ DOMAIN b = 1..Len(b) /\ Len(b) \in Nat
      BY Sequences DEF Base
    <3> QED
      BY <3>1
  <2>2. b \in Lists /\ b[n].mode = "RW"
    BY <1>2, <2>1 DEF Base, PoolInv
  <2>3. b[n] = [path |-> b[n].path, mode |-> b[n].mode, reserve |-> b[n].reserve]
    BY <2>1, Sequences DEF Base
  <2>4. found[n].path = b[n].path /\ found[n].reserve = b[n].reserve
    BY DEF Base, FoundInv
  <2>5. b[n] \in ToSet(b)
    BY <2>1 DEF ToSet
  <2> QED
    BY <2>2, <2>3, <2>4, <2>5
<1> QED
  BY <1>1, <1>2

(* Discovery fails closed: every branch it accepts, for any pool and any   *)
(* mounts and unmounts while it looks, has the capacity and the kind of    *)
(* its own file system unless it was unmounted after it was checked; and   *)
(* it is, with its reserve, an entry of a list that mergerfs had.          *)
THEOREM GroundedSafety == Spec => []Grounded
<1>1. IInv => Grounded
  BY GroundedHolds DEF IInv
<1> QED
  BY Invariance, <1>1, PTL

LEMMA LinkedHolds ==
  ASSUME IInv, pc = "done", NEW c \in candidates
  PROVE  c[2] \in Paths \/ Linked(c[2])
<1>1. PICK n \in Ssds, p \in Seq(Names) : c = <<Path(n), p>> /\ Justified(n, p)
  BY DEF IInv, CandidateInv, CandidateSound
<1>2. CASE ~Aliased
  BY <1>1, <1>2 DEF Justified
<1>3. CASE Aliased
  <2>1. PICK m \in 1..Len(call.scope) : m \in Links(call, Paths)
    BY <1>3 DEF Aliased, Links
  <2>2. call.scope \in Seq(Names) /\ Below(p, call.scope)
    BY <1>1, Knowledge DEF IInv, Base, Justified, InScope
  <2>3. /\ Link(call, m) \in Seq(Names) /\ Len(Link(call, m)) = m /\ m <= Len(call.scope)
        /\ \A k \in 1..m : Link(call, m)[k] = call.scope[k]
    BY <2>2 DEF Link
  <2>4. Below(p, Link(call, m))
    BY <2>2, <2>3, BelowIs
  <2> QED
    BY <1>1, <2>1, <2>4 DEF Linked
<1> QED
  BY <1>2, <1>3

LEMMA OnceHolds == IInv /\ Distinct => EachFileOnce
<1> SUFFICES ASSUME IInv, Distinct, pc = "done",
                    NEW n \in Ssds, NEW p \in Paths, <<Path(n), p>> \notin touched
             PROVE  LET b == Path(n)
                        here == p \in tree[b] /\ Kind[p] = "file"
                        counts == {r \in records : r.branch = b /\ p \in r.files}
                    IN  /\ <<b, p>> \in candidates <=>
                              here /\ ~Excluded(p) /\ InScope(p) /\ ~Partial(p)
                        /\ Cardinality(counts) = IF here /\ Excluded(p) THEN 1 ELSE 0
                        /\ \A r \in records : r.branch = b /\ r.path = p =>
                              (r.present <=> p \in tree[b])
  BY LinkedHolds DEF EachFileOnce, Path
<1> DEFINE b == Path(n)
           here == p \in tree[b] /\ Kind[p] = "file"
           counts == {r \in records : r.branch = b /\ p \in r.files}
<1>1. Base /\ RecordInv /\ CandidateInv /\ pc \in Late /\ Fixed(b, p) /\ p \in Known
  BY Knowledge DEF IInv, Late, Fixed
<1>2. \A m : Measurable(m) /\ ~Measuring(m)
  BY DEF Measurable, Measuring
<1>3. <<b, p>> \in candidates <=> here /\ ~Excluded(p) /\ InScope(p) /\ ~Partial(p)
  <2>1. ASSUME <<b, p>> \in candidates PROVE Wanted(p) /\ p \in tree[b]
    <3>1. PICK m \in Ssds, q \in Seq(Names) : <<b, p>> = <<Path(m), q>> /\ Justified(m, q)
      BY <1>1, <2>1 DEF CandidateInv, CandidateSound
    <3>2. ~Aliased
      BY <1>1, <3>1, NoneBelow DEF Base, Justified
    <3> QED
      BY <1>1, <3>1, <3>2 DEF Justified
  <2>2. Wanted(p) /\ p \in tree[b] => <<b, p>> \in candidates
    BY <1>1 DEF CandidateInv, CandidateComplete
  <2> QED
    BY <2>1, <2>2 DEF Wanted
<1>4. ASSUME NEW x \in counts
      PROVE  here /\ x.path \in Roots /\ Below(p, x.path) /\ x \in RecordOf(b, x.path)
  <2>1. x.path \in Roots
    BY <1>1 DEF Base, RecordType
  <2>2. here /\ Below(p, x.path)
    BY <1>1 DEF RecordInv, RecordSound
  <2> QED
    BY <2>1, <2>2 DEF RecordOf
<1>5. Cardinality(counts) = IF here /\ Excluded(p) THEN 1 ELSE 0
  <2>1. CASE here /\ Excluded(p)
    <3>1. PICK r \in Roots : Below(p, r)
      BY <1>1, <2>1, OneRoot DEF Base
    <3>2. \A x \in counts : x.path = r
      BY <1>1, <1>4, <3>1, OneRoot DEF Base
    <3>3. PICK x \in RecordOf(b, r) : p \in x.files
      BY <1>1, <1>2, <2>1, <3>1 DEF RecordInv, RecordComplete
    <3>4. RecordOf(b, r) = {x}
      <4>1. \E y \in records : RecordOf(b, r) = {y}
        BY <1>1, <1>2, <3>1 DEF RecordInv, RecordOnce
      <4> QED
        BY <3>3, <4>1
    <3>5. counts = {x}
      BY <1>4, <3>2, <3>3, <3>4 DEF RecordOf
    <3> QED
      BY <2>1, <3>5, FS_Singleton
  <2>2. CASE ~(here /\ Excluded(p))
    <3>1. counts = {}
      BY <1>1, <1>4, <2>2, OneRoot DEF Base
    <3> QED
      BY <2>2, <3>1, FS_EmptySet
  <2> QED
    BY <2>1, <2>2
<1>6. \A r \in records : r.branch = b /\ r.path = p => (r.present <=> p \in tree[b])
  BY <1>1 DEF RecordInv, RecordSound
<1> QED
  BY <1>3, <1>5, <1>6

(* Each file that stays is protected and counted once, or a candidate by   *)
(* its own name, or out of scope, however exclusions overlap and whatever  *)
(* else comes and goes; and a file is a candidate by no other name, unless *)
(* the scope leads through a link, which the name then shows.  With        *)
(* --fstab this needs an fstab that names no branch twice: the code does   *)
(* not check that there as it does for the runtime list.                   *)
THEOREM OnceSafety == Spec => [](Unambiguous \/ ~call.fstab => EachFileOnce)
<1>1. IInv => (Unambiguous \/ ~call.fstab => EachFileOnce)
  BY OnceHolds DEF IInv, Base, PoolInv
<1> QED
  BY Invariance, <1>1, PTL
=============================================================================
