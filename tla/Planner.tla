------------------------------ MODULE Planner ------------------------------
(***************************************************************************)
(* planner.plan_moves: first balance the SSDs, then spill what is over the *)
(* watermark to HDDs, on simulated capacities that every planned move      *)
(* updates.  Each step is one iteration of one of its two loops.           *)
(*                                                                         *)
(* A file is a number; the files of a branch are numbered in the order of  *)
(* scan_files, least recently active first.  A branch is its order in the  *)
(* pool.  Percentages are compared exactly; the program compares floats.   *)
(***************************************************************************)
EXTENDS Policy, FiniteSetsExt

CONSTANTS SSD, HDD,      \* branches
          Policy,        \* config.policy
          MinFree,       \* branch-specific reserves of the mergerfs options
          PoolMin,       \* mergerfs minfreespace
          Extra,         \* extra_free_percent
          Watermark, Tolerance,
          N,             \* number of candidate files
          Home, Dir, Name, Size,  \* where each candidate is, and its st_size
          Frees,         \* bytes that unlinking each candidate really frees
          Takes,         \* bytes that a copy of each candidate really takes
          Taken,         \* <<branch, directory, name>> of the other files
          Starts         \* used and free bytes the branches may have

Branch == SSD \cup HDD
Files  == 1..N
Lower  == Watermark - Tolerance

ASSUME PlannerAssumption ==
    /\ SSD \subseteq Nat /\ HDD \subseteq Nat /\ SSD \cap HDD = {}
    /\ IsFiniteSet(SSD) /\ IsFiniteSet(HDD)
    /\ Policy \in Policies
    /\ Total \in [Branch -> Nat] /\ MinFree \in [Branch -> Nat]
    /\ PoolMin \in Nat /\ Extra \in Nat /\ N \in Nat
    /\ Watermark \in 0..100 /\ Tolerance \in 0..100
    /\ Home \in [Files -> SSD] /\ Size \in [Files -> Nat]
    /\ Frees \in [Files -> Nat] /\ Takes \in [Files -> Nat]
    /\ DOMAIN Dir = Files /\ DOMAIN Name = Files
    /\ \A f, g \in Files :
          Home[f] = Home[g] /\ Dir[f] = Dir[g] /\ Name[f] = Name[g] => f = g
    /\ \A b \in Branch : \A d \in DiskDirs[b] :
          \A n \in 1..Len(d) : SubSeq(d, 1, n) \in DiskDirs[b]
    /\ \A s \in Starts : /\ s.used \in [Branch -> Nat] /\ s.free \in [Branch -> Nat]
                         /\ \A b \in Branch : s.used[b] + s.free[b] <= Total[b]

VARIABLES phase,       \* "balance", "spill" or "done"
          considered,  \* files chosen by a loop, moved or not: `used`
          plan,        \* sequence of planned moves
          start        \* history: free bytes of each branch at the start

simulated == <<free, used, dirs>>
vars      == <<phase, considered, plan, start, simulated>>

Moves == [file : Files, to : Branch]

TypeOK ==
    /\ phase \in {"balance", "spill", "done"}
    /\ considered \subseteq Files
    /\ plan \in Seq(Moves)
    /\ free \in [Branch -> Nat] /\ used \in [Branch -> Nat]
    /\ start \in [Branch -> Nat]
    /\ DOMAIN dirs = Branch

(* Reserved blocks are neither used nor free, and apparent sizes need not  *)
(* add up to the bytes used.                                               *)
Init ==
    /\ phase = IF SSD = {} THEN "done" ELSE "balance"
    /\ considered = {}
    /\ plan = <<>>
    /\ \E s \in Starts : used = s.used /\ free = s.free
    /\ dirs = [b \in Branch |-> {}]
    /\ start = free

-----------------------------------------------------------------------------
(* next_file: the first file of the branch no loop has chosen.             *)
NextFile(b, f) ==
    /\ f \in Files \ considered
    /\ Home[f] = b
    /\ \A g \in Files \ considered : Home[g] = b => f <= g

HasNext(b) == \E f \in Files \ considered : Home[f] = b

(* The first of the fullest, or least full, branches of S.                 *)
Fullest(b, S) == b \in S /\ \A c \in S : Fuller(b, c) \/ (~Fuller(c, b) /\ b <= c)
Emptiest(b, S) == b \in S /\ \A c \in S : NoEarlier(c, b)

(* (destination.path / relative_path).exists()                             *)
Occupied(b, f) ==
    \/ <<b, Dir[f], Name[f]>> \in Taken
    \/ \E g \in Files : Home[g] = b /\ Dir[g] = Dir[f] /\ Name[g] = Name[f]

Reserve(b) ==
    IF b \in SSD THEN Max({PoolMin, MinFree[b]})
    ELSE Max({PoolMin, MinFree[b], (Total[b] * Extra) \div 100})

(* _apply and planned.append: the plan counts st_size on both sides, while *)
(* a sparse or linked file frees less and a last block takes more.         *)
Ancestors(d) == {SubSeq(d, 1, n) : n \in 1..Len(d)}

(* Mutants: a destination is not charged; a source is credited more bytes  *)
(* than it uses.                                                           *)
ApplyToSourceOnly(f, b) ==
    LET from == Home[f]
    IN  /\ plan' = Append(plan, [file |-> f, to |-> b])
        /\ used' = [used EXCEPT ![from] = Max({0, @ - Size[f]})]
        /\ free' = [free EXCEPT ![from] = Min({Total[from], @ + Size[f]})]
        /\ dirs' = [dirs EXCEPT ![b] = @ \cup Ancestors(Dir[f])]

ApplyBelowZero(f, b) ==
    LET from == Home[f]
    IN  /\ plan' = Append(plan, [file |-> f, to |-> b])
        /\ used' = [used EXCEPT ![from] = @ - Size[f], ![b] = @ + Size[f]]
        /\ free' = [free EXCEPT ![from] = Min({Total[from], @ + Size[f]}),
                                ![b] = Max({0, @ - Size[f]})]
        /\ dirs' = [dirs EXCEPT ![b] = @ \cup Ancestors(Dir[f])]

Apply(f, b) ==
    LET from == Home[f]
    IN  /\ plan' = Append(plan, [file |-> f, to |-> b])
        /\ used' = [used EXCEPT ![from] = Max({0, @ - Size[f]}), ![b] = @ + Size[f]]
        /\ free' = [free EXCEPT ![from] = Min({Total[from], @ + Size[f]}),
                                ![b] = Max({0, @ - Size[f]})]
        /\ dirs' = [dirs EXCEPT ![b] = @ \cup Ancestors(Dir[f])]

-----------------------------------------------------------------------------
(* The first loop.                                                         *)
Balancing(a, b) ==
    /\ phase = "balance"
    /\ Fullest(a, SSD) /\ Emptiest(b, SSD)
    /\ Over(a, Watermark) /\ ~AtLeast(b, Lower)

(* Mutants: only the reserve of the pool counts; existing names do not.    *)
SsdFitsPoolMin(f, b) == free[b] - Size[f] >= PoolMin /\ ~Occupied(b, f)
SsdFitsAnyName(f, b) == free[b] - Size[f] >= Reserve(b)

SsdFits(f, b) == free[b] - Size[f] >= Reserve(b) /\ ~Occupied(b, f)

Balance(a, b, f) ==
    /\ Balancing(a, b)
    /\ NextFile(a, f)
    /\ SsdFits(f, b)
    /\ considered' = considered \cup {f}
    /\ Apply(f, b)
    /\ UNCHANGED <<phase, start>>

(* Mutant: a file passed over is looked at again.                          *)
PassOverAgain(a, b, f) ==
    /\ Balancing(a, b)
    /\ NextFile(a, f)
    /\ ~SsdFits(f, b)
    /\ UNCHANGED vars

PassOver(a, b, f) ==
    /\ Balancing(a, b)
    /\ NextFile(a, f)
    /\ ~SsdFits(f, b)
    /\ considered' = considered \cup {f}
    /\ UNCHANGED <<phase, plan, start, simulated>>

StopBalancing ==
    /\ phase = "balance"
    /\ ~\E a, b \in SSD : Balancing(a, b) /\ HasNext(a)
    /\ phase' = "spill"
    /\ UNCHANGED <<considered, plan, start, simulated>>

-----------------------------------------------------------------------------
(* The second loop: the fullest SSD over the watermark that has a file     *)
(* left gives its next file.                                               *)
(* Mutant: the loop ends when the fullest SSD has no file left.            *)
SpillingFullestOnly(a) ==
    /\ phase = "spill"
    /\ HDD # {}
    /\ \A b \in SSD : AtLeast(b, Lower)
    /\ Fullest(a, {b \in SSD : Over(b, Watermark)})
    /\ HasNext(a)

Spilling(a) ==
    /\ phase = "spill"
    /\ HDD # {}
    /\ \A b \in SSD : AtLeast(b, Lower)
    /\ Fullest(a, {b \in SSD : Over(b, Watermark) /\ HasNext(b)})

Eligible(f) == {h \in HDD : free[h] - Size[f] >= Reserve(h)}

Destinations(f) ==
    ChooseDestination(Policy, Eligible(f), Dir[f], Size[f],
                      Max({Reserve(h) : h \in HDD}))

Spill(a, f, h) ==
    /\ Spilling(a)
    /\ NextFile(a, f)
    /\ h \in Destinations(f) /\ ~Occupied(h, f)
    /\ considered' = considered \cup {f}
    /\ Apply(f, h)
    /\ UNCHANGED <<phase, start>>

Leave(a, f) ==
    /\ Spilling(a)
    /\ NextFile(a, f)
    /\ \/ Destinations(f) = {}
       \/ \E h \in Destinations(f) : Occupied(h, f)
    /\ considered' = considered \cup {f}
    /\ UNCHANGED <<phase, plan, start, simulated>>

StopSpilling ==
    /\ phase = "spill"
    /\ ~\E a \in SSD : Spilling(a)
    /\ phase' = "done"
    /\ UNCHANGED <<considered, plan, start, simulated>>

Next ==
    \/ \E a, b \in SSD, f \in Files : Balance(a, b, f) \/ PassOver(a, b, f)
    \/ \E a \in SSD, f \in Files : Leave(a, f) \/ \E h \in HDD : Spill(a, f, h)
    \/ StopBalancing
    \/ StopSpilling

Spec     == Init /\ [][Next]_vars
FairSpec == Spec /\ WF_vars(Next)

-----------------------------------------------------------------------------
(* A branch that receives files keeps its own reserve free, whatever the   *)
(* order of sources, destinations and skipped files.                       *)
ReserveKept == \A i \in DOMAIN plan : free[plan[i].to] >= Reserve(plan[i].to)

(* The simulation never promises more space than executing the plan so far *)
(* leaves, up to what is not freed of the files sent away and is taken     *)
(* beyond the size of those received; an HDD is charged every size; and    *)
(* used and free never exceed the device.                                  *)
Moved(w, S) == SumFunctionOnSet([i \in DOMAIN plan |-> w[plan[i].file]], S)

Hole  == [f \in Files |-> Max({0, Size[f] - Frees[f]})]
Slack == [f \in Files |-> Max({0, Takes[f] - Size[f]})]

DriftBounded ==
    \A b \in Branch :
        LET arrived  == {i \in DOMAIN plan : plan[i].to = b}
            departed == {i \in DOMAIN plan : Home[plan[i].file] = b}
            real     == start[b] + Moved(Frees, departed) - Moved(Takes, arrived)
        IN  /\ free[b] <= real + Moved(Hole, departed) + Moved(Slack, arrived)
            /\ b \in HDD => free[b] = start[b] - Moved(Size, arrived)
            /\ free[b] + used[b] <= Total[b]

(* The moves of a plan can run in any order as far as names go: no file is *)
(* moved twice and none is moved to a name that another move empties, so a *)
(* worker never waits for, or destroys, the work of another.               *)
Independent ==
    \A i, j \in DOMAIN plan :
        /\ i # j => plan[i].file # plan[j].file
        /\ LET f == plan[i].file  g == plan[j].file
           IN  ~(plan[i].to = Home[g] /\ Dir[f] = Dir[g] /\ Name[f] = Name[g])

(* Under an existing-path policy a directory that only the plan itself     *)
(* would create never attracts a file to an HDD.                           *)
ExistingPathKept ==
    Policy \in ExistingPath =>
        \A i \in DOMAIN plan :
            LET d == Dir[plan[i].file]
            IN  plan[i].to \in HDD => d = <<>> \/ d \in DiskDirs[plan[i].to]

(* Planning stops over the watermark only for want of an HDD, of a file or *)
(* because an SSD fell below the tolerance.                                *)
Exhaustive ==
    phase = "done" /\ HDD # {} /\ (\A b \in SSD : AtLeast(b, Lower)) =>
        \A a \in SSD : Over(a, Watermark) => ~HasNext(a)

(* A file that an HDD can take above that HDD's own reserve.               *)
Admissible(f, h) ==
    /\ free[h] - Size[f] >= Reserve(h)
    /\ ~Occupied(h, f)
    /\ Policy \in ExistingPath => DirExists(h, Dir[f])

(* "larger of this value and active mergerfs minfreespace" of "each HDD's  *)
(* total capacity" (config.example.toml): a file is left on an SSD only if *)
(* no HDD could take it and keep its own reserve.                          *)
OwnReserve ==
    [][\A f \in considered' \ considered :
          phase = "spill" /\ plan' = plan => ~\E h \in HDD : Admissible(f, h)]_vars

(* "Once every SSD is within the configured tolerance of the watermark,    *)
(* move excess SSD files to eligible HDD branches" (README): no file stays *)
(* on an SSD over the watermark while an HDD could take it.                *)
ExcessMoved ==
    phase = "done" /\ (\A b \in SSD : AtLeast(b, Lower)) =>
        \A f \in Files :
            Over(Home[f], Watermark) /\ (\A i \in DOMAIN plan : plan[i].file # f) =>
                ~\E h \in HDD : Admissible(f, h)

(* The loops end: files passed over are not looked at again.               *)
Termination == <>(phase = "done")
=============================================================================
