---------------------------- MODULE PlannerProof ----------------------------
(***************************************************************************)
(* Theorems about Planner for every pool, every set of files, every policy *)
(* and every configuration; and about Choice, the question it asks of a    *)
(* policy, for any number of branches, any directories and any capacities. *)
(***************************************************************************)
EXTENDS Planner, Choice, FiniteFacts

LEMMA MaxPair ==
  ASSUME NEW m \in Int, NEW n \in Int
  PROVE  /\ Max({m, n}) \in {m, n}
         /\ Max({m, n}) >= m /\ Max({m, n}) >= n
<1>1. \E k \in {m, n} : \A l \in {m, n} : k >= l
  OBVIOUS
<1> QED
  BY <1>1 DEF Max

LEMMA MaxTriple ==
  ASSUME NEW m \in Int, NEW n \in Int, NEW o \in Int
  PROVE  Max({m, n, o}) \in {m, n, o}
<1>1. \E k \in {m, n, o} : \A l \in {m, n, o} : k >= l
  OBVIOUS
<1> QED
  BY <1>1 DEF Max

LEMMA MinPair ==
  ASSUME NEW m \in Int, NEW n \in Int
  PROVE  /\ Min({m, n}) \in {m, n}
         /\ Min({m, n}) <= m /\ Min({m, n}) <= n
<1>1. \E k \in {m, n} : \A l \in {m, n} : k =< l
  OBVIOUS
<1> QED
  BY <1>1 DEF Min

LEMMA Share == ASSUME NEW m \in Nat, NEW n \in Nat PROVE (m * n) \div 100 \in Nat
<1>1. m * n \in Nat
  OBVIOUS
<1> QED
  BY <1>1

LEMMA ReserveType == \A b \in Branch : Reserve(b) \in Nat
<1> SUFFICES ASSUME NEW b \in Branch PROVE Reserve(b) \in Nat
  OBVIOUS
<1>1. PoolMin \in Nat /\ MinFree[b] \in Nat /\ Total[b] \in Nat /\ Extra \in Nat
  BY PlannerAssumption
<1>2. (Total[b] * Extra) \div 100 \in Nat
  BY <1>1, Share
<1> DEFINE share == (Total[b] * Extra) \div 100
<1>3. PoolMin \in Int /\ MinFree[b] \in Int /\ share \in Int
  BY <1>1, <1>2
<1>4. Max({PoolMin, MinFree[b]}) \in {PoolMin, MinFree[b]}
  BY <1>3, MaxPair, Zenon
<1>5. Max({PoolMin, MinFree[b], share}) \in {PoolMin, MinFree[b], share}
  BY <1>3, MaxTriple, Zenon
<1>6. Max({PoolMin, MinFree[b]}) \in Nat /\ Max({PoolMin, MinFree[b], share}) \in Nat
  BY <1>1, <1>2, <1>4, <1>5
<1> QED
  BY <1>6 DEF Reserve

(* A policy answers only branches that it was offered and that have room,  *)
(* and an existing-path policy only those that have the directory.         *)
LEMMA PolicySound ==
  ASSUME NEW p \in Policies, NEW S, NEW d, NEW bytes, NEW minimum,
         NEW h \in ChooseDestination(p, S, d, bytes, minimum)
  PROVE  /\ h \in S
         /\ free[h] - bytes >= minimum
         /\ p \in ExistingPath => DirExists(h, d)
<1> DEFINE room == {b \in S : free[b] - bytes >= minimum}
           kept == CASE p \in ExistingPath -> {b \in room : DirExists(b, d)}
                     [] p \in MostShared ->
                           {b \in room : ~\E c \in room : SharesMore(c, b, d)}
                     [] OTHER -> room
<1>1. h \in Preferred(p, kept, d)
  BY DEF ChooseDestination
<1>2. kept \subseteq room /\ (p \in ExistingPath => \A b \in kept : DirExists(b, d))
  BY DEF ExistingPath, MostShared
<1> HIDE DEF kept
<1>3. Preferred(p, kept, d) \subseteq kept
  BY DEF Preferred, Best, Weighted, Policies, ExistingPath, MostShared
<1> QED
  BY <1>1, <1>2, <1>3

-----------------------------------------------------------------------------
(* What the simulation maintains: device sizes, reserves of receivers, and *)
(* the history that the plan and the considered files share.               *)
CapacityInv == \A b \in Branch : used[b] + free[b] <= Total[b]

PlanInv ==
    /\ \A i \in DOMAIN plan : /\ plan[i].file \in considered
                              /\ ~Occupied(plan[i].to, plan[i].file)
    /\ \A i, j \in DOMAIN plan : i # j => plan[i].file # plan[j].file

DirInv ==
    Policy \in ExistingPath =>
        /\ \A h \in HDD : dirs[h] \subseteq DiskDirs[h]
        /\ ExistingPathKept

IInv == TypeOK /\ CapacityInv /\ ReserveKept /\ PlanInv /\ DirInv

(* The moves that _apply is given, in either loop.                         *)
Admitted(f, b) ==
    /\ f \in Files \ considered
    /\ b \in Branch
    /\ b # Home[f]
    /\ free[b] - Size[f] >= Reserve(b)
    /\ ~Occupied(b, f)
    /\ b \in HDD /\ Policy \in ExistingPath => DirExists(b, Dir[f])
    /\ considered' = considered \cup {f}
    /\ phase' = phase /\ start' = start

THEOREM InitInv == Init => IInv
<1> SUFFICES ASSUME Init PROVE IInv
  OBVIOUS
<1> USE PlannerAssumption DEF Init
<1>1. plan = <<>> /\ DOMAIN plan = {}
  OBVIOUS
<1>2. TypeOK /\ CapacityInv
  BY <1>1 DEF TypeOK, CapacityInv
<1>3. ReserveKept /\ PlanInv /\ DirInv
  BY <1>1 DEF ReserveKept, PlanInv, DirInv, ExistingPathKept, Branch
<1> QED
  BY <1>2, <1>3 DEF IInv

LEMMA ApplyCapacity ==
  ASSUME IInv, NEW f, NEW b, Admitted(f, b), Apply(f, b)
  PROVE  /\ free' \in [Branch -> Nat] /\ used' \in [Branch -> Nat]
         /\ CapacityInv'
         /\ free'[b] >= Reserve(b)
         /\ \A c \in Branch : c # b => free'[c] >= free[c]
<1> DEFINE a == Home[f]
           s == Size[f]
<1>1. /\ a \in Branch /\ b \in Branch /\ a # b
      /\ s \in Nat /\ free[a] \in Nat /\ free[b] \in Nat
      /\ used[a] \in Nat /\ used[b] \in Nat /\ Total[a] \in Nat /\ Total[b] \in Nat
      /\ used[a] + free[a] <= Total[a] /\ used[b] + free[b] <= Total[b]
      /\ free[b] - s >= Reserve(b) /\ Reserve(b) \in Nat
  BY PlannerAssumption, ReserveType DEF IInv, TypeOK, CapacityInv, Admitted, Branch
<1>2. /\ used' = [used EXCEPT ![a] = Max({0, @ - s}), ![b] = @ + s]
      /\ free' = [free EXCEPT ![a] = Min({Total[a], @ + s}), ![b] = Max({0, @ - s})]
  BY DEF Apply
<1>3. /\ used'[a] = Max({0, used[a] - s}) /\ used'[b] = used[b] + s
      /\ free'[a] = Min({Total[a], free[a] + s}) /\ free'[b] = Max({0, free[b] - s})
      /\ \A c \in Branch \ {a, b} : used'[c] = used[c] /\ free'[c] = free[c]
      /\ DOMAIN used' = Branch /\ DOMAIN free' = Branch
      /\ used' = [c \in Branch |-> used'[c]] /\ free' = [c \in Branch |-> free'[c]]
  BY <1>1, <1>2 DEF IInv, TypeOK
<1> HIDE DEF a, s
<1>i. /\ 0 \in Int /\ used[a] - s \in Int /\ free[b] - s \in Int
      /\ Total[a] \in Int /\ free[a] + s \in Int
  BY <1>1
<1>u. /\ used'[a] \in {0, used[a] - s}
      /\ used'[a] >= 0 /\ used'[a] >= used[a] - s
  BY <1>3, <1>i, MaxPair, Zenon
<1>4. used'[a] \in Nat /\ used'[a] \in {0, used[a] - s}
  BY <1>1, <1>u
<1>f. /\ free'[a] \in {Total[a], free[a] + s}
      /\ free'[a] <= Total[a] /\ free'[a] <= free[a] + s
  BY <1>3, <1>i, MinPair, Zenon
<1>5. /\ free'[a] \in Nat /\ free'[a] <= Total[a] /\ free'[a] <= free[a] + s
      /\ free'[a] >= free[a]
  BY <1>1, <1>f
<1>g. free'[b] \in {0, free[b] - s} /\ free'[b] >= free[b] - s /\ free'[b] >= 0
  BY <1>3, <1>i, MaxPair, Zenon
<1>6. free'[b] = free[b] - s /\ free'[b] \in Nat
  BY <1>1, <1>g
<1>7. used'[a] + free'[a] <= Total[a]
  BY <1>1, <1>4, <1>5
<1>h. used'[b] = used[b] + s
  BY <1>3
<1>8. used'[b] + free'[b] <= Total[b] /\ used'[b] \in Nat
  BY <1>1, <1>h, <1>6
<1>9. \A c \in Branch : used'[c] \in Nat /\ free'[c] \in Nat
                        /\ used'[c] + free'[c] <= Total[c]
  BY <1>3, <1>4, <1>5, <1>6, <1>7, <1>8 DEF IInv, TypeOK, CapacityInv
<1>10. free'[b] >= Reserve(b)
  BY <1>1, <1>6
<1>j. \A c \in Branch : free[c] \in Nat
  BY DEF IInv, TypeOK
<1>k. \A c \in Branch : c # a /\ c # b => free'[c] = free[c]
  BY <1>3
<1>11. \A c \in Branch : c # b => free'[c] >= free[c]
  BY <1>j, <1>k, <1>5
<1> QED
  BY <1>3, <1>9, <1>10, <1>11 DEF CapacityInv

LEMMA ApplyStep ==
  ASSUME IInv, NEW f, NEW b, Admitted(f, b), Apply(f, b)
  PROVE  IInv'
<1> DEFINE move == [file |-> f, to |-> b]
           last == Len(plan) + 1
<1>1. /\ f \in Files /\ b \in Branch /\ move \in Moves
      /\ plan \in Seq(Moves) /\ plan' = Append(plan, move)
      /\ considered' = considered \cup {f} /\ f \notin considered
      /\ phase' = phase /\ start' = start
  BY DEF Admitted, Apply, Moves, IInv, TypeOK
<1>2. /\ plan' \in Seq(Moves)
      /\ DOMAIN plan' = DOMAIN plan \cup {last} /\ last \notin DOMAIN plan
      /\ plan'[last] = move
      /\ \A i \in DOMAIN plan : plan'[i] = plan[i]
  BY <1>1
<1> HIDE DEF last
<1>3. TypeOK'
  <2>1. dirs' = [dirs EXCEPT ![b] = @ \cup Ancestors(Dir[f])]
    BY DEF Apply
  <2>2. DOMAIN dirs' = Branch
    BY <2>1 DEF IInv, TypeOK
  <2> QED
    BY <1>1, <1>2, <2>2, ApplyCapacity DEF IInv, TypeOK
<1>4. ReserveKept'
  <2>1. \A c \in Branch : free[c] \in Nat /\ free'[c] \in Nat /\ Reserve(c) \in Nat
    BY ApplyCapacity, ReserveType DEF IInv, TypeOK
  <2>2. free'[b] >= Reserve(b) /\ \A c \in Branch : c # b => free'[c] >= free[c]
    BY ApplyCapacity
  <2>6. \A i \in DOMAIN plan : plan[i] \in Moves
    BY <1>1
  <2>7. \A i \in DOMAIN plan : plan[i].to \in Branch
    BY <2>6 DEF Moves
  <2>3. \A i \in DOMAIN plan : plan[i].to \in Branch /\ free[plan[i].to] >= Reserve(plan[i].to)
    BY <2>7 DEF IInv, ReserveKept
  <2>4. \A i \in DOMAIN plan : free'[plan[i].to] >= Reserve(plan[i].to)
    BY <2>1, <2>2, <2>3
  <2>5. \A i \in DOMAIN plan' : free'[plan'[i].to] >= Reserve(plan'[i].to)
    BY <1>2, <2>2, <2>4
  <2> QED
    BY <2>5 DEF ReserveKept, Reserve
<1>5. PlanInv'
  <2>1. ~Occupied(b, f)
    BY DEF Admitted
  <2>2. \A i \in DOMAIN plan : /\ plan[i].file \in considered /\ plan[i].file # f
                               /\ ~Occupied(plan[i].to, plan[i].file)
    BY <1>1 DEF IInv, PlanInv
  <2>3. \A i \in DOMAIN plan' : /\ plan'[i].file \in considered'
                                /\ ~Occupied(plan'[i].to, plan'[i].file)
    BY <1>1, <1>2, <2>1, <2>2
  <2>4. \A i, j \in DOMAIN plan' : i # j => plan'[i].file # plan'[j].file
    BY <1>2, <2>2 DEF IInv, PlanInv
  <2> QED
    BY <2>3, <2>4 DEF PlanInv, Occupied
<1>6. DirInv'
  <2>1. SUFFICES ASSUME Policy \in ExistingPath
                 PROVE  /\ \A h \in HDD : dirs'[h] \subseteq DiskDirs[h]
                        /\ ExistingPathKept'
    BY DEF DirInv
  <2>2. \A h \in HDD : h \in Branch /\ dirs[h] \subseteq DiskDirs[h]
    BY <2>1 DEF IInv, DirInv, Branch
  <2>3. /\ dirs'[b] = dirs[b] \cup Ancestors(Dir[f])
        /\ \A h \in Branch : h # b => dirs'[h] = dirs[h]
    BY <1>1 DEF Apply, IInv, TypeOK
  <2>4. b \in HDD => Dir[f] = <<>> \/ Dir[f] \in DiskDirs[b]
    BY <2>1, <2>2 DEF Admitted, DirExists
  <2>5. b \in HDD => Ancestors(Dir[f]) \subseteq DiskDirs[b]
    <3>1. Ancestors(<<>>) = {}
      BY DEF Ancestors
    <3>2. ASSUME Dir[f] \in DiskDirs[b] PROVE Ancestors(Dir[f]) \subseteq DiskDirs[b]
      <4>1. \A n \in 1..Len(Dir[f]) : SubSeq(Dir[f], 1, n) \in DiskDirs[b]
        BY <1>1, <3>2, PlannerAssumption
      <4> QED
        BY <4>1 DEF Ancestors
    <3> QED
      BY <2>4, <3>1, <3>2
  <2>6. \A h \in HDD : dirs'[h] \subseteq DiskDirs[h]
    BY <2>2, <2>3, <2>5
  <2>7. \A i \in DOMAIN plan' : plan'[i].to \in HDD =>
            \/ Dir[plan'[i].file] = <<>>
            \/ Dir[plan'[i].file] \in DiskDirs[plan'[i].to]
    BY <1>2, <2>1, <2>4 DEF IInv, DirInv, ExistingPathKept
  <2> QED
    BY <2>6, <2>7 DEF ExistingPathKept
<1> QED
  BY <1>3, <1>4, <1>5, <1>6, ApplyCapacity DEF IInv

(* A step that plans nothing.                                              *)
LEMMA SkipStep ==
  ASSUME IInv, UNCHANGED <<plan, start, simulated>>,
         phase' \in {"balance", "spill", "done"},
         considered \subseteq considered', considered' \subseteq Files
  PROVE  IInv'
<1> USE DEF simulated
<1>1. TypeOK' /\ CapacityInv'
  BY DEF IInv, TypeOK, CapacityInv
<1>2. ReserveKept' /\ PlanInv' /\ DirInv'
  BY DEF IInv, ReserveKept, Reserve, PlanInv, Occupied, DirInv, ExistingPathKept
<1> QED
  BY <1>1, <1>2 DEF IInv

LEMMA BalancingTwo ==
  ASSUME TypeOK, NEW a \in SSD, NEW b \in SSD, Balancing(a, b)
  PROVE  a # b
<1> SUFFICES ASSUME a = b PROVE FALSE
  OBVIOUS
<1>1. /\ Filled(a) \in Nat /\ Capacity(a) \in Nat
      /\ Watermark \in Nat /\ Tolerance \in Nat
  <2>1. Total[a] \in Nat /\ used[a] \in Nat
    BY PlannerAssumption DEF TypeOK, Branch
  <2>2. Watermark \in Nat /\ Tolerance \in Nat
    BY PlannerAssumption
  <2> QED
    BY <2>1, <2>2 DEF Filled, Capacity
<1>2. 100 * Filled(a) > Watermark * Capacity(a)
  BY DEF Balancing, Over
<1>3. ~(100 * Filled(a) >= (Watermark - Tolerance) * Capacity(a))
  BY DEF Balancing, AtLeast, Lower
<1>4. (Watermark - Tolerance) * Capacity(a) <= Watermark * Capacity(a)
  BY <1>1
<1> QED
  BY <1>1, <1>2, <1>3, <1>4

(* Every step plans one move that is admitted, or none.                    *)
Plans == \E f \in Files, b \in Branch : Admitted(f, b) /\ Apply(f, b)

Skips ==
    /\ UNCHANGED <<plan, start, simulated>>
    /\ phase' \in {"balance", "spill", "done"}
    /\ considered \subseteq considered' /\ considered' \subseteq Files

LEMMA NextEffect == IInv /\ [Next]_vars => Plans \/ Skips
<1> SUFFICES ASSUME IInv, [Next]_vars PROVE Plans \/ Skips
  OBVIOUS
<1>t. /\ SSD \subseteq Branch /\ HDD \subseteq Branch /\ SSD \cap HDD = {}
      /\ considered \subseteq Files /\ phase \in {"balance", "spill", "done"}
      /\ Policy \in Policies
  BY PlannerAssumption DEF Branch, IInv, TypeOK
<1>1. ASSUME NEW a \in SSD, NEW b \in SSD, NEW f \in Files, Balance(a, b, f)
      PROVE  Plans
  <2>1. a # b
    BY <1>1, BalancingTwo DEF IInv, Balance
  <2>2. Admitted(f, b)
    BY <1>t, <1>1, <2>1 DEF Balance, Admitted, NextFile, SsdFits
  <2> QED
    BY <1>t, <1>1, <2>2 DEF Balance, Plans
<1>2. ASSUME NEW a \in SSD, NEW b \in SSD, NEW f \in Files, PassOver(a, b, f)
      PROVE  Skips
  BY <1>t, <1>2 DEF PassOver, Skips
<1>3. ASSUME NEW a \in SSD, NEW f \in Files, NEW h \in HDD, Spill(a, f, h)
      PROVE  Plans
  <2>1. h \in Eligible(f) /\ (Policy \in ExistingPath => DirExists(h, Dir[f]))
    BY <1>t, <1>3, PolicySound DEF Spill, Destinations
  <2>2. Admitted(f, h)
    BY <1>t, <1>3, <2>1 DEF Spill, Admitted, NextFile, Eligible
  <2> QED
    BY <1>t, <1>3, <2>2 DEF Spill, Plans
<1>4. ASSUME NEW a \in SSD, NEW f \in Files, Leave(a, f)
      PROVE  Skips
  BY <1>t, <1>4 DEF Leave, Skips
<1>5. CASE StopBalancing
  BY <1>t, <1>5 DEF StopBalancing, Skips
<1>6. CASE StopSpilling
  BY <1>t, <1>6 DEF StopSpilling, Skips
<1>7. CASE UNCHANGED vars
  BY <1>t, <1>7 DEF vars, Skips
<1> QED
  BY <1>1, <1>2, <1>3, <1>4, <1>5, <1>6, <1>7 DEF Next

LEMMA NextInv == IInv /\ [Next]_vars => IInv'
  BY NextEffect, ApplyStep, SkipStep DEF Plans, Skips

THEOREM Invariance == Spec => []IInv
  BY InitInv, NextInv, PTL DEF Spec

(* Every variable of the planner keeps the values the code gives it, and   *)
(* simulated capacities never go below zero.                               *)
THEOREM TypeCorrect == Spec => []TypeOK
  BY Invariance, PTL DEF IInv

(* No plan leaves a receiving branch less than its reserve, for any sizes, *)
(* reserves and policy.                                                    *)
THEOREM ReserveSafety == Spec => []ReserveKept
  BY Invariance, PTL DEF IInv

(* No file is moved twice and no move needs the name of another's source.  *)
THEOREM IndependentMoves == Spec => []Independent
<1>1. IInv => Independent
  <2> SUFFICES ASSUME IInv, NEW i \in DOMAIN plan, NEW j \in DOMAIN plan
               PROVE  /\ i # j => plan[i].file # plan[j].file
                      /\ LET f == plan[i].file  g == plan[j].file
                         IN  ~(/\ plan[i].to = Home[g] /\ Dir[f] = Dir[g]
                               /\ Name[f] = Name[g])
    BY DEF Independent
  <2>1. plan[j].file \in Files
    BY DEF IInv, PlanInv, TypeOK
  <2> QED
    BY <2>1 DEF IInv, PlanInv, Occupied
<1> QED
  BY Invariance, <1>1, PTL

(* An existing-path policy puts files only where their directory exists    *)
(* before the plan is executed.                                            *)
THEOREM ExistingPathSafety == Spec => []ExistingPathKept
<1>1. IInv => ExistingPathKept
  BY DEF IInv, DirInv, ExistingPathKept
<1> QED
  BY Invariance, <1>1, PTL

-----------------------------------------------------------------------------
(* Bytes that a plan brings to a branch and takes from it.                 *)
Weights(p)   == [i \in DOMAIN p |-> Size[p[i].file]]
Bytes(p, S)  == SumFunctionOnSet(Weights(p), S)
Into(p, b)   == {i \in DOMAIN p : p[i].to = b}
OutOf(p, b)  == {i \in DOMAIN p : Home[p[i].file] = b}

LEMMA BytesType ==
  ASSUME NEW p \in Seq(Moves), NEW S \in SUBSET DOMAIN p
  PROVE  IsFiniteSet(S) /\ Bytes(p, S) \in Nat
<1>1. DOMAIN p = 1..Len(p) /\ Len(p) \in Nat
  OBVIOUS
<1>2. IsFiniteSet(S)
  BY <1>1, FS_Interval, FS_Subset, 1 \in Int, Len(p) \in Int
<1>3. \A i \in S : Weights(p)[i] \in Nat
  <2>1. \A i \in DOMAIN p : p[i] \in Moves
    OBVIOUS
  <2> QED
    BY <2>1, PlannerAssumption DEF Weights, Moves
<1> QED
  BY <1>2, <1>3, SumNat DEF Bytes

(* One more move adds its size to what its branches receive and give.      *)
LEMMA BytesAppend ==
  ASSUME NEW p \in Seq(Moves), NEW m \in Moves, NEW S \in SUBSET DOMAIN p
  PROVE  LET q == Append(p, m)
         IN  /\ Bytes(q, S) = Bytes(p, S)
             /\ Bytes(q, S \cup {Len(q)}) = Size[m.file] + Bytes(p, S)
<1> DEFINE q == Append(p, m)
           n == Len(q)
<1>1. /\ q \in Seq(Moves) /\ n \in Nat /\ n \notin DOMAIN p
      /\ DOMAIN q = DOMAIN p \cup {n} /\ q[n] = m
      /\ \A i \in DOMAIN p : q[i] = p[i]
  OBVIOUS
<1> HIDE DEF n, q
<1>2. IsFiniteSet(S) /\ Bytes(p, S) \in Nat
  BY BytesType
<1>3. /\ \A i \in S : Weights(q)[i] = Weights(p)[i] /\ Weights(q)[i] \in Nat
      /\ Weights(q)[n] = Size[m.file] /\ Weights(q)[n] \in Nat
  <2>1. \A i \in DOMAIN q : q[i] \in Moves
    BY <1>1
  <2> QED
    BY <1>1, <2>1, PlannerAssumption DEF Weights, Moves
<1>4. Bytes(q, S) = Bytes(p, S)
  BY <1>2, <1>3, SumSame DEF Bytes
<1>5. Bytes(q, S \cup {n}) = Weights(q)[n] + Bytes(q, S)
  <2>1. n \notin S
    BY <1>1
  <2> QED
    BY <1>2, <1>3, <2>1, SumAdd DEF Bytes
<1> QED
  BY <1>3, <1>4, <1>5 DEF n, q

LEMMA IntoAppend ==
  ASSUME NEW p \in Seq(Moves), NEW m \in Moves, NEW b
  PROVE  LET q == Append(p, m)
         IN  /\ Bytes(p, Into(p, b)) \in Nat /\ Bytes(p, OutOf(p, b)) \in Nat
             /\ Bytes(q, Into(q, b)) =
                    IF m.to = b THEN Size[m.file] + Bytes(p, Into(p, b))
                    ELSE Bytes(p, Into(p, b))
             /\ Bytes(q, OutOf(q, b)) =
                    IF Home[m.file] = b THEN Size[m.file] + Bytes(p, OutOf(p, b))
                    ELSE Bytes(p, OutOf(p, b))
<1> DEFINE q == Append(p, m)
<1>1. /\ Len(q) \notin DOMAIN p /\ q[Len(q)] = m
      /\ DOMAIN q = DOMAIN p \cup {Len(q)}
      /\ \A i \in DOMAIN p : q[i] = p[i]
  OBVIOUS
<1>2. /\ Into(p, b) \in SUBSET DOMAIN p /\ OutOf(p, b) \in SUBSET DOMAIN p
  BY DEF Into, OutOf
<1>3. /\ Into(q, b) = IF m.to = b THEN Into(p, b) \cup {Len(q)} ELSE Into(p, b)
      /\ OutOf(q, b) = IF Home[m.file] = b THEN OutOf(p, b) \cup {Len(q)} ELSE OutOf(p, b)
  <2> HIDE DEF q
  <2> QED
    BY <1>1 DEF Into, OutOf
<1>4. /\ Bytes(p, Into(p, b)) \in Nat
      /\ Bytes(q, Into(q, b)) = IF m.to = b THEN Size[m.file] + Bytes(p, Into(p, b))
                               ELSE Bytes(p, Into(p, b))
  BY <1>2, <1>3, BytesType, BytesAppend
<1>5. /\ Bytes(p, OutOf(p, b)) \in Nat
      /\ Bytes(q, OutOf(q, b)) = IF Home[m.file] = b
                                THEN Size[m.file] + Bytes(p, OutOf(p, b))
                                ELSE Bytes(p, OutOf(p, b))
  BY <1>2, <1>3, BytesType, BytesAppend
<1> QED
  BY <1>4, <1>5

(* What is simulated as free is at most what executing the plan so far     *)
(* leaves, and exactly that on an HDD, which gives no files.               *)
SpaceInv ==
    \A b \in Branch :
        LET left == start[b] + Bytes(plan, OutOf(plan, b)) - Bytes(plan, Into(plan, b))
        IN  free[b] <= left /\ (b \in HDD => free[b] = left)

LEMMA SpaceInit == Init => SpaceInv
<1> SUFFICES ASSUME Init, NEW b \in Branch
             PROVE  LET left == start[b] + Bytes(plan, OutOf(plan, b))
                                         - Bytes(plan, Into(plan, b))
                    IN  free[b] <= left /\ (b \in HDD => free[b] = left)
  BY DEF SpaceInv
<1>1. Into(plan, b) = {} /\ OutOf(plan, b) = {}
  BY DEF Init, Into, OutOf
<1>2. Bytes(plan, {}) = 0
  BY SumEmpty DEF Bytes
<1>3. start[b] = free[b] /\ free[b] \in Nat
  BY PlannerAssumption DEF Init
<1> QED
  BY <1>1, <1>2, <1>3

LEMMA SpaceApply ==
  ASSUME IInv, SpaceInv, NEW f, NEW b, Admitted(f, b), Apply(f, b)
  PROVE  SpaceInv'
<1> DEFINE a == Home[f]
           s == Size[f]
           m == [file |-> f, to |-> b]
           In(c) == Bytes(plan, Into(plan, c))
           Out(c) == Bytes(plan, OutOf(plan, c))
<1>1. /\ a \in SSD /\ a \notin HDD /\ b \in Branch /\ a # b /\ s \in Nat
      /\ m \in Moves /\ plan \in Seq(Moves) /\ plan' = Append(plan, m)
      /\ start' = start
  BY PlannerAssumption DEF IInv, TypeOK, Admitted, Apply, Moves
<1>2. /\ \A c \in Branch : free[c] \in Nat /\ start[c] \in Nat
      /\ free[b] - s >= 0 /\ a \in Branch /\ Total[a] \in Nat
  <2>1. free[b] \in Nat /\ Reserve(b) \in Nat /\ free[b] - s >= Reserve(b)
    BY <1>1, ReserveType DEF IInv, TypeOK, Admitted
  <2>2. free[b] - s >= 0
    BY <1>1, <2>1
  <2>3. a \in Branch
    BY <1>1 DEF Branch
  <2>4. Total[a] \in Nat /\ \A c \in Branch : free[c] \in Nat /\ start[c] \in Nat
    BY <2>3, PlannerAssumption DEF IInv, TypeOK
  <2> QED
    BY <2>2, <2>3, <2>4
<1>3. /\ free'[a] = Min({Total[a], free[a] + s})
      /\ free'[b] = Max({0, free[b] - s})
      /\ \A c \in Branch \ {a, b} : free'[c] = free[c]
  BY <1>1, <1>2 DEF Apply, IInv, TypeOK
<1> HIDE DEF a, s
<1>4. free'[a] <= free[a] + s /\ free'[a] \in Int
  <2>1. Total[a] \in Int /\ free[a] + s \in Int
    BY <1>1, <1>2
  <2>2. /\ Min({Total[a], free[a] + s}) \in {Total[a], free[a] + s}
        /\ Min({Total[a], free[a] + s}) <= free[a] + s
    BY <2>1, MinPair, Zenon
  <2> QED
    BY <1>3, <2>1, <2>2
<1>5. free'[b] = free[b] - s
  <2>1. 0 \in Int /\ free[b] - s \in Int
    BY <1>1, <1>2
  <2>2. /\ Max({0, free[b] - s}) \in {0, free[b] - s}
        /\ Max({0, free[b] - s}) >= free[b] - s /\ Max({0, free[b] - s}) >= 0
    BY <2>1, MaxPair, Zenon
  <2> QED
    BY <1>2, <1>3, <2>1, <2>2
<1>6. SUFFICES ASSUME NEW c \in Branch
               PROVE  LET left == start'[c] + Bytes(plan', OutOf(plan', c))
                                            - Bytes(plan', Into(plan', c))
                      IN  free'[c] <= left /\ (c \in HDD => free'[c] = left)
  BY DEF SpaceInv, Bytes, Weights, Into, OutOf
<1>7. /\ In(c) \in Nat /\ Out(c) \in Nat
      /\ Bytes(plan', Into(plan', c)) = IF b = c THEN s + In(c) ELSE In(c)
      /\ Bytes(plan', OutOf(plan', c)) = IF a = c THEN s + Out(c) ELSE Out(c)
  BY <1>1, IntoAppend DEF a, s
<1>8. free[c] <= start[c] + Out(c) - In(c) /\ (c \in HDD => free[c] = start[c] + Out(c) - In(c))
  BY DEF SpaceInv
<1> HIDE DEF In, Out
<1>9. CASE c = a
  <2>1. /\ Bytes(plan', Into(plan', c)) = In(c)
        /\ Bytes(plan', OutOf(plan', c)) = s + Out(c)
        /\ start' = start /\ c \notin HDD
    BY <1>1, <1>2, <1>7, <1>9
  <2>2. free'[c] <= free[c] + s /\ free[c] \in Int /\ free'[c] \in Int /\ s \in Int
        /\ start[c] \in Int
    BY <1>1, <1>2, <1>4, <1>9
  <2> QED
    BY <1>7, <1>8, <2>1, <2>2
<1>10. CASE c = b
  BY <1>1, <1>2, <1>5, <1>7, <1>8, <1>10
<1>11. CASE c # a /\ c # b
  BY <1>1, <1>2, <1>3, <1>7, <1>8, <1>11
<1> QED
  BY <1>9, <1>10, <1>11

LEMMA SpaceNext == IInv /\ SpaceInv /\ [Next]_vars => SpaceInv'
<1>1. SpaceInv /\ Skips => SpaceInv'
  BY DEF Skips, simulated, SpaceInv, Bytes, Weights, Into, OutOf
<1> QED
  BY <1>1, NextEffect, SpaceApply DEF Plans

(* Sizes and what files really free and take differ by holes and slack.    *)
LEMMA MovedBounds ==
  ASSUME plan \in Seq(Moves), NEW S \in SUBSET DOMAIN plan
  PROVE  /\ Moved(Size, S) = Bytes(plan, S)
         /\ Moved(Size, S) <= Moved(Frees, S) + Moved(Hole, S)
         /\ Moved(Takes, S) <= Moved(Size, S) + Moved(Slack, S)
         /\ \A w \in {Size, Frees, Takes, Hole, Slack} : Moved(w, S) \in Nat
<1> DEFINE W(w) == [i \in DOMAIN plan |-> w[plan[i].file]]
<1>1. IsFiniteSet(S)
  BY BytesType
<1>2. \A f \in Files : /\ Size[f] \in Nat /\ Frees[f] \in Nat /\ Takes[f] \in Nat
                       /\ Hole[f] \in Nat /\ Size[f] <= Frees[f] + Hole[f]
                       /\ Slack[f] \in Nat /\ Takes[f] <= Size[f] + Slack[f]
  <2> TAKE f \in Files
  <2>1. Size[f] \in Nat /\ Frees[f] \in Nat /\ Takes[f] \in Nat
    BY PlannerAssumption
  <2> DEFINE h == Size[f] - Frees[f]
             k == Takes[f] - Size[f]
  <2>2. h \in Int /\ k \in Int
    BY <2>1
  <2>3. Hole[f] = Max({0, h}) /\ Slack[f] = Max({0, k})
    BY DEF Hole, Slack
  <2>4. Size[f] = Frees[f] + h /\ Takes[f] = Size[f] + k
    BY <2>1
  <2> HIDE DEF h, k
  <2>5. /\ Max({0, h}) \in {0, h} /\ Max({0, h}) >= 0 /\ Max({0, h}) >= h
        /\ Max({0, k}) \in {0, k} /\ Max({0, k}) >= 0 /\ Max({0, k}) >= k
    BY <2>2, MaxPair, 0 \in Int, Zenon
  <2> QED
    BY <2>1, <2>2, <2>3, <2>4, <2>5
<1>3. \A i \in S : plan[i].file \in Files
  <2>1. \A i \in DOMAIN plan : plan[i] \in Moves
    OBVIOUS
  <2> QED
    BY <2>1 DEF Moves
<1>4. \A i \in S : /\ W(Size)[i] \in Nat /\ W(Frees)[i] \in Nat /\ W(Takes)[i] \in Nat
                   /\ W(Hole)[i] \in Nat /\ W(Size)[i] <= W(Frees)[i] + W(Hole)[i]
                   /\ W(Slack)[i] \in Nat /\ W(Takes)[i] <= W(Size)[i] + W(Slack)[i]
  BY <1>2, <1>3
<1> HIDE DEF W
<1>5. /\ SumFunctionOnSet(W(Size), S)
            <= SumFunctionOnSet(W(Frees), S) + SumFunctionOnSet(W(Hole), S)
      /\ SumFunctionOnSet(W(Takes), S)
            <= SumFunctionOnSet(W(Size), S) + SumFunctionOnSet(W(Slack), S)
  BY <1>1, <1>4, SumBounded
<1>6. /\ SumFunctionOnSet(W(Size), S) \in Nat /\ SumFunctionOnSet(W(Frees), S) \in Nat
      /\ SumFunctionOnSet(W(Takes), S) \in Nat /\ SumFunctionOnSet(W(Hole), S) \in Nat
      /\ SumFunctionOnSet(W(Slack), S) \in Nat
  BY <1>1, <1>4, SumNat
<1> QED
  BY <1>5, <1>6 DEF Moved, W, Bytes, Weights

(* The simulation promises no space that executing the plan would not      *)
(* leave but what sparse files do not free and last blocks take, for plans *)
(* of any length; an HDD is charged every byte of the sizes it receives.   *)
THEOREM SpaceSafety == Spec => []DriftBounded
<1>1. IInv /\ SpaceInv => DriftBounded
  <2> SUFFICES ASSUME IInv, SpaceInv, NEW b \in Branch
               PROVE  LET real == start[b] + Moved(Frees, OutOf(plan, b))
                                           - Moved(Takes, Into(plan, b))
                      IN  /\ free[b] <= real + Moved(Hole, OutOf(plan, b))
                                             + Moved(Slack, Into(plan, b))
                          /\ b \in HDD => free[b] = start[b] - Moved(Size, Into(plan, b))
                          /\ free[b] + used[b] <= Total[b]
    BY DEF DriftBounded, Into, OutOf
  <2>1. free[b] + used[b] <= Total[b] /\ free[b] \in Nat /\ start[b] \in Nat
    BY PlannerAssumption DEF IInv, TypeOK, CapacityInv
  <2>2. plan \in Seq(Moves)
    BY DEF IInv, TypeOK
  <2>3. Into(plan, b) \in SUBSET DOMAIN plan /\ OutOf(plan, b) \in SUBSET DOMAIN plan
    BY DEF Into, OutOf
  <2> DEFINE S == OutOf(plan, b)
             T == Into(plan, b)
  <2>4. /\ Moved(Size, S) <= Moved(Frees, S) + Moved(Hole, S)
        /\ Moved(Takes, T) <= Moved(Size, T) + Moved(Slack, T)
        /\ Moved(Size, S) \in Nat /\ Moved(Frees, S) \in Nat /\ Moved(Hole, S) \in Nat
        /\ Moved(Size, T) \in Nat /\ Moved(Takes, T) \in Nat /\ Moved(Slack, T) \in Nat
    BY <2>2, <2>3, MovedBounds
  <2>5. /\ free[b] <= start[b] + Moved(Size, S) - Moved(Size, T)
        /\ b \in HDD => free[b] = start[b] + Moved(Size, S) - Moved(Size, T)
    BY <2>2, <2>3, MovedBounds DEF SpaceInv
  <2>6. b \in HDD => Moved(Size, S) = 0
    <3> SUFFICES ASSUME b \in HDD PROVE S = {}
      <4>1. Moved(Size, {}) = 0
        BY SumEmpty DEF Moved
      <4> QED
        BY <4>1
    <3>1. \A i \in DOMAIN plan : plan[i] \in Moves
      BY <2>2
    <3>2. \A i \in DOMAIN plan : Home[plan[i].file] \in SSD
      BY <3>1, PlannerAssumption DEF Moves
    <3> QED
      BY <3>2, PlannerAssumption DEF OutOf
  <2> HIDE DEF S, T
  <2>7. /\ free[b] <= start[b] + Moved(Frees, S) - Moved(Takes, T)
                      + Moved(Hole, S) + Moved(Slack, T)
        /\ b \in HDD => free[b] = start[b] - Moved(Size, T)
    BY <2>1, <2>4, <2>5, <2>6
  <2> QED
    BY <2>1, <2>7 DEF S, T
<1> QED
  BY <1>1, Invariance, SpaceInit, SpaceNext, PTL DEF Spec

-----------------------------------------------------------------------------
(* Among finitely many branches one is the fullest, the first of several.  *)
LEMMA FullestExists ==
  ASSUME TypeOK, NEW S \in SUBSET SSD, S # {}
  PROVE  \E a \in S : Fullest(a, S)
<1> DEFINE R == {r \in S \X S : Fuller(r[1], r[2])}
<1>1. /\ \A b \in S : Filled(b) \in Nat /\ Capacity(b) \in Nat \ {0}
      /\ IsFiniteSet(S) /\ S \subseteq Nat
  <2>1. \A b \in S : used[b] \in Nat /\ Total[b] \in Nat
    BY PlannerAssumption DEF TypeOK, Branch
  <2>2. \A b \in S : Filled(b) \in Nat /\ Capacity(b) \in Nat \ {0}
    BY <2>1 DEF Filled, Capacity
  <2>3. IsFiniteSet(S) /\ S \subseteq Nat
    BY FS_Subset, PlannerAssumption
  <2> QED
    BY <2>2, <2>3
<1>2. ASSUME NEW a \in S, NEW b \in S
      PROVE  /\ Filled(a) * Capacity(b) \in Nat
             /\ Fuller(a, b) <=> ~(Filled(b) * Capacity(a) >= Filled(a) * Capacity(b))
  BY <1>1 DEF Fuller
<1>3. ASSUME NEW a \in S, NEW b \in S, NEW c \in S, ~Fuller(a, b), ~Fuller(b, c)
      PROVE  ~Fuller(a, c)
  BY <1>1, <1>2, <1>3, Fractions
<1>4. \A a, b \in S : Fuller(a, b) => ~Fuller(b, a)
  BY <1>2
<1>5. \A a, b \in S : Fuller(a, b) <=> <<a, b>> \in R
  OBVIOUS
<1> HIDE DEF R
<1>6. PICK a \in S : \A b \in S : <<a, b>> \in R \/ (<<b, a>> \notin R /\ a <= b)
  BY <1>1, <1>3, <1>4, <1>5, FirstOfBest
<1> QED
  BY <1>5, <1>6 DEF Fullest

(* Planning ends only when no SSD over the watermark has a file left.      *)
THEOREM ExhaustiveSafety == Spec => []Exhaustive
<1>1. Init => Exhaustive
  BY DEF Init, Exhaustive
<1>2. ASSUME IInv, Exhaustive, [Next]_vars PROVE Exhaustive'
  <2>1. CASE StopSpilling
    <3>1. SUFFICES ASSUME HDD # {}, \A b \in SSD : AtLeast(b, Lower),
                          NEW a \in SSD, Over(a, Watermark), HasNext(a)
                   PROVE  FALSE
      BY <2>1 DEF StopSpilling, simulated, Exhaustive, AtLeast, Over, HasNext, Filled, Capacity
    <3> DEFINE S == {b \in SSD : Over(b, Watermark) /\ HasNext(b)}
    <3>2. S \in SUBSET SSD /\ S # {}
      BY <3>1
    <3>3. PICK b \in S : Fullest(b, S)
      BY <1>2, <3>2, FullestExists DEF IInv
    <3>4. Spilling(b)
      BY <2>1, <3>1, <3>3 DEF StopSpilling, Spilling
    <3> QED
      BY <2>1, <3>4 DEF StopSpilling
  <2>2. CASE UNCHANGED vars
    BY <1>2, <2>2 DEF vars, simulated, Exhaustive, AtLeast, Over, HasNext, Filled, Capacity
  <2>3. CASE Next /\ ~StopSpilling
    BY <2>3 DEF Next, Balance, PassOver, Spill, Leave, StopBalancing, Balancing, Spilling,
                Exhaustive
  <2> QED
    BY <1>2, <2>1, <2>2, <2>3
<1> QED
  BY <1>1, <1>2, Invariance, PTL DEF Spec

-----------------------------------------------------------------------------
(* One question to a policy: which policies may answer None, and what the  *)
(* most-shared-path policies prefer.                                       *)

(* What an answer rests on.                                                *)
Kept(p, room, d) ==
    CASE p \in ExistingPath -> {b \in room : DirExists(b, d)}
      [] p \in MostShared -> {b \in room : ~\E c \in room : SharesMore(c, b, d)}
      [] OTHER -> room

AnswerOK ==
    /\ policy \in Policies \cup {"none"}
    /\ free \in [Branches -> Nat] /\ used \in [Branches -> Nat]
    /\ dir \in Names /\ size \in Nat
    /\ policy # "none" => answer = Preferred(policy, Kept(policy, Room, dir), dir)

LEMMA ChoiceKept ==
  ASSUME NEW p \in Policies
  PROVE  ChooseDestination(p, Branches, dir, size, Minimum) = Preferred(p, Kept(p, Room, dir), dir)
BY DEF ChooseDestination, Kept, Room

THEOREM AnswerCorrect == ChoiceSpec => []AnswerOK
<1>1. ChoiceInit => AnswerOK
  <2> SUFFICES ASSUME ChoiceInit PROVE AnswerOK
    OBVIOUS
  <2>1. free \in [Branches -> Nat] /\ size \in Nat /\ dir \in Names /\ policy = "none"
    BY ChoiceAssumption DEF ChoiceInit
  <2>2. ASSUME NEW b \in Branches PROVE Max({0, Total[b] - free[b]}) \in Nat
    <3>1. Total[b] - free[b] \in Int
      BY <2>1, ChoiceAssumption
    <3>2. \E k \in {0, Total[b] - free[b]} : \A l \in {0, Total[b] - free[b]} : k >= l
      BY <3>1
    <3> QED
      BY <3>1, <3>2 DEF Max
  <2> QED
    BY <2>1, <2>2 DEF ChoiceInit, AnswerOK
<1>2. AnswerOK /\ [ChoiceNext]_choice => AnswerOK'
  <2> SUFFICES ASSUME AnswerOK, [ChoiceNext]_choice PROVE AnswerOK'
    OBVIOUS
  <2>0. ASSUME UNCHANGED <<free, used, dirs, dir, size>>, NEW p
        PROVE  (Preferred(p, Kept(p, Room, dir), dir))' = Preferred(p, Kept(p, Room, dir), dir)
    BY <2>0 DEF Preferred, Kept, Room, SharesMore, Shares, DirExists, Weighted, NoEarlier,
                Fuller, Filled, Capacity
  <2>1. ASSUME NEW p \in Policies, Ask(p) PROVE AnswerOK'
    <3>1. answer' = Preferred(p, Kept(p, Room, dir), dir)
      BY <2>1, ChoiceKept DEF Ask
    <3>2. UNCHANGED <<free, used, dirs, dir, size>> /\ policy' = p
      BY <2>1 DEF Ask
    <3>3. (Preferred(p, Kept(p, Room, dir), dir))' = Preferred(p, Kept(p, Room, dir), dir)
      BY <2>0, <3>2
    <3>4. answer' = (Preferred(policy, Kept(policy, Room, dir), dir))'
      BY <3>1, <3>2, <3>3
    <3> QED
      BY <3>2, <3>4 DEF AnswerOK
  <2>2. ASSUME UNCHANGED choice PROVE AnswerOK'
    <3>1. UNCHANGED <<free, used, dirs, dir, size, policy, answer>>
      BY <2>2 DEF choice
    <3>2. (Preferred(policy, Kept(policy, Room, dir), dir))'
              = Preferred(policy, Kept(policy, Room, dir), dir)
      BY <2>0, <3>1
    <3> QED
      BY <3>1, <3>2 DEF AnswerOK
  <2> QED
    BY <2>1, <2>2 DEF ChoiceNext
<1> QED
  BY <1>1, <1>2, PTL DEF ChoiceSpec

-----------------------------------------------------------------------------
(* A score is highest somewhere, and there first in the order of branches. *)
LEMMA BestFound ==
  ASSUME NEW S, S # {}, IsFiniteSet(S), S \subseteq Nat, NEW score, \A b \in S : score[b] \in Int
  PROVE  Best(S, score) # {}
<1> DEFINE R == {r \in S \X S : score[r[1]] > score[r[2]]}
<1>1. \A a, b \in S : score[a] > score[b] <=> <<a, b>> \in R
  OBVIOUS
<1> HIDE DEF R
<1>2. /\ \A a, b \in S : <<a, b>> \in R => <<b, a>> \notin R
      /\ \A a, b, c \in S : <<a, b>> \notin R /\ <<b, c>> \notin R => <<a, c>> \notin R
  BY <1>1
<1>3. PICK a \in S : \A b \in S : <<a, b>> \in R \/ (<<b, a>> \notin R /\ a <= b)
  BY <1>2, FirstOfBest
<1>4. ASSUME NEW b \in S PROVE score[a] > score[b] \/ (score[a] = score[b] /\ a <= b)
  <2>1. score[a] \in Int /\ score[b] \in Int
    OBVIOUS
  <2>2. score[a] > score[b] \/ (~(score[b] > score[a]) /\ a <= b)
    BY <1>1, <1>3
  <2> QED
    BY <2>1, <2>2
<1> QED
  BY <1>4 DEF Best

(* The least used percentage, too, although percentages of different       *)
(* devices are compared by cross-multiplication.                           *)
LEMMA LeastFilledFound ==
  ASSUME AnswerOK, NEW S \in SUBSET Branches, S # {}
  PROVE  \E b \in S : \A c \in S : NoEarlier(c, b)
<1> DEFINE R == {r \in S \X S : Fuller(r[2], r[1])}
<1>1. /\ \A b \in S : Filled(b) \in Nat /\ Capacity(b) \in Nat \ {0}
      /\ IsFiniteSet(S) /\ S \subseteq Nat
  <2>1. \A b \in S : used[b] \in Nat /\ Total[b] \in Nat
    BY ChoiceAssumption DEF AnswerOK
  <2>2. \A b \in S : Filled(b) \in Nat /\ Capacity(b) \in Nat \ {0}
    BY <2>1 DEF Filled, Capacity
  <2>3. IsFiniteSet(S) /\ S \subseteq Nat
    BY FS_Subset, ChoiceAssumption
  <2> QED
    BY <2>2, <2>3
<1>2. ASSUME NEW a \in S, NEW b \in S
      PROVE  /\ Filled(a) * Capacity(b) \in Nat
             /\ Fuller(a, b) <=> ~(Filled(b) * Capacity(a) >= Filled(a) * Capacity(b))
  BY <1>1 DEF Fuller
<1>3. ASSUME NEW a \in S, NEW b \in S, NEW c \in S, ~Fuller(a, b), ~Fuller(b, c)
      PROVE  ~Fuller(a, c)
  BY <1>1, <1>2, <1>3, Fractions
<1>4. \A a, b \in S : Fuller(a, b) => ~Fuller(b, a)
  BY <1>2
<1>5. \A a, b \in S : Fuller(b, a) <=> <<a, b>> \in R
  OBVIOUS
<1> HIDE DEF R
<1>6. /\ \A a, b \in S : <<a, b>> \in R => <<b, a>> \notin R
      /\ \A a, b, c \in S : <<a, b>> \notin R /\ <<b, c>> \notin R => <<a, c>> \notin R
  BY <1>3, <1>4, <1>5
<1>7. PICK a \in S : \A b \in S : <<a, b>> \in R \/ (<<b, a>> \notin R /\ a <= b)
  BY <1>1, <1>6, FirstOfBest
<1> QED
  BY <1>5, <1>7 DEF NoEarlier

(* Every policy prefers some of the branches it is left with.              *)
LEMMA PreferredFound ==
  ASSUME AnswerOK, NEW p \in Policies, NEW S \in SUBSET Branches, S # {}
  PROVE  Preferred(p, S, dir) # {}
<1>1. IsFiniteSet(S) /\ S \subseteq Nat
  BY FS_Subset, ChoiceAssumption
<1>2. \A b \in S : free[b] \in Nat /\ used[b] \in Nat
  BY DEF AnswerOK
<1>3. CASE p \in {"ff", "all", "epff", "epall"}
  <2> DEFINE score == [b \in S |-> 0]
  <2>1. \A b \in S : score[b] \in Int
    OBVIOUS
  <2> HIDE DEF score
  <2>2. Best(S, score) # {}
    BY <1>1, <2>1, BestFound
  <2> QED
    BY <1>3, <2>2 DEF score, Preferred
<1>4. CASE p \in {"rand", "eprand"}
  BY <1>4 DEF Preferred
<1>5. CASE p \in {"pfrd", "eppfrd", "msppfrd"}
  <2>1. Weighted(S) # {}
    BY <1>2 DEF Weighted
  <2> QED
    BY <1>5, <2>1 DEF Preferred
<1>6. CASE p \in {"lfs", "eplfs", "msplfs"}
  <2> DEFINE score == [b \in S |-> -free[b]]
  <2>1. \A b \in S : score[b] \in Int
    BY <1>2
  <2> HIDE DEF score
  <2>2. Best(S, score) # {}
    BY <1>1, <2>1, BestFound
  <2> QED
    BY <1>6, <2>2 DEF score, Preferred
<1>7. CASE p \in {"mfs", "epmfs", "mspmfs"}
  <2> DEFINE score == free
  <2>1. \A b \in S : score[b] \in Int
    BY <1>2
  <2> HIDE DEF score
  <2>2. Best(S, score) # {}
    BY <1>1, <2>1, BestFound
  <2> QED
    BY <1>7, <2>2 DEF score, Preferred
<1>8. CASE p \in {"lus", "eplus", "msplus"}
  <2> DEFINE score == [b \in S |-> -used[b]]
  <2>1. \A b \in S : score[b] \in Int
    BY <1>2
  <2> HIDE DEF score
  <2>2. Best(S, score) # {}
    BY <1>1, <2>1, BestFound
  <2> QED
    BY <1>8, <2>2 DEF score, Preferred
<1>9. CASE p = "lup"
  <2>1. {b \in S : \A c \in S : NoEarlier(c, b)} # {}
    BY LeastFilledFound
  <2> QED
    BY <1>9, <2>1 DEF Preferred
<1>10. CASE p = "newest"
  <2>1. \A b \in S : Newest(b, dir) \in Int
    BY ChoiceAssumption DEF Newest
  <2>2. Best(S, [b \in S |-> Newest(b, dir)]) # {}
    BY <1>1, <2>1, BestFound
  <2> QED
    BY <1>10, <2>2 DEF Preferred
<1> QED
  BY <1>3, <1>4, <1>5, <1>6, <1>7, <1>8, <1>9, <1>10 DEF Policies, ExistingPath, MostShared

-----------------------------------------------------------------------------
(* A branch shares all directories above one that it shares: what branches *)
(* share is ordered by inclusion.                                          *)
LEMMA SharingOrdered ==
  ASSUME NEW d, Len(d) \in Nat, NEW a, NEW b, NEW c,
         SharesMore(a, b, d), SharesMore(b, c, d)
  PROVE  SharesMore(a, c, d)
<1>1. PICK m \in 1..Len(d) : Shares(a, d, m) /\ ~Shares(b, d, m)
  BY DEF SharesMore
<1>2. PICK n \in 1..Len(d) : Shares(b, d, n) /\ ~Shares(c, d, n)
  BY DEF SharesMore
<1>3. n < m
  BY <1>1, <1>2 DEF Shares
<1>4. Shares(a, d, n)
  BY <1>1, <1>3 DEF Shares
<1> QED
  BY <1>2, <1>4 DEF SharesMore

LEMMA DirType == \A d \in Names : Len(d) \in Nat /\ (d # <<>> => Len(d) \in 1..Len(d)
                                                              /\ SubSeq(d, 1, Len(d)) = d)
<1> SUFFICES ASSUME NEW d \in Names
             PROVE  Len(d) \in Nat /\ (d # <<>> => Len(d) \in 1..Len(d)
                                                   /\ SubSeq(d, 1, Len(d)) = d)
  OBVIOUS
<1>1. PICK T : d \in Seq(T)
  BY ChoiceAssumption
<1> QED
  BY <1>1

LEMMA KeptFound ==
  ASSUME AnswerOK, NEW p \in Policies \ ExistingPath, Room # {}
  PROVE  Kept(p, Room, dir) # {} /\ Kept(p, Room, dir) \in SUBSET Branches
<1> DEFINE R == {r \in Room \X Room : SharesMore(r[1], r[2], dir)}
<1>1. Room \in SUBSET Branches /\ IsFiniteSet(Room)
  BY FS_Subset, ChoiceAssumption DEF Room
<1>2. \A a, b \in Room : SharesMore(a, b, dir) <=> <<a, b>> \in R
  OBVIOUS
<1> HIDE DEF R
<1>3. /\ \A a \in Room : <<a, a>> \notin R
      /\ \A a, b, c \in Room : <<a, b>> \in R /\ <<b, c>> \in R => <<a, c>> \in R
  <2>1. \A a \in Room : ~SharesMore(a, a, dir)
    BY DEF SharesMore
  <2>2. Len(dir) \in Nat
    BY DirType DEF AnswerOK
  <2> QED
    BY <1>2, <2>1, <2>2, SharingOrdered
<1>4. PICK a \in Room : \A b \in Room : <<b, a>> \notin R
  BY <1>1, <1>3, Unbeaten
<1>5. \A b \in Room : ~SharesMore(b, a, dir)
  BY <1>2, <1>4
<1> QED
  BY <1>1, <1>5 DEF Kept

(* Only an existing-path policy answers None although a branch has room.   *)
THEOREM RoomSafety == ChoiceSpec => []FindsRoom
<1>1. AnswerOK => FindsRoom
  <2> SUFFICES ASSUME AnswerOK, policy \in Policies \ ExistingPath, Room # {} PROVE answer # {}
    BY DEF FindsRoom
  <2>1. policy # "none"
    BY DEF Policies, ExistingPath, MostShared
  <2>2. answer = Preferred(policy, Kept(policy, Room, dir), dir)
    BY <2>1 DEF AnswerOK
  <2>3. Kept(policy, Room, dir) # {} /\ Kept(policy, Room, dir) \in SUBSET Branches
    BY KeptFound
  <2> QED
    BY <2>2, <2>3, PreferredFound
<1> QED
  BY <1>1, AnswerCorrect, PTL

-----------------------------------------------------------------------------
LEMMA PreferredKept ==
  ASSUME NEW p \in Policies, NEW S
  PROVE  Preferred(p, S, dir) \subseteq S
BY DEF Preferred, Best, Weighted, Policies, ExistingPath, MostShared

(* Where some branch with room has the parent, sharing most means having   *)
(* the parent.                                                             *)
LEMMA SharingParent ==
  ASSUME AnswerOK, NEW c \in Room, DirExists(c, dir), NEW p \in MostShared
  PROVE  Kept(p, Room, dir) = {b \in Room : DirExists(b, dir)}
<1>1. Kept(p, Room, dir) = {b \in Room : ~\E a \in Room : SharesMore(a, b, dir)}
  BY DEF Kept, MostShared, ExistingPath
<1>2. Len(dir) \in Nat
      /\ (dir # <<>> => Len(dir) \in 1..Len(dir) /\ SubSeq(dir, 1, Len(dir)) = dir)
  BY DirType DEF AnswerOK
<1>3. ASSUME NEW b \in Room, DirExists(b, dir), NEW a \in Room PROVE ~SharesMore(a, b, dir)
  <2>1. SUFFICES ASSUME NEW n \in 1..Len(dir) PROVE Shares(b, dir, n)
    BY DEF SharesMore
  <2>2. dir # <<>>
    OBVIOUS
  <2>3. Len(dir) \in n..Len(dir) /\ Len(dir) > 0
    BY <1>2, <2>2
  <2> QED
    BY <1>2, <1>3, <2>2, <2>3 DEF Shares
<1>4. ASSUME NEW b \in Room, ~SharesMore(c, b, dir) PROVE DirExists(b, dir)
  <2>1. CASE dir = <<>>
    BY <2>1 DEF DirExists
  <2>2. CASE dir # <<>>
    <3>0. Len(dir) \in Len(dir)..Len(dir) /\ Len(dir) > 0
      BY <1>2, <2>2
    <3>1. Shares(c, dir, Len(dir))
      BY <1>2, <2>2, <3>0 DEF Shares
    <3>2. Shares(b, dir, Len(dir))
      BY <1>2, <1>4, <2>2, <3>1 DEF SharesMore
    <3>3. PICK m \in Len(dir)..Len(dir) : DirExists(b, SubSeq(dir, 1, m))
      BY <3>2 DEF Shares
    <3>4. m = Len(dir)
      BY <1>2
    <3> QED
      BY <1>2, <2>2, <3>3, <3>4
  <2> QED
    BY <2>1, <2>2
<1> QED
  BY <1>1, <1>3, <1>4

(* Each most-shared-path policy answers as its existing-path twin where    *)
(* the parent exists, and never a branch that shares less.                 *)
THEOREM SharedSafety == ChoiceSpec => []SharedMeansExisting
<1>1. ASSUME AnswerOK PROVE SharedMeansExisting
  <2>1. ASSUME policy \in MostShared, NEW c \in Room, DirExists(c, dir)
        PROVE  /\ \A b \in answer : DirExists(b, dir)
               /\ answer = ChooseDestination(Twin(policy), Branches, dir, size, Minimum)
    <3>1. /\ policy \in Policies /\ Twin(policy) \in Policies \cap ExistingPath
          /\ answer = Preferred(policy, Kept(policy, Room, dir), dir)
      BY <1>1, <2>1 DEF AnswerOK, Policies, MostShared, ExistingPath, Twin
    <3>2. Kept(policy, Room, dir) = {b \in Room : DirExists(b, dir)}
      BY <1>1, <2>1, SharingParent
    <3>3. \A b \in answer : DirExists(b, dir)
      BY <3>1, <3>2, PreferredKept
    <3>4. ChooseDestination(Twin(policy), Branches, dir, size, Minimum)
              = Preferred(Twin(policy), {b \in Room : DirExists(b, dir)}, dir)
      <4>1. \A p \in ExistingPath : Kept(p, Room, dir) = {b \in Room : DirExists(b, dir)}
        BY DEF Kept, ExistingPath, MostShared
      <4> QED
        BY <3>1, <4>1, ChoiceKept
    <3>5. \A S : Preferred(Twin(policy), S, dir) = Preferred(policy, S, dir)
      BY <2>1 DEF Preferred, Twin, MostShared
    <3> QED
      BY <3>1, <3>2, <3>3, <3>4, <3>5
  <2>2. ASSUME policy \in MostShared, NEW b \in answer, NEW c \in Room, NEW n \in 1..Len(dir),
               DirExists(c, SubSeq(dir, 1, n))
        PROVE  \E m \in n..Len(dir) : DirExists(b, SubSeq(dir, 1, m))
    <3>1. policy \in Policies /\ answer = Preferred(policy, Kept(policy, Room, dir), dir)
      BY <1>1, <2>2 DEF AnswerOK, Policies, MostShared, ExistingPath
    <3>2. b \in Kept(policy, Room, dir)
      BY <2>2, <3>1, PreferredKept
    <3>3. ~SharesMore(c, b, dir)
      BY <2>2, <3>2 DEF Kept, MostShared, ExistingPath
    <3>4. n > 0 /\ n \in n..Len(dir)
      BY <1>1, <2>2, DirType DEF AnswerOK
    <3>5. Shares(c, dir, n)
      BY <2>2, <3>4 DEF Shares
    <3>6. Shares(b, dir, n)
      BY <2>2, <3>3, <3>5 DEF SharesMore
    <3> QED
      BY <3>6 DEF Shares
  <2> QED
    BY <2>1, <2>2 DEF SharedMeansExisting
<1> QED
  BY <1>1, AnswerCorrect, PTL
=============================================================================
