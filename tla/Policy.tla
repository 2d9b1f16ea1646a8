------------------------------- MODULE Policy -------------------------------
(***************************************************************************)
(* policy.choose_destination: the mergerfs create policies as the mover    *)
(* uses them, over the simulated capacity of the branches.  A branch is    *)
(* its order in the pool.  A random choice is a set of several answers;    *)
(* the empty set is the answer None.                                       *)
(***************************************************************************)
EXTENDS Integers, Sequences

CONSTANTS Total,     \* total_bytes of each branch
          DiskDirs,  \* directories on each branch, as sequences of names
          DirTime    \* mtime of those directories and of the branch itself

VARIABLES free,      \* simulated_free_bytes
          used,      \* simulated_used_bytes
          dirs       \* planned_dirs

ExistingPath == {"epall", "epff", "eplfs", "eplus", "epmfs", "eppfrd", "eprand"}
MostShared   == {"msplfs", "msplus", "mspmfs", "msppfrd"}
Policies     == ExistingPath \cup MostShared
                \cup {"all", "ff", "lfs", "lup", "lus", "mfs", "newest", "pfrd", "rand"}

(* simulated_used_percent, compared by cross-multiplication: a branch      *)
(* without capacity counts as empty.                                       *)
Filled(b)      == IF Total[b] = 0 THEN 0 ELSE used[b]
Capacity(b)    == IF Total[b] = 0 THEN 1 ELSE Total[b]
Fuller(b, c)   == Filled(b) * Capacity(c) > Filled(c) * Capacity(b)
Over(b, p)     == 100 * Filled(b) > p * Capacity(b)
AtLeast(b, p)  == 100 * Filled(b) >= p * Capacity(b)

(* b comes no earlier than c in the order of min(..., key=(percent, order)).*)
NoEarlier(b, c) == Fuller(b, c) \/ (~Fuller(c, b) /\ c <= b)

(* Mutant: a directory planned on any branch counts.                       *)
DirExistsAnywhere(b, d) ==
    d = <<>> \/ d \in DiskDirs[b] \/ \E c \in DOMAIN dirs : d \in dirs[c]

DirExists(b, d) == d = <<>> \/ d \in dirs[b] \/ d \in DiskDirs[b]

(* Mutant: the walk up from the parent does not try the parent itself.     *)
SharesFromAbove(b, d, n) ==
    \E m \in n..(Len(d) - 1) : m > 0 /\ DirExists(b, SubSeq(d, 1, m))

Shares(b, d, n) == \E m \in n..Len(d) : m > 0 /\ DirExists(b, SubSeq(d, 1, m))

(* c shares a deeper directory with d than b does (_shared_depth).         *)
SharesMore(c, b, d) == \E n \in 1..Len(d) : Shares(c, d, n) /\ ~Shares(b, d, n)

(* Mutant: no answer when every weight is zero.                            *)
WeightedNone(S) == {b \in S : free[b] > 0}

Weighted(S) == IF \A b \in S : free[b] <= 0 THEN S ELSE {b \in S : free[b] > 0}

Newest(b, d) == IF d = <<>> \/ d \in DiskDirs[b] THEN DirTime[b][d] ELSE -1

(* The branch of S with the highest score, the first of several.           *)
Best(S, score) == {b \in S : \A c \in S : \/ score[b] > score[c]
                                          \/ score[b] = score[c] /\ b <= c}

Preferred(policy, S, d) ==
    CASE policy \in {"ff", "all", "epff", "epall"} ->
            Best(S, [b \in S |-> 0])
      [] policy \in {"rand", "eprand"} -> S
      [] policy \in {"pfrd", "eppfrd", "msppfrd"} -> Weighted(S)
      [] policy \in {"lfs", "eplfs", "msplfs"} -> Best(S, [b \in S |-> -free[b]])
      [] policy \in {"mfs", "epmfs", "mspmfs"} -> Best(S, free)
      [] policy \in {"lus", "eplus", "msplus"} -> Best(S, [b \in S |-> -used[b]])
      [] policy = "lup" ->
            {b \in S : \A c \in S : NoEarlier(c, b)}
      [] policy = "newest" -> Best(S, [b \in S |-> Newest(b, d)])

(* Where a file of this size under directory d may go.                     *)
ChooseDestination(policy, branches, d, size, minimum) ==
    LET room == {b \in branches : free[b] - size >= minimum}
        kept == CASE policy \in ExistingPath -> {b \in room : DirExists(b, d)}
                  [] policy \in MostShared ->
                        {b \in room : ~\E c \in room : SharesMore(c, b, d)}
                  [] OTHER -> room
    IN  Preferred(policy, kept, d)
=============================================================================
