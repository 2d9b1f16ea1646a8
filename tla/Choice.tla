------------------------------- MODULE Choice -------------------------------
(***************************************************************************)
(* One call of policy.choose_destination, for every policy and every state *)
(* of a few branches: the policies against what config.example.toml says   *)
(* of them and against each other.                                         *)
(***************************************************************************)
EXTENDS Policy, FiniteSetsExt

CONSTANTS Branches,  \* branches the caller offers
          FreeBytes, \* bound: free bytes of a branch
          Names,     \* bound: directories
          Sizes,     \* bound: sizes of the file
          Minimum    \* minimum_free_bytes

ASSUME ChoiceAssumption ==
    /\ Branches \subseteq Nat /\ IsFiniteSet(Branches)
    /\ FreeBytes \subseteq Nat /\ Sizes \subseteq Nat /\ Minimum \in Nat
    /\ \A d \in Names : d \in Seq({d[n] : n \in DOMAIN d})
    /\ \A b \in Branches : /\ Total[b] \in Nat
                           /\ \A d \in DiskDirs[b] \cup {<<>>} : DirTime[b][d] \in Int

VARIABLES policy,    \* the arguments
          dir, size,
          answer     \* branches that may be chosen

choice == <<free, used, dirs, policy, dir, size, answer>>

ChoiceInit ==
    /\ policy = "none"
    /\ answer = {}
    /\ free \in [Branches -> FreeBytes]
    /\ used = [b \in Branches |-> Max({0, Total[b] - free[b]})]
    /\ \E d \in Names, c \in Branches :
          dirs = [b \in Branches |-> IF b = c THEN {d} \ {<<>>} ELSE {}]
    /\ dir \in Names
    /\ size \in Sizes

Ask(p) ==
    /\ policy = "none"
    /\ policy' = p
    /\ answer' = ChooseDestination(p, Branches, dir, size, Minimum)
    /\ UNCHANGED <<free, used, dirs, dir, size>>

ChoiceNext == \E p \in Policies : Ask(p)
ChoiceSpec == ChoiceInit /\ [][ChoiceNext]_choice

-----------------------------------------------------------------------------
Room == {b \in Branches : free[b] - size >= Minimum}

(* Only the existing-path policies may answer None although a branch has   *)
(* room: the others always find a place, also when every weight is zero.   *)
FindsRoom ==
    policy \in Policies \ ExistingPath /\ Room # {} => answer # {}

(* The existing-path policy with the same preference.                      *)
Twin(p) == CASE p = "msplfs"  -> "eplfs"
             [] p = "msplus"  -> "eplus"
             [] p = "mspmfs"  -> "epmfs"
             [] p = "msppfrd" -> "eppfrd"

(* "Most-shared-path variants prefer the branch sharing the deepest        *)
(* parent": where a branch with room has the parent itself each of them    *)
(* answers as its existing-path twin, and a branch that has the parent, or *)
(* a deeper part of it, never loses to one that has not.                   *)
SharedMeansExisting ==
    /\ policy \in MostShared /\ (\E b \in Room : DirExists(b, dir)) =>
          /\ \A b \in answer : DirExists(b, dir)
          /\ answer = ChooseDestination(Twin(policy), Branches, dir, size, Minimum)
    /\ policy \in MostShared /\ dir # <<>> =>
          \A b \in answer, c \in Room, n \in 1..Len(dir) :
              DirExists(c, SubSeq(dir, 1, n)) =>
                  \E m \in n..Len(dir) : DirExists(b, SubSeq(dir, 1, m))
=============================================================================
