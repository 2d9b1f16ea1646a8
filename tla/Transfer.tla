------------------------------ MODULE Transfer ------------------------------
(***************************************************************************)
(* transfer.execute_move, one system call or check at a time, over the     *)
(* files of the branches, while users, the configuration, a cancellation   *)
(* request, I/O errors and a power failure interfere.                      *)
(*                                                                         *)
(* A file is a sequence of chunks, an mtime and whether its contents would *)
(* survive a power failure.  A chunk is abstracted to the number of the    *)
(* write that produced it.  The partial file of a move is named for the    *)
(* destination and the process, so there is one per destination.           *)
(*                                                                         *)
(* Abstractions: the checks of a call that come before any file is touched *)
(* (lines 79-88) are one step, and so are a check of the cancellation      *)
(* event and the system call after it; a source that is replaced or        *)
(* removed while open is read as it is now, not as the open handle sees it.*)
(***************************************************************************)
EXTENDS Naturals, Sequences

CONSTANTS
    Moves,      \* calls of execute_move of one process
    Src,        \* source of each move
    Dst,        \* destination of each move
    Verify,     \* config.verification
    Env,        \* what may interfere
    MaxChunks,  \* bound: chunks of a file
    MaxWrites,  \* bound: writes by users
    Absent      \* no file there

Locations == {Src[i] : i \in Moves} \cup {Dst[i] : i \in Moves}
Targets   == {Dst[i] : i \in Moves}

ASSUME TransferAssumption ==
    /\ DOMAIN Src = Moves /\ DOMAIN Dst = Moves
    /\ \A i, j \in Moves : Src[i] # Dst[j] /\ (i # j => Src[i] # Src[j])
    /\ Env \subseteq {"cancel", "write", "quiet", "remove", "create", "exclude",
                      "link", "stale", "error", "crash"}
    /\ MaxChunks \in Nat \ {0}
    /\ MaxWrites \in Nat

File == [data : Seq(0..MaxWrites), mtime : 0..MaxWrites, synced : BOOLEAN]

ASSUME AbsentAssumption == Absent \notin File \cup [size : Nat, mtime : Nat]

VARIABLES
    pc,         \* next step of each call
    result,     \* how each call ended, or will end after its cleanup
    before,     \* size and mtime of the source when the call began
    digest,     \* chunks of the source hashed so far
    stuck,      \* history: calls that could not remove the partial file now there
    file,       \* contents of each source and destination name
    tmp,        \* contents of each destination's partial file
    durable,    \* destination names that would survive a power failure
    cancel,     \* the cancellation event
    excluded,   \* moves whose path the configuration excludes now
    linked,     \* moves whose source path has become a symlink
    up,         \* the machine runs
    writes,     \* writes by users so far
    orig,       \* history: contents the users last gave each move's source
    placed,     \* history: where the call has put the file
    late        \* history: interference after the last check for it

call    == <<pc, result, before, digest, stuck>>
disk    == <<file, tmp, durable>>
outside == <<cancel, excluded, linked, up, writes, orig, late>>
vars    == <<call, disk, outside, placed>>

Copying == {"open", "copy", "flush", "copystat", "recheck", "hash", "compare",
            "final", "replace", "sync", "unlink"}
Precheck == {"enter", "exists", "stat"}

TypeOK ==
    /\ pc \in [Moves -> {"idle", "cleanup", "ended"} \cup Precheck \cup Copying]
    /\ result \in [Moves -> {"none", "completed", "failed", "interrupted"}]
    /\ before \in [Moves -> [size : 0..MaxChunks, mtime : 0..MaxWrites] \cup {Absent}]
    /\ \A i \in Moves : digest[i] \in Seq(0..MaxWrites)
    /\ stuck \subseteq Moves
    /\ \A p \in Locations : file[p] = Absent \/ file[p] \in File
    /\ \A p \in Targets : tmp[p] = Absent \/ tmp[p] \in File
    /\ durable \subseteq Targets
    /\ cancel \in BOOLEAN
    /\ excluded \subseteq Moves
    /\ linked \subseteq Moves
    /\ up \in BOOLEAN
    /\ writes \in 0..MaxWrites
    /\ \A i \in Moves : orig[i] = Absent \/ orig[i] \in Seq(0..MaxWrites)
    /\ placed \in [Moves -> {"source", "both", "destination"}]
    /\ late \in [Moves -> SUBSET {"write", "create", "exclude", "link"}]

First == [k \in 1..MaxChunks |-> 0]
Empty == [data |-> <<>>, mtime |-> 0, synced |-> FALSE]

Init ==
    /\ pc = [i \in Moves |-> "idle"]
    /\ result = [i \in Moves |-> "none"]
    /\ before = [i \in Moves |-> Absent]
    /\ digest = [i \in Moves |-> <<>>]
    /\ stuck = {}
    /\ file = [p \in Locations |->
                  IF p \in Targets THEN Absent
                  ELSE [data |-> First, mtime |-> 0, synced |-> TRUE]]
    /\ \E old \in SUBSET (IF "stale" \in Env THEN Targets ELSE {}) :
          tmp = [p \in Targets |-> IF p \in old THEN Empty ELSE Absent]
    /\ durable = {}
    /\ cancel = FALSE
    /\ excluded = {}
    /\ linked = {}
    /\ up = TRUE
    /\ writes = 0
    /\ orig = [i \in Moves |-> First]
    /\ placed = [i \in Moves |-> "source"]
    /\ late = [i \in Moves |-> {}]

-----------------------------------------------------------------------------
(* Control of one call.                                                    *)

Stat(f) == [size |-> Len(f.data), mtime |-> f.mtime]

At(i, s)   == up /\ pc[i] = s
Goto(i, s) == pc' = [pc EXCEPT ![i] = s] /\ UNCHANGED result

(* Mutant: no handler removes the partial file.                            *)
AbortKeepingPartial(i, r) ==
    /\ pc' = [pc EXCEPT ![i] = "ended"]
    /\ result' = [result EXCEPT ![i] = r]
    /\ UNCHANGED <<before, digest, stuck, disk, placed>>

(* An exception before the try statement ends the call; inside it, the     *)
(* handler removes the partial file first.                                 *)
Abort(i, r) ==
    /\ pc' = [pc EXCEPT ![i] = IF @ \in Copying THEN "cleanup" ELSE "ended"]
    /\ result' = [result EXCEPT ![i] = r]
    /\ UNCHANGED <<before, digest, stuck, disk, placed>>

Cancelled(i) == cancel /\ Abort(i, "interrupted")

Begin(i) ==
    /\ At(i, "idle")
    /\ Goto(i, "enter")
    /\ UNCHANGED <<before, digest, stuck, disk, placed>>

Enter(i) ==
    /\ At(i, "enter")
    /\ \/ Cancelled(i)
       \/ /\ ~cancel
          /\ i \in excluded \cup linked \/ file[Src[i]] = Absent
          /\ Abort(i, "failed")
       \/ /\ ~cancel
          /\ i \notin excluded \cup linked
          /\ file[Src[i]] # Absent
          /\ Goto(i, "exists")
          /\ UNCHANGED <<before, digest, stuck, disk, placed>>

(* Mutant: the destination is not checked.                                 *)
CheckNothing(i) ==
    /\ At(i, "exists")
    /\ Goto(i, "stat")
    /\ UNCHANGED <<before, digest, stuck, disk, placed>>

CheckDestination(i) ==
    /\ At(i, "exists")
    /\ \/ file[Dst[i]] # Absent /\ Abort(i, "failed")
       \/ /\ file[Dst[i]] = Absent
          /\ Goto(i, "stat")
          /\ UNCHANGED <<before, digest, stuck, disk, placed>>

StatSource(i) ==
    /\ At(i, "stat")
    /\ \/ file[Src[i]] = Absent /\ Abort(i, "failed")
       \/ /\ file[Src[i]] # Absent
          /\ before' = [before EXCEPT ![i] = Stat(file[Src[i]])]
          /\ Goto(i, "open")
          /\ UNCHANGED <<digest, stuck, disk, placed>>

(* Mode "xb": a partial file that is already there fails the move.         *)
OpenFiles(i) ==
    /\ At(i, "open")
    /\ \/ /\ file[Src[i]] = Absent \/ tmp[Dst[i]] # Absent
          /\ Abort(i, "failed")
       \/ /\ file[Src[i]] # Absent
          /\ tmp[Dst[i]] = Absent
          /\ tmp' = [tmp EXCEPT ![Dst[i]] = Empty]
          /\ Goto(i, "copy")
          /\ UNCHANGED <<before, digest, stuck, file, durable, placed>>

(* The chunk at position k of the source, if the file reaches that far.    *)
HasChunk(i, k) == file[Src[i]] # Absent /\ k <= Len(file[Src[i]].data)

(* Mutant: the end of the file does not end the loop.                      *)
CopyForever(i) ==
    LET k == Len(tmp[Dst[i]].data) + 1 IN
    /\ At(i, "copy")
    /\ \/ Cancelled(i)
       \/ /\ ~cancel
          /\ HasChunk(i, k)
          /\ tmp' = [tmp EXCEPT ![Dst[i]].data = Append(@, file[Src[i]].data[k])]
          /\ UNCHANGED <<call, file, durable, placed>>

CopyChunk(i) ==
    LET k == Len(tmp[Dst[i]].data) + 1 IN
    /\ At(i, "copy")
    /\ \/ Cancelled(i)
       \/ /\ ~cancel
          /\ HasChunk(i, k)
          /\ tmp' = [tmp EXCEPT ![Dst[i]].data = Append(@, file[Src[i]].data[k])]
          /\ UNCHANGED <<call, file, durable, placed>>
       \/ /\ ~cancel
          /\ ~HasChunk(i, k)
          /\ Goto(i, "flush")
          /\ UNCHANGED <<before, digest, stuck, disk, placed>>

Flush(i) ==
    /\ At(i, "flush")
    /\ tmp' = [tmp EXCEPT ![Dst[i]].synced = TRUE]
    /\ Goto(i, "copystat")
    /\ UNCHANGED <<before, digest, stuck, file, durable, placed>>

CopyStat(i) ==
    /\ At(i, "copystat")
    /\ \/ file[Src[i]] = Absent /\ Abort(i, "failed")
       \/ /\ file[Src[i]] # Absent
          /\ tmp' = [tmp EXCEPT ![Dst[i]].mtime = file[Src[i]].mtime]
          /\ Goto(i, "recheck")
          /\ UNCHANGED <<before, digest, stuck, file, durable, placed>>

Stable(i) == /\ file[Src[i]] # Absent
             /\ Stat(file[Src[i]]) = before[i]
             /\ Len(tmp[Dst[i]].data) = Len(file[Src[i]].data)

(* Mutant: the source is not checked after the copy.                       *)
RecheckNothing(i) ==
    /\ At(i, "recheck")
    /\ file[Src[i]] # Absent
    /\ Goto(i, IF Verify = "sha256" THEN "hash" ELSE "final")
    /\ UNCHANGED <<before, digest, stuck, disk, placed>>

Recheck(i) ==
    /\ At(i, "recheck")
    /\ \/ Cancelled(i)
       \/ /\ ~cancel
          /\ ~Stable(i) \/ Verify \notin {"size", "sha256"}
          /\ Abort(i, "failed")
       \/ /\ ~cancel
          /\ Stable(i)
          /\ Verify \in {"size", "sha256"}
          /\ Goto(i, IF Verify = "sha256" THEN "hash" ELSE "final")
          /\ UNCHANGED <<before, digest, stuck, disk, placed>>

HashChunk(i) ==
    LET k == Len(digest[i]) + 1 IN
    /\ At(i, "hash")
    /\ \/ Cancelled(i)
       \/ /\ ~cancel
          /\ HasChunk(i, k)
          /\ digest' = [digest EXCEPT ![i] = Append(@, file[Src[i]].data[k])]
          /\ UNCHANGED <<pc, result, before, stuck, disk, placed>>
       \/ /\ ~cancel
          /\ ~HasChunk(i, k)
          /\ Goto(i, "compare")
          /\ UNCHANGED <<before, digest, stuck, disk, placed>>

(* Mutant: the hashes are not compared.                                    *)
CompareNothing(i) ==
    /\ At(i, "compare")
    /\ Goto(i, "final")
    /\ UNCHANGED <<before, digest, stuck, disk, placed>>

Compare(i) ==
    /\ At(i, "compare")
    /\ \/ Cancelled(i)
       \/ /\ ~cancel
          /\ digest[i] # tmp[Dst[i]].data
          /\ Abort(i, "failed")
       \/ /\ ~cancel
          /\ digest[i] = tmp[Dst[i]].data
          /\ Goto(i, "final")
          /\ UNCHANGED <<before, digest, stuck, disk, placed>>

(* Mutant: exclusions and links are checked only before the copy.          *)
FinalCheckOfCancel(i) ==
    /\ At(i, "final")
    /\ \/ Cancelled(i)
       \/ /\ ~cancel
          /\ Goto(i, "replace")
          /\ UNCHANGED <<before, digest, stuck, disk, placed>>

FinalCheck(i) ==
    /\ At(i, "final")
    /\ \/ Cancelled(i)
       \/ /\ ~cancel
          /\ i \in excluded \cup linked
          /\ Abort(i, "failed")
       \/ /\ ~cancel
          /\ i \notin excluded \cup linked
          /\ Goto(i, "replace")
          /\ UNCHANGED <<before, digest, stuck, disk, placed>>

(* Mutant: the source is removed before the rename is durable.             *)
ReplaceUnsynced(i) ==
    /\ At(i, "replace")
    /\ file' = [file EXCEPT ![Dst[i]] = tmp[Dst[i]]]
    /\ tmp' = [tmp EXCEPT ![Dst[i]] = Absent]
    /\ durable' = durable \ {Dst[i]}
    /\ placed' = [placed EXCEPT ![i] = "both"]
    /\ Goto(i, "unlink")
    /\ UNCHANGED <<before, digest, stuck>>

(* os.replace overwrites whatever the destination name holds by then.      *)
Replace(i) ==
    /\ At(i, "replace")
    /\ file' = [file EXCEPT ![Dst[i]] = tmp[Dst[i]]]
    /\ tmp' = [tmp EXCEPT ![Dst[i]] = Absent]
    /\ durable' = durable \ {Dst[i]}
    /\ placed' = [placed EXCEPT ![i] = "both"]
    /\ Goto(i, "sync")
    /\ UNCHANGED <<before, digest, stuck>>

SyncDirectory(i) ==
    /\ At(i, "sync")
    /\ durable' = durable \cup {Dst[i]}
    /\ Goto(i, "unlink")
    /\ UNCHANGED <<before, digest, stuck, file, tmp, placed>>

(* Mutant: a source that is gone already counts as removed.                *)
UnlinkMissingOk(i) ==
    /\ At(i, "unlink")
    /\ file' = [file EXCEPT ![Src[i]] = Absent]
    /\ placed' = [placed EXCEPT ![i] =
                     IF file[Src[i]] = Absent THEN @ ELSE "destination"]
    /\ pc' = [pc EXCEPT ![i] = "ended"]
    /\ result' = [result EXCEPT ![i] = "completed"]
    /\ UNCHANGED <<before, digest, stuck, tmp, durable>>

UnlinkSource(i) ==
    /\ At(i, "unlink")
    /\ \/ file[Src[i]] = Absent /\ Abort(i, "failed")
       \/ /\ file[Src[i]] # Absent
          /\ file' = [file EXCEPT ![Src[i]] = Absent]
          /\ placed' = [placed EXCEPT ![i] = "destination"]
          /\ pc' = [pc EXCEPT ![i] = "ended"]
          /\ result' = [result EXCEPT ![i] = "completed"]
          /\ UNCHANGED <<before, digest, stuck, tmp, durable>>

Cleanup(i) ==
    /\ At(i, "cleanup")
    /\ tmp' = [tmp EXCEPT ![Dst[i]] = Absent]
    /\ stuck' = {j \in stuck : Dst[j] # Dst[i]}
    /\ Goto(i, "ended")
    /\ UNCHANGED <<before, digest, file, durable, placed>>

(* The partial file cannot be removed: that error replaces the first one.  *)
CleanupFails(i) ==
    /\ "error" \in Env
    /\ At(i, "cleanup")
    /\ tmp[Dst[i]] # Absent
    /\ pc' = [pc EXCEPT ![i] = "ended"]
    /\ result' = [result EXCEPT ![i] = "failed"]
    /\ stuck' = stuck \cup {i}
    /\ UNCHANGED <<before, digest, disk, placed>>

(* Any other system call may fail too, and so may rereading the            *)
(* configuration, which fails the move closed.                             *)
IOError(i) ==
    /\ "error" \in Env
    /\ up
    /\ pc[i] \in Precheck \cup Copying
    /\ Abort(i, "failed")

Proceed(i) ==
    \/ Enter(i) \/ CheckDestination(i) \/ StatSource(i) \/ OpenFiles(i)
    \/ CopyChunk(i) \/ Flush(i) \/ CopyStat(i) \/ Recheck(i)
    \/ HashChunk(i) \/ Compare(i) \/ FinalCheck(i) \/ Replace(i)
    \/ SyncDirectory(i) \/ UnlinkSource(i) \/ Cleanup(i)

Step(i) == /\ Proceed(i) \/ CleanupFails(i) \/ IOError(i)
           /\ UNCHANGED outside

-----------------------------------------------------------------------------
(* Interference.  `late` records what a call can no longer notice: a write *)
(* once the stability check (with sha256, the hash of the source) is past, *)
(* a destination created after the existence check, an exclusion or a link *)
(* after the final check.                                                  *)

TooLate(e) ==
    CASE e = "write"  -> {"final", "replace"}
                         \cup IF Verify = "sha256" THEN {"hash", "compare"} ELSE {}
      [] e = "create" -> {"stat"} \cup Copying
      [] OTHER        -> {"replace"}

Noted(e, S) ==
    late' = [i \in Moves |->
                IF i \in S /\ (pc[i] \in TooLate(e) \/ placed[i] # "source")
                THEN late[i] \cup {e} ELSE late[i]]

(* A user writes one chunk of a source, the first after its end included,  *)
(* or creates it again; a quiet write leaves its timestamp unchanged.      *)
UserWrite(i) ==
    LET old == IF file[Src[i]] = Absent THEN Empty ELSE file[Src[i]]
        v   == writes + 1
    IN  /\ "write" \in Env /\ up
        /\ writes < MaxWrites
        /\ writes' = v
        /\ \E k \in 1..(Len(old.data) + 1),
              m \in {v} \cup IF "quiet" \in Env THEN {old.mtime} ELSE {} :
              /\ k <= MaxChunks
              /\ LET new == [j \in 1..(IF k > Len(old.data) THEN k ELSE Len(old.data))
                                |-> IF j = k THEN v ELSE old.data[j]]
                 IN  /\ file' = [file EXCEPT ![Src[i]] =
                                    [data |-> new, mtime |-> m, synced |-> TRUE]]
                     /\ orig' = [orig EXCEPT ![i] = new]
        /\ Noted("write", {i})
        /\ UNCHANGED <<call, tmp, durable, cancel, excluded, linked, up, placed>>

UserRemove(i) ==
    /\ "remove" \in Env /\ up
    /\ file[Src[i]] # Absent
    /\ file' = [file EXCEPT ![Src[i]] = Absent]
    /\ orig' = [orig EXCEPT ![i] = Absent]
    /\ UNCHANGED <<call, tmp, durable, cancel, excluded, linked, up, writes,
                   placed, late>>

UserCreate(p) ==
    /\ "create" \in Env /\ up
    /\ file[p] = Absent
    /\ writes < MaxWrites
    /\ writes' = writes + 1
    /\ file' = [file EXCEPT ![p] =
                   [data |-> <<writes'>>, mtime |-> writes', synced |-> TRUE]]
    /\ durable' = durable \cup {p}
    /\ Noted("create", {i \in Moves : Dst[i] = p})
    /\ UNCHANGED <<call, tmp, cancel, excluded, linked, up, orig, placed>>

Exclude(i) ==
    /\ "exclude" \in Env /\ up
    /\ i \notin excluded
    /\ excluded' = excluded \cup {i}
    /\ Noted("exclude", {i})
    /\ UNCHANGED <<call, disk, cancel, linked, up, writes, orig, placed>>

Link(i) ==
    /\ "link" \in Env /\ up
    /\ i \notin linked
    /\ linked' = linked \cup {i}
    /\ Noted("link", {i})
    /\ UNCHANGED <<call, disk, cancel, excluded, up, writes, orig, placed>>

RequestCancel ==
    /\ "cancel" \in Env /\ up
    /\ ~cancel
    /\ cancel' = TRUE
    /\ UNCHANGED <<call, disk, excluded, linked, up, writes, orig, placed, late>>

(* Power fails: renames whose directory was not synced may be undone and   *)
(* contents that were not synced are lost.  A killed process loses neither.*)
Crash ==
    /\ "crash" \in Env /\ up
    /\ up' = FALSE
    /\ \E lost \in SUBSET (Targets \ durable) :
          file' = [p \in Locations |->
                     IF p \in lost THEN Absent
                     ELSE IF file[p] # Absent /\ ~file[p].synced
                     THEN [file[p] EXCEPT !.data = <<>>] ELSE file[p]]
    /\ UNCHANGED <<call, tmp, durable, cancel, excluded, linked, writes, orig,
                   placed, late>>

Interfere == \/ \E i \in Moves : \/ UserWrite(i) \/ UserRemove(i)
                                 \/ Exclude(i) \/ Link(i)
             \/ \E p \in Targets : UserCreate(p)
             \/ Crash

(* The executor never runs two moves to one destination at a time.         *)
Call(i) == /\ \A j \in Moves \ {i} : Dst[j] = Dst[i] => pc[j] \in {"idle", "ended"}
           /\ Begin(i)
           /\ UNCHANGED outside

Next == Interfere \/ RequestCancel \/ \E i \in Moves : Call(i) \/ Step(i)

Spec == Init /\ [][Next]_vars

(* A call that has begun is scheduled; nothing is assumed of interference. *)
FairSpec == Spec /\ \A i \in Moves : WF_vars(Proceed(i) /\ UNCHANGED outside)

-----------------------------------------------------------------------------
(* What the users last wrote to a source is never lost: while the source   *)
(* is gone it is at the destination, also after a power failure at any     *)
(* step; only a write after the last check of the source is exempt.        *)
Preserved ==
    \A i \in Moves :
        file[Src[i]] = Absent /\ orig[i] # Absent /\ "write" \notin late[i] =>
            /\ file[Dst[i]] # Absent
            /\ file[Dst[i]].data = orig[i]

(* A file that holds a destination name, put there by a user or by an      *)
(* earlier move, is never replaced; only one created after the existence   *)
(* check is exempt.                                                        *)
NoClobber ==
    [][\A i \in Moves :
          placed[i] = "source" /\ placed'[i] = "both" /\ file[Dst[i]] # Absent
          => "create" \in late[i]]_vars

(* A file excluded, or whose path became a link, at any time before the    *)
(* final check (before the call, while it copied or hashed) never moves.   *)
ProtectionReread ==
    \A i \in Moves :
        placed[i] # "source" => /\ i \in excluded => "exclude" \in late[i]
                                /\ i \in linked => "link" \in late[i]

(* A partial file is one that an earlier process left and no call has      *)
(* opened yet, or belongs to a call that still runs, or is one that a call *)
(* which says it failed could not remove: no other call, completed,        *)
(* cancelled or failed at any step, leaves one, and a call that meets one  *)
(* clears it away.                                                         *)
PartialRemoved ==
    \A p \in Targets : tmp[p] # Absent =>
        \/ \A i \in Moves : Dst[i] = p => before[i] = Absent
        \/ \E i \in Moves : /\ Dst[i] = p
                            /\ \/ pc[i] \in Copying \cup {"cleanup"}
                               \/ i \in stuck /\ result[i] = "failed"

(* The source goes last and how a call ends tells where the file is: these *)
(* are the steps of a move that is atomic but for the copy it leaves when  *)
(* it fails in between.                                                    *)
A == INSTANCE AtomicMove WITH place <- placed

AtomicSpec == A!Spec

(* "conflicting files fail according to existing transfer behavior"        *)
(* (docs/reporting.md), with no exemption: a destination that exists when  *)
(* the partial file is renamed is not replaced.                            *)
ConflictsFail ==
    [][\A i \in Moves : placed[i] = "source" /\ placed'[i] = "both"
                        => file[Dst[i]] = Absent]_vars

(* Every call ends, whatever fails, unless the machine stops.              *)
CallEnds == \A i \in Moves : pc[i] # "idle" ~> pc[i] = "ended" \/ ~up
=============================================================================
