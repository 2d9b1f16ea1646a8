----------------------------- MODULE AtomicMove -----------------------------
(***************************************************************************)
(* What transfer.execute_move promises for each of a set of moves: the     *)
(* file is committed at its destination before its source is removed, and  *)
(* the way the call ends tells where the file is.  "completed" is only     *)
(* reported of a file that left its source, a cancelled call has changed   *)
(* nothing, and a failed one has not removed the source.                   *)
(***************************************************************************)
CONSTANT Moves

VARIABLES place,    \* "source", then "both", then "destination"
          result

vars == <<place, result>>

Init == /\ place = [i \in Moves |-> "source"]
        /\ result = [i \in Moves |-> "none"]

Commit(i) == /\ result[i] = "none"
             /\ place[i] = "source"
             /\ place' = [place EXCEPT ![i] = "both"]
             /\ UNCHANGED result

Remove(i) == /\ result[i] = "none"
             /\ place[i] = "both"
             /\ place' = [place EXCEPT ![i] = "destination"]
             /\ result' = [result EXCEPT ![i] = "completed"]

Interrupt(i) == /\ result[i] = "none"
                /\ place[i] = "source"
                /\ result' = [result EXCEPT ![i] = "interrupted"]
                /\ UNCHANGED place

(* A cancelled call still fails when its cleanup does.                     *)
Fail(i) == /\ result[i] # "completed"
           /\ place[i] # "destination"
           /\ result' = [result EXCEPT ![i] = "failed"]
           /\ UNCHANGED place

Next == \E i \in Moves : Commit(i) \/ Remove(i) \/ Interrupt(i) \/ Fail(i)

Spec == Init /\ [][Next]_vars
=============================================================================
