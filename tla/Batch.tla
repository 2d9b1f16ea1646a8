------------------------------- MODULE Batch -------------------------------
(***************************************************************************)
(* What one live batch of planned moves promises to its caller, without    *)
(* threads, queues or a cancellation event (docs/reporting.md, docstring   *)
(* of executor.execute_moves): every move has one disposition, the moves   *)
(* that must not overlap start in plan order and only after their          *)
(* predecessors completed, and the batch ends once, when nothing is        *)
(* active, with an outcome that the dispositions justify.                  *)
(***************************************************************************)
CONSTANTS Moves,      \* the moves of the plan
          Precedes    \* the pairs <<k, i>>: k must have completed before i starts

VARIABLES disp,       \* disposition of each move, as the report shows it
          outcome     \* "running", then how the batch ended

vars == <<disp, outcome>>

Final   == {"completed", "failed", "interrupted"}
Disp    == {"not_started", "active"} \cup Final
Outcome == {"running", "completed", "cancelled", "failed"}

Init == /\ disp = [i \in Moves |-> "not_started"]
        /\ outcome = "running"

Start(i) == /\ outcome = "running"
            /\ disp[i] = "not_started"
            /\ \A k \in Moves : <<k, i>> \in Precedes => disp[k] = "completed"
            /\ disp' = [disp EXCEPT ![i] = "active"]
            /\ UNCHANGED outcome

Resolve(i) == /\ disp[i] = "active"
              /\ \E d \in Final : disp' = [disp EXCEPT ![i] = d]
              /\ UNCHANGED outcome

(* "completed" needs every move; "cancelled" never hides a failed one.     *)
Close == /\ outcome = "running"
         /\ \A i \in Moves : disp[i] # "active"
         /\ outcome' \in Outcome \ {"running"}
         /\ outcome' = "completed" => \A i \in Moves : disp[i] = "completed"
         /\ outcome' = "cancelled" => \A i \in Moves : disp[i] # "failed"
         /\ UNCHANGED disp

Next == Close \/ \E i \in Moves : Start(i) \/ Resolve(i)

Spec == Init /\ [][Next]_vars
=============================================================================
