------------------------------ MODULE Operation ------------------------------
(***************************************************************************)
(* What a surface promises the client of an operation id, as its polls see *)
(* it (internal/surface, poll): "unknown" is a 404, "pending" a notStarted *)
(* or running status, "succeeded" and "failed" the two ends.               *)
(*                                                                         *)
(* An end is final, and an accepted operation is not forgotten before its  *)
(* end unless its client deleted it or its TTL has passed (withdrawn).     *)
(***************************************************************************)
CONSTANT Ids

VARIABLES
    answer,         \* what a poll of the id is told
    withdrawn       \* ids the service may forget though they are pending

vars == <<answer, withdrawn>>

\* A process starts on whatever an earlier one has promised.
Init ==
    /\ answer \in [Ids -> {"unknown", "pending", "succeeded", "failed"}]
    /\ withdrawn = {}

Accept(id) ==
    /\ answer[id] = "unknown"
    /\ answer' = [answer EXCEPT ![id] = "pending"]

Finish(id, end) ==
    /\ answer[id] = "pending"
    /\ answer' = [answer EXCEPT ![id] = end]

Forget(id) ==
    /\ answer[id] = "pending" => id \in withdrawn'
    /\ answer' = [answer EXCEPT ![id] = "unknown"]

Next ==
    /\ \/ \E id \in Ids : Accept(id) \/ Forget(id)
       \/ \E id \in Ids, end \in {"succeeded", "failed"} : Finish(id, end)
       \/ UNCHANGED answer
    /\ withdrawn' \in SUBSET Ids

Spec == Init /\ [][Next]_vars
=============================================================================
