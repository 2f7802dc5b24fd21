----------------------------- MODULE FairSlots -----------------------------
(***************************************************************************)
(* What the package comment of internal/sched promises, with no ring and   *)
(* no channels: a slot goes from the call that frees it straight to a      *)
(* waiting call, first come first served within a job, and no job is       *)
(* served twice while another job waits for its turn.                      *)
(***************************************************************************)
EXTENDS Integers, Sequences, FiniteSets

CONSTANTS Callers, Jobs, JobOf, Slots

VARIABLES
    holding,    \* calls that have a slot
    queue,      \* each job's waiting calls, in arrival order
    passed      \* passed[j]: jobs served while j has been waiting for its turn

vars == <<holding, queue, passed>>

Waiting == {j \in Jobs : queue[j] # <<>>}

Init == /\ holding = {}
        /\ queue = [j \in Jobs |-> <<>>]
        /\ passed = [j \in Jobs |-> {}]

\* A new call or a hedge takes a slot only if nobody waits for one.
Take(c) ==
    /\ Waiting = {}
    /\ Cardinality(holding) < Slots
    /\ c \notin holding
    /\ holding' = holding \union {c}
    /\ UNCHANGED <<queue, passed>>

\* A call waits only while every slot is in use.
Wait(c) ==
    /\ Cardinality(holding) = Slots
    /\ c \notin holding
    /\ queue' = [queue EXCEPT ![JobOf[c]] = Append(@, c)]
    /\ UNCHANGED <<holding, passed>>

\* c frees its slot and job j's oldest call has it at once.  No other waiting
\* job may have seen j served already since its own turn.
PassOn(c, j) ==
    /\ c \in holding
    /\ j \in Waiting
    /\ \A k \in Waiting \ {j} : j \notin passed[k]
    /\ holding' = (holding \ {c}) \union {Head(queue[j])}
    /\ queue' = [queue EXCEPT ![j] = Tail(@)]
    /\ passed' = [k \in Jobs |-> IF k \in Waiting \ {j}
                                 THEN passed[k] \union {j} ELSE {}]

Free(c) ==
    /\ c \in holding
    /\ Waiting = {}
    /\ holding' = holding \ {c}
    /\ UNCHANGED <<queue, passed>>

\* A waiting call gives up; its job keeps its place while others of it wait.
GiveUp(j, i) ==
    /\ i \in DOMAIN queue[j]
    /\ queue' = [queue EXCEPT ![j] = SubSeq(@, 1, i - 1) \o SubSeq(@, i + 1, Len(@))]
    /\ passed' = IF Len(queue[j]) = 1 THEN [passed EXCEPT ![j] = {}] ELSE passed
    /\ UNCHANGED holding

Next ==
    \/ \E c \in Callers : Take(c) \/ Wait(c) \/ Free(c)
    \/ \E c \in Callers, j \in Jobs : PassOn(c, j)
    \/ \E j \in Jobs : \E i \in DOMAIN queue[j] : GiveUp(j, i)

Spec == Init /\ [][Next]_vars
=============================================================================
