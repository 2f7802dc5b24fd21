--------------------------- MODULE SchedulerFair ---------------------------
(***************************************************************************)
(* Scheduler with the history FairSlots needs: which jobs each waiting job *)
(* has seen served since it began to wait for its turn.  The history only  *)
(* watches; it restricts no step of the scheduler.                         *)
(***************************************************************************)
EXTENDS Scheduler

VARIABLE passed

fairVars == <<vars, passed>>

FairInit == Init /\ passed = [j \in Jobs |-> {}]

\* A waiting job counts the jobs served; one that is served itself, or that has
\* nobody waiting, starts over.
Watch(served) ==
    passed' = [j \in Jobs |-> IF waiters[j] = <<>> \/ waiters'[j] = <<>> \/ j \in served
                              THEN {} ELSE passed[j] \union served]

FairNext ==
    \/ GrantLocked /\ Watch({Head(ring)})
    \/ (Unlock \/ \E c \in Callers : Step(c)) /\ Watch({})

SpecWithHistory == FairInit /\ [][FairNext]_fairVars

-----------------------------------------------------------------------------

\* Between freeLocked and the grant that follows it under mu, the slot is on
\* its way: FairSlots, which passes it on in one step, still has it with c.
InTransit == IF mu # None /\ MoreToGrant THEN {mu} ELSE {}

Promise == INSTANCE FairSlots WITH
    Slots <- slots,
    holding <- Holders \union InTransit,
    queue <- waiters,
    passed <- passed

\* The scheduler keeps the promises of its package comment: slots go straight
\* from the call that frees one to a waiting call, FIFO within a job, every
\* waiting job once per round, newcomers and hedges only when nobody waits.
PromiseKept == Promise!Spec
=============================================================================
