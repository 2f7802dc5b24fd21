------------------------------- MODULE MCEngine -------------------------------
(***************************************************************************)
(* Engine for TLC: a run that is waited for, under the fairness its parts  *)
(* have.                                                                   *)
(***************************************************************************)
EXTENDS Engine

\* What a goroutine does without waiting for a slot or a permit.
Step(t) ==
    \/ AcquireEnded(t) \/ Hear(t) \/ Drain(t) \/ BackoffEnds(t)
    \/ RecutEnded(t) \/ RecutDone(t) \/ RecutFails(t)
    \/ \E c \in Calls, o \in Outcomes : CallReturns(t, c, o)

\* Goroutines that can run do, calls return because they have a deadline of
\* their own, and the other runs' do too.  A waiter of the scheduler is served
\* in turn, and a blocked send on the splitter's channel first come, first
\* served, whatever the other runs do.
Fairness ==
    /\ WF_vars(\/ \E t \in Tasks : Step(t)
               \/ OpenSourceEnded \/ CutParts \/ CutNothing
               \/ PartsFailed \/ Merge \/ MergeCheckFails \/ MergeFails \/ ReturnError)
    /\ SF_vars(\E t \in Tasks : Acquire(t))
    /\ SF_vars(OpenSource \/ \E t \in Tasks : RecutOpens(t))
    /\ WF_vars(OthersCall) /\ WF_vars(OthersClose)

FairSpec == Spec /\ Fairness

\* Every run returns: no part waits for a slot, a permit or a sibling for ever
\* (runParts, hedged, Splitter.Recut), though the deadline never passes.
RunReturns == <>(verdict # "none")
=============================================================================
