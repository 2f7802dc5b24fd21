---------------------------- MODULE MCScheduler ----------------------------
(***************************************************************************)
(* Five callers and three jobs: with both slots held, j1 may have a        *)
(* backlog of two calls while another job waits for its turn.              *)
(***************************************************************************)
EXTENDS Scheduler, TLC

CONSTANTS c1, c2, c3, c4, c5, j1, j2, j3

MCCallers == {c1, c2, c3, c4, c5}
MCJobs == {j1, j2, j3}
MCJobOf == (c1 :> j1) @@ (c2 :> j1) @@ (c3 :> j2) @@ (c4 :> j2) @@ (c5 :> j3)

\* The calls of one job are interchangeable.
MCSymmetry == Permutations({c1, c2}) \union Permutations({c3, c4})

\* Liveness is checked on a backlog and one other job.
MCFewCallers == {c1, c2, c3}
MCFewJobs == {j1, j2}
MCFewJobOf == (c1 :> j1) @@ (c2 :> j1) @@ (c3 :> j2)
=============================================================================
