--------------------------- MODULE MCJobLifecycle ---------------------------
\* The instances of JobLifecycle that TLC checks: two operations and one worker.
EXTENDS JobLifecycle, TLC

CONSTANTS i1, i2, w1

\* Operations are interchangeable.
MCSymmetry == Permutations({i1, i2})

\* A process is started on what an earlier one left behind when it died: jobs in
\* the middle of their first attempt.
InitAfterCrash ==
    \E left \in SUBSET Ids, n \in 1 .. MaxAttempts :
        /\ row = [id \in Ids |-> IF id \in left
                                 THEN [status |-> "running", attempts |-> n, leased |-> TRUE]
                                 ELSE NoRow]
        /\ submit = [id \in Ids |-> IF id \in left THEN "acked" ELSE "new"]
        /\ input = left /\ result = {} /\ aged = {} /\ expired = {}
        /\ up = "down"
        /\ purging = {}
        /\ admits = 0 /\ syncs = 0 /\ queue = <<>> /\ claims = {} /\ feeding = {}
        /\ worker = [w \in Workers |-> Idle]
        /\ recover = [r \in {"boot", "sweep"} |-> Resting]
        /\ sweep = Asleep
        /\ crashes = 0 /\ faults = 0

SpecAfterCrash == InitAfterCrash /\ [][Next]_vars

\* job_safety looks no further than a state that is not Timely.  For its size, it
\* also keeps the periodic pass apart from the boot pass (job_liveness does not),
\* synchronous requests apart from the sweep, and a client's DELETE apart from the
\* sweeper's own deletes and its search for orphans.
MCBound ==
    /\ Timely
    /\ recover["boot"].at # "idle" => recover["sweep"].at = "idle"
    /\ syncs > 0 => sweep.at = "idle"
    /\ purging # {} => sweep.at \in {"idle", "expire", "evict", "reclaim"}
=============================================================================
