---------------------------- MODULE JobLifecycle ----------------------------
(***************************************************************************)
(* The life of asynchronous jobs on one surface: internal/surface accepts  *)
(* them, internal/jobs runs, recovers and sweeps them, internal/store      *)
(* keeps their rows (SQLite) and blobs (files).  Rows and blobs survive a  *)
(* crash, everything else is lost with the process.                        *)
(*                                                                         *)
(* A statement on the jobs table is atomic, and so is a blob's commit or   *)
(* removal; whatever lies between two of them is a place where another     *)
(* goroutine, or a crash, can come in.  Time is abstract: created_at may   *)
(* come to lie 2*leaseDuration back (aged), expires_at may pass (expired), *)
(* a lease may lapse.                                                      *)
(***************************************************************************)
EXTENDS Integers, Sequences, FiniteSets

CONSTANTS
    Ids,            \* operation ids, one per submit
    Workers,        \* worker goroutines: MaxInflight of them
    QueueDepth,     \* admitted jobs that may wait beyond the workers
    MaxAttempts,    \* maxAttempts in recover.go
    RecoverBatch,   \* recoverBatch in recover.go
    Nobody,         \* no id
    SlowUploads,    \* whether an upload may last longer than 2*leaseDuration
    MaxCrashes,     \* bound: crashes of the process
    MaxFaults,      \* bound: statements and file operations that fail
    MaxMishaps,     \* bound: crashes and faults together
    MaxSyncs        \* bound: concurrent :syncAnalyze requests

ASSUME IdsAssumption == IsFiniteSet(Ids) /\ Nobody \notin Ids
ASSUME WorkersAssumption == IsFiniteSet(Workers) /\ Workers # {}
ASSUME BoundsAssumption ==
    /\ {QueueDepth, MaxCrashes, MaxFaults, MaxMishaps, MaxSyncs} \subseteq Nat
    /\ {MaxAttempts, RecoverBatch} \subseteq Nat \ {0}
    /\ SlowUploads \in BOOLEAN

VARIABLES
    row,        \* the jobs table
    input,      \* ids whose input document is in the blob store
    result,     \* ids whose result envelope is in the blob store
    aged,       \* ids whose created_at is more than 2*leaseDuration ago
    expired,    \* ids whose expires_at has passed
    up,         \* "down", "booting" (before the listener opens) or "serving"
    submit,     \* how far the POST of each id has come
    purging,    \* ids whose row a DELETE removed and whose blobs it has yet to
    admits,     \* admission slots taken
    syncs,      \* :syncAnalyze requests in progress
    queue,      \* ids handed to the workers
    claims,     \* ids this process has queued or running
    feeding,    \* recovered ids that wait for an admission slot in feed
    worker,     \* each worker: the step it is at, its job, and what it saw
    recover,    \* the boot pass and the periodic pass of recover
    sweep,      \* the sweeper
    crashes, faults

persistent == <<row, input, result, aged, expired>>
manager == <<admits, queue, claims, feeding>>
agents == <<submit, purging, syncs, worker, recover, sweep>>
bounds == <<crashes, faults>>
vars == <<persistent, manager, agents, up, bounds>>

Capacity == Cardinality(Workers) + QueueDepth

Statuses == {"none", "notStarted", "running", "succeeded", "failed"}
NoRow == [status |-> "none", attempts |-> 0, leased |-> FALSE]

HasRow(id) == row[id] # NoRow
Terminal(id) == row[id].status \in {"succeeded", "failed"}

\* The id's row changes to status; an UPDATE of a row that is gone does nothing.
Update(id, status, leased) ==
    row' = IF HasRow(id)
           THEN [row EXCEPT ![id].status = status, ![id].leased = leased]
           ELSE row

RemoveInput(id) == input' = input \ {id} /\ UNCHANGED result
RemoveAll(id) == input' = input \ {id} /\ result' = result \ {id}

Mishap == crashes + faults < MaxMishaps

Fault == Mishap /\ faults < MaxFaults /\ faults' = faults + 1 /\ UNCHANGED crashes

Idle == [at |-> "idle", id |-> Nobody, sawInput |-> FALSE, released |-> FALSE]
Resting == [at |-> "idle", todo |-> {}, id |-> Nobody, attempts |-> 0, claimed |-> {}]
Asleep == [at |-> "idle", todo |-> {}, id |-> Nobody, first |-> FALSE]

Init ==
    /\ row = [id \in Ids |-> NoRow]
    /\ input = {} /\ result = {} /\ aged = {} /\ expired = {}
    /\ up = "serving"
    /\ submit = [id \in Ids |-> "new"]
    /\ purging = {}
    /\ admits = 0 /\ syncs = 0 /\ queue = <<>> /\ claims = {} /\ feeding = {}
    /\ worker = [w \in Workers |-> Idle]
    /\ recover = [r \in {"boot", "sweep"} |-> Resting]
    /\ sweep = Asleep
    /\ crashes = 0 /\ faults = 0

-----------------------------------------------------------------------------
(* surface.submit, surface.deleteResult, surface.syncAnalyze *)

SubmitAt(id, step) == submit' = [submit EXCEPT ![id] = step]

\* Wrong: no capacity is asked for.
AdmitAlways(id) ==
    /\ up = "serving" /\ submit[id] = "new"
    /\ admits' = admits + 1
    /\ SubmitAt(id, "admitted")
    /\ UNCHANGED <<persistent, queue, claims, feeding, purging, syncs, worker, recover, sweep, up, bounds>>

\* Admit never blocks: a full surface answers 429 and nothing has happened.
Admit(id) ==
    /\ up = "serving" /\ submit[id] = "new"
    /\ admits < Capacity
    /\ admits' = admits + 1
    /\ SubmitAt(id, "admitted")
    /\ UNCHANGED <<persistent, queue, claims, feeding, purging, syncs, worker, recover, sweep, up, bounds>>

StoreInput(id) ==
    /\ submit[id] = "admitted"
    /\ input' = input \union {id}
    /\ SubmitAt(id, "stored")
    /\ UNCHANGED <<row, result, aged, expired, manager, purging, syncs, worker, recover, sweep, up, bounds>>

\* Wrong: the slot is not given back.
RefuseAndKeepSlot(id) ==
    /\ RemoveAll(id)
    /\ SubmitAt(id, "refused")
    /\ UNCHANGED <<row, aged, expired, manager, purging, syncs, worker, recover, sweep, up>>

\* The body is cut short or too large, or the store fails: no row, no slot.
Refuse(id) ==
    /\ RemoveAll(id)
    /\ admits' = admits - 1
    /\ SubmitAt(id, "refused")
    /\ UNCHANGED <<row, aged, expired, queue, claims, feeding, purging, syncs, worker, recover, sweep, up>>

StoreInputFails(id) ==
    /\ submit[id] = "admitted"
    /\ Refuse(id)
    /\ UNCHANGED bounds

CreateRow(id) ==
    /\ submit[id] = "stored"
    /\ row' = [row EXCEPT ![id] = [status |-> "notStarted", attempts |-> 0, leased |-> FALSE]]
    /\ SubmitAt(id, "created")
    /\ UNCHANGED <<input, result, aged, expired, manager, purging, syncs, worker, recover, sweep, up, bounds>>

CreateRowFails(id) ==
    /\ submit[id] = "stored"
    /\ Refuse(id)
    /\ Fault

\* An id that is claimed already counts as handed over, so the slot of this
\* submit is kept (committed); a full queue gives it back with a 429.
Enqueue(id) ==
    /\ submit[id] = "created"
    /\ IF id \in claims
       THEN SubmitAt(id, "acked") /\ UNCHANGED <<claims, queue, admits>>
       ELSE IF Len(queue) < Capacity
       THEN /\ claims' = claims \union {id}
            /\ queue' = Append(queue, id)
            /\ SubmitAt(id, "acked")
            /\ UNCHANGED admits
       ELSE /\ admits' = admits - 1
            /\ SubmitAt(id, "refused")
            /\ UNCHANGED <<claims, queue>>
    /\ UNCHANGED <<persistent, feeding, purging, syncs, worker, recover, sweep, up, bounds>>

\* store.Delete by a client: the row goes first, its blobs after.
DeleteRow(id) ==
    /\ up = "serving" /\ submit[id] = "acked"
    /\ HasRow(id)
    /\ row' = [row EXCEPT ![id] = NoRow]
    /\ purging' = purging \union {id}
    /\ UNCHANGED <<input, result, aged, expired, manager, submit, syncs, worker, recover, sweep, up, bounds>>

DeleteBlobs(id) ==
    /\ id \in purging
    /\ RemoveAll(id)
    /\ purging' = purging \ {id}
    /\ UNCHANGED <<row, aged, expired, manager, submit, syncs, worker, recover, sweep, up, bounds>>

\* A synchronous request holds an admission slot and no job.
SyncBegins ==
    /\ up = "serving"
    /\ syncs < MaxSyncs /\ admits < Capacity
    /\ syncs' = syncs + 1 /\ admits' = admits + 1
    /\ UNCHANGED <<persistent, queue, claims, feeding, submit, purging, worker, recover, sweep, up, bounds>>

SyncEnds ==
    /\ syncs > 0
    /\ syncs' = syncs - 1 /\ admits' = admits - 1
    /\ UNCHANGED <<persistent, queue, claims, feeding, submit, purging, worker, recover, sweep, up, bounds>>
-----------------------------------------------------------------------------
(* jobs.worker, run, finish, failJob *)

WorkerAt(w, step) == worker' = [worker EXCEPT ![w].at = step]

\* Wrong: after a panic, the slot and the claim go a second time.
FinishedTwice(w) ==
    /\ worker' = [worker EXCEPT ![w] = Idle]
    /\ claims' = claims \ {worker[w].id} /\ admits' = admits - 1

\* The deferred end of run: the claim and the slot go, unless a panic took them
\* before.
Finished(w) ==
    /\ worker' = [worker EXCEPT ![w] = Idle]
    /\ IF worker[w].released
       THEN UNCHANGED <<claims, admits>>
       ELSE claims' = claims \ {worker[w].id} /\ admits' = admits - 1

TakeJob(w) ==
    /\ worker[w].at = "idle" /\ queue # <<>>
    /\ worker' = [worker EXCEPT ![w] = [Idle EXCEPT !.at = "get", !.id = Head(queue)]]
    /\ queue' = Tail(queue)
    /\ UNCHANGED <<persistent, admits, claims, feeding, submit, purging, syncs, recover, sweep, up, bounds>>

\* A job whose row is gone or terminal is not run.  So is one whose row cannot
\* be read or marked: it keeps its status, for a later recovery pass.
GetJob(w) ==
    LET id == worker[w].id IN
    /\ worker[w].at = "get"
    /\ \/ HasRow(id) /\ ~Terminal(id) /\ WorkerAt(w, "mark") /\ UNCHANGED <<claims, admits, bounds>>
       \/ (~HasRow(id) \/ Terminal(id)) /\ Finished(w) /\ UNCHANGED bounds
       \/ Finished(w) /\ Fault
    /\ UNCHANGED <<persistent, queue, feeding, submit, purging, syncs, recover, sweep, up>>

MarkedRunning(id) ==
    row' = IF HasRow(id)
           THEN [row EXCEPT ![id] = [status |-> "running", attempts |-> @.attempts + 1, leased |-> TRUE]]
           ELSE row

MarkRunning(w) ==
    LET id == worker[w].id IN
    /\ worker[w].at = "mark"
    /\ \/ /\ MarkedRunning(id)
          /\ worker' = [worker EXCEPT ![w].at = "run", ![w].sawInput = id \in input]
          /\ UNCHANGED <<claims, admits, bounds>>
       \/ Finished(w) /\ Fault /\ UNCHANGED row
    /\ UNCHANGED <<input, result, aged, expired, queue, feeding, submit, purging, syncs, recover, sweep, up>>

\* engine.Run returns: a result only if the input was there to be read.
EngineReturns(w) ==
    /\ worker[w].at = "run"
    /\ \/ worker[w].sawInput /\ WorkerAt(w, "write")
       \/ WorkerAt(w, "fail")
    /\ UNCHANGED <<persistent, manager, submit, purging, syncs, recover, sweep, up, bounds>>

\* The worker panics: the claim and the slot go first, then failJob is called.
EnginePanics(w) ==
    /\ worker[w].at = "run"
    /\ worker' = [worker EXCEPT ![w].at = "fail", ![w].released = TRUE]
    /\ claims' = claims \ {worker[w].id} /\ admits' = admits - 1
    /\ UNCHANGED <<persistent, queue, feeding, submit, purging, syncs, recover, sweep, up, bounds>>

\* Wrong: a failed write is not noticed.
WriteUnchecked(w) ==
    /\ worker[w].at = "write"
    /\ WorkerAt(w, "succeed")
    /\ \/ result' = result \union {worker[w].id} /\ UNCHANGED bounds
       \/ Fault /\ UNCHANGED result
    /\ UNCHANGED <<row, input, aged, expired, manager, submit, purging, syncs, recover, sweep, up>>

\* finish: the envelope is committed to the blob store ...
WriteResult(w) ==
    /\ worker[w].at = "write"
    /\ \/ result' = result \union {worker[w].id} /\ WorkerAt(w, "succeed") /\ UNCHANGED bounds
       \/ WorkerAt(w, "fail") /\ Fault /\ UNCHANGED result
    /\ UNCHANGED <<row, input, aged, expired, manager, submit, purging, syncs, recover, sweep, up>>

\* ... and only then the row says succeeded.  No row: the result is discarded.
Succeed(w) ==
    LET id == worker[w].id IN
    /\ worker[w].at = "succeed"
    /\ \/ Update(id, "succeeded", FALSE) /\ WorkerAt(w, IF HasRow(id) THEN "clean" ELSE "discard") /\ UNCHANGED bounds
       \/ WorkerAt(w, "fail") /\ Fault /\ UNCHANGED row
    /\ UNCHANGED <<input, result, aged, expired, manager, submit, purging, syncs, recover, sweep, up>>

\* failJob: a row that is gone, and a statement that failed, both discard.
Fail(w) ==
    LET id == worker[w].id IN
    /\ worker[w].at = "fail"
    /\ \/ Update(id, "failed", FALSE) /\ WorkerAt(w, IF HasRow(id) THEN "clean" ELSE "discard") /\ UNCHANGED bounds
       \/ WorkerAt(w, "discard") /\ Fault /\ UNCHANGED row
    /\ UNCHANGED <<input, result, aged, expired, manager, submit, purging, syncs, recover, sweep, up>>

\* The input goes once the row is terminal; everything when there is no row.
RunEnds(w) ==
    /\ \/ worker[w].at = "clean" /\ RemoveInput(worker[w].id)
       \/ worker[w].at = "discard" /\ RemoveAll(worker[w].id)
    /\ Finished(w)
    /\ UNCHANGED <<row, aged, expired, queue, feeding, submit, purging, syncs, recover, sweep, up, bounds>>

-----------------------------------------------------------------------------
(* jobs.recover, recoverOne, feed: r is the boot pass or the periodic one *)

Abandoned == {id \in Ids : row[id].status \in {"notStarted", "running"} /\ id \notin expired}

Orphaned == {id \in Abandoned : ~row[id].leased /\ (row[id].status = "notStarted" => id \in aged)}

\* A scan of at most recoverBatch rows (by created_at: here, any of them).
Batch(ids) == {b \in SUBSET ids : IF Cardinality(ids) <= RecoverBatch
                                  THEN b = ids ELSE Cardinality(b) = RecoverBatch}

RecoverAt(r, step) == recover' = [recover EXCEPT ![r].at = step]

\* The boot pass ignores leases; the periodic one does not.  A pass that cannot
\* scan has nothing to do.
RecoverScan(r) ==
    /\ recover[r].at = "scan"
    /\ \/ /\ \E ids \in Batch(IF r = "boot" THEN Abandoned ELSE Orphaned) :
                 recover' = [recover EXCEPT ![r].at = "next", ![r].todo = ids]
          /\ UNCHANGED bounds
       \/ RecoverAt(r, "next") /\ Fault
    /\ UNCHANGED <<persistent, manager, submit, purging, syncs, worker, sweep, up>>

RecoverNext(r) ==
    \E id \in recover[r].todo :
        /\ recover[r].at = "next"
        /\ recover' = [recover EXCEPT ![r].at = "get", ![r].id = id, ![r].todo = @ \ {id}]
        /\ UNCHANGED <<persistent, manager, submit, purging, syncs, worker, sweep, up, bounds>>

\* The row is read again; a job that is gone or done is left alone.
RecoverGet(r) ==
    LET id == recover[r].id IN
    /\ recover[r].at = "get"
    /\ \/ /\ HasRow(id) /\ ~Terminal(id)
          /\ recover' = [recover EXCEPT ![r].at = "check", ![r].attempts = row[id].attempts]
          /\ UNCHANGED bounds
       \/ (~HasRow(id) \/ Terminal(id)) /\ RecoverAt(r, "next") /\ UNCHANGED bounds
       \/ RecoverAt(r, "next") /\ Fault
    /\ UNCHANGED <<persistent, manager, submit, purging, syncs, worker, sweep, up>>

\* Wrong: attempts are not counted.
MayRerunForever(r) == recover[r].id \in input

MayRerun(r) == recover[r].id \in input /\ recover[r].attempts < MaxAttempts

RecoverCheck(r) ==
    /\ recover[r].at = "check"
    /\ RecoverAt(r, IF MayRerun(r) THEN "claim" ELSE "fail")
    /\ UNCHANGED <<persistent, manager, submit, purging, syncs, worker, sweep, up, bounds>>

RecoverFail(r) ==
    LET id == recover[r].id IN
    /\ recover[r].at = "fail"
    /\ \/ Update(id, "failed", FALSE) /\ RecoverAt(r, IF HasRow(id) THEN "clean" ELSE "discard") /\ UNCHANGED bounds
       \/ RecoverAt(r, "discard") /\ Fault /\ UNCHANGED row
    /\ UNCHANGED <<input, result, aged, expired, manager, submit, purging, syncs, worker, sweep, up>>

RecoverFailed(r) ==
    /\ \/ recover[r].at = "clean" /\ RemoveInput(recover[r].id)
       \/ recover[r].at = "discard" /\ RemoveAll(recover[r].id)
    /\ RecoverAt(r, "next")
    /\ UNCHANGED <<row, aged, expired, manager, submit, purging, syncs, worker, sweep, up, bounds>>

\* Wrong: an earlier claim is not looked at.
RecoverUnclaimed(r) ==
    /\ recover[r].at = "claim"
    /\ RecoverAt(r, "requeue") /\ claims' = claims \union {recover[r].id}
    /\ UNCHANGED <<persistent, admits, queue, feeding, submit, purging, syncs, worker, sweep, up, bounds>>

\* The claim comes before the requeue; an id claimed already is left alone.
RecoverClaim(r) ==
    LET id == recover[r].id IN
    /\ recover[r].at = "claim"
    /\ IF id \in claims
       THEN RecoverAt(r, "next") /\ UNCHANGED claims
       ELSE RecoverAt(r, "requeue") /\ claims' = claims \union {id}
    /\ UNCHANGED <<persistent, admits, queue, feeding, submit, purging, syncs, worker, sweep, up, bounds>>

Requeue(r) ==
    LET id == recover[r].id IN
    /\ recover[r].at = "requeue"
    /\ \/ /\ Update(id, "notStarted", TRUE)
          /\ recover' = [recover EXCEPT ![r].at = "next", ![r].claimed = @ \union {id}]
          /\ UNCHANGED <<claims, bounds>>
       \/ claims' = claims \ {id} /\ RecoverAt(r, "next") /\ Fault /\ UNCHANGED row
    /\ UNCHANGED <<input, result, aged, expired, admits, queue, feeding, submit, purging, syncs, worker, sweep, up>>

\* Wrong: feed does not get the jobs.
RecoverDoneUnfed(r) ==
    /\ recover[r].at = "next" /\ recover[r].todo = {}
    /\ recover' = [recover EXCEPT ![r] = Resting]
    /\ up' = IF r = "boot" THEN "serving" ELSE up
    /\ UNCHANGED <<persistent, manager, submit, purging, syncs, worker, sweep, bounds>>

\* The pass is over: feed has the claimed jobs from here on.  After the boot
\* pass the listener opens; after the periodic one the sweeper goes on.
RecoverDone(r) ==
    /\ recover[r].at = "next" /\ recover[r].todo = {}
    /\ feeding' = feeding \union recover[r].claimed
    /\ recover' = [recover EXCEPT ![r] = Resting]
    /\ up' = IF r = "boot" THEN "serving" ELSE up
    /\ UNCHANGED <<persistent, admits, queue, claims, submit, purging, syncs, worker, sweep, bounds>>

\* A recovered job takes an admission slot like any other, but waits for it.
Feed(id) ==
    /\ id \in feeding
    /\ admits < Capacity /\ Len(queue) < Capacity
    /\ admits' = admits + 1
    /\ queue' = Append(queue, id)
    /\ feeding' = feeding \ {id}
    /\ UNCHANGED <<persistent, claims, submit, purging, syncs, worker, recover, sweep, up, bounds>>

-----------------------------------------------------------------------------
(* jobs.sweepOnce, one phase after the other *)

SweepAt(step, todo) == sweep' = [sweep EXCEPT !.at = step, !.todo = todo, !.id = Nobody]
SweepSkip(id) == sweep' = [sweep EXCEPT !.todo = @ \ {id}]
Sweeping(step) == up # "down" /\ sweep.at = step

\* Expired: a running job only once its lease has lapsed.
Collectable == {id \in expired : HasRow(id) /\ ~(row[id].status = "running" /\ row[id].leased)}

SweepBegins ==
    /\ Sweeping("idle")
    /\ \/ SweepAt("expire", Collectable) /\ UNCHANGED bounds
       \/ SweepAt("expire", {}) /\ Fault
    /\ UNCHANGED <<persistent, manager, submit, purging, syncs, worker, recover, up>>

\* store.Delete, in the two phases that call it: the row ...
SweepDelete ==
    \E id \in sweep.todo :
        /\ Sweeping("expire") \/ Sweeping("evict")
        /\ \/ /\ row' = [row EXCEPT ![id] = NoRow]
              /\ sweep' = [sweep EXCEPT !.todo = @ \ {id}, !.id = id,
                           !.at = IF @ = "expire" THEN "expireBlobs" ELSE "evictBlobs"]
              /\ UNCHANGED bounds
           \/ SweepSkip(id) /\ Fault /\ UNCHANGED row
        /\ UNCHANGED <<input, result, aged, expired, manager, submit, purging, syncs, worker, recover, up>>

\* ... and then the blobs.
SweepDeleteBlobs ==
    /\ Sweeping("expireBlobs") \/ Sweeping("evictBlobs")
    /\ RemoveAll(sweep.id)
    /\ sweep' = [sweep EXCEPT !.id = Nobody, !.at = IF @ = "expireBlobs" THEN "expire" ELSE "evict"]
    /\ UNCHANGED <<row, aged, expired, manager, submit, purging, syncs, worker, recover, up, bounds>>

\* Wrong: no age is asked of a blob.
NeverJustWritten(id) == FALSE

\* Blobs written within the hour: the next step of their writer is due at once.
JustWritten(id) == submit[id] = "stored" \/ \E w \in Workers : worker[w].at = "succeed" /\ worker[w].id = id

\* Wrong: only results are listed.
OrphanResultsBegin ==
    /\ Sweeping("expire") /\ sweep.todo = {}
    /\ SweepAt("orphans", result)
    /\ UNCHANGED <<persistent, manager, submit, purging, syncs, worker, recover, up, bounds>>

\* sweepOrphanBlobs: blobs whose row is gone, if the answer is certain and
\* the newest of them is an hour old.
OrphansBegin ==
    /\ Sweeping("expire") /\ sweep.todo = {}
    /\ SweepAt("orphans", input \union result)
    /\ UNCHANGED <<persistent, manager, submit, purging, syncs, worker, recover, up, bounds>>

SweepOrphan ==
    \E id \in sweep.todo :
        /\ Sweeping("orphans")
        /\ SweepSkip(id)
        /\ \/ ~HasRow(id) /\ ~JustWritten(id) /\ RemoveAll(id) /\ UNCHANGED bounds
           \/ (HasRow(id) \/ JustWritten(id)) /\ UNCHANGED <<input, result, bounds>>
           \/ Fault /\ UNCHANGED <<input, result>>
        /\ UNCHANGED <<row, aged, expired, manager, submit, purging, syncs, worker, recover, up>>

\* The pass at startup leaves reclaiming to Recover.
ReclaimBegins ==
    /\ Sweeping("orphans") /\ sweep.todo = {}
    /\ SweepAt("reclaim", {})
    /\ IF sweep.first THEN UNCHANGED recover ELSE RecoverAt("sweep", "scan")
    /\ UNCHANGED <<persistent, manager, submit, purging, syncs, worker, up, bounds>>

\* Wrong: a job that has not ended may be evicted.
EvictAnyBegins ==
    /\ Sweeping("reclaim") /\ recover["sweep"].at = "idle"
    /\ \E ids \in {{}, {id \in Ids : HasRow(id)}} : SweepAt("evict", ids)
    /\ UNCHANGED <<persistent, manager, submit, purging, syncs, worker, recover, up, bounds>>

\* evictUnderPressure: the volume may be too full, and may have room again
\* after any eviction.
EvictBegins ==
    /\ Sweeping("reclaim") /\ recover["sweep"].at = "idle"
    /\ \E ids \in {{}, {id \in Ids : Terminal(id)}} : SweepAt("evict", ids)
    /\ UNCHANGED <<persistent, manager, submit, purging, syncs, worker, recover, up, bounds>>

SweepEnds ==
    /\ Sweeping("evict")
    /\ sweep' = Asleep
    /\ UNCHANGED <<persistent, manager, submit, purging, syncs, worker, recover, up, bounds>>

-----------------------------------------------------------------------------
(* Time, crashes, restarts *)

\* A submit takes its time stamp before it reads the body.
Age(id) ==
    /\ submit[id] # "new" /\ id \notin aged
    /\ SlowUploads \/ submit[id] \in {"acked", "refused"}
    /\ aged' = aged \union {id}
    /\ UNCHANGED <<row, input, result, expired, manager, agents, up, bounds>>

\* RESULT_TTL is far longer than an upload may last.
Expire(id) ==
    /\ submit[id] \in {"acked", "refused"} /\ id \in aged \ expired
    /\ expired' = expired \union {id}
    /\ UNCHANGED <<row, input, result, aged, manager, agents, up, bounds>>

\* startHeartbeat renews a running job's lease four times as often as it lapses.
Heartbeating(id) ==
    /\ row[id].status = "running"
    /\ \E w \in Workers : worker[w].id = id /\ ~worker[w].released
                       /\ worker[w].at \in {"run", "write", "succeed", "fail", "clean", "discard"}

LeaseLapses(id) ==
    /\ row[id].leased /\ ~Heartbeating(id)
    /\ row' = [row EXCEPT ![id].leased = FALSE]
    /\ UNCHANGED <<input, result, aged, expired, manager, agents, up, bounds>>

\* The process dies, or stops: Stop cancels the workers, which leave their rows
\* as they are, and what they do up to then is among the steps above.
Crash ==
    /\ up # "down"
    /\ Mishap /\ crashes < MaxCrashes
    /\ crashes' = crashes + 1
    /\ up' = "down"
    /\ submit' = [id \in Ids |-> IF submit[id] \in {"new", "acked"} THEN submit[id] ELSE "refused"]
    /\ purging' = {} /\ syncs' = 0
    /\ admits' = 0 /\ queue' = <<>> /\ claims' = {} /\ feeding' = {}
    /\ worker' = [w \in Workers |-> Idle]
    /\ recover' = [r \in {"boot", "sweep"} |-> Resting]
    /\ sweep' = Asleep
    /\ UNCHANGED <<persistent, faults>>

\* serve: Start launches the sweeper, Recover runs before the listener opens.
Boot ==
    /\ up = "down"
    /\ up' = "booting"
    /\ sweep' = [Asleep EXCEPT !.first = TRUE]
    /\ RecoverAt("boot", "scan")
    /\ UNCHANGED <<persistent, manager, submit, purging, syncs, worker, bounds>>

-----------------------------------------------------------------------------

SubmitStep(id) ==
    \/ StoreInput(id) \/ StoreInputFails(id)
    \/ CreateRow(id) \/ CreateRowFails(id) \/ Enqueue(id)

WorkerStep(w) ==
    \/ TakeJob(w) \/ GetJob(w) \/ MarkRunning(w)
    \/ EngineReturns(w) \/ EnginePanics(w)
    \/ WriteResult(w) \/ Succeed(w) \/ Fail(w) \/ RunEnds(w)

RecoverStep(r) ==
    \/ RecoverScan(r) \/ RecoverNext(r) \/ RecoverGet(r) \/ RecoverCheck(r)
    \/ RecoverFail(r) \/ RecoverFailed(r)
    \/ RecoverClaim(r) \/ Requeue(r) \/ RecoverDone(r)

SweepStep ==
    \/ SweepDelete \/ SweepDeleteBlobs \/ OrphansBegin \/ SweepOrphan
    \/ ReclaimBegins \/ EvictBegins \/ SweepEnds

TimePasses(id) == Age(id) \/ Expire(id) \/ LeaseLapses(id)

Next ==
    \/ \E id \in Ids : Admit(id) \/ SubmitStep(id) \/ Feed(id)
    \/ \E id \in Ids : DeleteRow(id) \/ DeleteBlobs(id)
    \/ SyncBegins \/ SyncEnds
    \/ \E w \in Workers : WorkerStep(w)
    \/ \E r \in {"boot", "sweep"} : RecoverStep(r)
    \/ SweepBegins \/ SweepStep
    \/ \E id \in Ids : TimePasses(id)
    \/ Crash \/ Boot

Spec == Init /\ [][Next]_vars

\* Goroutines that can run do, the sweeper's ticker fires, a process that died is
\* started again, and time passes.  Clients need not submit or delete.
Fairness ==
    /\ \A id \in Ids : WF_vars(SubmitStep(id)) /\ SF_vars(Feed(id)) /\ WF_vars(DeleteBlobs(id))
    /\ WF_vars(SyncEnds)
    /\ \A w \in Workers : WF_vars(WorkerStep(w))
    /\ \A r \in {"boot", "sweep"} : WF_vars(RecoverStep(r))
    /\ WF_vars(SweepBegins) /\ WF_vars(SweepStep)
    /\ \A id \in Ids : WF_vars(Age(id)) /\ WF_vars(LeaseLapses(id))
    /\ WF_vars(Boot)

FairSpec == Spec /\ Fairness
-----------------------------------------------------------------------------
(* Properties *)

TypeOK ==
    /\ row \in [Ids -> [status : Statuses, attempts : Nat, leased : BOOLEAN]]
    /\ {input, result, aged, expired, purging, claims, feeding} \subseteq SUBSET Ids
    /\ up \in {"down", "booting", "serving"}
    /\ submit \in [Ids -> {"new", "admitted", "stored", "created", "acked", "refused"}]
    /\ admits \in 0 .. Capacity
    /\ syncs \in 0 .. MaxSyncs
    /\ queue \in Seq(Ids) /\ Len(queue) <= Capacity
    /\ worker \in [Workers ->
           [at : {"idle", "get", "mark", "run", "write", "succeed", "fail", "clean", "discard"},
            id : Ids \union {Nobody}, sawInput : BOOLEAN, released : BOOLEAN]]
    /\ recover \in [{"boot", "sweep"} ->
           [at : {"idle", "scan", "next", "get", "check", "fail", "clean", "discard", "claim", "requeue"},
            todo : SUBSET Ids, id : Ids \union {Nobody}, attempts : Nat, claimed : SUBSET Ids]]
    /\ sweep \in [at : {"idle", "expire", "expireBlobs", "orphans", "reclaim", "evict", "evictBlobs"},
                  todo : SUBSET Ids, id : Ids \union {Nobody}, first : BOOLEAN]
    /\ crashes \in 0 .. MaxCrashes /\ faults \in 0 .. MaxFaults

\* What the leases and ages of recover.go are meant to ensure, and do not
\* (job_slot_leak and job_overwritten go without): an upload is answered within
\* 2*leaseDuration, and no worker has a job whose row recoverOne has read again
\* and not done with.
PromptUploads == \A id \in aged : submit[id] \notin {"admitted", "stored", "created"}
Undisturbed ==
    \A r \in {"boot", "sweep"}, w \in Workers :
        recover[r].at \notin {"idle", "scan", "next", "get"} /\ worker[w].at # "idle"
        => worker[w].id # recover[r].id
Timely == PromptUploads /\ Undisturbed

Unfinished(id) == row[id].status \in {"notStarted", "running"}
InSubmit == {id \in Ids : submit[id] \in {"admitted", "stored", "created"}}
Busy == {w \in Workers : worker[w].at # "idle"}
Holding == {w \in Busy : ~worker[w].released}

\* Manager.admits is "one token per accepted-but-unfinished job": every slot
\* taken belongs to a submit under way, a synchronous request, a queued job or
\* a busy worker.  A slot that nobody will give back is gone until a restart.
SlotsAccounted == admits = Cardinality(InSubmit) + syncs + Len(queue) + Cardinality(Holding)

\* How many places have the id queued, running or claimed.
Places(id) ==
    Cardinality({i \in DOMAIN queue : queue[i] = id})
    + Cardinality({w \in Holding : worker[w].id = id})
    + Cardinality({r \in {"boot", "sweep"} : id \in recover[r].claimed})
    + Cardinality({r \in {"boot", "sweep"} : recover[r].at = "requeue" /\ recover[r].id = id})
    + IF id \in feeding THEN 1 ELSE 0

\* "Nothing may enqueue an id twice" (Manager.claims), and no claim outlives its
\* job, which would keep every later recovery pass away from it.
ClaimedOnce == \A id \in Ids : Places(id) = IF id \in claims THEN 1 ELSE 0

\* The durability contract of submit: from its 202 until it is done, a job has
\* the input document that a restart needs to run it again, as long as the
\* store does not fail: a failed UPDATE in failJob discards the input of a live
\* row.
InputKept ==
    faults = 0 => \A id \in Ids : submit[id] = "acked" /\ Unfinished(id) => id \in input

\* A poll of a succeeded job finds the envelope it is to stream: the result is
\* committed before the row says so and removed after the row is.
ResultBehindRow == \A id \in Ids : row[id].status = "succeeded" => id \in result

\* maxAttempts: no job is started more often, however often the process dies.
AttemptsBounded == \A id \in Ids : row[id].attempts <= MaxAttempts

\* What surface.poll says of the id; streamResult reports a lost result as failed.
Answer(id) ==
    IF ~HasRow(id) \/ id \in expired THEN "unknown"
    ELSE IF Unfinished(id) THEN "pending"
    ELSE IF id \notin result THEN "failed"
    ELSE row[id].status

Contract == INSTANCE Operation WITH
    answer <- [id \in Ids |-> Answer(id)],
    withdrawn <- purging \union expired

\* Seen by its polls, a job keeps the contract of Operation: an end is final, and
\* a 202 is not forgotten while the job is open, unless its client deleted it or
\* its TTL passed.
ContractKept == Contract!Spec

\* "A job that finished in the gap would otherwise be overwritten here"
\* (recoverOne): a job that succeeded stays so until its row goes.
FinishedNotOverwritten ==
    [][\A id \in Ids : row[id].status = "succeeded" => row'[id] \in {row[id], NoRow}]_vars

\* Every accepted job comes to an end its client can see, through crashes, store
\* faults and lapsed leases: nobody polls a running status forever.
EveryJobEnds ==
    \A id \in Ids : (submit[id] = "acked" /\ Unfinished(id)) ~> ~Unfinished(id)

\* Blobs without a row are removed in the end, whoever left them behind.
OrphansCollected ==
    \A id \in Ids : (submit[id] \in {"acked", "refused"} /\ ~HasRow(id) /\ id \in input \union result)
                    ~> id \notin input \union result
=============================================================================
