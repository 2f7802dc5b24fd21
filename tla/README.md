# azure-gateway-api in TLA+

The repository is a gateway in front of two Azure OCR containers (the "di" and
"read" surfaces). A client submits a document, gets a 202 with an operation id
and polls it; the gateway stores the document, runs the analysis against the
container, splitting long PDFs into parts that run in parallel, and keeps the
result until its TTL passes. Rows live in SQLite and documents in files, so an
accepted job must survive a restart.

Paths below are relative to `src/internal/` unless they start with `src/`.

## Inventory

| Part | State | Operations | Talks to |
|---|---|---|---|
| `sched` | `inUse`, ring of jobs, waiters per job, all under one mutex | `Acquire`, `TryAcquireIdle`, release | engine parts, hedges, passthrough |
| `jobs` (manager, recover) | `admits` and `queue` channels, `claims` map, worker goroutines, sweeper; in memory | `Admit`, `Enqueue`, `run`, `finish`, `failJob`, `recover`, `feed`, `sweepOnce` | store, engine, surface |
| `surface` | none between requests | submit, poll, delete, syncAnalyze, passthrough | jobs, store |
| `store` | `jobs` table, blob files, migration backups | one SQL statement each; blob commit by rename; `migrate` | disk |
| `engine` | per run: parts, attempts, retry budget, deadline, work folder | `Run`: whole, split, hedged attempts, halving, re-check, merge | sched, upstream, pdfsplit, merge |
| `pdfsplit` | permits for open documents, one parsed document each | `Plan`, `Halve`, `Select`, `FormatPages`, `Open`, `WritePart`, `Close`, `Recut` | engine, pdfcpu |
| `upstream`, `azerr` | none between attempts; a scratch file during one | one attempt (`Do`), its classification and download, `Backoff` | container |
| `merge` | none | `DI`, `Read`: the results of a document's parts stitched into one | engine |
| `realcut` | none | a whole result cut into its parts', the inverse of `merge`, for tests and the bench | merge's tests |
| `cmd/gateway` | start and stop order | `serve` | all |

What is hard, part by part, and what makes the part correct:

- **sched.** A grant races with the end of its waiter's context; newcomers and
  hedges must not overtake; jobs with a backlog must not starve. Correct when
  slots are conserved, none is idle while a call waits, every waiting job is
  served once per round and every wait ends.
- **jobs, surface, store.** Submit handlers, workers, two recovery passes, the
  sweeper and clients' DELETEs interleave between single SQL statements and
  single file operations, any of which may fail, and the process may die between
  any two. Correct when a 202 is kept (the job ends, with its result if it
  succeeded, and is not forgotten), ends are final, no slot or claim leaks, no
  job is queued twice, a job that kills the process is given up, and nothing is
  left on disk for ever.
- **engine.** Parallel parts under shared slots; the first error cancels the
  rest; hedged attempts answer twice; a part out of attempts is cut in two while
  its siblings run; the deadline or a shutdown may come at any step. Correct when
  the merged result covers every page once, no slot, permit, goroutine or file is
  left behind, a shutdown is never taken for a failure nor the other way round,
  and every run returns.
- **pdfsplit.** Plans and halves must partition the pages; documents that are open
  must not wait for one another.
- **store.migrate, store.Blob.** A kill or a power loss between a write, its fsync,
  a rename and the fsync of the directory; a failed step in between; a second
  gateway that starts on the same volume. Correct when a backup is complete or
  absent, a migrated volume has a way back, the stamped version is the schema, a row
  never names an artifact that is torn or gone, and what was left is collected.
- **upstream.** The answer, the connection, the attempt's deadline and the caller's
  context end in any order, and the transport reports three of them as the same
  error. Correct when the outcome says which it was, and only a success leaves a
  file.
- **merge.** Page numbers, offsets, pointers and sections of every part move by
  amounts that depend on all parts before it, and a section may run on across
  several cuts. Correct when the parts of a cut document merge to the document.
- **serve, Stop, Drain.** Tracked goroutines must see the manager's context, or
  shutdown never ends; requests and jobs must get their grace; what was cut short
  must not be recorded as failed.

`PROJECT.json` lists every part and the hazards, each at its line.

## Modules

| Module | Models | Status |
|---|---|---|
| `Scheduler` | `sched/sched.go` | done |
| `FairSlots` | what the package comment of `sched` promises | done |
| `SchedulerFair` | `Scheduler` with a history variable, refines `FairSlots` | done |
| `SchedulerProofs` | theorems about `Scheduler`; it implements `FairSlots` | done |
| `MCScheduler`, `MCSchedulerFair` | instances for TLC | done |
| `Operation` | what the client of an operation id is promised | done |
| `JobLifecycle` | jobs, surface and store around one surface, refines `Operation` | done |
| `JobProofs` | theorems about `JobLifecycle`: types, slots, claims | done |
| `JobContractProofs` | its rows, blobs and answers; it implements `Operation` | done |
| `MCJobLifecycle` | its instances for TLC | done |
| `PdfSplit` | `pdfsplit/plan.go`, `pages.go` as operators | done |
| `PdfSplitProofs` | theorems about plans and halves | done |
| `Merge` | `merge/*.go` as operators on results | done |
| `Cut` | `realcut/cut.go`: the left inverse of `Merge` | done |
| `Document` | what a container answers, as `merge` reads it (external) | done |
| `MCDocuments` | `PdfSplit`, `Merge` and `Cut` on every input up to a bound, one a state | done |
| `DocumentProofs` | theorems about selections, the member order and what a merge puts where | done |
| `Analysis` | what one run of the engine promises | done |
| `Engine` | one run of `engine`, with what it shares with other runs; refines `Analysis` | done |
| `EngineProofs` | theorems about `Engine`: types, the kept error, who owns slots, permits and pages | done |
| `EngineContractProofs` | its files; `Engine` implements `Analysis` | done |
| `MCEngine` | its fairness and liveness for TLC | done |
| `Migrate` | `store/migrate.go`: the start of a gateway on its volume | done |
| `BlobStore` | `store/blob.go` and the sweep of `jobs/recover.go`, down to fsyncs | done |
| `Upstream` | `upstream/attempt.go`, `classify.go`, `result.go`: one attempt | done |
| `Process` | `cmd/gateway/main.go`, `jobs/manager.go`: start to exit; composes `Upstream` | done |
| `MCGateway` | `Migrate`, `BlobStore` and `Process` side by side, for TLC | done |
| `GatewayProofs` | theorems about `Migrate`, `BlobStore` and `Process`, and about the three together | done |

### Scheduler

State: `mu` (who has the mutex between freeing a slot and the end of
grantLocked's loop), `inUse`, `ring`, `waiters`, `waiting` as in the struct;
`token[c]`, the buffered grant in a waiter's channel; `ended[c]`, its context;
`pc[c]`, where the call is. A critical section that cannot be seen half done is
one action; `grantLocked` is one action per iteration, because its invariant is
about the end of the loop. The `select` in `Acquire` is the choice between
`TakeToken` and `SeeDone`, so that a grant and the end of the context can come in
any order. `GiveUpGranted` and `GiveUpQueued` are the two cases it finds under
the lock.

`FairSlots` has no ring, no channels and no mutex. It says that a freed slot goes
straight to the oldest call of a waiting job, that nobody takes a slot past a
waiter, and that no job is served twice while another waits for its turn.
`SchedulerFair` maps `Scheduler` to it: `holding` is the set of calls that hold a
slot or have a grant, plus, while the mutex is held between `inUse--` and the
grant, the call that is freeing its slot.

### JobLifecycle

State: `row` (status, attempts and whether the lease is live), `input` and
`result` (the blobs present) survive a crash. `submit`, `worker`, `recover` and
`sweep` say how far each goroutine has come; `admits`, `queue`, `claims` and
`feeding` are the manager's. Each SQL statement, blob commit and blob removal is
a step of its own, in the order of the code, so everything another goroutine or a
crash can see between two of them is there. The variable `faults` bounds how many of
them fail; each failing step takes the error path of its caller.

Time is abstract. `aged` is the set of ids whose `created_at` is more than
`2*leaseDuration` ago, `expired` those past their TTL; `LeaseLapses` clears a
lease nobody renews. A worker between `MarkRunning` and its end renews it
(`Heartbeating`): the heartbeat runs four times per lease, so the model lets no
heartbeating lease lapse. `SlowUploads` says whether an upload may last beyond
the age the periodic pass asks for; with the defaults it may (10 minutes against
4). The blobs' age guard of an hour is `JustWritten`.

The periodic pass runs beside everything else, as the ticker has it. Two of its
defences are a matter of time only, and the code does not ensure them. `Timely` states
what they amount to: an upload is answered within `2*leaseDuration` (`PromptUploads`),
and no worker has the job whose row `recoverOne` has read again and not done with
(`Undisturbed`). A job may still be taken, run and end between the scan of a pass and
the re-read. `job_slot_leak` and
`job_overwritten` show what happens when each of the two is not so; `job_safety` and
the theorems of `JobContractProofs` say what holds as long as they are.

`Crash` loses everything in memory at any step. A graceful stop is seen by the
store as such a crash after some of the steps before it. `Boot` starts the sweeper
and the boot pass; the listener opens when the pass is over.

`Operation` is the client's view: unknown, pending, succeeded, failed. `Answer`
maps a row to what `poll` says, a lost result included. The service starts with any
answers, since rows outlive the process. `InputKept` asks for a store that has not
failed: a failed UPDATE in `failJob` is taken there for a row that is gone.

### PdfSplit

`Plan` and `Halve` look only at positions in the list of selected pages, so a part
is a pair of positions. `Select` and `FormatPages` work on page numbers; a term of
the `pages=` grammar is a record of its two numbers, its text is left out. `SelectFrom`
and `FormatPages` fold over ranges and pages as the loops do; `SortedByFirst` is
`slices.SortFunc`, on whose order among equal first pages nothing depends.

### Engine

State: `phase` is where `run`, `decide` or `split` is; `task` has the local state
of each goroutine of `fanout`, and of the loop of `whole` for a document sent whole
(the task `Doc`), indexed by the positions it analyses; `err`, `cancelled` and
`results` are the fields of `fanout`; `files` and `folder` are what is on disk;
`stopped` and `late` are the ends of the caller's context and of the job deadline;
`inUse` and `open` are the scheduler's slots and the splitter's permits, with
`others` and `otherDocs` held by other runs of the process.

A task is `want` (in `Acquire`), `call` (in `hedged`'s loop or in `call`), `drain`
(a winner is known, the loser is waited for), `backoff`, `recut` (waiting for a
permit) or `cutting`. `running` has its calls in flight, `heard` the buffered
channel `answers`. A re-check is the task turned `whole`. An answer of
`Client.Do`, the end of the hedge timer, the end of either context and the
cancellation by a sibling may come between any two steps; `Do` says `Cancelled`
whatever arrived once its context has ended. What the container answers, whether a
part can be cut, and which of its four results the merge has are chosen freely.
A call's slot is returned in the step in which `Do` returns, before the loop can
read the answer, as in `hedged`.

`Analysis` has no parts, attempts, slots or files: sets of pages are answered,
each page once, and the output is there only when all of them are; a run without
one is interrupted by a shutdown, else past its deadline, else failed.

### Merge, Cut, Document

A result is what the merge renumbers: the length of its content, its pages with
their numbers and spans, per array its items with a page, a span and whether it is a
heading, and the sections as a list whose elements point into the arrays and to
other sections. `DI` is the checks of `check.go`, `di.go` and `sections.go` before
anything is written, `PlanContinuations` of `continue.go`, and the
renumbering of `diVisitor`; `Read` is `merge.Read`; `MergeOrder` is `order.go`, its
insertions `Prefer` and its topological sort `Place`.

`CutDI` is `realcut.CutDI`. `Document` is not this program: it builds what the
container answers for a list of items (body text, figures, headings of two levels,
page headers and footers) on the pages of a document, in the shapes that
`continue.go` and `sections.go` describe of real results. `Variants` are the other
shapes in which a part may come: numbered as the original after a re-check, without
the wrapper of a section it continues, or with its first text in the root.

`MergeUndoesCut` compares the merge with the result that was cut; `AnswersStitched`
merges answers for the parts alone, where sections can only be guessed from what each
part shows. Both say exactly when the merge refuses its parts (`Mergeable`), so that a
merge that refuses too much violates them as does one that accepts too much. Some refusals
no part of `Document` meets, as a container does not answer so: an item on a page
outside its part (`ItemPagesMatch`), a span past the content (`SpansWithin`), a pointer
to a section that was folded away (`PlanMatches`). They are in `Merge` because the code
has them, and no property is about them.

### Migrate

State: the committed database (its stamp, its jobs table, the migrations
applied), the transaction of who has the write lock, and `DATA_DIR` with the
backups, their inodes and the contents the directory had since its last fsync. A
`PowerLoss` leaves any of these contents, and tears files never fsynced. `proc`
has two starts: `main`, which the platform restarts, kills and rolls to another
image, and `second`, beside it on the same volume only when `alone` is false.
`migrate.go` does not claim two gateways on one volume to be safe, so what the
comments say of backups is checked of one start at a time and `SchemaTrue` of both.
Steps are system calls and SQL statements; any may fail and takes its error return
(`GiveUp`). Images are schema versions: the repository has two migrations, the
model runs three, so that an upgrade can follow an upgrade. `Inodes` bounds the files
that are in a contents of `DATA_DIR` at one time; no run reaches the bound.

### BlobStore

State: per id its shard directory (whether it is there, artifacts and temporary
files), the contents the directory had since its last fsync, and the row that promises
an artifact; per writer how far `Commit` is; the sweeper with its batch and cursor. A
shard is there from earlier jobs or made by `Create` (`MkdirAll`). `Commit` fsyncs
what is in it and not the directory above, so a power loss may take a shard made since
the start with all that is in it. `ArtifactsWhole` looks at every contents a power
loss may leave that still has the shard; `CommitLasts`, that the artifact a row names
is there at all, is what the comments promise and `shard_lost` violates. `Age` is the
hour of `blobGrace`: it does not pass for a file being written or about to be named by
a row, because the longest upstream timeout bounds both. Rows commit durably
(`synchronous=FULL`).

### Upstream and Process

`call[c]` is one attempt: waiting, reading the body into its scratch file,
classified, returned. `left` is the end of the caller's context and `late` the
attempt's deadline; `cause` remembers what broke the connection, which the code
cannot see, so that `OutcomeTrue` can compare what `Do` returns with what
happened. `OutcomeOf` is the table of `classify`; of an error body only whether an
error could be read from it and whether it names no endpoint is kept.

`Process` has `serve` as `main`, from the opened store through `Start`, `Recover`, the
listener, a signal or a failing listener, `Shutdown`, `Drain`, `Stop` to `Close`; the
tracked goroutines (`worker`, `feeder`, `sweeping`), and the handlers of submits and
synchronous requests. A submit handler is admitted while the listener is open, may
spend the whole shutdown on its upload, and outlives it when the grace is over; it
then commits its row if the context of requests still lives, and hands it to workers
that may have ended. `StoreOutlivesWork` is about the goroutines `Stop` waits for: a
handler that outlived the grace, or a heartbeat, may find the store closed. A worker's
job is one call here; its retries are `Engine`'s and its rows `JobLifecycle`'s. `left`
of a worker's call is set by `Stop`, of a request's by its client or by the end of the
context requests run under.

## Runs

| Run | Question | Instance | States |
|---|---|---|---|
| scheduler | slots conserved, none idle, waiters accounted for; the ring implements `FairSlots` | 5 calls, 3 jobs, 2 slots | 515k |
| scheduler_liveness | every wait ends | 3 calls, limit 0 (treated as 1) | 2.6k |
| job_safety | slots, inputs, results, attempts and answers from the start of a process on what a crash left, with the periodic pass and a failing step, while `Timely` | 2 ids, 1 worker | 744k |
| job_liveness | every job ends, orphaned blobs go, no job is claimed twice, with the periodic pass and a crash or a failing step | 1 id, 1 worker | 228k |
| job_slot_leak | violated: a slot is lost to a slow upload | 1 id | - |
| job_overwritten | violated: a succeeded job becomes failed | 1 id | - |
| documents | plans balanced, halves exact, selections exact and read back; parts merge to the whole, sections continued, or are refused exactly when they must be; member order kept | 16 pages; 3 ranges over 4 pages; 3 items on pages 1, 2, 4 of a document; 3 parts of 3 members | 55.7k |
| engine_safety | slots, permits, files and the kept error through hedges, retries, the `RetryOnce` limit, fallback, a shutdown and the deadline; `Engine` implements `Analysis` | 2 pages, 2 part and 3 whole attempts, 2 slots, 1 permit, slots and permits shared | 658k |
| engine_liveness | each page in one task through halving and re-checks; every run returns though the deadline never passes | 3 pages in 2 parts, 1 slot, 1 permit, permits shared | 298k |
| engine_uncut | violated: a part's own failure fails the document | 3 pages in 2 parts | - |
| gateway_process | backups whole and a way back, schema as stamped, artifacts whole, leftovers collected; outcomes of calls; a shutdown keeps work and ends | 3 images, 2 mishaps; 2 ids, 2 files; 1 surface, 1 recovered job, 1 submit, 1 request, 2 slots | 199k |
| shard_lost | violated: a committed artifact goes with its new shard | as gateway_process | - |

Bounds. Five calls on two slots leave three that wait: the least that shows a job with
two waiters while another waits for its turn, without which a ring that keeps the turn
of a job cannot be told from one that does not. Two ids on one worker give a job that
runs and one that waits, is recovered or is deleted; the hazards relate one job's row
to the manager's shared slots, so a third id repeats the second. `job_safety` starts
where a process does: on the rows of any subset of the ids, running for the first time
when an earlier process died (`SpecAfterCrash`). That reaches every step of a
recovery, and `job_liveness`, with a crash of its own, every step of a first life and
the recovery after it; `MaxMishaps` bounds crashes and failing steps together.
`MCBound` looks no further than a state that is not `Timely`, whose own invariants are
still checked. For the number of states it also keeps the periodic pass apart from the
boot pass, synchronous requests apart from the sweep, and a client's DELETE apart from
the sweeper's deletes and its search for orphans; `job_liveness` has the first, and
the proofs all three. `maxAttempts` is 2 instead of 3, `recoverBatch` 1 instead of
256, so that both limits are met. Interchangeable are the ids in `job_safety` and the
calls of one job in `scheduler`; nothing chooses among them by a fixed order, which is
what makes the symmetry sound. The liveness runs use none.

Three pages with `SPLIT_PAGES` 2 are the least that gives two parts of which one is
halved; two slots let a hedge run beside the first call or two parts side by side, one
slot and one permit make every pair of waiters compete. That is `engine_liveness`,
with one attempt per part, as halving comes after the last; `engine_safety` has no
halving, two pages and two attempts, so that it passes through the backoff. The proofs
have both at once. `MaxOthers` and `MaxOtherDocs` bound what other runs hold. 16 pages
meet every remainder of every `SPLIT_PAGES` up to 16, three ranges every way in which
ranges overlap and are ordered.

Three items on three pages give every pattern of headings and text that a cut can
part twice: a section that runs through a middle part, a heading that opens a part,
a blank part. Pages 1, 2, 4 make positions differ from numbers. Only one item is
marked (a CR, a unit the gateway counts as two), as each mark is met on its own; with a
mark, or with UTF-16 units, two items are enough. Three lists of three names can
contradict each other in a cycle.

In `gateway_process` the three scenes take no steps together, since none reads another's
state; TLC adds their states, not multiplies them. Two mishaps are a kill or a power
loss during the recovery from another one; one, with a second start. Images 1 to 3
allow an upgrade over two versions, one after another, and an image that is too
old. Two ids with a sweep batch of 1 need the cursor. The scenes may stop, a process
that has exited among them, hence `CHECK_DEADLOCK FALSE`; that nothing stops too
early is what `StartedAgain`, `LeftoversSwept` and `SignalEnds` say.

Fairness. Scheduler: goroutines that can run do; mutex acquisitions are strongly
fair, because Go's mutex hands itself to a waiter that starves; holders release,
because calls to the containers have deadlines. Nothing forces a call to be made
or a context to end. JobLifecycle: every goroutine, the sweeper's ticker, the
aging of rows and the lapse of leases go on, and a dead process is restarted; the
engine returns, because a run has a deadline. `Feed` is strongly fair: it is a
blocked send on the channel `admits`, which Go serves before a later non-blocking
`Admit`. Clients need not submit or delete, and nothing need expire. Engine:
goroutines go on, and calls and cuts return because each has a deadline
(`PartTimeout`, the upstream timeout, the splitter's budget); taking a slot is
strongly fair, which is `EveryWaitEnds` of `Scheduler`, and so is taking a permit,
because Go serves blocked senders of the splitter's channel in order; other runs
give back what they hold. The read of the input (`DecideUnsplit`), hedges and the
ends of the contexts need not happen.

MCGateway: a start goes on while it can and the platform restarts a pod that ended
(kills, failures and other images need not happen, and are bounded); system calls
return, the sweeper's ticker and the clock go on; some goroutine of the process
that can run does, a call whose context has ended returns, and the grace period
passes. `DrainGivesUp` is strongly fair: `Drain` comes back to a `select` on the
ended context and a ticker, and Go chooses among ready cases at random. A
container may take as long as it likes to answer: only contexts end a call.

## What the violated runs show

The two of JobLifecycle are about the periodic pass beside live traffic, each without
one half of `Timely`. The boot pass has neither window: it is over before the listener
opens.

- `job_slot_leak`: `submit` takes `created_at` before it reads the body. After an
  upload of more than four minutes the row counts as orphaned as soon as it is
  there; if the pass claims it before `Enqueue`, `Enqueue` answers "already
  queued", the submit keeps its admission slot for good, and `feed` takes a second.
- `job_overwritten`: `recoverOne` re-reads the row, then asks for the input blob. A
  worker that finishes in between has removed the input, and the job is failed
  over its success. The same window fails a job under its worker's live heartbeat: the
  lease filter belongs to the scan, and the row is re-read without it.
- `engine_uncut`: a part of two pages or more that is out of attempts and whose file
  pdfcpu cannot cut again fails the job with its own last answer. The package
  comment says a document fails only when it would have failed whole, and every
  other such failure is asked again about the original. (A missing route also
  ends the job at once; the whole document would have met it too.)
- `shard_lost`: the first artifact of a shard is written, fsynced and renamed in a
  directory that `MkdirAll` has just made; `Commit` fsyncs that directory and not the
  ones above. After a power loss the directory may be absent, and the row, committed
  with `synchronous=FULL`, names an artifact that is gone: an accepted job without its
  input, or a succeeded one without its result. Many file systems make a new
  directory durable with a file fsynced in it; POSIX does not promise it.

## Proofs

Every safety property that a passing run checks of a state machine, the refinement
of each of the three abstract specifications, and five of the eight properties of
`documents` are theorems, for every value of the constants. The assumptions are those of
the modules: callers, ids and workers are finite sets, every call has a job, limits and
batches are positive where the code makes them so, the images have a newest one, and in
`MCDocuments` a document has a number of pages (`CountAssumption`) and there are finitely
many member names (`NamesAssumption`; the lists come from JSON that was read).

`SchedulerProofs`: `TypeCorrect`, `NoSlotLost`, `WaiterAccounted`, `SlotNeverIdle`, of
`Spec`. None of the invariants is inductive alone. `IInv` conjoins the type invariant,
`TokenForWaiter` (a grant lies only in the channel of a call that has yet to look
there: without it, a grant could be overwritten), `SlotsConserved`,
`QueuedOrGranted` (needed to know that the call granted is a waiting one, so that
the set of holders grows by exactly one) and `NothingToGrant` (with the mutex
free, slots or waiters have run out, which is what makes a newcomer's test of
`waiting` enough). `FairTurns` is the refinement of `FairSlots`, of `SpecWithHistory`.
It needs two facts more: while `freeLocked` holds the mutex its caller has let go of
its slot, and no other slot waits to be granted (`MuLoop`); and a waiting job has been
passed by no job that stands before it in the ring (`Turns`), so that the head of the
ring is always a job whose turn it is.

`JobProofs`: `TypeCorrect`, `NoSlotLeak`, `NoDoubleClaim`, of `Spec` (an empty store;
`Crash` and `Boot` are among its steps), with both passes at any moment. That `admits`
stays within its channel is not a matter of types: no slot may be given back twice. So
`Accounted` says that the slots taken are at least those with a known holder, and
exactly those as long as uploads are prompt. The equality (`Exact`) hangs on one
branch of `Enqueue`, where an id claimed already keeps the slot of its submit. `Known`
rules it out: whoever mentions an id, in the queue, the claims, `feed`, a worker or a
pass, does so after its submit was answered; for the boot pass because no submit is
under way while the listener is shut (`Old`), for the periodic one because a row not
started is scanned only once it is old, which is where `PromptUploads` comes in.
`TypeCorrect` and `NoDoubleClaim` need no such assumption.

`JobContractProofs`: `ResultKept`, `InputStays`, `AttemptsCapped`, `EndsStay`, and
`ContractHeld`, the refinement of `Operation`; of `Spec` with both passes beside live
traffic, crashes and failing steps, as long as the run is `Timely`. The assumption cannot
be dropped: the two violated runs each break half of it, and without it each of these
statements fails. The argument is who has a job in hand, and what is still true of its
row and blobs by then. `JInv` is, beside the invariants of `JobProofs`, `AllFit` and
`Gone`. `Fits` says of each job:

- what a worker or a pass that has it may rely on (`WorkersSee`, `PassesSee`). A worker's
  row stays as it read it, or goes. What a pass has read decides what becomes of the
  row: the job has its input and an attempt left until it is requeued, or is hopeless
  and stays so until it is failed, so that two passes at the same job decide alike;
- that a job handed out, claimed or about to be enqueued has an attempt left (`Ready`);
- that a worker has its job alone, also after a panic released its claim (`Alone`;
  before, it is `NoDoubleClaim`);
- that the result is there before its row says so, and the input until its row is
  terminal or a step fails (`BlobsFit`).

A step leaves most jobs alone (`QuietFits`); one lemma per actor is about the job it is
at. `Undisturbed` is used where a pass has read a row that a worker is about to change,
or the other way round. `Gone`: who removes the blobs of a row has removed the row
before, and it does not come back. `RowsMove` then lists how a row may change at all,
which is the refinement.

`PdfSplitProofs`: for any number of pages and any limit, `PlanCovers`, `PlanSound`
(the comment of `Plan`: between ceil(max/2) and max pages, each page once; the
statement of `PlanBalanced`), `HalvesCover`, `HalvesSound` (that of `HalvesToPages`).
`Before` grows from 0 to `n` by steps of at least 1 and at most `max`, because
`PartCount` rounds up; with `k` parts, `n` is more than `(k-1) * max`, which is at
least `k` times ceil(max/2). `PlanApart` and `PlanReaches` (ranges of a plan share no
page, each page is in one) are what Engine needs of it.

`EngineProofs`: `TypeCorrect`, `CancelledOutside`, `SlotsHeld`, `PagesKept`. The error of a
run is set by the first task that fails. That it is a cancellation only after an end
from outside needs two more facts, which `IInv` adds to the types: siblings are
cancelled only after an error is kept (`ErrorKept`), so that the cancellation they then
report comes second; and a loop that still waits for a first answer hears `Cancelled`
only when its task's context has ended (`Sound`), which a hedge that lost would otherwise
contradict. `Counted` relates `inUse` and `open` to the calls in flight and the tasks
that cut. `Owned` says that a task at work fits the phase and only parts of two pages
or more are cut again (`Placed`), that the tasks at work or analysed share no page
(`Apart`, from `PlanApart` and `HalvesCover`) and, until one fails, have them all
(`Covered`).

`EngineContractProofs`: `PromiseHeld`, `FilesKept`, `NothingLeftBehind`. `Engine` implements
`Analysis`: an answer is a step of `Analysis` because its pages are new (`Apart`), the
merge delivers because they are all there (`Covered`), everything else stutters or
discards, and there is neither a verdict nor an output before `Run` returns
(`Undecided`). For the files, `Filed` says of each task what its loop is still to
settle: each of its calls is in flight, answered or the winner, in one way at a time
(`Settling`); the files of a task are the answers not yet read, the winner's and its
results (`OwnFiles`), and at the return those of the output (`LeftOver`).

`GatewayProofs`, of `MigrateSpec` and `StoreSpec`, two scenes of `MCGateway` each by
itself:

- `SchemaStamped`, with two starts at once: what a start has read is still so as long
  as the database has no version, and what it has to apply follows what it read, so a
  start that comes second sees the version under the lock and applies nothing twice.
- `BackupComplete` and `WayBackStays`, of one start at a time. `VInv` holds of every
  contents of `DATA_DIR` a power loss may leave, not only of the last: under a
  backup's name there is only a complete, synced copy of that version (`CopiesOk`), as
  the copy goes to a file no backup has and is complete before it is synced and synced
  before it is renamed (`StartOk`); and a committed migration has a backup in all of
  them (`UndoOk`), as the rename is synced before older copies go and before the
  migration begins.
- `ArtifactsStay`. `StoreInv` again looks at every contents of a directory: what is
  under a name is complete and synced, and only files of writers that are done grow
  old (`FilesOk`); an input being stored is alone with its id (`InputsAlone`), so that a
  failing submit and a late result remove nothing a row names; what a row names is in
  every contents that has the shard, and what a writer has renamed stays there until
  the row takes it (`RowsBacked`). `RowsSubmitted` adds that an id with a row is not submitted again.

and of `ProcessSpec`, the service without the other two: `OutcomesTrue` and
`ShutdownKept`. Its `IInv` adds to `OutcomeTrue` what is known before a
call returns (`CallsSound`: what broke the wire is remembered truly, and an attempt
whose caller left is either not yet returned or cancelled), and says how the end
is ordered: the run context is cancelled only after the grace, a failed listener or
the last request (`HandlersGone`), the manager waited for before the store is closed
(`WorkGone`, `EndInOrder`), and a worker whose call was cut short sees the manager
stopped (`JobsKept`). Assumption: the callers are the surfaces and the requests.

`ScenesApart` says that the specification the run checks has each scene's as a
consequence, and `GatewaySafe` draws all their safety properties from it.

`DocumentProofs` is about pure functions, so there is no inductive invariant of a state
machine to find: `InputInv` says of what types the inputs are, and the rest is about the
operators. They fold over lists. The induction theorems of the library take a predicate as
a parameter, which the provers cannot instantiate; `Induct` and `Least` say the same of a
set of naturals and follow from `WFMin`. A fold is unrolled by a table (`IsTable`)
that has, for each set of positions, what they fold to; `TableExists` builds it one
position at a time. The invariant of a loop is then shown step by step.

- `AllPlansBalanced` and `AllHalvesToPages` carry `PlanSound` and `HalvesSound` over to
  what `documents` checks.
- `AllSelectsExact`: after any number of sorted ranges, the pages are ascending, are
  exactly those named, and end before `next`, the first page no range has reached
  (`Selected`). Where ranges overlap, the second gives only what lies past it. Both
  the sort and the fold lose no range.
- `AllFormatsReadBack`: the ranges `FormatPages` writes are well-formed and name exactly
  the pages they were made from (`Formatted`); `Select` of them is ascending with the same
  pages, and two ascending lists of the same pages are one list.
- `AllOrdersKept`: `Preferred` has each name of any list once. Each step of the
  placing puts a name whose predecessors are all placed, or nothing is left that could
  be (`Placing`); an order in which every name follows its predecessors keeps every
  list. If the placing stops early, an order that keeps every list would have a first
  name not placed, all of whose predecessors are placed, and that one could go next: so
  the merge refuses only lists that no order keeps.
- `ReadPagesExact`, `PointersFollow` and `MergedPagesApart` are not properties of a run;
  they state for any parts, of any number and size, what `documents` checks inside
  `AnswersStitched` and `MergeUndoesCut` on small ones. `IsPart` is all they ask of a
  part: naturals where the code has non-negative numbers, spans that are pairs. They rest
  on `FlattenAt` and `TotalIs`: each part's list is in the merged one, past the total of
  the sizes before. That a pointer still names its item, with the page and the spans
  that item has in the merged answer, and that text of two parts never overlaps, follows from
  that and from the checks that come before anything is written (`PagesMatch`,
  `PointersMatch`, `PageSpansMatch`): without `PageSpansMatch`, for one, a span may
  reach into the next part.

Only model-checked: the liveness properties (`EveryWaitEnds`, `EveryJobEnds`,
`OrphansCollected`, `RunReturns`, `StartedAgain`, `LeftoversSwept`, `SignalEnds`), as
fairness is beyond the prover; and `MergeUndoesCut`, `AnswersStitched` and
`ReadingOrderKept`, which relate the whole of the merge to the cut and to the
container's answer through the tree of sections. The theorems above prove what they say
of pages, items and pointers into the arrays; how the elements and spans of sections
that continue over several cuts are folded (`PlanContinuations`, `WriteSections`) is
checked on every document up to the bounds only, and so is `AppendSpans`.

## Observations

Met while modelling; none is a run of its own.

- A part of two or more blank pages has the page separator as content. When
  another part has sections, the merge finds content without a root span, refuses,
  and the document is analysed whole. `Mergeable` states it (`Stray`); the
  comment at `merge/merge_test.go:831` reads as if a blank part were always accepted.
- A page that ends in a CR cannot be cut in text elements: the CR and the separator's
  LF are one. The merge refuses such parts; `Cut` leaves them out.
- `Drain` reads one surface after another. A recovered job fed to a surface already
  looked at may be cut short before the grace is over; it stays running and is
  recovered, so `ShutdownKeepsWork` promises grace to requests only.
- `readErrorBody` takes an error body that was cut short for a complete one, and
  the status decides; `classify.go:21` lists a broken body under `ReasonConnection`.
- In the window of `job_overwritten` a job may also run once more than `maxAttempts`: a
  pass that read the row before a worker marked it goes by its old count. And a failing
  UPDATE there makes the pass discard the blobs of a job that has just succeeded.
  `AttemptsBounded` and `ResultBehindRow` assume `Timely` for that.

## Not modelled, and the plan

Left out of `JobLifecycle` and `Process`: the two reads of a poll as separate
steps (an answer between them is "failed" for a result that a DELETE or the sweeper
just took; the one hazard no property covers), work folders and their
sweep, `DiskPressure`, and the envelope `finish` writes. `feed` holds the jobs of all
surfaces in `Process`, which TLC runs with one surface; `ShutdownKept` is proved
for any number of them. A failed job's blobs are `JobLifecycle`'s, not `BlobStore`'s.

Left out of `Engine`: a work folder that cannot be made or was left by an earlier
run, the counts of a run and its metrics, the value of the hedge delay, the
contents of requests. The merge's result is chosen freely there.

Left out of `Merge` and `Cut`: the JSON itself (byte ranges, escapes, figure ids,
the agreement of other members in `check.go`), how content is counted in units
(`textunit`), `CutRead`. The Markdown separator is in the operators and not in the
run.

Left out of `Upstream`: the value of the backoff, `health.go`'s probes, the rendering of
errors (`azerr`).

Not modelled: JSON and text utilities (`jsonx`, `azschema`, `textunit`) and the
plumbing around HTTP, configuration, identifiers and logging are pure functions or
keep no state beyond a request; the test tools (`mockazure`, `fakeazure`, `docgen`,
`pdftest`, `probe`) are not part of the gateway.

What is left of the plan, in this order:

1. A poll as two reads, and `feed` across surfaces under TLC.
2. Theorems about the folds of continued sections: that each element of a part is in one
   merged section, and that the merged spans are in order.
